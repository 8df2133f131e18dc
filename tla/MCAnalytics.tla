---------------------------- MODULE MCAnalytics ----------------------------
(* Two runs of one suite, one of them on a device nobody knows any more, over *)
(* a Monday, a Sunday and the Monday after, in weeks of two days.             *)
EXTENDS Analytics, TLC

MCProjectOf == [r \in Runs |-> "app"]
MCPlatformOf == [r \in Runs |-> IF r = 1 THEN "android" ELSE "all"]
MCSuiteOf == [r \in Runs |-> "smoke"]
MCRequests == {<<"daily", 1>>}
=============================================================================
