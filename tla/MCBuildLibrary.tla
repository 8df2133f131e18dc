---------------------------- MODULE MCBuildLibrary ----------------------------
(* BuildLibrary with three builds of one app.                                 *)
EXTENDS BuildLibrary

CONSTANTS b1, b2, b3, app

MCGroupOf == [b \in Builds |-> app]
=============================================================================
