---------------------------- MODULE StreamHistory ----------------------------
(***************************************************************************)
(* Streaming with what its properties have to remember: which viewers were *)
(* counted beside the start of a capture, and of which keys a capture was  *)
(* stopped by something else than its own error. No action depends on it.  *)
(***************************************************************************)
EXTENDS Streaming

VARIABLES
  beside,    \* beside[g]: the other viewers of its key that were being counted
             \* when the running capture g started
  silenced   \* keys of captures stopped by an operator, a sweep, the error of
             \* another capture or a crash

historyVars == <<streamVars, beside, silenced>>

Counting(k) == {v \in Viewers : At(v, "count") /\ KeyOf[v] = k}
Starts(g) == capture[g].state = "none" /\ Running(g)'
Stops(g) == Running(g) /\ ~Running(g)'

HistoryInit ==
  /\ StreamingInit
  /\ beside = [g \in Captures |-> {}]
  /\ silenced = {}

HistoryNext ==
  /\ StreamingNext
  /\ beside' = [g \in Captures |->
       IF Starts(g) THEN Counting(KeyOfCapture(g)) \ {g}
       ELSE IF Running(g)' THEN beside[g] ELSE {}]
  /\ silenced' = silenced \cup
       {KeyOfCapture(g) : g \in {h \in Captures : Stops(h) /\ ~CaptureError(h)}}

HistorySpec == HistoryInit /\ [][HistoryNext]_historyVars
-----------------------------------------------------------------------------
(* Properties *)

\* A running capture is the one its key has in the map, through which alone it
\* is joined, left, swept and stopped, unless a viewer that was counted while it
\* started has put its own there (streaming.service.ts:96-99).
RunningIsListed ==
  \A g \in Captures : Running(g) =>
    \/ live[KeyOfCapture(g)] = g
    \/ \E v \in beside[g] : capture[v].state # "none"

\* Who has joined and has an open socket is watching a running capture: of a
\* capture that broke its viewers are told and their sockets closed, at whatever
\* await of their attach it found them ("a broken capture must not look like a
\* quiet device", streaming.service.ts:138). The silent stops are those of an
\* operator, of a sweep with an old list, and by the error of another capture.
WatchersAreServed ==
  \A v \in Viewers : At(v, "joined") /\ viewer[v].socket = "open" =>
    \/ \E g \in Captures : Running(g) /\ v \in capture[g].viewers
    \/ KeyOf[v] \in silenced
=============================================================================
