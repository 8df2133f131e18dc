------------------------------ MODULE Console ------------------------------
(* A tab of the console: at the pages of RunPages, or at the live view of a    *)
(* device. The two share no state but the list of devices, which the live view *)
(* reads as online or offline.                                                 *)
EXTENDS RunPages, LiveView

VARIABLE tab

consoleVars == <<vars, viewVars, tab>>

ConsoleInit ==
    /\ Init /\ LiveInit
    /\ tab \in IF page = "devices" /\ device = "free" THEN {"pages", "view"} ELSE {"pages"}

ConsoleNext ==
    /\ UNCHANGED tab
    /\ \/ tab = "pages" /\ Next /\ UNCHANGED viewVars
       \/ tab = "view" /\ LiveNext /\ UNCHANGED vars

ConsoleSpec == ConsoleInit /\ [][ConsoleNext]_consoleVars /\ RunFairness /\ LiveFairness
=============================================================================
