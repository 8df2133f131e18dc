---------------------------- MODULE MCExecutionRuns ----------------------------
(* RunHistory with two runs for one phone, or for the emulators of two        *)
(* machines, which have the same udid.                                        *)
EXTENDS RunHistory, TLC

CONSTANTS m1, m2, emulator, phone, ann, bob, cleo, tab, r1, r2

MCPhone == {<<m1, phone>>}
MCTwins == {<<m1, emulator>>, <<m2, emulator>>}

RunSymmetry == Permutations(Runs)

\* One call throws, or the hub crashes once, or neither.
OneTrouble == faults + crashes <= 1
=============================================================================
