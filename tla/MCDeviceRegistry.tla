--------------------------- MODULE MCDeviceRegistry ---------------------------
(* DeviceRegistry on one machine with one phone, or on two machines whose     *)
(* emulators have the same udid.                                              *)
EXTENDS DeviceRegistry

CONSTANTS m1, m2, emulator, phone, ann, bob, tab

MCPhone == {<<m1, phone>>}
MCTwins == {<<m1, emulator>>, <<m2, emulator>>}
MCEmulator == {<<m1, emulator>>}
=============================================================================
