---------------------------- MODULE MCDeviceLocks ----------------------------
(* DeviceLocks on two machines that both attach the same udid (two emulators *)
(* are both emulator-5554) and one more device, with an admin and a user.    *)
EXTENDS DeviceLocks

CONSTANTS m1, m2, emulator, phone, ann, bob, tab1, tab2

MCDevices == {<<m1, emulator>>, <<m2, emulator>>, <<m1, phone>>}
MCTwins == {<<m1, emulator>>, <<m2, emulator>>}
=============================================================================
