CONSTANTS
  v1 = v1  v2 = v2  v3 = v3
  android = android  iphone = iphone
  Viewers = {v1, v2, v3}
  Keys = {android, iphone}
  KeyOf <- MCKeyOf
  DeviceOf <- MCDeviceOf
  CountedWith <- MCCountedWith
  StreamCap = 1
  LateErrors = {android}
  NoCapture = NoCapture
  MaxTroubles = 1
SPECIFICATION HistorySpec
SYMMETRY PhoneSymmetry
INVARIANTS MapIsRunning RunningIsListed ClosedViewersLeave UnwatchedIsTimed WatchersAreServed
CHECK_DEADLOCK FALSE
