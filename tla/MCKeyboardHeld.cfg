CONSTANTS
  w = w
  up = up
  m = m
  six = six
  esc = esc
  Key <- SharedKeys
  Flag <- MCFlag
  Event <- MCEvent
  HeldBy <- SharedHeld
  EventOf <- SharedEv
  Beside <- SharedNone
  P = 2
  MaxQueue = 3
SPECIFICATION Spec
INVARIANTS DownIsHeld
