CONSTANTS
  w = w
  up = up
  m = m
  six = six
  esc = esc
  Key <- PlainKeys
  Flag <- MCFlag
  Event <- MCEvent
  HeldBy <- PlainHeld
  EventOf <- PlainEv
  Beside <- MCBeside
  P = 2
  MaxQueue = 3
SPECIFICATION Spec
INVARIANTS NoStuckKey DownIsHeld
PROPERTIES ActsOnKeys HearsThisFrame EveryPressActs
