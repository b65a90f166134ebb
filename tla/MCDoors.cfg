SPECIFICATION Spec
CONSTANTS
  Speed = 1
  Door = {"dr", "st", "lk"}
  Monster = {"m"}
  Player = "p"
  Card = {"blue"}
  NoCard = "none"
  NoLatch = "free"
  WalkOnce = {"w2"}
  WalkRepeat = {"w75"}
  ShotDoors = {"st"}
  Place <- MCPlace
  Adjacent <- MCAdjacent
  Start <- MCStart
  Kind <- MCKind
  TouchedFrom <- MCTouchedFrom
  Fronts <- MCFronts
  Switches <- MCSwitches
  MonsterBox <- MCMonsterBox
  LineDoor <- MCLineDoor
  LineAct <- MCLineAct
  Crosses <- MCCrosses
  CardAt <- MCCardAt
INVARIANT NobodyCaught
PROPERTY RequestsPress
PROPERTY ImplementsDoorway
INVARIANT LockedStaysShut
PROPERTY StayDoorsStay
PROPERTY LeftAloneComesToRest
