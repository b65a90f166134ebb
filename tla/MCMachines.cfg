SPECIFICATION MCSpec
CONSTANTS
  Speed = 1
  NoLatch = "free"
  TopClamp = TRUE
  Configs <- AgreeingConfigs
  Lift = {"fast", "perp"}
  Perpetual = {"perp"}
  LiftN <- LiftSizes
  Stride <- Strides
  LiftWait = 2
  PerpSub = 2
  Group = {"inst", "moving"}
  GroupN <- GroupSizes
  GroupSub <- GroupSubs
  BossGroup = {"moving"}
  UseLine = {"sr", "s1", "s2"}
  WalkLine = {"wr", "w53", "w1"}
  MonsterLine = {"wr"}
  Calls <- LiftsOf
  Fires <- GroupsOf
  Switch <- WornSwitches
  SwitchKind <- Worn
  Repeats = {"sr"}
  ButtonFrames = 2
INVARIANT MirrorIsModel
INVARIANT BinaryIsMirror
INVARIANT MoversInStep
INVARIANT SwitchTellsTruth
PROPERTY ImplementsPlat
PROPERTY FloorRunsOnce
PROPERTY MoversSettle
