SPECIFICATION Spec
CONSTANTS
  Speed = 1
  NoLatch = "free"
  TopClamp = TRUE
  Configs <- E1M9Configs
INVARIANT MirrorIsModel
