SPECIFICATION MCSpec
CONSTANTS
  Levels <- RowAndPair
  Stages <- ThreeStages
  TicsOf <- BarrelTics
  Fxrnd <- Bits
  SpawnHealth = 20
INVARIANT BarrelsInStep
INVARIANT CellsAreModel
PROPERTY NothingTakenBack
PROPERTY ImplementsBarrel
PROPERTY EachIsGone
