SPECIFICATION MCSpec
CONSTANTS
  Levels <- MCLevels
  REACTION_TICS = 2
INVARIANT TeleportsInStep
INVARIANT NoneInAnother
INVARIANT OnceMeansOnce
PROPERTY HeardAndHeld
