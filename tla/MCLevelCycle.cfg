CONSTANTS
  NSkills = 3
  MapPage = TRUE
  WalkExit = TRUE
SPECIFICATION Spec
INVARIANTS WorldIsLive NoCarriedPress
PROPERTIES FinishedStaysFinished HoldEnds ImplementsMenu
