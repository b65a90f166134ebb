CONSTANTS
  N = 4
  K = 1
  Spawned = {0, 1, 2, 3}
  Souls = {3}
  Tics <- MCTics
  FirstTics <- MCFirst
SPECIFICATION Spec
INVARIANTS WaitBound ZeroIsWaiting DeadStayDead
