\* Three clients serve filter orders at any moment around both tasks.
SPECIFICATION Spec
CONSTANTS
  Clients = {c1, c2, c3}
  MaxTasks = 2
INVARIANTS TypeOK NoStuckPause NoLostResume
PROPERTIES PauseHolds
