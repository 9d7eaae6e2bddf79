\* Ports 5 and 7 enabled, batches of up to three frames, a queue that fills.
SPECIFICATION FairSpec
CONSTANTS
  Id = {i1, i2}
  Ports <- DevPorts
  Enabled = {5, 7}
  MaxBatch = 3
  MaxTasks = 2
  MaxFrames = 5
INVARIANTS TypeOK BusOrder VisitedPrefix QueuedBeforeUnvisited
PROPERTY EveryPassEnds
