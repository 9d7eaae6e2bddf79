\* An empty frame in front of one with data.
SPECIFICATION Spec
CONSTANTS
  Id = {i1}
  Ports <- DevPorts
  Enabled = {5}
  MaxBatch = 2
  MaxTasks = 1
  MaxFrames = 2
INVARIANT EveryFrameVisited
