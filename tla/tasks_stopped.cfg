\* A single client is enough to meet a task that is still running.
SPECIFICATION Spec
CONSTANTS
  Clients = {c1}
  MaxTasks = 1
INVARIANT StoppedWhileChanging
