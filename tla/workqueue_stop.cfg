\* The daemon's instance: one receive thread, one callback thread.
SPECIFICATION FairSpec
CONSTANTS
  Producers = {p1}
  Consumers = {c1}
  Task = {t1, t2}
  None = None
  MaxTasks = 1
PROPERTY StopReleasesConsumers
