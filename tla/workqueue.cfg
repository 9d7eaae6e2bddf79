\* Two producers race for the last of two places; two consumers; four
\* tasks to pass the limit.
SPECIFICATION FairSpec
CONSTANTS
  Producers = {p1, p2}
  Consumers = {c1, c2}
  Task = {t1, t2, t3, t4}
  None = None
  MaxTasks = 2
INVARIANTS TypeOK QueueBound NoLostWakeup
PROPERTIES ImplementsFifo EveryTaskLeaves
