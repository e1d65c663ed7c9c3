CONSTANTS
  Workers = {w1, w2}
  Clients = {c1, c2}
  Owner = owner
  Tasks = {t1, t2, t3}
  NoTask = NoTask
  NoThread = NoThread
SPECIFICATION FairSpec
INVARIANTS
  TypeOK
  TaskNoticed
  ShutdownNoticed
  TaskHandling
  DrainedOnJoin
PROPERTIES
  ImplementsTaskPool
  TaskServed
  DestructorReturns
