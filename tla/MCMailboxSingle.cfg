\* One process at a time under the identity: it may die and be replaced once.
SPECIFICATION Spec
CONSTANTS
  Cmds = {c1, c2}
  Instances = {p1, p2}
  NoInstance = NoInstance
  NoCmd = NoCmd
  QueueTtl = 0
  TimeoutSecs = 1
  ReplySlack = 0
  MaxWaitSecs = 2
  ClockLag = 0
  SkewLimit = 1
  SentKinds = {"plain"}
  Readers = {{p1, p2}, {}}
  AllowDuplicates = FALSE
  MaxNow = 2
  MaxFaults = 1
SYMMETRY Symmetry
INVARIANT NoLostWakeup
PROPERTY ImplementsDelivery
\* Both processes may be dead and every call answered.
CHECK_DEADLOCK FALSE
