\* Two processes may hold the identity at the same time, and their clock is
\* behind the controller's. Safety and liveness.
SPECIFICATION FairSpec
CONSTANTS
  Cmds = {c1}
  Instances = {p1, p2}
  NoInstance = NoInstance
  NoCmd = NoCmd
  QueueTtl = 0
  TimeoutSecs = 2
  ReplySlack = 1
  MaxWaitSecs = 2
  ClockLag = 1
  SkewLimit = 1
  SentKinds = {"plain", "overlong", "stand_down"}
  Readers = {{p1, p2}, {p1}}
  AllowDuplicates = TRUE
  MaxNow = 2
  MaxFaults = 1
INVARIANT AtMostOnce
PROPERTY OnlyTargetConsumes
PROPERTY NoBeginAfterTimeout
PROPERTY EventuallyConsumed
PROPERTY CallsReturn
CHECK_DEADLOCK FALSE
