\* Two processes that stay, one of them told to stand down.
SPECIFICATION FairSpec
CONSTANTS
  Ids = {1, 2}
  NoId = NoId
  TtlSecs = 1
  MaxNow = 0
  MaxFaults = 0
  MaxStandDown = 1
PROPERTY OtherResumes
CHECK_DEADLOCK FALSE
