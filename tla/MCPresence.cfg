\* Two processes, one after the other or together, for longer than a heartbeat
\* lives; two agents with rings of one event, and two sessions that refresh.
SPECIFICATION HeartbeatSpec
CONSTANTS
  Ids = {1, 2}
  NoId = NoId
  TtlSecs = 1
  MaxNow = 3
  MaxFaults = 2
  MaxStandDown = 1
  Fleet = {a1, a2}
  Refreshers = {c1, c2}
  Capacity = 1
  MaxEvents = 2
  MaxMisses = 1
INVARIANT LowestNeverYields
INVARIANT YieldsOnlyToContemporary
PROPERTY WorkResumes
PROPERTY EventsArrive
PROPERTY RefreshGoesOn
CHECK_DEADLOCK FALSE
