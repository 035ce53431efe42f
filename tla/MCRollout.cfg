\* One release for two agents, while the sweep runs, an agent goes down, a request
\* fails and a retraction comes in.
SPECIFICATION FairSpec
CONSTANTS
  a1 = a1
  a2 = a2
  Agents = {a1, a2}
  Releases = {1}
  Builds = {"old", "new"}
  VersionOf <- MCVersionOf
  Labels = {1, 2}
  NoHash <- MCNoHash
  TargetOf <- MCTargetOf
  HostOf <- MCHostOf
  InitialOf <- MCInitialOf
  NoBuild = NoBuild
  MaxEvents = 2
PROPERTY SweepLeavesNoDeadOffer
PROPERTY FinishedRolloutsGo
CHECK_DEADLOCK FALSE
