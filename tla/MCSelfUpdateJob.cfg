\* One release, no faults.
SPECIFICATION Spec
CONSTANTS
  Releases = {1}
  Builds = {"old", "new"}
  FitBuilds = {"old", "new"}
  Initial = "old"
  NoBuild = NoBuild
  Chunks = 1
  MaxNow = 1
  MaxFaults = 0
PROPERTY InstallEndsNoJob
CHECK_DEADLOCK FALSE
