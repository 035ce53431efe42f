\* Two releases whose publishes may overlap, one of them perhaps for another
\* platform or the build that is already installed; two controllers that watch
\* for a version, whose asset may be built for another libc or another platform.
SPECIFICATION ReleaseSpec
CONSTANTS
  Releases = {1, 2}
  Builds = {"old", "new", "foreign"}
  FitBuilds = {"old", "new"}
  Initial = "old"
  NoBuild = NoBuild
  Chunks = 1
  MaxNow = 2
  MaxFaults = 2
  a1 = a1
  musl = musl
  gnu = gnu
  arm = arm
  Agents = {a1}
  Controllers = {c1, c2}
  Targets = {musl}
  AssetTargets = {musl, gnu, arm}
  PlatformOf <- LinuxPlatforms
  HostOf <- OneHost
  NoTarget = NoTarget
  MaxVersion = 1
  MaxUploads = 4
  MaxHitches = 1
INVARIANT UpdateInv
PROPERTY NeverGoesBack
PROPERTY EventuallyInstalled
INVARIANT PublishedAsLabelled
INVARIANT UploadsAreBounded
PROPERTY LatestIsPublished
CHECK_DEADLOCK FALSE
