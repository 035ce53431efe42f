\* One push and one pull of a file of two chunks; an upload in chunks of two
\* bytes of a file of up to five, two at once at most; any two edits of seven
\* settings, in either source, and restarts; a machine that is enrolled with two
\* sessions, with up to five keys made.
SPECIFICATION StagingSpec
CONSTANTS
  Cmds = {push1, pull1}
  Pushes = {push1}
  Count = 2
  MaxFaults = 3
  Bytes = {"a", "b"}
  ChunkSize = 2
  Requested = {0, 2, 9}
  MaxConcurrency = 4
  Budget = 8
  MaxLength = 5
  MaxChanges = 2
  MaxFailures = 1
  Keys = {"heartbeat_secs", "heartbeat_ttl_secs", "poll_ms", "poll_max_ms",
          "upload_concurrency", "max_transfer_secs", "max_timeout_secs"}
  MaxEdits = 2
  Machines = {m1}
  Sessions = {s1, s2}
  Anyone = Anyone
  KeyIds = {"unset", "primary"}
  MaxKeys = 5
  MaxCommands = 1
INVARIANT NothingPulledAway
INVARIANT OkMeansWritten
PROPERTY ChunksAreDeleted
INVARIANT ManifestIsStored
INVARIANT ShareKeyAgreed
PROPERTY PairingWorks
PROPERTY StartsAsConfigured
CHECK_DEADLOCK FALSE
