\* Two agents publish under one name while a third fetches it.
SPECIFICATION FairSpec
CONSTANTS
  Uploads = {1, 2}
  Readers = {r1}
  Remover = Remover
  Sweeper = Sweeper
  NoUpload = NoUpload
  MaxChunks = 2
  Size <- MCSize
  Concurrency = 1
  Expiring = {1}
  Grace = 0
  MaxRemoves = 1
  MaxFaults = 1
INVARIANT FetchedWhole
PROPERTY StorageReclaimed
CHECK_DEADLOCK FALSE
