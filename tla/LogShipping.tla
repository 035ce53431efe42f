--------------------------- MODULE LogShipping ---------------------------
(***************************************************************************)
(* The path of a log from an agent's disk to the controller's: the         *)
(* shipper that publishes chunks and remembers how far it got in a marker  *)
(* file, the chunk objects in S3, the controller's refresh pass that       *)
(* stores and acknowledges them, and the agent's local cleanup             *)
(* (log_shipper.rs, jobs.rs cleanup, log_store.rs, status_cache.rs).       *)
(*                                                                         *)
(* Bytes are numbered by their place in the agent's file, which only       *)
(* grows. Every S3 request, the write of the marker, the write of the      *)
(* local log and the commit of its offset are steps of their own; each may *)
(* fail with or without its effect, and either program may die between     *)
(* any two of them.                                                        *)
(***************************************************************************)
EXTENDS Integers

CONSTANTS
  Sources,      \* log files, ordered as their names are
  Controllers,  \* controller processes that share one database and log_dir
  NoChunk,      \* "no chunk in hand"
  ChunkBytes,   \* AGENT_JOB_SHIP_CHUNK_BYTES
  MaxBytes,     \* bound: the longest log file
  MaxFaults     \* bound: how many steps fail or are cut off by a crash

Chunks == [source : Sources, offset : Nat, len : Nat \ {0}]

ASSUME ConstantsAssumption ==
  /\ Sources \subseteq Nat
  /\ NoChunk \notin Chunks
  /\ ChunkBytes \in Nat \ {0}
  /\ MaxBytes \in Nat /\ MaxFaults \in Nat

VARIABLES
  file,       \* file[s]: length of the log on the agent
  phase,      \* phase[s]: "open" while written, "closed", or "gone"
  marker,     \* marker[s]: what read_marker returns, 0 for no or a torn file
  cache,      \* cache[s]: the shipper's offset in memory, -1 if it has none
  apc,        \* where ship_once is: "sleep", "pass", "publish" or "mark"
  todo,       \* directory entries that this ship_once has yet to visit
  work,       \* the chunk ship_once has read
  objects,    \* chunk objects under logs/<agent>/
  next,       \* next[s]: next_offset in the database
  local,      \* local[s]: the controller's file, byte place -> byte number
  cpc,        \* cpc[c]: where the refresh of controller c is
  listed,     \* listed[c]: keys it has yet to fetch
  fetched,    \* fetched[c]: chunks it has yet to store
  faults,
  cuts,       \* history: cuts[s], places where published chunks begin or end
  straddled,  \* history: sources with a chunk across an earlier cut
  setBack     \* history: sources whose next_offset was once lowered

fileVars == <<file, phase>>
shipVars == <<marker, cache, apc, todo, work>>
storeVars == <<next, local, setBack>>
passVars == <<cpc, listed, fetched>>
historyVars == <<cuts, straddled>>
vars == <<fileVars, shipVars, objects, storeVars, passVars, faults, historyVars>>

Init ==
  /\ file = [s \in Sources |-> 0]
  /\ phase = [s \in Sources |-> "open"]
  /\ marker = [s \in Sources |-> 0]
  /\ cache = [s \in Sources |-> -1]
  /\ apc = "sleep" /\ todo = {} /\ work = NoChunk
  /\ objects = {}
  /\ next = [s \in Sources |-> 0]
  /\ local = [s \in Sources |-> [i \in {} |-> i]]
  /\ cpc = [c \in Controllers |-> "sleep"]
  /\ listed = [c \in Controllers |-> {}]
  /\ fetched = [c \in Controllers |-> {}]
  /\ faults = 0
  /\ cuts = [s \in Sources |-> {0}]
  /\ straddled = {} /\ setBack = {}

Fault == faults < MaxFaults /\ faults' = faults + 1
NoFault == UNCHANGED faults

End(x) == x.offset + x.len
Key(x) == <<x.source, x.offset>>

--------------------------------------------------------------------------
(* The log files.                                                          *)

\* A job, or the agent's own logger, writes one more byte.
Append(s) ==
  /\ phase[s] = "open"
  /\ file[s] < MaxBytes
  /\ file' = [file EXCEPT ![s] = @ + 1]
  /\ UNCHANGED <<phase, shipVars, objects, storeVars, passVars, faults, historyVars>>

\* The job ends, or the logger moves on to the next day's file.
Close(s) ==
  /\ phase[s] = "open"
  /\ phase' = [phase EXCEPT ![s] = "closed"]
  /\ UNCHANGED <<file, shipVars, objects, storeVars, passVars, faults, historyVars>>

\* Mutant: age alone decides what is removed.
RemovesByAge(s) ==
  /\ phase[s] = "closed"
  /\ phase' = [phase EXCEPT ![s] = "gone"]
  /\ marker' = [marker EXCEPT ![s] = 0]
  /\ UNCHANGED <<file, cache, apc, todo, work, objects, storeVars, passVars, faults,
                 historyVars>>

\* JobManager::cleanup removes a log that is no longer written and whose
\* marker says that all of it is uploaded, and then the marker. Age and the
\* total size only decide when.
Cleanup(s) ==
  /\ phase[s] = "closed"
  /\ marker[s] >= file[s]
  /\ phase' = [phase EXCEPT ![s] = "gone"]
  /\ marker' = [marker EXCEPT ![s] = 0]
  /\ UNCHANGED <<file, cache, apc, todo, work, objects, storeVars, passVars, faults,
                 historyVars>>

--------------------------------------------------------------------------
(* The agent's shipper: ship_once, once a second.                          *)

BeginPass ==
  /\ apc = "sleep"
  /\ apc' = "pass"
  /\ todo' = {s \in Sources : phase[s] # "gone"}
  /\ UNCHANGED <<fileVars, marker, cache, work, objects, storeVars, passVars, faults,
                 historyVars>>

\* ship_once returns: with every entry visited, or early with an error.
PassEnds == apc' = "sleep" /\ todo' = {} /\ work' = NoChunk

EndPass ==
  /\ apc = "pass"
  /\ todo = {}
  /\ PassEnds
  /\ UNCHANGED <<fileVars, marker, cache, objects, storeVars, passVars, faults, historyVars>>

\* The offset in memory, and after a restart the one in the marker file.
Offset(s) == IF cache[s] >= 0 THEN cache[s] ELSE marker[s]

ChunkAt(s) ==
  LET left == file[s] - Offset(s)
  IN [source |-> s, offset |-> Offset(s),
      len |-> IF left < ChunkBytes THEN left ELSE ChunkBytes]

\* One directory entry: skip it, or read its next chunk. The metadata of a
\* file that cleanup has just removed is an error, which ends the pass.
VisitSource(s) ==
  /\ apc = "pass"
  /\ s \in todo
  /\ IF phase[s] = "gone" THEN PassEnds
     ELSE /\ todo' = todo \ {s}
          /\ IF file[s] <= Offset(s) THEN UNCHANGED <<apc, work>>
             ELSE apc' = "publish" /\ work' = ChunkAt(s)
  /\ UNCHANGED <<fileVars, marker, cache, objects, storeVars, passVars, faults, historyVars>>

\* The object of this key now holds x. What the histories keep of it: where x
\* begins and ends, and whether it runs across an earlier beginning or end.
Stored(x) ==
  /\ objects' = {y \in objects : Key(y) # Key(x)} \cup {x}
  /\ cuts' = [cuts EXCEPT ![x.source] = @ \cup {x.offset, End(x)}]
  /\ straddled' = IF \E b \in cuts[x.source] : x.offset < b /\ b < End(x)
                  THEN straddled \cup {x.source} ELSE straddled

\* publish_log_chunk. An error ends the pass; the object may be stored anyway.
PublishChunk ==
  /\ apc = "publish"
  /\ \/ Stored(work) /\ apc' = "mark" /\ NoFault /\ UNCHANGED <<todo, work>>
     \/ Stored(work) /\ PassEnds /\ Fault
     \/ UNCHANGED <<objects, historyVars>> /\ PassEnds /\ Fault
  /\ UNCHANGED <<fileVars, marker, cache, storeVars, passVars>>

\* fs::write of the marker, then the offset in memory. fs::write truncates
\* first, so a failure can leave the marker empty.
WriteMarker ==
  /\ apc = "mark"
  /\ \/ /\ marker' = [marker EXCEPT ![work.source] = End(work)]
        /\ cache' = [cache EXCEPT ![work.source] = End(work)]
        /\ apc' = "pass" /\ work' = NoChunk
        /\ NoFault /\ UNCHANGED todo
     \/ /\ Fault
        /\ marker' \in {marker, [marker EXCEPT ![work.source] = 0]}
        /\ PassEnds /\ UNCHANGED cache
  /\ UNCHANGED <<fileVars, objects, storeVars, passVars, historyVars>>

\* The agent dies and is started again. A publish or marker write that it was
\* in the middle of has happened, or not, or half.
AgentCrash ==
  /\ Fault
  /\ cache' = [s \in Sources |-> -1]
  /\ PassEnds
  /\ IF apc = "publish"
     THEN Stored(work) \/ UNCHANGED <<objects, historyVars>>
     ELSE UNCHANGED <<objects, historyVars>>
  /\ IF apc = "mark"
     THEN \E m \in {marker[work.source], 0, End(work)} :
            marker' = [marker EXCEPT ![work.source] = m]
     ELSE UNCHANGED marker
  /\ UNCHANGED <<fileVars, storeVars, passVars>>

--------------------------------------------------------------------------
(* The controller's refresh: pending_log_chunks, ingest, acknowledge.      *)

\* list_keys. (Keys are sorted when they are taken from the set.)
ListLogs(c) ==
  /\ cpc[c] = "sleep"
  /\ cpc' = [cpc EXCEPT ![c] = "fetch"]
  /\ listed' = [listed EXCEPT ![c] = {Key(x) : x \in objects}]
  /\ UNCHANGED <<fileVars, shipVars, objects, storeVars, fetched, faults, historyVars>>

\* The order of the keys: by source name, then by zero-padded offset.
Before(j, k) == j[1] < k[1] \/ (j[1] = k[1] /\ j[2] <= k[2])

\* get_encrypted of the next listed key; an object that is gone is skipped.
FetchLog(c) ==
  /\ cpc[c] = "fetch"
  /\ \E k \in listed[c] :
       /\ \A j \in listed[c] : Before(k, j)
       /\ fetched' = [fetched EXCEPT ![c] = @ \cup {x \in objects : Key(x) = k}]
       /\ listed' = [listed EXCEPT ![c] = @ \ {k}]
  /\ UNCHANGED <<fileVars, shipVars, objects, storeVars, cpc, faults, historyVars>>

FetchDone(c) ==
  /\ cpc[c] = "fetch"
  /\ listed[c] = {}
  /\ cpc' = [cpc EXCEPT ![c] = "ingest"]
  /\ UNCHANGED <<fileVars, shipVars, objects, storeVars, listed, fetched, faults,
                 historyVars>>

\* x is the chunk whose turn it is.
InHand(c, x) ==
  /\ x \in fetched[c]
  /\ \A y \in fetched[c] : Before(Key(x), Key(y))

\* refresh returns; nothing it had fetched is kept.
RefreshEnds(c) ==
  /\ cpc' = [cpc EXCEPT ![c] = "sleep"]
  /\ listed' = [listed EXCEPT ![c] = {}]
  /\ fetched' = [fetched EXCEPT ![c] = {}]

\* Mutant: a chunk that was already stored is an error as well.
RefusesReplay(c, x) ==
  /\ cpc[c] = "ingest"
  /\ InHand(c, x)
  /\ IF x.offset # next[x.source] THEN RefreshEnds(c)
     ELSE /\ cpc' = [cpc EXCEPT ![c] = "write"]
          /\ UNCHANGED <<listed, fetched>>
  /\ UNCHANGED <<fileVars, shipVars, objects, storeVars, faults, historyVars>>

\* ingest compares the offset with the database: a gap is an error and ends
\* the refresh, what is already stored is only acknowledged.
Ingest(c, x) ==
  /\ cpc[c] = "ingest"
  /\ InHand(c, x)
  /\ IF x.offset > next[x.source] THEN RefreshEnds(c)
     ELSE /\ cpc' = [cpc EXCEPT ![c] = IF x.offset = next[x.source] THEN "write" ELSE "ack"]
          /\ UNCHANGED <<listed, fetched>>
  /\ UNCHANGED <<fileVars, shipVars, objects, storeVars, faults, historyVars>>

LengthOf(f) == CHOOSE n \in 0..MaxBytes + 1 : DOMAIN f = 0..(n - 1)

\* Mutant: the chunk goes to the end of the file instead of its offset.
AppendsTo(f, x) ==
  [i \in DOMAIN f \cup {LengthOf(f) + j : j \in 0..(x.len - 1)} |->
     IF i \in DOMAIN f THEN f[i] ELSE x.offset + (i - LengthOf(f))]

\* seek to the offset and write: the bytes of x land in their own places, a
\* place before them that was never written is a hole (-1).
WrittenTo(f, x) ==
  [i \in DOMAIN f \cup 0..(End(x) - 1) |->
     IF x.offset <= i /\ i < End(x) THEN i
     ELSE IF i \in DOMAIN f THEN f[i] ELSE -1]

\* write_all and sync_data.
WriteLog(c, x) ==
  /\ cpc[c] = "write"
  /\ InHand(c, x)
  /\ local' = [local EXCEPT ![x.source] = WrittenTo(@, x)]
  /\ cpc' = [cpc EXCEPT ![c] = "commit"]
  /\ UNCHANGED <<fileVars, shipVars, objects, next, setBack, listed, fetched, faults, historyVars>>

\* The database row. The upsert does not compare: next was equal to the chunk's
\* offset when this controller read it, and another may have moved it since.
SetNext(x) ==
  /\ next' = [next EXCEPT ![x.source] = End(x)]
  /\ setBack' = IF End(x) < next[x.source] THEN setBack \cup {x.source} ELSE setBack

CommitOffset(c, x) ==
  /\ cpc[c] = "commit"
  /\ InHand(c, x)
  /\ SetNext(x)
  /\ cpc' = [cpc EXCEPT ![c] = "ack"]
  /\ UNCHANGED <<fileVars, shipVars, objects, local, listed, fetched, faults, historyVars>>

\* acknowledge_log_chunk deletes the key, whatever the object holds by now.
Acknowledge(c, x) ==
  /\ cpc[c] = "ack"
  /\ InHand(c, x)
  /\ objects' = {y \in objects : Key(y) # Key(x)}
  /\ fetched' = [fetched EXCEPT ![c] = @ \ {x}]
  /\ cpc' = [cpc EXCEPT ![c] = "ingest"]
  /\ UNCHANGED <<fileVars, shipVars, storeVars, listed, faults, historyVars>>

RefreshDone(c) ==
  /\ cpc[c] = "ingest"
  /\ fetched[c] = {}
  /\ RefreshEnds(c)
  /\ UNCHANGED <<fileVars, shipVars, objects, storeVars, faults, historyVars>>

\* A request, the disk or the database fails and refresh returns the error, or
\* the controller dies and is started again. The step it was at may have
\* happened; of a write, any first part.
RefreshFails(c) ==
  /\ Fault
  /\ cpc[c] # "sleep"
  /\ RefreshEnds(c)
  /\ \/ UNCHANGED <<objects, storeVars>>
     \/ \E x \in fetched[c] :
          /\ cpc[c] = "write" /\ InHand(c, x)
          /\ \E n \in 1..x.len : local' = [local EXCEPT ![x.source] = WrittenTo(@, [x EXCEPT !.len = n])]
          /\ UNCHANGED <<objects, next, setBack>>
     \/ \E x \in fetched[c] :
          /\ cpc[c] = "commit" /\ InHand(c, x)
          /\ SetNext(x)
          /\ UNCHANGED <<objects, local>>
     \/ \E x \in fetched[c] :
          /\ cpc[c] = "ack" /\ InHand(c, x)
          /\ objects' = {y \in objects : Key(y) # Key(x)}
          /\ UNCHANGED storeVars
  /\ UNCHANGED <<fileVars, shipVars, historyVars>>

--------------------------------------------------------------------------
ShipStep == BeginPass \/ EndPass \/ (\E s \in Sources : VisitSource(s)) \/ PublishChunk \/ WriteMarker

RefreshStep(c) ==
  \/ ListLogs(c)
  \/ FetchLog(c)
  \/ FetchDone(c)
  \/ \E x \in fetched[c] :
       Ingest(c, x) \/ WriteLog(c, x) \/ CommitOffset(c, x) \/ Acknowledge(c, x)
  \/ RefreshDone(c)

Next ==
  \/ \E s \in Sources : Append(s) \/ Close(s) \/ Cleanup(s)
  \/ ShipStep
  \/ AgentCrash
  \/ \E c \in Controllers : RefreshStep(c) \/ RefreshFails(c)

Spec == Init /\ [][Next]_vars

\* Both background loops run for ever (the service manager restarts either
\* program). Faults are finite, so a request that is repeated succeeds.
Fairness == WF_vars(ShipStep) /\ \A c \in Controllers : WF_vars(RefreshStep(c))
FairSpec == Spec /\ Fairness

--------------------------------------------------------------------------
(* Properties.                                                             *)

TypeOK ==
  /\ file \in [Sources -> Nat]
  /\ phase \in [Sources -> {"open", "closed", "gone"}]
  /\ marker \in [Sources -> Nat]
  /\ cache \in [Sources -> Nat \cup {-1}]
  /\ apc \in {"sleep", "pass", "publish", "mark"}
  /\ todo \in SUBSET Sources
  /\ work \in Chunks \cup {NoChunk}
  /\ apc \in {"publish", "mark"} => work \in Chunks
  /\ objects \in SUBSET Chunks
  /\ next \in [Sources -> Nat]
  /\ DOMAIN local = Sources
  /\ cpc \in [Controllers -> {"sleep", "fetch", "ingest", "write", "commit", "ack"}]
  /\ listed \in [Controllers -> SUBSET (Sources \X Nat)]
  /\ fetched \in [Controllers -> SUBSET Chunks]
  /\ faults \in 0..MaxFaults
  /\ cuts \in [Sources -> SUBSET Nat]
  /\ straddled \in SUBSET Sources /\ setBack \in SUBSET Sources

\* "The controller writes it at offset, so an agent restart and replay cannot
\* duplicate data": the central log is at every moment a copy of the first
\* bytes of the agent's log, no hole, repeat or invented byte in it, whatever
\* is replayed or torn, and it holds all that the database row counts.
LocalMirrors ==
  \A s \in Sources : \E n \in next[s]..file[s] :
    /\ DOMAIN local[s] = 0..(n - 1)
    /\ \A i \in DOMAIN local[s] : local[s][i] = i

\* Why that holds, for any number of controllers on one database: chunks are
\* pieces of the agent's file, a key has one object and a pass fetches a key
\* once, and the chunk a controller is about to write begins in, or at the end
\* of, what is stored (and ends there once it is written), even if another
\* controller has moved next_offset since.
Holds(s, n) == \A i \in 0..(n - 1) : i \in DOMAIN local[s]
InFile(x) == End(x) <= file[x.source]

ObjectsOK ==
  /\ \A x \in objects : InFile(x)
  /\ \A x, y \in objects : Key(x) = Key(y) => x = y

RefreshOK(c) ==
  /\ cpc[c] = "sleep" => fetched[c] = {}
  /\ \A x \in fetched[c] : InFile(x) /\ Key(x) \notin listed[c]
  /\ \A x, y \in fetched[c] : Key(x) = Key(y) => x = y
  /\ \A x \in fetched[c] : InHand(c, x) =>
       /\ cpc[c] = "write" => Holds(x.source, x.offset)
       /\ cpc[c] = "commit" => Holds(x.source, End(x))

LogInv ==
  /\ TypeOK /\ LocalMirrors /\ ObjectsOK
  /\ work # NoChunk => InFile(work)
  /\ \A c \in Controllers : RefreshOK(c)

\* How much of the log the agent believes to have shipped.
Shipped(s) ==
  IF phase[s] = "gone" THEN file[s]
  ELSE IF Offset(s) > marker[s] THEN Offset(s) ELSE marker[s]

\* "An S3 outage cannot turn cleanup into data loss": every byte the agent
\* counts as shipped, those of a removed file included, is in the central log
\* or in an object, unless a replay was cut differently the second time.
NoByteLost ==
  \A s \in Sources \ straddled : \A b \in 0..(Shipped(s) - 1) :
    \/ b \in DOMAIN local[s]
    \/ \E x \in objects : x.source = s /\ x.offset <= b /\ b < End(x)

\* What is written reaches the central log and is counted there: once a log is
\* no longer written, all of it, through outages, crashes of either program and
\* replays, and with several controllers in the middle of the same chunk. The
\* two ways in which it does not are exempt, for each leaves a gap that no later
\* chunk closes, and with it ends every refresh there: a replay that was cut
\* differently, and a controller that was overtaken between its read and its
\* commit and set next_offset back.
EventuallyStored ==
  \A s \in Sources : <>[](next[s] >= file[s] \/ straddled # {} \/ setBack # {})

\* "A chunk is deleted from S3 only after the controller has synced it
\* locally": no object goes whose bytes are not all in the central log.
AckedOnlyWhenSynced ==
  [][\A x \in objects :
       (\A y \in objects' : Key(y) # Key(x)) => 0..(End(x) - 1) \subseteq DOMAIN local[x.source]]_vars
==========================================================================
