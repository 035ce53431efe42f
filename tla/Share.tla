------------------------------ MODULE Share ------------------------------
(***************************************************************************)
(* One name of the shared area: the chunk objects and the manifest under   *)
(* share/<name>/, the agents that publish a file under that name, the      *)
(* agents that fetch it, share_remove, and the controller's sweep of       *)
(* expired and abandoned shares (executor.rs share_put, share_get;         *)
(* transport.rs; blob.rs upload_chunks; rollout.rs sweep_shares).          *)
(*                                                                         *)
(* Nothing locks a name: two agents may publish under it at once, and a    *)
(* delete may run through either of them. A chunk is sealed under its own  *)
(* key, so its data is known by who wrote it; two files are taken to have  *)
(* the same SHA-256 only if they are the same file.                        *)
(***************************************************************************)
EXTENDS Integers, Sequences, FiniteSets

CONSTANTS
  Uploads,     \* calls of share_put, each with a file of its own
  Readers,     \* calls of share_get
  Remover,     \* the share_remove tool
  Sweeper,     \* sweep_shares in cleanup_loop
  NoUpload,    \* "no chunk here", "no manifest read"
  MaxChunks,   \* the longest file has this many chunks
  Size,        \* Size[u]: number of chunks of the file of u
  Concurrency, \* how many chunks upload_chunks keeps in flight
  Expiring,    \* the uploads with an expires_at (0 is never)
  Grace,       \* ORPHAN_GRACE
  MaxRemoves,  \* bound: calls of share_remove
  MaxFaults    \* bound: failing S3 requests and dying processes

ASSUME ConstantsAssumption ==
  /\ NoUpload \notin Uploads
  /\ Remover \notin Uploads /\ Sweeper \notin Uploads /\ Remover # Sweeper
  /\ MaxChunks \in Nat \ {0}
  /\ Size \in [Uploads -> 1..MaxChunks]
  /\ Concurrency \in Nat \ {0}
  /\ Expiring \subseteq Uploads
  /\ Grace \in Nat /\ MaxRemoves \in Nat /\ MaxFaults \in Nat

Deleters == Uploads \cup {Remover, Sweeper}
Chunks == 0..(MaxChunks - 1)
\* Listing order is lexicographic: "manifest" comes after every chunk number.
ManifestKey == MaxChunks

VARIABLES
  chunk,     \* chunk[i]: the upload whose data is stored as chunk i
  age,       \* age[i]: time since chunk i was last modified, up to Grace + 1
  manifest,  \* the upload the stored manifest describes, or NoUpload
  expired,   \* uploads whose expires_at has passed
  pc,        \* pc[u]: where share_put is
  sent,      \* sent[u]: chunks handed to upload tasks so far, 0 outside upload_chunks
  inflight,  \* inflight[u]: chunks whose upload has not been joined
  late,      \* aborted or orphaned chunk uploads that may still take effect
  del,       \* del[d]: where d's delete_share is
  delKeys,   \* delKeys[d]: listed keys it has yet to delete
  sweep,     \* where sweep_shares is
  rpc,       \* rpc[r]: where share_get is
  have,      \* have[r]: the upload whose manifest it has read
  temp,      \* temp[r]: the chunks in <dest>.relay-partial
  dest,      \* dest[r]: the file at dest_path, <<>> for what was there before
  removes, faults

bucketVars == <<chunk, age, manifest>>
putVars == <<pc, sent, inflight, late>>
deleteVars == <<del, delKeys, removes>>
getVars == <<rpc, have, temp, dest>>
vars == <<bucketVars, expired, putVars, deleteVars, sweep, getVars, faults>>

Init ==
  /\ chunk = [i \in Chunks |-> NoUpload]
  /\ age = [i \in Chunks |-> 0]
  /\ manifest = NoUpload /\ expired = {}
  /\ pc = [u \in Uploads |-> "idle"]
  /\ sent = [u \in Uploads |-> 0]
  /\ inflight = [u \in Uploads |-> {}] /\ late = {}
  /\ del = [d \in Deleters |-> "no"]
  /\ delKeys = [d \in Deleters |-> {}]
  /\ sweep = "idle"
  /\ rpc = [r \in Readers |-> "idle"]
  /\ have = [r \in Readers |-> NoUpload]
  /\ temp = [r \in Readers |-> <<>>] /\ dest = [r \in Readers |-> <<>>]
  /\ removes = 0 /\ faults = 0

Fault == faults < MaxFaults /\ faults' = faults + 1

Store(u, i) ==
  /\ chunk' = [chunk EXCEPT ![i] = u]
  /\ age' = [age EXCEPT ![i] = 0]

Stored == {i \in Chunks : chunk[i] # NoUpload}
Keys == Stored \cup (IF manifest = NoUpload THEN {} ELSE {ManifestKey})

--------------------------------------------------------------------------
(* share_put: upload_chunks, then the manifest.                            *)

\* The command names the file; its expiry was fixed by the controller.
StartPut(u) ==
  /\ pc[u] = "idle"
  /\ pc' = [pc EXCEPT ![u] = "upload"]
  /\ UNCHANGED <<bucketVars, expired, sent, inflight, late, deleteVars, sweep, getVars,
                 faults>>

\* Read and hash the next chunk, and hand it to an upload task.
SendChunk(u) ==
  /\ pc[u] = "upload"
  /\ sent[u] < Size[u] /\ Cardinality(inflight[u]) < Concurrency
  /\ sent' = [sent EXCEPT ![u] = @ + 1]
  /\ inflight' = [inflight EXCEPT ![u] = @ \cup {sent[u]}]
  /\ UNCHANGED <<bucketVars, expired, pc, late, deleteVars, sweep, getVars, faults>>

\* Uploads end in any order.
ChunkStored(u, i) ==
  /\ pc[u] = "upload" /\ i \in inflight[u]
  /\ Store(u, i)
  /\ inflight' = [inflight EXCEPT ![u] = @ \ {i}]
  /\ UNCHANGED <<manifest, expired, pc, sent, late, deleteVars, sweep, getVars, faults>>

\* An upload or a read of the file fails: the other tasks are aborted, which
\* does not stop a request that is on its way, and delete_share cleans up.
UploadFails(u) ==
  /\ pc[u] = "upload" /\ Fault
  /\ pc' = [pc EXCEPT ![u] = "failed"]
  /\ late' = late \cup {<<u, i>> : i \in inflight[u]}
  /\ inflight' = [inflight EXCEPT ![u] = {}]
  /\ sent' = [sent EXCEPT ![u] = 0]
  /\ del' = [del EXCEPT ![u] = "manifest"]
  /\ UNCHANGED <<bucketVars, expired, delKeys, removes, sweep, getVars>>

\* The agent dies during share_put.
UploaderDies(u) ==
  /\ (pc[u] = "upload" \/ del[u] # "no") /\ Fault
  /\ pc' = [pc EXCEPT ![u] = "failed"]
  /\ late' = late \cup {<<u, i>> : i \in inflight[u]}
  /\ inflight' = [inflight EXCEPT ![u] = {}]
  /\ sent' = [sent EXCEPT ![u] = 0]
  /\ del' = [del EXCEPT ![u] = "no"]
  /\ delKeys' = [delKeys EXCEPT ![u] = {}]
  /\ UNCHANGED <<bucketVars, expired, removes, sweep, getVars>>

\* A request nobody waits for any more takes effect, or is lost.
LateChunk(u, i) ==
  /\ <<u, i>> \in late
  /\ late' = late \ {<<u, i>>}
  /\ Store(u, i) \/ UNCHANGED <<chunk, age>>
  /\ UNCHANGED <<manifest, expired, pc, sent, inflight, deleteVars, sweep, getVars, faults>>

\* Every chunk was read and every task joined.
AllJoined(u) == sent[u] = Size[u] /\ inflight[u] = {}

\* put_share_manifest, the last step. An error is returned without a cleanup.
PutManifest(u) ==
  /\ pc[u] = "upload" /\ AllJoined(u)
  /\ \/ /\ manifest' = u
        /\ pc' = [pc EXCEPT ![u] = "done"]
        /\ UNCHANGED faults
     \/ /\ Fault
        /\ manifest' \in {manifest, u}
        /\ pc' = [pc EXCEPT ![u] = "failed"]
  /\ sent' = [sent EXCEPT ![u] = 0]
  /\ UNCHANGED <<chunk, age, expired, inflight, late, deleteVars, sweep, getVars>>

--------------------------------------------------------------------------
(* delete_share, called by a failed share_put, share_remove and the sweep. *)

\* The manifest first; an error here is ignored.
DeleteManifest(d) ==
  /\ del[d] = "manifest"
  /\ \/ manifest' = NoUpload /\ UNCHANGED faults
     \/ Fault /\ manifest' \in {manifest, NoUpload}
  /\ del' = [del EXCEPT ![d] = "list"]
  /\ UNCHANGED <<chunk, age, expired, putVars, delKeys, removes, sweep, getVars>>

\* Then what is left under the prefix; an error here ends the delete.
ListShare(d) ==
  /\ del[d] = "list"
  /\ \/ /\ del' = [del EXCEPT ![d] = IF Keys = {} THEN "no" ELSE "keys"]
        /\ delKeys' = [delKeys EXCEPT ![d] = Keys]
        /\ UNCHANGED faults
     \/ /\ Fault
        /\ del' = [del EXCEPT ![d] = "no"]
        /\ UNCHANGED delKeys
  /\ UNCHANGED <<bucketVars, expired, putVars, removes, sweep, getVars>>

\* One key after the other, and an error passes on to the next.
DeleteKey(d) ==
  /\ del[d] = "keys"
  /\ \E k \in delKeys[d] :
       /\ \A j \in delKeys[d] : k <= j
       /\ delKeys' = [delKeys EXCEPT ![d] = @ \ {k}]
       /\ del' = [del EXCEPT ![d] = IF delKeys[d] = {k} THEN "no" ELSE "keys"]
       /\ \/ /\ chunk' = [i \in Chunks |-> IF i = k THEN NoUpload ELSE chunk[i]]
             /\ age' = [i \in Chunks |-> IF i = k THEN 0 ELSE age[i]]
             /\ manifest' = IF k = ManifestKey THEN NoUpload ELSE manifest
             /\ UNCHANGED faults
          \/ Fault /\ UNCHANGED bucketVars
  /\ UNCHANGED <<expired, putVars, removes, sweep, getVars>>

DeleteStep(d) == DeleteManifest(d) \/ ListShare(d) \/ DeleteKey(d)

\* share_remove.
ShareRemove ==
  /\ del[Remover] = "no" /\ removes < MaxRemoves
  /\ removes' = removes + 1
  /\ del' = [del EXCEPT ![Remover] = "manifest"]
  /\ UNCHANGED <<bucketVars, expired, putVars, delKeys, sweep, getVars, faults>>

--------------------------------------------------------------------------
(* sweep_shares: expired shares, then chunks without a manifest.           *)

\* list_shares finds the name, or the sweep goes on to the orphans.
SweepStart ==
  /\ sweep = "idle" /\ del[Sweeper] = "no"
  /\ sweep' = IF manifest # NoUpload THEN "read" ELSE "orphans"
  /\ UNCHANGED <<bucketVars, expired, putVars, deleteVars, getVars, faults>>

\* The manifest that is there by now decides.
SweepExpired ==
  /\ sweep = "read"
  /\ sweep' = "orphans"
  /\ del' = [del EXCEPT ![Sweeper] =
               IF manifest \in expired THEN "manifest" ELSE "no"]
  /\ UNCHANGED <<bucketVars, expired, putVars, delKeys, removes, getVars, faults>>

\* Mutant: a prefix with a manifest is the only thing worth sweeping.
NoOrphans == FALSE

\* list_share_orphans: chunks, no manifest, and nothing touched for Grace.
IsOrphaned ==
  /\ manifest = NoUpload /\ Stored # {}
  /\ \A i \in Stored : age[i] > Grace

\* The last step of a sweep; the delete it may start ends before the next one.
SweepOrphans ==
  /\ sweep = "orphans" /\ del[Sweeper] = "no"
  /\ sweep' = "idle"
  /\ del' = [del EXCEPT ![Sweeper] = IF IsOrphaned THEN "manifest" ELSE "no"]
  /\ UNCHANGED <<bucketVars, expired, putVars, delKeys, removes, getVars, faults>>

\* A request of the sweep itself fails, or the controller stops.
SweepFails ==
  /\ (sweep # "idle" \/ del[Sweeper] # "no") /\ Fault
  /\ sweep' = "idle"
  /\ del' = [del EXCEPT ![Sweeper] = "no"]
  /\ delKeys' = [delKeys EXCEPT ![Sweeper] = {}]
  /\ UNCHANGED <<bucketVars, expired, putVars, removes, getVars>>

Sweep == SweepStart \/ SweepExpired \/ SweepOrphans

--------------------------------------------------------------------------
(* share_get: manifest, chunks in order, hash, rename.                     *)

GetFails(r) ==
  /\ rpc' = [rpc EXCEPT ![r] = "failed"]
  /\ have' = [have EXCEPT ![r] = NoUpload]
  /\ temp' = [temp EXCEPT ![r] = <<>>]
  /\ UNCHANGED dest

ReadManifest(r) ==
  /\ rpc[r] = "idle"
  /\ IF manifest = NoUpload THEN GetFails(r)
     ELSE /\ rpc' = [rpc EXCEPT ![r] = "fetch"]
          /\ have' = [have EXCEPT ![r] = manifest]
          /\ UNCHANGED <<temp, dest>>
  /\ UNCHANGED <<bucketVars, expired, putVars, deleteVars, sweep, faults>>

\* The chunk of the next index, whoever wrote it by now.
FetchChunk(r) ==
  /\ rpc[r] = "fetch" /\ Len(temp[r]) < Size[have[r]]
  /\ LET found == chunk[Len(temp[r])] IN
       IF found = NoUpload THEN GetFails(r)
       ELSE temp' = [temp EXCEPT ![r] = Append(@, found)] /\ UNCHANGED <<rpc, have, dest>>
  /\ UNCHANGED <<bucketVars, expired, putVars, deleteVars, sweep, faults>>

FullFile(u) == [n \in 1..Size[u] |-> u]

\* Mutant: only the length is compared.
LengthMatches(r) == Len(temp[r]) = Size[have[r]]

\* total_bytes and sha256 of the manifest.
HashMatches(r) == temp[r] = FullFile(have[r])

\* Verified, the file is renamed over dest_path; otherwise it is removed.
FinishGet(r) ==
  /\ rpc[r] = "fetch" /\ Len(temp[r]) = Size[have[r]]
  /\ IF HashMatches(r)
     THEN /\ dest' = [dest EXCEPT ![r] = temp[r]]
          /\ temp' = [temp EXCEPT ![r] = <<>>]
          /\ rpc' = [rpc EXCEPT ![r] = "done"]
          /\ UNCHANGED have
     ELSE GetFails(r)
  /\ UNCHANGED <<bucketVars, expired, putVars, deleteVars, sweep, faults>>

\* A request fails or the agent dies. (A partial file that a dead agent leaves
\* behind is not dest_path, and the next share_get truncates it.)
GetBreaks(r) ==
  /\ rpc[r] \in {"idle", "fetch"} /\ Fault
  /\ GetFails(r)
  /\ UNCHANGED <<bucketVars, expired, putVars, deleteVars, sweep>>

--------------------------------------------------------------------------

\* Time passes: objects get older.
Tick ==
  /\ \E i \in Stored : age[i] <= Grace
  /\ age' = [i \in Chunks |-> IF i \in Stored /\ age[i] <= Grace THEN age[i] + 1
                              ELSE age[i]]
  /\ UNCHANGED <<chunk, manifest, expired, putVars, deleteVars, sweep, getVars, faults>>

\* expires_at counts from the call, so it may pass before the upload ends.
Expire(u) ==
  /\ u \in Expiring \ expired /\ pc[u] # "idle"
  /\ expired' = expired \cup {u}
  /\ UNCHANGED <<bucketVars, putVars, deleteVars, sweep, getVars, faults>>

Next ==
  \/ \E u \in Uploads :
       \/ StartPut(u) \/ SendChunk(u) \/ UploadFails(u) \/ UploaderDies(u)
       \/ PutManifest(u) \/ Expire(u)
       \/ \E i \in Chunks : ChunkStored(u, i) \/ LateChunk(u, i)
  \/ \E d \in Deleters : DeleteStep(d)
  \/ ShareRemove \/ Sweep \/ SweepFails
  \/ \E r \in Readers : ReadManifest(r) \/ FetchChunk(r) \/ FinishGet(r) \/ GetBreaks(r)
  \/ Tick

Spec == Init /\ [][Next]_vars

\* cleanup_loop keeps sweeping, a running delete goes on, time passes, and an
\* expiry date is reached.
Fairness ==
  /\ WF_vars(Sweep) /\ WF_vars(Tick)
  /\ \A d \in Deleters : WF_vars(DeleteStep(d))
  /\ \A u \in Uploads : WF_vars(Expire(u))
FairSpec == Spec /\ Fairness

--------------------------------------------------------------------------
(* Properties.                                                             *)

TypeOK ==
  /\ chunk \in [Chunks -> Uploads \cup {NoUpload}]
  /\ age \in [Chunks -> 0..(Grace + 1)]
  /\ manifest \in Uploads \cup {NoUpload}
  /\ expired \in SUBSET Uploads
  /\ pc \in [Uploads -> {"idle", "upload", "done", "failed"}]
  /\ sent \in [Uploads -> 0..MaxChunks]
  /\ inflight \in [Uploads -> SUBSET Chunks]
  /\ late \in SUBSET (Uploads \X Chunks)
  /\ del \in [Deleters -> {"no", "manifest", "list", "keys"}]
  /\ delKeys \in [Deleters -> SUBSET (0..MaxChunks)]
  /\ sweep \in {"idle", "read", "orphans"}
  /\ rpc \in [Readers -> {"idle", "fetch", "done", "failed"}]
  /\ have \in [Readers -> Uploads \cup {NoUpload}]
  /\ temp \in [Readers -> Seq(Uploads)]
  /\ dest \in [Readers -> Seq(Uploads)]
  /\ removes \in 0..MaxRemoves /\ faults \in 0..MaxFaults

\* "Never leaves something that looks like a complete dataset": whatever other
\* publishers and deletes do to the name meanwhile, share_get either leaves
\* dest_path alone or replaces it by the whole file of the manifest it read,
\* which some share_put had finished uploading.
FetchedWhole ==
  \A r \in Readers :
    dest[r] # <<>> => /\ have[r] \in Uploads
                      /\ dest[r] = FullFile(have[r])
                      /\ pc[have[r]] \in {"done", "failed"}

\* Why that holds: a manifest is only ever seen after its upload_chunks ended,
\* and what was read of it is kept until the hash is compared.
ShareInv ==
  /\ manifest \in Uploads \cup {NoUpload}
  /\ pc \in [Uploads -> {"idle", "upload", "done", "failed"}]
  /\ rpc \in [Readers -> {"idle", "fetch", "done", "failed"}]
  /\ have \in [Readers -> Uploads \cup {NoUpload}]
  /\ dest \in [Readers -> {<<>>} \cup {FullFile(u) : u \in Uploads}]
  /\ manifest # NoUpload => pc[manifest] \in {"done", "failed"}
  /\ \A r \in Readers :
       /\ have[r] # NoUpload => pc[have[r]] \in {"done", "failed"}
       /\ rpc[r] \in {"fetch", "done"} => have[r] # NoUpload
       /\ rpc[r] # "done" => dest[r] = <<>>
  /\ FetchedWhole

\* "Paying for storage forever": what failed, crashed or half-deleted shares
\* leave behind, and what has expired, is gone in the end.
StorageReclaimed ==
  <>[](/\ manifest \notin expired
       /\ manifest = NoUpload => Stored = {})
==========================================================================
