------------------------------- MODULE Upload -------------------------------
(***************************************************************************)
(* upload_chunks (blob.rs): a file is read and hashed one chunk at a time  *)
(* while up to `concurrency` earlier chunks are on their way to the bucket *)
(* and end in any order. The file may change while it is read.             *)
(***************************************************************************)
EXTENDS Integers, Sequences, FiniteSets, SequencesExt, FiniteSetsExt

CONSTANTS
  Bytes,           \* what a byte may be
  ChunkSize,       \* chunk_size
  Requested,       \* concurrency values that may be asked for
  MaxConcurrency,  \* MAX_UPLOAD_CONCURRENCY
  Budget,          \* UPLOAD_MEMORY_BUDGET
  MaxLength,       \* bound: length of the file
  MaxChanges,        \* bound: changes of the file during the upload
  MaxFailures        \* bound: failing requests

ASSUME UploadAssumption ==
  /\ ChunkSize \in Nat \ {0} /\ MaxConcurrency \in Nat \ {0} /\ Budget \in Nat
  /\ Requested \subseteq Nat /\ MaxLength \in Nat
  /\ MaxChanges \in Nat /\ MaxFailures \in Nat

VARIABLES
  src,       \* the file
  asked,     \* the concurrency asked for
  pos,       \* place in the file
  buffer,    \* bytes of the current chunk that were read
  step,      \* "idle", "fill", "join", "drain", "done", "failed"
  last,      \* the chunk was not full
  chunks,    \* chunks so far
  hashed,    \* bytes given to the hasher
  inflight,  \* tasks in the JoinSet: index, data, ended or not
  objects,   \* index -> data, in the bucket
  changes, failures

uploadVars == <<src, asked, pos, buffer, step, last, chunks, hashed, inflight, objects,
                changes, failures>>

UploadInit ==
  /\ src = <<>> /\ asked = 0
  /\ pos = 0 /\ buffer = <<>> /\ step = "idle" /\ last = FALSE
  /\ chunks = 0 /\ hashed = <<>> /\ inflight = {} /\ objects = <<>>
  /\ changes = 0 /\ failures = 0

\* stage_file, share_put or stage_release call upload_chunks for some file.
BeginUpload ==
  /\ step = "idle" /\ step' = "fill"
  /\ src' \in SeqOf(Bytes, MaxLength) /\ asked' \in Requested
  /\ UNCHANGED <<pos, buffer, last, chunks, hashed, inflight, objects, changes, failures>>

\* upload_concurrency: what is asked for, clamped, and what the budget affords.
Concurrency(requested) ==
  Min({Max({1, Min({requested, MaxConcurrency})}), Max({1, Budget \div (2 * ChunkSize)})})

--------------------------------------------------------------------------
(* Reading.                                                                *)

\* fill stops when the buffer is full or a read returns nothing.
Filled == Len(buffer) = ChunkSize

\* One read, of any length.
Read(n) ==
  /\ step = "fill" /\ ~Filled /\ pos + n <= Len(src)
  /\ buffer' = buffer \o SubSeq(src, pos + 1, pos + n)
  /\ pos' = pos + n
  /\ UNCHANGED <<src, asked, step, last, chunks, hashed, inflight, objects, changes, failures>>

\* The chunk is hashed and its upload spawned.
Spawn ==
  /\ hashed' = hashed \o buffer
  /\ inflight' = inflight \cup {[index |-> chunks, data |-> buffer, ended |-> FALSE]}
  /\ chunks' = chunks + 1
  /\ last' = (Len(buffer) < ChunkSize)
  /\ buffer' = <<>> /\ step' = "join"

\* `read == 0 && chunks > 0`: an empty file still makes one chunk.
NoMore == chunks > 0

EndFill ==
  /\ step = "fill"
  /\ \/ Filled /\ Spawn
     \/ ~Filled /\ pos >= Len(src) /\ ~(buffer = <<>> /\ NoMore) /\ Spawn
     \/ /\ buffer = <<>> /\ pos >= Len(src) /\ NoMore
        /\ step' = "drain" /\ UNCHANGED <<hashed, inflight, chunks, last, buffer>>
  /\ UNCHANGED <<src, asked, pos, objects, changes, failures>>

\* The owner of the file rewrites a byte, appends one or cuts the file.
ChangeFile ==
  /\ step \in {"fill", "join"} /\ changes < MaxChanges /\ changes' = changes + 1
  /\ \/ \E i \in DOMAIN src, b \in Bytes : src' = [src EXCEPT ![i] = b]
     \/ Len(src) < MaxLength /\ \E b \in Bytes : src' = Append(src, b)
     \/ \E n \in 0..(Len(src) - 1) : src' = SubSeq(src, 1, n)
  /\ UNCHANGED <<asked, pos, buffer, step, last, chunks, hashed, inflight, objects, failures>>

--------------------------------------------------------------------------
(* Uploading.                                                              *)

\* A task has stored its chunk.
Stored(t) ==
  /\ t \in inflight /\ ~t.ended /\ step # "failed"
  /\ objects' = [i \in DOMAIN objects \cup {t.index} |->
                  IF i = t.index THEN t.data ELSE objects[i]]
  /\ inflight' = (inflight \ {t}) \cup {[t EXCEPT !.ended = TRUE]}
  /\ UNCHANGED <<src, asked, pos, buffer, step, last, chunks, hashed, changes, failures>>

\* `inflight.len() >= concurrency`.
Crowded == Cardinality(inflight) >= Concurrency(asked)

\* join_next takes a task that has ended out of the set.
JoinNext(t) ==
  /\ t \in inflight /\ t.ended
  /\ (step = "join" /\ Crowded) \/ step = "drain"
  /\ inflight' = inflight \ {t}
  /\ UNCHANGED <<src, asked, pos, buffer, step, last, chunks, hashed, objects, changes, failures>>

\* Room for the next chunk, or that was the last one.
EndJoin ==
  /\ step = "join" /\ (~Crowded \/ inflight = {})
  /\ step' = IF last THEN "drain" ELSE "fill"
  /\ UNCHANGED <<src, asked, pos, buffer, last, chunks, hashed, inflight, objects, changes, failures>>

\* Mutant: the last uploads are left to themselves.
NotAwaited == TRUE

\* The loop over join_next has ended.
AllJoined == inflight = {}

Finish ==
  /\ step = "drain" /\ AllJoined
  /\ step' = "done"
  /\ UNCHANGED <<src, asked, pos, buffer, last, chunks, hashed, inflight, objects, changes, failures>>

\* A failed task ends the upload as soon as it is joined, a failed read at once.
\* The JoinSet is dropped (what its aborted tasks may still do is in Transfer
\* and Share).
Fail ==
  /\ failures < MaxFailures /\ failures' = failures + 1
  /\ \/ step = "fill"
     \/ (step = "drain" \/ (step = "join" /\ Crowded)) /\ (\E t \in inflight : ~t.ended)
  /\ step' = "failed" /\ inflight' = {}
  /\ UNCHANGED <<src, asked, pos, buffer, last, chunks, hashed, objects, changes>>

--------------------------------------------------------------------------
UploadNext ==
  \/ BeginUpload
  \/ \E n \in 1..(ChunkSize - Len(buffer)) : Read(n)
  \/ EndFill \/ EndJoin \/ Finish
  \/ \E t \in inflight : Stored(t) \/ JoinNext(t)
  \/ ChangeFile \/ Fail

UploadSpec == UploadInit /\ [][UploadNext]_uploadVars

--------------------------------------------------------------------------
(* Properties.                                                             *)

\* chunk_count: how many chunks so many bytes make.
ChunkCount(bytes) == Max({1, (bytes + ChunkSize - 1) \div ChunkSize})

\* The bytes of data that belong to chunk i.
Piece(data, i) ==
  SubSeq(data, i * ChunkSize + 1, Min({(i + 1) * ChunkSize, Len(data)}))

\* The manifest that upload_chunks returns (count, length, hash) describes what
\* is in the bucket, in whatever order the uploads ended and however the file
\* was changed meanwhile: one object per index, each with its piece of the bytes
\* that were hashed, so that assemble_into puts together just these. And they are
\* the whole file if nobody has touched it, however short the reads were.
ManifestIsStored ==
  step = "done" =>
    /\ chunks = ChunkCount(Len(hashed))
    /\ DOMAIN objects = 0..(chunks - 1)
    /\ \A i \in 0..(chunks - 1) : objects[i] = Piece(hashed, i)
    /\ changes = 0 => hashed = src
=============================================================================
