---------------------------- MODULE TransferProofs ----------------------------
(*****************************************************************************)
(* Proofs about file transfers, the upload of chunks, the settings and the   *)
(* enrolment, for any instance of each:                                      *)
(*   - Transfer: no chunk is deleted under a side that still reads, and      *)
(*     success is reported only for a file that is there;                    *)
(*   - Upload: the manifest describes the objects that were stored, and they *)
(*     are the file;                                                         *)
(*   - Settings: a process comes up with the values of the right source;     *)
(*   - Enrolment: all sessions are given one share key, and whoever has      *)
(*     loaded the present keys is understood.                                *)
(* The theorems of a component are at the end of its section.                *)
(*****************************************************************************)
EXTENDS Transfer, Upload, Settings, Enrolment, SequenceTheorems, TLAPS

-------------------------------------------------------------------------------
(* Transfer.                                                                 *)

\* The assumptions on the constants, in the form the proofs use.
LEMMA ConstantsFact ==
  Count \in Nat /\ Count > 0 /\ MaxFaults \in Nat /\ Pushes \subseteq Cmds
BY ConstantsAssumption

\* Setting one flag of a table of flags leaves a table of flags.
LEMMA SetKeepsFlags ==
  ASSUME NEW S, NEW f \in [S -> BOOLEAN], NEW s \in S
  PROVE  [f EXCEPT ![s] = TRUE] \in [S -> BOOLEAN]
OBVIOUS

\* Nothing is staged, asked for or reported.
LEMMA InitEstablishesTransferInv == Init => TransferInv
<1> SUFFICES ASSUME Init PROVE TransferInv
  OBVIOUS
<1> USE ConstantsFact DEF Init, DeliveryInit, TransferInit
<1>1. TransferTypeOK
  BY DEF TransferTypeOK, DeliveryTypeOK, Verdicts
<1>2. PushInv /\ PullInv /\ OkMeansWritten
  BY DEF PushInv, PullInv, OkMeansWritten
<1>3. QED
  BY <1>1, <1>2 DEF TransferInv

\* Every variable keeps to its type.
LEMMA NextKeepsTypes == TransferTypeOK /\ [Next]_vars => TransferTypeOK'
<1> SUFFICES ASSUME TransferTypeOK, [Next]_vars PROVE TransferTypeOK'
  OBVIOUS
<1> USE ConstantsFact DEF TransferTypeOK, DeliveryTypeOK, Verdicts, deliveryVars, Fault
<1>1. ASSUME NEW t \in Cmds, StageChunk(t) PROVE TransferTypeOK'
  BY <1>1 DEF StageChunk, Staging
<1>2. ASSUME NEW t \in Cmds, StageFails(t) PROVE TransferTypeOK'
  <2>1. CASE t \in Pushes
    BY <1>2, <2>1 DEF StageFails, Staging
  <2>2. CASE t \notin Pushes
    BY <1>2, <2>2 DEF StageFails, Staging
  <2>3. QED
    BY <2>1, <2>2
<1>3. ASSUME NEW t \in Cmds, LateChunk(t) PROVE TransferTypeOK'
  <2>1. PICK i \in late[t] :
          /\ late' = [late EXCEPT ![t] = @ \ {i}]
          /\ \/ /\ bucket' = [bucket EXCEPT ![t] = @ \cup {i}]
                /\ mishap' = [mishap EXCEPT ![t] = TRUE]
             \/ UNCHANGED <<bucket, mishap>>
    BY <1>3 DEF LateChunk
  <2>2. i \in Chunks
    OBVIOUS
  <2>3. late' \in [Cmds -> SUBSET Chunks]
    BY <2>1
  <2>4. bucket' \in [Cmds -> SUBSET Chunks]
    BY <2>1, <2>2
  <2>5. mishap' \in [Cmds -> BOOLEAN]
    BY <2>1, SetKeepsFlags
  <2>6. QED
    BY <1>3, <2>3, <2>4, <2>5 DEF LateChunk
<1>4. ASSUME NEW t \in Cmds, Staged(t) PROVE TransferTypeOK'
  <2>1. CASE t \in Pushes
    BY <1>4, <2>1 DEF Staged, Staging
  <2>2. CASE t \notin Pushes
    BY <1>4, <2>2 DEF Staged, Staging
  <2>3. QED
    BY <2>1, <2>2
<1>5. ASSUME NEW t \in Cmds, FetchChunk(t) PROVE TransferTypeOK'
  BY <1>5 DEF FetchChunk, Assembling
<1>6. ASSUME NEW t \in Cmds, Assembled(t) PROVE TransferTypeOK'
  <2>1. CASE t \in Pushes
    BY <1>6, <2>1 DEF Assembled, Assembling, AssembleEnds, Complete
  <2>2. CASE t \notin Pushes
    BY <1>6, <2>2 DEF Assembled, Assembling, AssembleEnds, Complete
  <2>3. QED
    BY <2>1, <2>2
<1>7. ASSUME NEW t \in Cmds, AssembleFails(t) PROVE TransferTypeOK'
  <2>1. faults' \in 0..MaxFaults
    BY <1>7 DEF AssembleFails
  <2>2. result' \in [Cmds -> BOOLEAN]
    BY <1>7 DEF AssembleFails, AssembleEnds
  <2>3. QED
    BY <1>7, <2>1, <2>2 DEF AssembleFails, AssembleEnds
<1>8. ASSUME NEW t \in Cmds, NoDirectory(t) PROVE TransferTypeOK'
  BY <1>8 DEF NoDirectory
<1>9. ASSUME NEW t \in Cmds, ControllerCleans(t) PROVE TransferTypeOK'
  <2>1. bucket' \in [Cmds -> SUBSET Chunks]
    BY <1>9 DEF ControllerCleans, DeleteBlob
  <2>2. mishap' \in [Cmds -> BOOLEAN]
    BY <1>9, SetKeepsFlags DEF ControllerCleans, DeleteBlob
  <2>3. faults' \in 0..MaxFaults
    BY <1>9 DEF ControllerCleans, DeleteBlob
  <2>4. QED
    BY <1>9, <2>1, <2>2, <2>3 DEF ControllerCleans
<1>10. ASSUME NEW t \in Cmds, AgentCleans(t) PROVE TransferTypeOK'
  <2>1. bucket' \in [Cmds -> SUBSET Chunks]
    BY <1>10 DEF AgentCleans, DeleteBlob
  <2>2. mishap' \in [Cmds -> BOOLEAN]
    BY <1>10, SetKeepsFlags DEF AgentCleans, DeleteBlob
  <2>3. faults' \in 0..MaxFaults
    BY <1>10 DEF AgentCleans, DeleteBlob
  <2>4. QED
    BY <1>10, <2>1, <2>2, <2>3 DEF AgentCleans
<1>11. ASSUME NEW t \in Cmds, Begin(t) PROVE TransferTypeOK'
  BY <1>11 DEF Begin, Run
<1>12. ASSUME NEW t \in Cmds, Answer(t) PROVE TransferTypeOK'
  BY <1>12 DEF Answer, End
<1>13. ASSUME NEW t \in Cmds, Returned(t) PROVE TransferTypeOK'
  BY <1>13 DEF Returned, Report, PushNext, PullNext
<1>14. ASSUME NEW t \in Cmds, SideDies(t) PROVE TransferTypeOK'
  BY <1>14 DEF SideDies
<1>15. CASE UNCHANGED vars
  BY <1>15 DEF vars, transferVars
<1>16. QED
  BY <1>1, <1>2, <1>3, <1>4, <1>5, <1>6, <1>7, <1>8, <1>9, <1>10, <1>11, <1>12, <1>13, <1>14,
     <1>15 DEF Next, AgentStep, ControllerStep, CopyStep

\* Every step of either side keeps the invariant.
LEMMA NextKeepsTransferInv == TransferInv /\ [Next]_vars => TransferInv'
<1> SUFFICES ASSUME TransferInv, [Next]_vars PROVE TransferInv'
  OBVIOUS
<1>a. TransferTypeOK /\ TransferTypeOK'
  BY NextKeepsTypes DEF TransferInv
<1> DEFINE Rest == /\ PushInv /\ PullInv /\ OkMeansWritten
                   /\ \A t \in Cmds : /\ agent[t] = "idle" <=> runs[t] = 0
                                      /\ t \in done => agent[t] = "over"
<1>b. SUFFICES Rest'
  BY <1>a DEF TransferInv
<1>c. Rest
  BY DEF TransferInv
<1> USE <1>a, <1>c, ConstantsFact DEF TransferTypeOK, DeliveryTypeOK, deliveryVars, PushInv, PullInv, OkMeansWritten, Pull
<1>1. ASSUME NEW t \in Cmds, StageChunk(t) PROVE Rest'
  BY <1>1 DEF StageChunk, Staging
<1>2. ASSUME NEW t \in Cmds, StageFails(t) PROVE Rest'
  BY <1>2 DEF StageFails, Staging
<1>3. ASSUME NEW t \in Cmds, LateChunk(t) PROVE Rest'
  <2>1. /\ UNCHANGED <<deliveryVars, ctl, agent, got, result, written, reported, faults>>
        /\ \A u \in Cmds : bucket[u] \subseteq bucket'[u] /\ bucket'[u] \subseteq Chunks
    BY <1>3 DEF LateChunk
  <2>2. \A u \in Cmds : bucket[u] = Chunks => bucket'[u] = Chunks
    <3> HIDE <1>a, <1>c, ConstantsFact DEF TransferTypeOK, DeliveryTypeOK, PushInv, PullInv
    <3> TAKE u \in Cmds
    <3>1. bucket[u] \subseteq bucket'[u] /\ bucket'[u] \subseteq Chunks
      BY <2>1
    <3>2. QED
      BY <3>1
  <2>3. QED
    BY <2>1, <2>2
<1>4. ASSUME NEW t \in Cmds, Staged(t) PROVE Rest'
  BY <1>4 DEF Staged, Staging
<1>5. ASSUME NEW t \in Cmds, FetchChunk(t) PROVE Rest'
  BY <1>5 DEF FetchChunk, Assembling
<1>6. ASSUME NEW t \in Cmds, Assembled(t) PROVE Rest'
  BY <1>6 DEF Assembled, Assembling, AssembleEnds, Complete
<1>7. ASSUME NEW t \in Cmds, AssembleFails(t) PROVE Rest'
  BY <1>7 DEF AssembleFails, Assembling, AssembleEnds
<1>8. ASSUME NEW t \in Cmds, NoDirectory(t) PROVE Rest'
  BY <1>8 DEF NoDirectory
<1>9. ASSUME NEW t \in Cmds, ControllerCleans(t) PROVE Rest'
  BY <1>9 DEF ControllerCleans, DeleteBlob
<1>10. ASSUME NEW t \in Cmds, AgentCleans(t) PROVE Rest'
  BY <1>10 DEF AgentCleans, DeleteBlob
<1>11. ASSUME NEW t \in Cmds, Begin(t) PROVE Rest'
  <2>1. CASE t \in Pushes
    BY <1>11, <2>1 DEF Begin, Run
  <2>2. CASE t \notin Pushes
    BY <1>11, <2>2 DEF Begin, Run
  <2>3. QED
    BY <2>1, <2>2
<1>12. ASSUME NEW t \in Cmds, Answer(t) PROVE Rest'
  BY <1>12 DEF Answer, End
<1>13. ASSUME NEW t \in Cmds, Returned(t) PROVE Rest'
  BY <1>13 DEF Returned, Report, PushNext, PullNext
<1>14. ASSUME NEW t \in Cmds, SideDies(t) PROVE Rest'
  BY <1>14 DEF SideDies
<1>15. CASE UNCHANGED vars
  BY <1>15 DEF vars, transferVars
<1>16. QED
  BY <1>1, <1>2, <1>3, <1>4, <1>5, <1>6, <1>7, <1>8, <1>9, <1>10, <1>11, <1>12, <1>13, <1>14,
     <1>15 DEF Next, AgentStep, ControllerStep, CopyStep

\* So the invariant of Transfer holds for ever.
LEMMA TransferInvariant == Spec => []TransferInv
BY InitEstablishesTransferInv, NextKeepsTransferInv, PTL DEF Spec

\* While the agent (push) or the controller (pull) assembles the file, no
\* cleanup of either side has deleted a chunk, however the call ended.
THEOREM ChunksStayForTheReader == Spec => []NothingPulledAway
<1>1. TransferInv => NothingPulledAway
  BY DEF TransferInv, PushInv, PullInv, NothingPulledAway, Assembling, Pull
<1>2. QED
  BY TransferInvariant, <1>1, PTL

\* push_file and pull_file return success only for a file assembled whole and
\* renamed into place.
THEOREM SuccessMeansWritten == Spec => []OkMeansWritten
<1>1. TransferInv => OkMeansWritten
  BY DEF TransferInv
<1>2. QED
  BY TransferInvariant, <1>1, PTL

-------------------------------------------------------------------------------
(* Upload.                                                                   *)

\* The smaller of two numbers.
LEMMA MinOfTwo ==
  ASSUME NEW a \in Int, NEW b \in Int
  PROVE  Min({a, b}) = IF a <= b THEN a ELSE b
BY DEF Min

\* The larger of two numbers.
LEMMA MaxOfTwo ==
  ASSUME NEW a \in Int, NEW b \in Int
  PROVE  Max({a, b}) = IF a >= b THEN a ELSE b
BY DEF Max

\* Multiples of the chunk size: one chunk more ...
LEMMA NextMultiple ==
  ASSUME NEW n \in Nat PROVE (n + 1) * ChunkSize = n * ChunkSize + ChunkSize
BY UploadAssumption

\* ... where a chunk ends ...
LEMMA MultiplesGrow ==
  ASSUME NEW n \in Nat, NEW i \in 0..(n - 1)
  PROVE  (i + 1) * ChunkSize <= n * ChunkSize /\ i * ChunkSize \in Nat
BY UploadAssumption

\* ... and which chunk a byte belongs to.
LEMMA Quotient ==
  ASSUME NEW q \in Nat, NEW r \in 0..(ChunkSize - 1)
  PROVE  (q * ChunkSize + r) \div ChunkSize = q
BY UploadAssumption

\* Concatenation is associative.
LEMMA Regrouped ==
  ASSUME NEW a \in Seq(Bytes), NEW b \in Seq(Bytes), NEW c \in Seq(Bytes)
  PROVE  a \o (b \o c) = (a \o b) \o c
OBVIOUS

\* What is appended to full chunks leaves the chunks before it alone ...
LEMMA PieceIsKept ==
  ASSUME NEW h \in Seq(Bytes), NEW b \in Seq(Bytes), NEW n \in Nat, Len(h) = n * ChunkSize,
         NEW i \in 0..(n - 1)
  PROVE  Piece(h \o b, i) = Piece(h, i)
<1> DEFINE m == i * ChunkSize + 1
           k == (i + 1) * ChunkSize
<1>0. i \in Nat /\ ChunkSize \in Nat \ {0} /\ n * ChunkSize \in Nat
  BY UploadAssumption
<1>1. m \in Nat /\ k \in Nat /\ m <= k /\ 1 <= m /\ k <= Len(h)
  <2>1. k = i * ChunkSize + ChunkSize
    BY <1>0, NextMultiple
  <2>2. k <= n * ChunkSize /\ i * ChunkSize \in Nat
    BY MultiplesGrow
  <2>3. QED
    BY <1>0, <2>1, <2>2
<1>2. Len(h \o b) = Len(h) + Len(b) /\ Len(h) \in Nat /\ Len(b) \in Nat
  BY ConcatProperties, LenProperties, Zenon
<1> HIDE DEF k, m
<1>3. Min({k, Len(h)}) = k /\ Min({k, Len(h \o b)}) = k
  BY <1>1, <1>2, MinOfTwo
<1>4. SubSeq(h \o b, m, k) = SubSeq(h, m, k)
  BY <1>1, SubSeqOfConcat1
<1>5. QED
  BY <1>3, <1>4 DEF Piece, k, m

\* ... and is the next chunk.
LEMMA PieceIsNew ==
  ASSUME NEW h \in Seq(Bytes), NEW b \in Seq(Bytes), NEW n \in Nat, Len(h) = n * ChunkSize,
         Len(b) <= ChunkSize
  PROVE  Piece(h \o b, n) = b
<1> DEFINE m == n * ChunkSize + 1
           k == (n + 1) * ChunkSize
<1>1. Len(h \o b) = Len(h) + Len(b) /\ Len(h) \in Nat /\ Len(b) \in Nat
  BY ConcatProperties, LenProperties, Zenon
<1>2. k = Len(h) + ChunkSize /\ m = Len(h) + 1 /\ ChunkSize \in Nat
  BY NextMultiple, UploadAssumption
<1> HIDE DEF k, m
<1>3. Min({k, Len(h \o b)}) = Len(h) + Len(b)
  BY <1>1, <1>2, MinOfTwo
<1>4. SubSeq(h \o b, Len(h) + 1, Len(h) + Len(b)) = b
  <2>1. CASE Len(b) = 0
    <3>1. b = <<>>
      BY <2>1
    <3>2. QED
      BY <1>1, <2>1, <3>1, SubSeqEmpty
  <2>2. CASE Len(b) # 0
    <3>1. SubSeq(h \o b, Len(h) + 1, Len(h) + Len(b)) = SubSeq(b, 1, Len(b))
      BY <1>1, <2>2, SubSeqOfConcat2
    <3>2. QED
      BY <3>1, SubSeqFull
  <2>3. QED
    BY <2>1, <2>2
<1>5. Piece(h \o b, n) = SubSeq(h \o b, m, Min({k, Len(h \o b)}))
  BY DEF Piece, k, m
<1>6. QED
  BY <1>2, <1>3, <1>4, <1>5

\* The number of chunks that a manifest announces for a file of full chunks ...
LEMMA CountOfFull ==
  ASSUME NEW n \in Nat \ {0} PROVE ChunkCount(n * ChunkSize) = n
<1>1. (n * ChunkSize + (ChunkSize - 1)) \div ChunkSize = n
  BY Quotient, UploadAssumption
<1>2. n * ChunkSize + ChunkSize - 1 = n * ChunkSize + (ChunkSize - 1)
  BY UploadAssumption
<1>3. QED
  BY <1>1, <1>2, MaxOfTwo DEF ChunkCount

\* ... and for one whose last chunk is not full, an empty file included.
LEMMA CountOfPart ==
  ASSUME NEW n \in Nat, NEW r \in 0..(ChunkSize - 1), r > 0 \/ n = 0
  PROVE  ChunkCount(n * ChunkSize + r) = n + 1
<1>0. ChunkSize \in Nat /\ n * ChunkSize \in Nat
  BY UploadAssumption
<1>1. CASE r > 0
  <2>1. ((n + 1) * ChunkSize + (r - 1)) \div ChunkSize = n + 1
    BY <1>0, <1>1, Quotient
  <2>2. n * ChunkSize + r + ChunkSize - 1 = (n + 1) * ChunkSize + (r - 1)
    BY <1>0, NextMultiple
  <2>3. QED
    BY <2>1, <2>2, MaxOfTwo DEF ChunkCount
<1>2. CASE r = 0 /\ n = 0
  <2>1. (0 * ChunkSize + (ChunkSize - 1)) \div ChunkSize = 0
    BY <1>0, Quotient, UploadAssumption
  <2>2. 0 * ChunkSize + 0 + ChunkSize - 1 = 0 * ChunkSize + (ChunkSize - 1)
    BY <1>0
  <2>3. QED
    BY <1>2, <2>1, <2>2, MaxOfTwo DEF ChunkCount
<1>3. QED
  BY <1>0, <1>1, <1>2

\* Types; a buffer never holds more than one chunk.
UploadTypeOK ==
  /\ src \in Seq(Bytes) /\ buffer \in Seq(Bytes) /\ hashed \in Seq(Bytes)
  /\ Len(buffer) <= ChunkSize
  /\ pos \in Nat /\ chunks \in Nat /\ changes \in Nat
  /\ step \in {"idle", "fill", "join", "drain", "done", "failed"}
  /\ inflight \in SUBSET [index : Nat, data : Seq(Bytes), ended : BOOLEAN]

\* All chunks are full but the last one, which is empty only for an empty file.
CountInv ==
  /\ step \in {"idle", "fill"} => ~last
  /\ step \in {"join", "drain", "done"} => chunks > 0 /\ buffer = <<>>
  /\ ~last => Len(hashed) = chunks * ChunkSize
  /\ last => \E n \in Nat, r \in 0..(ChunkSize - 1) :
       chunks = n + 1 /\ Len(hashed) = n * ChunkSize + r /\ (r > 0 \/ n = 0)

\* A chunk is on its way or stored, and is its piece of what was hashed.
PiecesInv ==
  /\ \A t \in inflight :
       /\ t.index < chunks /\ t.data = Piece(hashed, t.index)
       /\ t.ended => t.index \in DOMAIN objects
  /\ DOMAIN objects \subseteq 0..(chunks - 1)
  /\ \A i \in DOMAIN objects : objects[i] = Piece(hashed, i)
  /\ step # "failed" =>
       \A i \in 0..(chunks - 1) : i \in DOMAIN objects \/ \E t \in inflight : t.index = i
  /\ step = "done" => inflight = {}

\* What was read of an untouched file is its beginning, and at the end all of it.
ReadInv ==
  changes = 0 =>
    /\ step = "idle" => pos = 0 /\ hashed = <<>> /\ buffer = <<>>
    /\ step # "idle" => pos <= Len(src) /\ hashed \o buffer = SubSeq(src, 1, pos)
    /\ last \/ step \in {"drain", "done"} => pos = Len(src)

\* The inductive invariant of upload_chunks.
UploadInv == UploadTypeOK /\ CountInv /\ PiecesInv /\ ReadInv

\* An upload starts with nothing read, hashed or stored.
LEMMA UploadStarts == UploadInit => UploadInv
<1> SUFFICES ASSUME UploadInit PROVE UploadInv
  OBVIOUS
<1> USE UploadAssumption DEF UploadInit
<1>1. UploadTypeOK
  BY EmptySeq DEF UploadTypeOK
<1>2. CountInv
  BY DEF CountInv
<1>3. PiecesInv
  BY DEF PiecesInv
<1>4. ReadInv
  BY DEF ReadInv
<1>5. QED
  BY <1>1, <1>2, <1>3, <1>4 DEF UploadInv

\* A filled buffer, or the rest of the file, is hashed and becomes the next
\* chunk.
LEMMA SpawnKeepsInv ==
  ASSUME UploadInv, step = "fill", Spawn, UNCHANGED <<src, asked, pos, objects, changes, failures>>,
         Len(buffer) = ChunkSize \/ (pos >= Len(src) /\ ~(buffer = <<>> /\ NoMore))
  PROVE  UploadInv'
<1> USE UploadAssumption DEF UploadInv, UploadTypeOK
<1>1. hashed \in Seq(Bytes) /\ buffer \in Seq(Bytes) /\ Len(hashed) = chunks * ChunkSize
      /\ chunks \in Nat /\ Len(buffer) <= ChunkSize
  BY DEF CountInv
<1>2. hashed' = hashed \o buffer /\ chunks' = chunks + 1 /\ buffer' = <<>> /\ step' = "join"
      /\ inflight' = inflight \cup {[index |-> chunks, data |-> buffer, ended |-> FALSE]}
  BY DEF Spawn
<1>9. last' <=> Len(buffer) < ChunkSize
  BY Zenon DEF Spawn
<1>3. hashed' \in Seq(Bytes) /\ Len(hashed') = Len(hashed) + Len(buffer)
      /\ Len(hashed) \in Nat /\ Len(buffer) \in Nat
  BY <1>1, <1>2, ConcatProperties, LenProperties, Zenon
<1>4. UploadTypeOK'
  <2>1. [index |-> chunks, data |-> buffer, ended |-> FALSE]
          \in [index : Nat, data : Seq(Bytes), ended : BOOLEAN]
    BY <1>1
  <2>2. buffer' \in Seq(Bytes) /\ Len(buffer') <= ChunkSize
    BY <1>2, EmptySeq
  <2>3. src' \in Seq(Bytes) /\ pos' \in Nat /\ changes' \in Nat
    OBVIOUS
  <2>4. inflight' \in SUBSET [index : Nat, data : Seq(Bytes), ended : BOOLEAN]
    BY <1>2, <2>1
  <2>5. chunks' \in Nat /\ step' = "join"
    BY <1>1, <1>2
  <2>6. QED
    BY <1>3, <2>2, <2>3, <2>4, <2>5, Zenon DEF UploadTypeOK
<1>5. CountInv'
  <2>1. CASE Len(buffer) = ChunkSize
    BY <1>1, <1>2, <1>3, <1>9, <2>1, NextMultiple DEF CountInv
  <2>2. CASE Len(buffer) # ChunkSize
    <3>1. Len(buffer) \in 0..(ChunkSize - 1) /\ (Len(buffer) > 0 \/ chunks = 0)
      BY <1>1, <1>3, <2>2 DEF NoMore
    <3>2. last' /\ Len(hashed') = chunks * ChunkSize + Len(buffer)
      BY <1>1, <1>2, <1>3, <1>9, <2>2
    <3>3. \E n \in Nat, r \in 0..(ChunkSize - 1) :
            chunks' = n + 1 /\ Len(hashed') = n * ChunkSize + r /\ (r > 0 \/ n = 0)
      BY <1>1, <1>2, <3>1, <3>2, Zenon
    <3>4. chunks' > 0 /\ step' \notin {"idle", "fill"}
      BY <1>1, <1>2
    <3>5. QED
      BY <1>2, <3>2, <3>3, <3>4, Zenon DEF CountInv
  <2>3. QED
    BY <2>1, <2>2
<1>6. PiecesInv'
  <2>1. \A i \in 0..(chunks - 1) : Piece(hashed', i) = Piece(hashed, i)
    BY <1>1, <1>2, PieceIsKept
  <2>2. Piece(hashed', chunks) = buffer
    BY <1>1, <1>2, PieceIsNew
  <2>3. \A t \in inflight : t.index \in 0..(chunks - 1)
    BY <1>1 DEF PiecesInv
  <2>4. QED
    <3> DEFINE new == [index |-> chunks, data |-> buffer, ended |-> FALSE]
    <3>1. inflight' = inflight \cup {new} /\ new.index = chunks /\ new.data = buffer /\ ~new.ended
      BY <1>2
    <3> HIDE DEF new
    <3>2. \A t \in inflight' :
            /\ t.index < chunks' /\ t.data = Piece(hashed', t.index)
            /\ t.ended => t.index \in DOMAIN objects
      BY <1>1, <1>2, <2>1, <2>2, <2>3, <3>1 DEF PiecesInv
    <3>3. \A i \in DOMAIN objects : i \in 0..(chunks' - 1) /\ objects[i] = Piece(hashed', i)
      BY <1>1, <1>2, <2>1 DEF PiecesInv
    <3>4. \A i \in 0..(chunks' - 1) : i \in DOMAIN objects \/ \E t \in inflight' : t.index = i
      BY <1>1, <1>2, <3>1 DEF PiecesInv
    <3>5. QED
      BY <1>2, <3>2, <3>3, <3>4 DEF PiecesInv
<1>7. ReadInv'
  <2>1. hashed' \o buffer' = hashed \o buffer
    BY <1>2, <1>3, ConcatEmptySeq
  <2>2. pos >= Len(src) \/ ~last'
    <3>1. CASE Len(buffer) = ChunkSize
      BY <1>3, <1>9, <3>1
    <3>2. QED
      BY <3>1
  <2>3. QED
    BY <1>2, <2>1, <2>2 DEF ReadInv
<1>8. QED
  BY <1>4, <1>5, <1>6, <1>7 DEF UploadInv

\* A read of any length continues the buffer where the last one ended.
LEMMA ReadKeepsInv ==
  ASSUME UploadInv, NEW n \in 1..(ChunkSize - Len(buffer)), Read(n)
  PROVE  UploadInv'
<1> USE UploadAssumption DEF UploadInv, UploadTypeOK
<1> DEFINE more == SubSeq(src, pos + 1, pos + n)
<1>1. step = "fill" /\ pos + n <= Len(src) /\ buffer' = buffer \o more /\ pos' = pos + n
      /\ n \in Nat /\ pos \in Nat /\ Len(buffer) \in Nat /\ n + Len(buffer) <= ChunkSize
      /\ UNCHANGED <<src, asked, step, last, chunks, hashed, inflight, objects, changes, failures>>
  BY DEF Read
<1>2. more \in Seq(Bytes) /\ Len(more) = n
  <2>1. \A i \in (pos + 1)..(pos + n) : src[i] \in Bytes
    BY <1>1
  <2>2. QED
    BY <1>1, <2>1, SubSeqProperties
<1> HIDE DEF more
<1>3. buffer' \in Seq(Bytes) /\ Len(buffer') = Len(buffer) + n
  BY <1>1, <1>2, ConcatProperties
<1>4. UploadTypeOK'
  BY <1>1, <1>3 DEF UploadTypeOK
<1>5. CountInv' /\ PiecesInv'
  BY <1>1 DEF CountInv, PiecesInv, Piece
<1>6. ReadInv'
  <2>1. CASE changes = 0
    <3>1. hashed \o buffer = SubSeq(src, 1, pos) /\ pos <= Len(src)
      BY <1>1, <2>1 DEF ReadInv
    <3>2. SubSeq(src, 1, pos) \o more = SubSeq(src, 1, pos + n)
      BY <1>1, ConcatAdjacentSubSeq DEF more
    <3>3. hashed \o (buffer \o more) = (hashed \o buffer) \o more
      <4>1. hashed \in Seq(Bytes) /\ buffer \in Seq(Bytes)
        OBVIOUS
      <4>2. QED
        BY <1>2, <4>1, Regrouped
    <3>4. QED
      BY <1>1, <3>1, <3>2, <3>3 DEF ReadInv, CountInv
  <2>2. CASE changes # 0
    BY <1>1, <2>2 DEF ReadInv
  <2>3. QED
    BY <2>1, <2>2
<1>7. QED
  BY <1>4, <1>5, <1>6 DEF UploadInv

\* An upload that ends stores its own piece, whatever else is on its way.
LEMMA StoredKeepsInv ==
  ASSUME UploadInv, NEW t \in inflight, Stored(t)
  PROVE  UploadInv'
<1> USE UploadAssumption DEF UploadInv, UploadTypeOK
<1> DEFINE after == [t EXCEPT !.ended = TRUE]
<1>1. after \in [index : Nat, data : Seq(Bytes), ended : BOOLEAN]
      /\ after.index = t.index /\ after.data = t.data /\ t.index \in Nat
  OBVIOUS
<1>2. inflight' = (inflight \ {t}) \cup {after}
      /\ DOMAIN objects' = DOMAIN objects \cup {t.index} /\ objects'[t.index] = t.data
      /\ (\A i \in DOMAIN objects \ {t.index} : objects'[i] = objects[i])
      /\ UNCHANGED <<src, pos, buffer, step, last, chunks, hashed, changes>>
  BY DEF Stored
<1> HIDE DEF after
<1>3. UploadTypeOK' /\ CountInv' /\ ReadInv'
  BY <1>1, <1>2 DEF UploadTypeOK, CountInv, ReadInv
<1>4. PiecesInv'
  <2>1. \A u \in inflight' :
          /\ u.index < chunks' /\ u.data = Piece(hashed', u.index)
          /\ u.ended => u.index \in DOMAIN objects'
    BY <1>1, <1>2 DEF PiecesInv
  <2>2. \A i \in DOMAIN objects' : i \in 0..(chunks' - 1) /\ objects'[i] = Piece(hashed', i)
    BY <1>1, <1>2 DEF PiecesInv
  <2>3. step # "failed" =>
          \A i \in 0..(chunks' - 1) : i \in DOMAIN objects' \/ \E u \in inflight' : u.index = i
    BY <1>1, <1>2 DEF PiecesInv
  <2>4. step # "done"
    BY DEF PiecesInv
  <2>5. QED
    BY <1>2, <2>1, <2>2, <2>3, <2>4 DEF PiecesInv
<1>5. QED
  BY <1>3, <1>4 DEF UploadInv

\* A file that changes under the upload changes nothing that was hashed.
LEMMA ChangeKeepsInv ==
  ASSUME UploadInv, ChangeFile PROVE UploadInv'
<1> USE UploadAssumption DEF UploadInv, UploadTypeOK
<1>1. changes' = changes + 1 /\ changes \in Nat
      /\ UNCHANGED <<pos, buffer, step, last, chunks, hashed, inflight, objects>>
  BY DEF ChangeFile
<1>2. src' \in Seq(Bytes)
  <2>1. ASSUME NEW i \in DOMAIN src, NEW b \in Bytes, src' = [src EXCEPT ![i] = b]
        PROVE  src' \in Seq(Bytes)
    BY <2>1, ExceptSeq
  <2>2. ASSUME NEW b \in Bytes, src' = Append(src, b) PROVE src' \in Seq(Bytes)
    BY <2>2, AppendProperties
  <2>3. ASSUME NEW n \in 0..(Len(src) - 1), src' = SubSeq(src, 1, n) PROVE src' \in Seq(Bytes)
    <3>1. \A i \in 1..n : src[i] \in Bytes
      OBVIOUS
    <3>2. QED
      BY <2>3, <3>1, SubSeqProperties
  <2>4. QED
    BY <2>1, <2>2, <2>3 DEF ChangeFile
<1>3. UploadTypeOK'
  BY <1>1, <1>2 DEF UploadTypeOK
<1>4. CountInv' /\ PiecesInv'
  BY <1>1 DEF CountInv, PiecesInv, Piece
<1>5. ReadInv'
  BY <1>1 DEF ReadInv
<1>6. QED
  BY <1>3, <1>4, <1>5 DEF UploadInv

\* Every step keeps the invariant.
LEMMA UploadStep == UploadInv /\ [UploadNext]_uploadVars => UploadInv'
<1> SUFFICES ASSUME UploadInv, [UploadNext]_uploadVars PROVE UploadInv'
  OBVIOUS
<1>1. CASE BeginUpload
  <2> USE <1>1 DEF BeginUpload, UploadInv, UploadTypeOK, UploadInit
  <2>1. src' \in Seq(Bytes)
    <3>1. PICK m \in 0..MaxLength : src' \in [1..m -> Bytes]
      BY DEF SeqOf
    <3>2. QED
      BY <3>1, UploadAssumption, IsASeq
  <2>2. UploadTypeOK' /\ CountInv' /\ PiecesInv'
    BY <2>1 DEF CountInv, PiecesInv, Piece
  <2>3. ReadInv'
    <3>1. CASE changes = 0
      <4>1. pos' = 0 /\ hashed' = <<>> /\ buffer' = <<>> /\ ~last' /\ step' = "fill"
        BY <3>1 DEF ReadInv, CountInv
      <4>2. hashed' \o buffer' = <<>> /\ SubSeq(src', 1, 0) = <<>> /\ Len(src') \in Nat
        BY <2>1, <4>1, ConcatEmptySeq, EmptySeq, SubSeqEmpty
      <4>3. QED
        BY <4>1, <4>2 DEF ReadInv
    <3>2. QED
      BY <3>1 DEF ReadInv
  <2>4. QED
    BY <2>2, <2>3 DEF UploadInv
<1>2. ASSUME NEW n \in 1..(ChunkSize - Len(buffer)), Read(n) PROVE UploadInv'
  BY <1>2, ReadKeepsInv
<1>3. CASE EndFill
  <2>1. CASE Filled /\ Spawn
    BY <1>3, <2>1, SpawnKeepsInv DEF EndFill, Filled
  <2>2. CASE ~Filled /\ pos >= Len(src) /\ ~(buffer = <<>> /\ NoMore) /\ Spawn
    BY <1>3, <2>2, SpawnKeepsInv DEF EndFill
  <2>3. CASE /\ buffer = <<>> /\ pos >= Len(src) /\ NoMore
             /\ step' = "drain" /\ UNCHANGED <<hashed, inflight, chunks, last, buffer>>
    <3> USE <1>3, <2>3 DEF EndFill, UploadInv, UploadTypeOK
    <3>1. UploadTypeOK'
      BY DEF UploadTypeOK
    <3>2. CountInv' /\ PiecesInv'
      BY DEF NoMore, CountInv, PiecesInv, Piece
    <3>3. Len(src) \in Nat /\ pos \in Nat
      OBVIOUS
    <3>4. ReadInv'
      BY <3>3 DEF ReadInv
    <3>5. QED
      BY <3>1, <3>2, <3>4 DEF UploadInv
  <2>4. QED
    BY <1>3, <2>1, <2>2, <2>3 DEF EndFill
<1>4. CASE EndJoin
  BY <1>4 DEF EndJoin, UploadInv, UploadTypeOK, CountInv, PiecesInv, Piece, ReadInv
<1>5. CASE Finish
  BY <1>5 DEF Finish, AllJoined, UploadInv, UploadTypeOK, CountInv, PiecesInv, Piece, ReadInv
<1>6. ASSUME NEW t \in inflight, Stored(t) PROVE UploadInv'
  BY <1>6, StoredKeepsInv
<1>7. ASSUME NEW t \in inflight, JoinNext(t) PROVE UploadInv'
  BY <1>7 DEF JoinNext, UploadInv, UploadTypeOK, CountInv, PiecesInv, Piece, ReadInv
<1>8. CASE ChangeFile
  BY <1>8, ChangeKeepsInv
<1>9. CASE Fail
  BY <1>9 DEF Fail, UploadInv, UploadTypeOK, CountInv, PiecesInv, Piece, ReadInv
<1>10. CASE UNCHANGED uploadVars
  BY <1>10 DEF uploadVars, UploadInv, UploadTypeOK, CountInv, PiecesInv, Piece, ReadInv
<1>11. QED
  BY <1>1, <1>2, <1>3, <1>4, <1>5, <1>6, <1>7, <1>8, <1>9, <1>10 DEF UploadNext

\* For files of any length and content, any chunk size and concurrency, any lengths
\* of the single reads and any order in which the uploads end: the manifest of
\* upload_chunks describes the objects in the bucket, and they are the file.
THEOREM ManifestDescribesObjects == UploadSpec => []ManifestIsStored
<1>1. UploadInv => ManifestIsStored
  <2> SUFFICES ASSUME UploadInv, step = "done"
               PROVE  /\ chunks = ChunkCount(Len(hashed))
                      /\ DOMAIN objects = 0..(chunks - 1)
                      /\ \A i \in 0..(chunks - 1) : objects[i] = Piece(hashed, i)
                      /\ changes = 0 => hashed = src
    BY DEF ManifestIsStored
  <2>1. chunks = ChunkCount(Len(hashed))
    <3>1. CASE last
      <4>1. PICK n \in Nat, r \in 0..(ChunkSize - 1) :
              chunks = n + 1 /\ Len(hashed) = n * ChunkSize + r /\ (r > 0 \/ n = 0)
        BY <3>1 DEF UploadInv, CountInv
      <4>2. QED
        BY <4>1, CountOfPart
    <3>2. CASE ~last
      BY <3>2, CountOfFull DEF UploadInv, UploadTypeOK, CountInv
    <3>3. QED
      BY <3>1, <3>2
  <2>2. DOMAIN objects = 0..(chunks - 1)
    BY DEF UploadInv, PiecesInv
  <2>3. \A i \in 0..(chunks - 1) : objects[i] = Piece(hashed, i)
    BY <2>2 DEF UploadInv, PiecesInv
  <2>4. ASSUME changes = 0 PROVE hashed = src
    <3>1. buffer = <<>> /\ hashed \o buffer = SubSeq(src, 1, Len(src))
          /\ hashed \in Seq(Bytes) /\ src \in Seq(Bytes)
      BY <2>4 DEF UploadInv, UploadTypeOK, CountInv, ReadInv
    <3>2. QED
      BY <3>1, ConcatEmptySeq, SubSeqFull
  <2>5. QED
    BY <2>1, <2>2, <2>3, <2>4
<1>2. QED
  BY <1>1, UploadStarts, UploadStep, PTL DEF UploadSpec

-------------------------------------------------------------------------------
(* Settings.                                                                 *)

\* Types: what is configured is a number or one of the odd values.
SettingsTypeOK ==
  /\ env \in [AllKeys -> Int] /\ file \in [AllKeys -> Int]
  /\ run \in [Procs -> {"down", "up", "refused"}] /\ DOMAIN use = Procs

\* The agent reads the settings that its checks compare.
LEMMA AgentReads ==
  {"heartbeat_secs", "heartbeat_ttl_secs", "poll_ms", "poll_max_ms"} \subseteq Own("agent")
BY DEF Own, Table, AllKeys, AgentTable, Setting

\* The range of a setting.
LEMMA Ranges ==
  ASSUME NEW k \in AllKeys PROVE Table[k].min \in Nat /\ Table[k].max \in Nat
BY DEF Table, AllKeys, AgentTable, ControllerTable, Setting

\* Edits and starts keep to the types.
LEMMA SettingsTypes == SettingsSpec => []SettingsTypeOK
<1> USE DEF SettingsTypeOK
<1>1. SettingsInit => SettingsTypeOK
  BY DEF SettingsInit, Unset
<1>2. SettingsTypeOK /\ [SettingsNext]_settingsVars => SettingsTypeOK'
  <2> SUFFICES ASSUME SettingsTypeOK, [SettingsNext]_settingsVars PROVE SettingsTypeOK'
    OBVIOUS
  <2>1. ASSUME NEW k \in Keys, Edit(k) PROVE SettingsTypeOK'
    <3>1. k \in AllKeys /\ Table[k].min \in Nat /\ Table[k].max \in Nat
      BY KeysAssumption, Ranges
    <3>2. Numbers(k) \cup {Blank, Garbage, Fraction} \subseteq Int
      BY <3>1 DEF Numbers, Blank, Garbage, Fraction
    <3>3. QED
      BY <2>1, <3>1, <3>2 DEF Edit
  <2>2. ASSUME NEW p \in Procs, StartUp(p) PROVE SettingsTypeOK'
    <3>1. CASE Startable(p)
      BY <2>2, <3>1 DEF StartUp
    <3>2. CASE ~Startable(p)
      BY <2>2, <3>2 DEF StartUp
    <3>3. QED
      BY <3>1, <3>2
  <2>3. ASSUME NEW p \in Procs, ShutDown(p) PROVE SettingsTypeOK'
    BY <2>3 DEF ShutDown
  <2>4. CASE UNCHANGED settingsVars
    BY <2>4 DEF settingsVars
  <2>5. QED
    BY <2>1, <2>2, <2>3, <2>4 DEF SettingsNext
<1>3. QED
  BY <1>1, <1>2, PTL DEF SettingsSpec

\* What a setting is when the process starts up, by where it was written.
LEMMA SourcesOfAValue ==
  ASSUME SettingsTypeOK, NEW k \in AllKeys, Table[k].strict
  PROVE  /\ env[k] >= 0 => Loaded(k) = env[k]
         /\ env[k] \in {Unset, Blank} /\ file[k] >= 0 => Loaded(k) = file[k]
BY DEF SettingsTypeOK, Loaded, OptionalEnv, Rendered, Unset, Blank, Fraction

\* However often environment and files are edited between starts, a process comes
\* up with the values of the right source, all in range and fitting each other
\* (config.rs optional_env; the checks at the start of both programs).
THEOREM StartIsAsConfigured == SettingsSpec => StartsAsConfigured
<1> DEFINE Good(p) ==
      /\ \A k \in Own(p) :
           /\ InRange(k, use'[p][k])
           /\ env[k] >= 0 /\ Table[k].strict => use'[p][k] = env[k]
           /\ env[k] \in {Unset, Blank} /\ file[k] >= 0 /\ Table[k].strict => use'[p][k] = file[k]
      /\ p = "agent" =>
           /\ use'[p]["heartbeat_ttl_secs"] >= 2 * use'[p]["heartbeat_secs"]
           /\ use'[p]["poll_max_ms"] >= use'[p]["poll_ms"]
<1>1. ASSUME SettingsTypeOK, [SettingsNext]_settingsVars, NEW p \in Procs,
             run[p] = "down", run'[p] = "up"
      PROVE  Good(p)
  <2>1. StartUp(p) /\ Startable(p)
    <3>1. PICK q \in Procs : StartUp(q)
      BY <1>1 DEF SettingsNext, settingsVars, Edit, ShutDown, SettingsTypeOK
    <3>2. CASE Startable(q)
      BY <1>1, <3>1, <3>2 DEF StartUp, SettingsTypeOK
    <3>3. CASE ~Startable(q)
      BY <1>1, <3>1, <3>3 DEF StartUp, SettingsTypeOK
    <3>4. QED
      BY <3>2, <3>3
  <2>2. use'[p] = [k \in Own(p) |-> Loaded(k)]
    BY <1>1, <2>1 DEF StartUp, SettingsTypeOK
  <2>3. ASSUME NEW k \in Own(p)
        PROVE  /\ InRange(k, use'[p][k])
               /\ env[k] >= 0 /\ Table[k].strict => use'[p][k] = env[k]
               /\ env[k] \in {Unset, Blank} /\ file[k] >= 0 /\ Table[k].strict => use'[p][k] = file[k]
    <3>1. use'[p][k] = Loaded(k) /\ k \in AllKeys
      BY <2>2 DEF Own
    <3>2. InRange(k, Loaded(k))
      BY <2>1 DEF Startable
    <3>3. QED
      BY <1>1, <3>1, <3>2, SourcesOfAValue
  <2>4. ASSUME p = "agent"
        PROVE  /\ use'[p]["heartbeat_ttl_secs"] >= 2 * use'[p]["heartbeat_secs"]
               /\ use'[p]["poll_max_ms"] >= use'[p]["poll_ms"]
    BY <2>1, <2>2, <2>4, AgentReads DEF Startable, Coherent, BacksOff
  <2>5. QED
    BY <2>3, <2>4
<1>2. SettingsTypeOK /\ [SettingsNext]_settingsVars =>
        [\A p \in Procs : run[p] = "down" /\ run'[p] = "up" => Good(p)]_settingsVars
  BY <1>1
<1>3. QED
  BY <1>2, SettingsTypes, PTL DEF SettingsSpec, StartsAsConfigured

-------------------------------------------------------------------------------
(* Enrolment.                                                                *)

\* What a machine keeps in its configuration and its process has loaded of it.
KeyFile == [own : Nat, peer : Nat, kid : KeyIds \cup {NoKeyId}]

\* Types: keys are numbers, 0 stands for none.
EnrolmentTypeOK ==
  /\ made \in Nat /\ ctrl \in Nat /\ row \in Nat /\ share \in Nat
  /\ cfg \in [Machines -> KeyFile] /\ proc \in [Machines -> KeyFile]
  /\ sess \in [Sessions -> [own : Nat, peer : Nat]]
  /\ sharepc \in [Sessions -> {"idle", "insert", "read"}]
  /\ minted \in [Sessions -> Nat] /\ returned \in [Sessions -> Nat]

\* Whoever has a key has the one in the registry; a key that is about to be
\* inserted is one, and whoever reads again finds one.
ShareInv ==
  \A s \in Sessions :
    /\ returned[s] # NoKey => returned[s] = share
    /\ sharepc[s] = "insert" => minted[s] # NoKey
    /\ sharepc[s] = "read" => share # NoKey

\* Whoever is up to date has loaded what the files and the registry hold, and a
\* command carries the key id of paired keys.
LoadedInv ==
  /\ \A m \in Machines : m \in uptodate => proc[m] = cfg[m]
  /\ \A s \in Sessions : s \in uptodate => sess[s] = [own |-> ctrl, peer |-> row]
  /\ \A c \in mail : c.kid = PairedKeyId /\ c.by \in Sessions

\* The inductive invariant of Enrolment.
EnrolmentInv == EnrolmentTypeOK /\ ShareInv /\ LoadedInv

\* Nobody is enrolled, and there is no share key.
LEMMA EnrolmentStarts == EnrolmentInit => EnrolmentInv
BY EnrolmentAssumption
DEF EnrolmentInit, EnrolmentInv, EnrolmentTypeOK, ShareInv, LoadedInv, NoConfig, NoSession,
    NoKey, KeyFile

\* Every step keeps the invariant.
LEMMA EnrolmentStep == EnrolmentInv /\ [EnrolmentNext]_enrolmentVars => EnrolmentInv'
<1> SUFFICES ASSUME EnrolmentInv, [EnrolmentNext]_enrolmentVars PROVE EnrolmentInv'
  OBVIOUS
<1> USE EnrolmentAssumption
    DEF EnrolmentInv, EnrolmentTypeOK, ShareInv, LoadedInv, KeyFile, NoKey, fileVars, procVars,
        shareVars, SharePc
<1>1. CASE ControllerInit
  BY <1>1 DEF ControllerInit
<1>2. CASE ControllerReset
  BY <1>2 DEF ControllerReset
<1>3. ASSUME NEW m \in Machines, NEW kid \in KeyIds, AgentInit(m, kid) PROVE EnrolmentInv'
  BY <1>3 DEF AgentInit
<1>4. ASSUME NEW m \in Machines, AgentReset(m) PROVE EnrolmentInv'
  BY <1>4 DEF AgentReset, NoConfig
<1>5. ASSUME NEW m \in Machines, AddAgent(m) PROVE EnrolmentInv'
  BY <1>5 DEF AddAgent
<1>6. ASSUME NEW m \in Machines, AgentStarts(m) PROVE EnrolmentInv'
  BY <1>6 DEF AgentStarts
<1>7. ASSUME NEW m \in Machines, NEW c \in mail, Drain(m, c) PROVE EnrolmentInv'
  BY <1>7 DEF Drain
<1>8. ASSUME NEW s \in Sessions, SessionStarts(s) PROVE EnrolmentInv'
  BY <1>8 DEF SessionStarts
<1>9. ASSUME NEW s \in Sessions, ShareSelect(s) PROVE EnrolmentInv'
  <2>1. CASE share # NoKey /\ returned' = [returned EXCEPT ![s] = share] /\ UNCHANGED <<sharepc, minted, made>>
    BY <1>9, <2>1 DEF ShareSelect
  <2>2. CASE made' = made + 1 /\ minted' = [minted EXCEPT ![s] = made + 1]
             /\ SharePc(s, "insert") /\ UNCHANGED returned
    <3>1. made' = made + 1 /\ minted' = [minted EXCEPT ![s] = made + 1]
          /\ sharepc' = [sharepc EXCEPT ![s] = "insert"]
          /\ UNCHANGED <<ctrl, row, cfg, proc, sess, mail, share, returned, uptodate>>
      BY <1>9, <2>2 DEF ShareSelect
    <3>2. EnrolmentTypeOK'
      BY <3>1
    <3>3. QED
      BY <3>1, <3>2
  <2>3. QED
    BY <1>9, <2>1, <2>2 DEF ShareSelect
<1>10. ASSUME NEW s \in Sessions, ShareInsert(s) PROVE EnrolmentInv'
  BY <1>10 DEF ShareInsert
<1>11. ASSUME NEW s \in Sessions, ShareRead(s) PROVE EnrolmentInv'
  BY <1>11 DEF ShareRead, WhatIsThere
<1>12. ASSUME NEW s \in Sessions, NEW to \in Machines \cup {Anyone}, SendCommand(s, to)
       PROVE  EnrolmentInv'
  BY <1>12 DEF SendCommand
<1>13. ASSUME NEW s \in Sessions, ShareFails(s) PROVE EnrolmentInv'
  BY <1>13 DEF ShareFails
<1>14. CASE UNCHANGED enrolmentVars
  BY <1>14 DEF enrolmentVars
<1>15. QED
  BY <1>1, <1>2, <1>3, <1>4, <1>5, <1>6, <1>7, <1>8, <1>9, <1>10, <1>11, <1>12, <1>13, <1>14
     DEF EnrolmentNext

\* So it holds for ever.
LEMMA EnrolmentInvariant == EnrolmentSpec => []EnrolmentInv
BY EnrolmentStarts, EnrolmentStep, PTL DEF EnrolmentSpec

\* However many sessions ask for the key of the shared area at the same time, and
\* whichever of them inserts its own first, all that are answered are given the
\* same one (registry.rs share_key).
THEOREM OneShareKey == EnrolmentSpec => []ShareKeyAgreed
<1>1. EnrolmentInv => ShareKeyAgreed
  BY DEF EnrolmentInv, ShareInv, ShareKeyAgreed
<1>2. QED
  BY <1>1, EnrolmentInvariant, PTL

\* A process that has loaded the present files opens what a session that has loaded
\* the present registry seals, for any history of setups, resets and restarts on
\* any number of machines (Crypto::open, drain_commands).
THEOREM PairedAgentsUnderstand == EnrolmentSpec => PairingWorks
<1>1. ASSUME EnrolmentInv, [EnrolmentNext]_enrolmentVars,
             NEW m \in Machines, NEW c \in mail,
             {m, c.by} \subseteq uptodate, row = cfg[m].own, cfg[m].peer = ctrl,
             cfg[m].kid \in {NoKeyId, PairedKeyId},
             c.key = Derived(sess[c.by].own, sess[c.by].peer)
      PROVE  <<m, c>> \notin discarded' \ discarded
  <2>1. Opens(m, c)
    BY <1>1 DEF EnrolmentInv, LoadedInv, Opens, ExpectedKeyId, Derived
  <2>2. ASSUME NEW n \in Machines, NEW d \in mail, Drain(n, d)
        PROVE  <<m, c>> \notin discarded' \ discarded
    <3>1. CASE m = n /\ c = d
      BY <2>1, <2>2, <3>1 DEF Drain
    <3>2. CASE ~(m = n /\ c = d)
      BY <2>2, <3>2 DEF Drain
    <3>3. QED
      BY <3>1, <3>2
  <2>3. (\E n \in Machines, d \in mail : Drain(n, d)) \/ discarded' = discarded
    BY <1>1 DEF EnrolmentNext, enrolmentVars, ControllerInit, ControllerReset, AgentInit,
       AgentReset, AddAgent, AgentStarts, SessionStarts, ShareSelect, ShareInsert, ShareRead,
       ShareFails, SendCommand
  <2>4. QED
    BY <2>2, <2>3
<1>2. EnrolmentInv /\ [EnrolmentNext]_enrolmentVars =>
        [\A m \in Machines, c \in mail :
           /\ {m, c.by} \subseteq uptodate /\ row = cfg[m].own /\ cfg[m].peer = ctrl
           /\ cfg[m].kid \in {NoKeyId, PairedKeyId}
           /\ c.key = Derived(sess[c.by].own, sess[c.by].peer)
           => <<m, c>> \notin discarded' \ discarded]_enrolmentVars
  BY <1>1
<1>3. QED
  BY <1>2, EnrolmentInvariant, PTL DEF EnrolmentSpec, PairingWorks
===============================================================================
