------------------------------ MODULE JobsProofs ------------------------------
(*****************************************************************************)
(* Proofs about what one agent process does with its machine, for any number *)
(* of jobs, any limits, any paths and any bounds:                            *)
(*   - Jobs: no process runs that running_count does not know of, and a      *)
(*     recorded outcome is kept;                                             *)
(*   - Exec: the response says exactly what the program has written;         *)
(*   - Files: what is answered with success is true then;                    *)
(*   - Cleanup: what a cleanup removes was sent and is old, or is over the   *)
(*     budget by its list, which never has more than the directory.          *)
(*****************************************************************************)
EXTENDS Jobs, Exec, Files, Cleanup, SequenceTheorems, TLAPS

-------------------------------------------------------------------------------
(* Jobs.                                                                     *)

\* The table is empty and no process runs.
LEMMA InitEstablishesJobsInv == Init => JobsInv
BY ConstantsAssumption DEF Init, JobsInv, TypeOK, RunningIsCounted, Terminal

\* prune keeps every entry that is not finished.
LEMMA PruneKeepsRunning ==
  ASSUME NEW tbl, NEW at, NEW gone, Prunes(tbl, at, gone)
  PROVE  gone \subseteq JobIds /\ \A j \in gone : tbl[j] \in Terminal
BY DEF Prunes

\* The step of the supervisor that ends a job leaves every other entry that is
\* still running in place.
LEMMA RecordKeepsJobsInv ==
  ASSUME JobsInv, NEW j \in JobIds, Record(j)
  PROVE  JobsInv'
<1> DEFINE found == table[j] # "absent"
           tbl == IF found THEN [table EXCEPT ![j] = sup[j]] ELSE table
           at == IF found THEN [finishedAt EXCEPT ![j] = now] ELSE finishedAt
<1>1. PICK gone \in SUBSET JobIds :
        /\ Prunes(tbl, at, gone)
        /\ table' = [k \in JobIds |-> IF k \in gone THEN "absent" ELSE tbl[k]]
        /\ finishedAt' = [k \in JobIds |-> IF k \in gone THEN 0 ELSE at[k]]
        /\ sender' = sender \ (gone \cup {j})
  BY DEF Record
<1>2. \A k \in gone : tbl[k] \in Terminal
  BY <1>1, PruneKeepsRunning
<1>3. /\ sup[j] \in Terminal
      /\ sup' = [sup EXCEPT ![j] = "none"]
      /\ UNCHANGED <<now, deaths, starting, signalled, waiter, proc>>
  BY DEF Record
<1>4. /\ TypeOK /\ RunningIsCounted
      /\ \A k \in JobIds :
           /\ sup[k] # "none" => table[k] = "running" /\ starting # k
           /\ sup[k] \in Terminal /\ proc[k] = "alive" => waiter[k] = "abort"
           /\ starting = k => table[k] = "absent"
  BY DEF JobsInv
<1>5. table[j] = "running" /\ starting # j
  BY <1>3, <1>4 DEF Terminal
<1>6. tbl = [table EXCEPT ![j] = sup[j]] /\ at = [finishedAt EXCEPT ![j] = now]
  BY <1>5
<1> HIDE DEF tbl, at
<1>7. \A k \in JobIds : k # j /\ table[k] \notin Terminal => table'[k] = table[k]
  BY <1>1, <1>2, <1>4, <1>6 DEF TypeOK
<1>8. TypeOK'
  <2>1. tbl \in [JobIds -> {"absent", "running"} \cup Terminal]
    BY <1>3, <1>4, <1>6 DEF TypeOK
  <2>2. at \in [JobIds -> 0..MaxNow]
    BY <1>4, <1>6, ConstantsAssumption DEF TypeOK
  <2>3. table' \in [JobIds -> {"absent", "running"} \cup Terminal]
    BY <1>1, <2>1
  <2>4. finishedAt' \in [JobIds -> 0..MaxNow]
    BY <1>1, <2>2, ConstantsAssumption
  <2>5. QED
    BY <1>1, <1>3, <1>4, <2>3, <2>4 DEF TypeOK
<1>9. RunningIsCounted'
  <2> SUFFICES ASSUME NEW k \in JobIds, proc[k] = "alive"
               PROVE  table'[k] = "running" \/ starting = k \/ waiter[k] = "abort"
    BY <1>3 DEF RunningIsCounted
  <2>1. CASE k = j
    BY <1>3, <1>4, <2>1
  <2>2. CASE k # j
    BY <1>4, <1>7, <2>2 DEF RunningIsCounted, Terminal
  <2>3. QED
    BY <2>1, <2>2
<1>10. \A k \in JobIds : starting = k => table'[k] = "absent"
  BY <1>4, <1>5, <1>7 DEF Terminal
<1>11. \A k \in JobIds : sup'[k] # "none" => table'[k] = "running" /\ starting # k
  BY <1>3, <1>4, <1>7 DEF TypeOK, Terminal
<1>12. \A k \in JobIds : sup'[k] \in Terminal /\ proc[k] = "alive" => waiter[k] = "abort"
  BY <1>3, <1>4 DEF TypeOK, Terminal
<1>13. QED
  BY <1>3, <1>8, <1>9, <1>10, <1>11, <1>12 DEF JobsInv

\* Every step keeps the invariant.
LEMMA NextKeepsJobsInv == JobsInv /\ [Next]_vars => JobsInv'
<1> SUFFICES ASSUME JobsInv, [Next]_vars PROVE JobsInv'
  OBVIOUS
<1> USE DEF JobsInv, TypeOK, RunningIsCounted, Terminal
<1>1. ASSUME NEW j \in JobIds, SpawnJob(j) PROVE JobsInv'
  BY <1>1, ConstantsAssumption DEF SpawnJob
<1>2. ASSUME NEW j \in JobIds, InsertJob(j) PROVE JobsInv'
  BY <1>2, ConstantsAssumption DEF InsertJob
<1>3. ASSUME NEW j \in JobIds, Exit(j) PROVE JobsInv'
  BY <1>3 DEF Exit
<1>4. ASSUME NEW j \in JobIds, SelectExit(j) PROVE JobsInv'
  BY <1>4 DEF SelectExit
<1>5. ASSUME NEW j \in JobIds, SelectTimeout(j) PROVE JobsInv'
  BY <1>5 DEF SelectTimeout, AbortWaiter
<1>6. ASSUME NEW j \in JobIds, SelectCancel(j) PROVE JobsInv'
  BY <1>6 DEF SelectCancel, AbortWaiter
<1>7. ASSUME NEW j \in JobIds, DropChild(j) PROVE JobsInv'
  BY <1>7 DEF DropChild
<1>8. ASSUME NEW j \in JobIds, Record(j) PROVE JobsInv'
  BY <1>8, RecordKeepsJobsInv
<1>9. ASSUME NEW j \in JobIds, Cancel(j) PROVE JobsInv'
  BY <1>9 DEF Cancel
<1>10. CASE AgentDies
  BY <1>10, ConstantsAssumption DEF AgentDies
<1>11. CASE Tick
  BY <1>11, ConstantsAssumption DEF Tick
<1>12. CASE UNCHANGED vars
  BY <1>12 DEF vars
<1>13. QED
  BY <1>1, <1>2, <1>3, <1>4, <1>5, <1>6, <1>7, <1>8, <1>9, <1>10, <1>11, <1>12
     DEF Next, Supervise

\* Every process that is alive is in the job table as running, except between
\* the spawn and the insert of start and between waiter.abort and the kill:
\* prune, cancel and the select of the supervisor never lose one.
THEOREM EveryProcessIsCounted == Spec => []RunningIsCounted
<1>1. JobsInv => RunningIsCounted
  BY DEF JobsInv
<1>2. QED
  BY InitEstablishesJobsInv, NextKeepsJobsInv, <1>1, PTL DEF Spec

\* What a step may do to the entries of the table.
LEMMA EntriesAreKept ==
  ASSUME JobsInv, [Next]_vars, deaths' = deaths, NEW j \in JobIds, table[j] # "absent"
  PROVE  IF table'[j] # "absent"
         THEN table[j] \in Terminal => table'[j] = table[j] /\ finishedAt'[j] = finishedAt[j]
         ELSE \A k \in JobIds : table'[k] \in Terminal =>
                finishedAt'[k] >= (IF table[j] \in Terminal THEN finishedAt[j] ELSE now)
<1>1. /\ TypeOK
      /\ \A k \in JobIds : sup[k] # "none" => table[k] = "running"
      /\ \A k \in JobIds : starting = k => table[k] = "absent"
  BY DEF JobsInv
<1>2. CASE UNCHANGED <<table, finishedAt>>
  BY <1>2
<1>3. ASSUME NEW k \in JobIds, InsertJob(k) PROVE table'[j] = table[j] /\ UNCHANGED finishedAt
  BY <1>1, <1>3 DEF InsertJob, TypeOK
<1>4. ASSUME NEW i \in JobIds, Record(i)
      PROVE  IF table'[j] # "absent"
             THEN table[j] \in Terminal => table'[j] = table[j] /\ finishedAt'[j] = finishedAt[j]
             ELSE \A k \in JobIds : table'[k] \in Terminal =>
                    finishedAt'[k] >= (IF table[j] \in Terminal THEN finishedAt[j] ELSE now)
  <2> DEFINE tbl == [table EXCEPT ![i] = sup[i]]
             at == [finishedAt EXCEPT ![i] = now]
  <2>1. table[i] = "running" /\ sup[i] \in Terminal
    BY <1>1, <1>4 DEF Record, Terminal
  <2>2. PICK gone \in SUBSET JobIds :
          /\ Prunes(tbl, at, gone)
          /\ table' = [k \in JobIds |-> IF k \in gone THEN "absent" ELSE tbl[k]]
          /\ finishedAt' = [k \in JobIds |-> IF k \in gone THEN 0 ELSE at[k]]
    BY <1>4, <2>1 DEF Record
  <2>3. /\ tbl[i] = sup[i] /\ at[i] = now
        /\ \A k \in JobIds \ {i} : tbl[k] = table[k] /\ at[k] = finishedAt[k]
        /\ \A k \in JobIds : at[k] \in Nat
    BY <1>1, ConstantsAssumption DEF TypeOK
  <2>4. /\ \A k \in gone : tbl[k] \in Terminal
        /\ \A g \in gone, k \in JobIds \ gone : tbl[k] \in Terminal => at[g] <= at[k]
    BY <2>2 DEF Prunes
  <2> HIDE DEF tbl, at
  <2>5. CASE j \notin gone
    <3>1. table'[j] = tbl[j] /\ finishedAt'[j] = at[j]
      BY <2>2, <2>5
    <3>2. tbl[j] # "absent"
      BY <2>1, <2>3 DEF Terminal
    <3>3. table[j] \in Terminal => j # i
      BY <2>1 DEF Terminal
    <3>4. QED
      BY <2>3, <3>1, <3>2, <3>3
  <2>6. CASE j \in gone
    <3>1. table'[j] = "absent"
      BY <2>2, <2>6
    <3>2. ASSUME NEW k \in JobIds, table'[k] \in Terminal PROVE finishedAt'[k] >= at[j]
      <4>1. k \notin gone /\ tbl[k] \in Terminal /\ finishedAt'[k] = at[k]
        BY <2>2, <3>2 DEF Terminal
      <4>2. QED
        BY <2>3, <2>4, <2>6, <4>1
    <3>3. at[j] = IF table[j] \in Terminal THEN finishedAt[j] ELSE now
      BY <2>1, <2>3, <2>4, <2>6 DEF Terminal
    <3>4. QED
      BY <3>1, <3>2, <3>3
  <2>7. QED
    BY <2>5, <2>6
<1>5. ~AgentDies
  BY <1>1 DEF AgentDies, TypeOK
<1>6. QED
  BY <1>2, <1>3, <1>4, <1>5
     DEF Next, Supervise, SpawnJob, Exit, SelectExit, SelectTimeout, SelectCancel, DropChild,
         Cancel, Tick, vars

\* Between two restarts a recorded outcome never changes, and prune never drops
\* an outcome that is newer than one it keeps, the one just recorded included.
THEOREM OutcomesAreKept == Spec => OutcomeIsKept
<1>1. JobsInv /\ [Next]_vars =>
        [deaths' = deaths =>
           \A j \in JobIds : table[j] # "absent" =>
             IF table'[j] # "absent"
             THEN table[j] \in Terminal => table'[j] = table[j] /\ finishedAt'[j] = finishedAt[j]
             ELSE \A k \in JobIds : table'[k] \in Terminal =>
                    finishedAt'[k] >= (IF table[j] \in Terminal THEN finishedAt[j] ELSE now)
        ]_vars
  BY EntriesAreKept
<1>2. QED
  BY InitEstablishesJobsInv, NextKeepsJobsInv, <1>1, PTL DEF Spec, OutcomeIsKept

-------------------------------------------------------------------------------
(* Exec.                                                                     *)

\* The smaller of two numbers.
LEMMA LesserOfTwo ==
  ASSUME NEW a \in Int, NEW b \in Int
  PROVE  Min({a, b}) = IF a <= b THEN a ELSE b
BY DEF Min

\* Types.
ExecTypeOK ==
  /\ left \in [Calls -> Int]
  /\ pipe \in [Streams -> Nat] /\ written \in [Streams -> Nat] /\ kept \in [Streams -> Nat]
  /\ truncated \in [Streams -> BOOLEAN]

\* What a reader has taken out of its pipe it has kept, up to the limit, and said so.
ReaderInv ==
  \A s \in Streams :
    /\ pipe[s] <= written[s]
    /\ kept[s] = IF written[s] - pipe[s] <= Limit THEN written[s] - pipe[s] ELSE Limit
    /\ truncated[s] <=> written[s] - pipe[s] > Limit
    /\ s \in eof => pipe[s] = 0 /\ child \in {"exited", "killed"}

\* Who has not timed out has waited for the exit, and a program that has exited has
\* nothing left to write.
WaiterInv ==
  /\ child = "exited" => \A s \in Calls : left[s] = 0
  /\ pc = "idle" => child = "none"
  /\ pc \in {"join", "done"} => timedOut \/ child = "exited"
  /\ pc = "kill" => timedOut
  /\ pc = "done" => eof = Streams

\* The inductive invariant of Exec.
ExecInv == ExecTypeOK /\ ReaderInv /\ WaiterInv

\* There is no program, and nothing was read.
LEMMA ExecStarts == ExecInit => ExecInv
BY ExecAssumption DEF ExecInit, ExecInv, ExecTypeOK, ReaderInv, WaiterInv, Streams, Calls

\* Every step of the program, its readers and the waiter keeps the invariant.
LEMMA ExecStep == ExecInv /\ [ExecNext]_execVars => ExecInv'
<1> SUFFICES ASSUME ExecInv, [ExecNext]_execVars PROVE ExecInv'
  OBVIOUS
<1> USE ExecAssumption
    DEF ExecInv, ExecTypeOK, ReaderInv, WaiterInv, childVars, readVars
<1>0. Streams \subseteq Calls
  BY DEF Calls
<1>1. CASE SpawnProgram
  BY <1>1 DEF SpawnProgram
<1>2. CASE ReadsInput
  BY <1>2 DEF ReadsInput, ReturnFrom, Calls
<1>3. CASE ChildExits
  BY <1>3 DEF ChildExits
<1>4. ASSUME NEW s \in Calls, EnterCall(s) PROVE ExecInv'
  BY <1>4 DEF EnterCall
<1>5. ASSUME NEW s \in Streams, WritesOutput(s) PROVE ExecInv'
  BY <1>0, <1>5 DEF WritesOutput, ReturnFrom
<1>6. CASE Fork
  BY <1>6 DEF Fork
<1>7. CASE OrphanExits
  BY <1>7 DEF OrphanExits
<1>8. CASE FeedInput
  BY <1>8 DEF FeedInput
<1>9. ASSUME NEW s \in Streams, ReadBuffer(s) PROVE ExecInv'
  <2> DEFINE take == IF Limit - kept[s] <= pipe[s] THEN Limit - kept[s] ELSE pipe[s]
  <2>1. Min({Limit - kept[s], pipe[s]}) = take
    BY LesserOfTwo
  <2>2. take \in Nat /\ kept[s] + take \in Nat
    OBVIOUS
  <2>3. /\ pipe' = [pipe EXCEPT ![s] = 0] /\ kept' = [kept EXCEPT ![s] = @ + take]
        /\ truncated' = [truncated EXCEPT ![s] = @ \/ take < pipe[s]]
        /\ s \notin eof
        /\ UNCHANGED <<pc, timedOut, child, left, written, eof>>
    BY <1>9, <2>1 DEF ReadBuffer, Readable, Cut
  <2>4. ExecTypeOK' /\ WaiterInv'
    BY <2>2, <2>3
  <2>5. truncated'[s] <=> truncated[s] \/ take < pipe[s]
    BY <2>3
  <2>6. ReaderInv'
    BY <2>3, <2>4, <2>5
  <2>7. QED
    BY <2>4, <2>6
<1>10. ASSUME NEW s \in Streams, ReadEnd(s) PROVE ExecInv'
  BY <1>10 DEF ReadEnd
<1>11. CASE ChildWaited
  BY <1>11 DEF ChildWaited
<1>12. CASE TimesOut
  BY <1>12 DEF TimesOut
<1>13. CASE Kill
  BY <1>13 DEF Kill
<1>14. CASE Join
  BY <1>14 DEF Join
<1>15. CASE UNCHANGED execVars
  BY <1>15 DEF execVars
<1>16. QED
  BY <1>1, <1>2, <1>3, <1>4, <1>5, <1>6, <1>7, <1>8, <1>9, <1>10, <1>11, <1>12, <1>13, <1>14,
     <1>15 DEF ExecNext, Program

\* For any pipe size, limit and output, and however reads and writes interleave with
\* the exit, the timeout and the kill: the response has the first bytes of each
\* stream, as many as the limit admits, and the right flag (executor.rs
\* read_bounded, exec).
THEOREM ExecAnswerIsExact == ExecSpec => []AnswerIsExact
<1>1. ExecInv => AnswerIsExact
  <2> SUFFICES ASSUME ExecInv, pc = "done", NEW s \in Streams
               PROVE  /\ kept[s] = Min({written[s], Limit})
                      /\ truncated[s] <=> written[s] > Limit
                      /\ timedOut \/ left[s] = 0
    BY DEF AnswerIsExact
  <2>1. pipe[s] = 0 /\ written[s] \in Nat /\ Limit \in Nat
    BY ExecAssumption DEF ExecInv, ExecTypeOK, ReaderInv, WaiterInv
  <2>2. kept[s] = Min({written[s], Limit})
    BY <2>1, LesserOfTwo DEF ExecInv, ReaderInv
  <2>3. truncated[s] <=> written[s] > Limit
    BY <2>1 DEF ExecInv, ReaderInv
  <2>4. timedOut \/ left[s] = 0
    BY DEF ExecInv, WaiterInv, Calls
  <2>5. QED
    BY <2>2, <2>3, <2>4
<1>2. QED
  BY <1>1, ExecStarts, ExecStep, PTL DEF ExecSpec

-------------------------------------------------------------------------------
(* Files.                                                                    *)

\* What is known of the command in hand.
OpFields == {"kind", "path", "to", "flag", "at", "todo"}

\* A command in hand, and what remove has found out: it goes to remove_dir_all only
\* if that was asked for.
OpInv ==
  /\ DOMAIN op = OpFields
  /\ op # Idle =>
       /\ op.kind \in {"make_dir", "remove", "move", "write"}
       /\ op.path \in Paths /\ op.to \in Paths
  /\ op.kind = "idle" => op = Idle
  /\ op.at \in {"unlink", "rmdir", "tree"} => op.kind = "remove"
  /\ op.at = "tree" => op.flag
  /\ op.at \in {"prepare", "create"} => op.kind \in {"make_dir", "move"}

\* No command is in hand.
LEMMA OpStarts == FilesInit => OpInv
BY DEF FilesInit, OpInv, Idle, OpFields

\* A command that was answered is forgotten.
LEMMA IdleIsFine == ASSUME op' = Idle PROVE OpInv'
BY DEF OpInv, Idle, OpFields

\* Every step of a command, or of another process, keeps that.
LEMMA OpStep == OpInv /\ [FilesNext]_filesVars => OpInv'
<1> SUFFICES ASSUME OpInv, [FilesNext]_filesVars PROVE OpInv'
  OBVIOUS
<1> USE DEF Answers, GoesTo
<1>1. ASSUME NEW kind \in {"make_dir", "remove", "move", "write"}, NEW p \in Paths,
             NEW to \in Paths, NEW flag, BeginCommand(kind, p, to, flag)
      PROVE  OpInv'
  BY <1>1 DEF BeginCommand, OpInv, OpFields
<1>2. CASE Check
  <2>1. op' = Idle \/ op' = [op EXCEPT !.at = "prepare"]
    BY <1>2 DEF Check
  <2>2. op.kind \in {"make_dir", "move"}
    BY <1>2 DEF Check
  <2>3. QED
    BY <2>1, <2>2, IdleIsFine DEF OpInv, OpFields, Idle
<1>3. CASE Prepare
  BY <1>3 DEF Prepare, OpInv, OpFields, Idle
<1>4. CASE CreateParent \/ RecreateParents
  BY <1>4 DEF CreateParent, RecreateParents, Ready, OpInv, OpFields, Idle
<1>5. CASE CreateDir \/ Rename \/ Unlink \/ RmDir \/ WriteFile \/ CommandFails \/ AgentDiesIn
  BY <1>5, IdleIsFine DEF CreateDir, Rename, Unlink, RmDir, WriteFile, CommandFails, AgentDiesIn
<1>6. CASE CheckRemove
  BY <1>6 DEF CheckRemove, OpInv, OpFields, Idle
<1>7. CASE RemoveEntry
  <2>1. op' = Idle \/ op' = op
    BY <1>7 DEF RemoveEntry
  <2>2. QED
    BY <2>1, IdleIsFine DEF OpInv
<1>8. CASE Other \/ UNCHANGED filesVars
  BY <1>8 DEF Other, filesVars, OpInv
<1>9. QED
  BY <1>1, <1>2, <1>3, <1>4, <1>5, <1>6, <1>7, <1>8 DEF FilesNext

\* A path relative to itself is empty, so that a rename puts it at the new name.
LEMMA NothingAfterTheEnd ==
  ASSUME NEW p \in Seq(STRING), NEW q \in Seq(STRING)
  PROVE  q \o SubSeq(p, Len(p) + 1, Len(p)) = q
<1>1. SubSeq(p, Len(p) + 1, Len(p)) = <<>>
  BY SubSeqEmpty
<1>2. QED
  BY <1>1, ConcatEmptySeq

\* A path is in its own subtree.
LEMMA PrefixOfItself == ASSUME NEW p \in Seq(STRING) PROVE IsPrefix(p, p)
BY DEF IsPrefix

\* rename puts what was at the old name, whatever it is, at the new one.
LEMMA MovedIsThere ==
  ASSUME NEW p \in Paths, NEW to \in Paths, p \in DOMAIN tree
  PROVE  to \in DOMAIN Moved(p, to) /\ Moved(p, to)[to] = tree[p]
<1> DEFINE dest(q) == to \o SubSeq(q, Len(p) + 1, Len(q))
           gone == Subtree(p) \cup Subtree(to)
<1>1. p \in Seq(STRING) /\ to \in Seq(STRING)
  BY PathsAssumption
<1>2. p \in Subtree(p) /\ (to \in DOMAIN tree => to \in Subtree(to))
  BY <1>1, PrefixOfItself DEF Subtree
<1>3. dest(p) = to /\ p \o SubSeq(to, Len(to) + 1, Len(to)) = p
  BY <1>1, NothingAfterTheEnd
<1>4. to \notin DOMAIN tree \ gone /\ to \in {dest(r) : r \in Subtree(p)}
  BY <1>2, <1>3
<1>5. QED
  BY <1>3, <1>4 DEF Moved

\* Whatever other processes do to the tree between two system calls of a command,
\* for any paths and any number of commands: "ok" is true when it is given, and
\* without `recursive` remove takes one entry (executor.rs make_dir, remove,
\* move_path, write_file).
THEOREM FileAnswersAreTrue == FilesSpec => OkIsTrue
<1> DEFINE Holds ==
      CASE op.kind = "make_dir" -> op.path \in DOMAIN tree' /\ tree'[op.path] = "dir"
        [] op.kind = "remove" -> /\ op.path \notin DOMAIN tree'
                                 /\ op.flag \/ DOMAIN tree \ DOMAIN tree' = {op.path}
        [] op.kind = "move" -> op.to \in DOMAIN tree' /\ tree'[op.to] = tree[op.path]
        [] op.kind = "write" -> op.path \in DOMAIN tree' /\ tree'[op.path] = "file"
<1>1. ASSUME OpInv, [FilesNext]_filesVars, op # Idle, answer # "ok", answer' = "ok"
      PROVE  Holds
  <2>0. op.path \in Paths /\ op.to \in Paths /\ op.path # <<>>
    BY <1>1, PathsAssumption DEF OpInv
  <2>1. CASE Check
    <3>1. op.kind = "make_dir" /\ Exists(op.path) /\ IsDir(op.path) /\ tree' = tree
      BY <1>1, <2>1 DEF Check, Answers, GoesTo
    <3>2. QED
      BY <2>0, <3>1 DEF IsDir
  <2>2. CASE CreateDir
    <3>1. op.kind = "make_dir"
      BY <2>2 DEF CreateDir, Ready
    <3>2. CASE CanCreate(op.path) /\ tree' = With(op.path, "dir")
      BY <3>1, <3>2 DEF With
    <3>3. CASE AlreadyThere(op.path) /\ UNCHANGED tree
      BY <2>0, <3>1, <3>3 DEF AlreadyThere, IsDir
    <3>4. QED
      BY <2>2, <3>2, <3>3 DEF CreateDir
  <2>3. CASE Rename
    <3>1. op.kind = "move" /\ op.path \in DOMAIN tree /\ tree' = Moved(op.path, op.to)
      BY <2>0, <2>3 DEF Rename, Ready, CanRename, Exists
    <3>2. QED
      BY <2>0, <3>1, MovedIsThere
  <2>4. CASE Unlink
    <3>1. op.kind = "remove" /\ op.path \in DOMAIN tree /\ tree' = Without({op.path})
      BY <1>1, <2>4 DEF Unlink, OpInv, IsFile
    <3>2. QED
      BY <3>1 DEF Without
  <2>5. CASE RmDir
    <3>1. op.kind = "remove" /\ Subtree(op.path) = {op.path}
          /\ tree' = Without({op.path})
      BY <1>1, <2>5 DEF RmDir, Empty, Childless, OpInv
    <3>2. op.path \in DOMAIN tree
      BY <3>1 DEF Subtree
    <3>3. QED
      BY <3>1, <3>2 DEF Without
  <2>6. CASE RemoveEntry
    <3>1. op.kind = "remove" /\ op.flag /\ tree' = Without({op.path})
      BY <1>1, <2>6 DEF RemoveEntry, OpInv
    <3>2. QED
      BY <3>1 DEF Without
  <2>7. CASE WriteFile
    <3>1. op.kind = "write"
      BY <2>7 DEF WriteFile
    <3>2. QED
      BY <2>7, <3>1 DEF WriteFile, With, IsFile
  <2>8. QED
    BY <1>1, <2>1, <2>2, <2>3, <2>4, <2>5, <2>6, <2>7
       DEF FilesNext, filesVars, BeginCommand, Prepare, CreateParent, RecreateParents,
           CheckRemove, GoesTo, CommandFails, AgentDiesIn, Answers, Other
<1>2. OpInv /\ [FilesNext]_filesVars =>
        [op # Idle /\ answer # "ok" /\ answer' = "ok" => Holds]_filesVars
  BY <1>1
<1>3. QED
  BY <1>2, OpStarts, OpStep, PTL DEF FilesSpec, OkIsTrue

-------------------------------------------------------------------------------
(* Cleanup.                                                                  *)

\* The day an hour belongs to.
DayOf(h) == h \div DayLength

\* The days of the rolling log: the hours of one day are less than a day apart.
LEMMA DayFacts ==
  /\ DayOf(0) = 0
  /\ \A h \in Nat : DayOf(h) \in Nat
  /\ \A h \in 0..MaxHours : DayOf(h) \in Days
  /\ \A g, h \in Nat : DayOf(g) = DayOf(h) => h - g < DayLength
<1>0. DayLength \in Nat \ {0} /\ MaxHours \in Nat
  BY CleanupAssumption
<1>1. ASSUME NEW h \in Nat
      PROVE  /\ DayOf(h) \in Nat
             /\ h = DayLength * DayOf(h) + (h % DayLength) /\ h % DayLength \in 0..(DayLength - 1)
  BY <1>0 DEF DayOf
<1>2. ASSUME NEW g \in Nat, NEW h \in Nat, DayOf(g) = DayOf(h) PROVE h - g < DayLength
  <2> DEFINE p == DayLength * DayOf(h)
  <2>0. p \in Int
    <3>1. DayLength \in Int /\ DayOf(h) \in Int
      BY <1>0, <1>1
    <3>2. QED
      BY <3>1
  <2>1. h = p + (h % DayLength) /\ g = p + (g % DayLength)
    BY <1>1, <1>2, Zenon
  <2>2. h % DayLength \in 0..(DayLength - 1) /\ g % DayLength \in 0..(DayLength - 1)
    BY <1>1
  <2> HIDE DEF p
  <2>3. QED
    BY <1>0, <2>0, <2>1, <2>2
<1>3. DayOf(0) = 0
  BY <1>0 DEF DayOf
<1>4. ASSUME NEW h \in 0..MaxHours PROVE DayOf(h) \in Days
  <2>1. h \in Nat
    BY <1>0
  <2>2. DayOf(h) <= DayOf(MaxHours)
    BY <1>0, <2>1 DEF DayOf
  <2>3. DayOf(h) \in Nat /\ DayOf(MaxHours) \in Nat
    BY <1>0, <1>1, <2>1
  <2>4. QED
    BY <2>2, <2>3 DEF Days, DayOf
<1>5. QED
  BY <1>1, <1>2, <1>3, <1>4

\* Directory entries as cleanup has found them.
Entries == [file : LogFiles, size : Nat, mtime : Nat, uploaded : BOOLEAN]

\* Types.
CleanupTypeOK ==
  /\ hour \in 0..MaxHours /\ began \in Nat
  /\ job \in [Outputs -> {"new", "started", "running", "done"}]
  /\ dir \in SUBSET LogFiles
  /\ size \in [LogFiles -> Nat] /\ mtime \in [LogFiles -> Nat] /\ shipped \in [LogFiles -> Nat]
  /\ cpc \in {"idle", "list", "retain", "budget"}
  /\ running \in SUBSET Outputs /\ known \in SUBSET Outputs
  /\ files \in SUBSET Entries

\* A job that start has not entered yet was created this hour; a day's log was
\* last written on its day.
WritersInv ==
  /\ \A f \in LogFiles : shipped[f] <= size[f]
  /\ \A j \in Outputs : job[j] = "new" => j \notin dir
  /\ \A j \in Outputs : job[j] = "started" => mtime[j] = hour
  /\ \A d \in Days \cap dir : DayOf(mtime[d]) = d

\* While cleanup runs: a job that had ended when it began is not written to any
\* more, and one that it does not know of was created this hour.
PassInv ==
  cpc # "idle" =>
    /\ began = hour
    /\ \A j \in known \ running : job[j] = "done"
    /\ \A j \in Outputs \ known : job[j] # "new" => mtime[j] = hour

\* What it has found out of a file and what is still true of it.
EntryInv ==
  \A r \in files :
    /\ r.file \in dir /\ r.size <= size[r.file]
    /\ r.file \in known \ running =>
         r.mtime = mtime[r.file] /\ (r.uploaded => shipped[r.file] = size[r.file])
    /\ r.file \in Outputs \ known => r.mtime = hour
    /\ r.file \in Days =>
         DayOf(r.mtime) = r.file /\ (r.file # DayOf(hour) => r.mtime = mtime[r.file])

\* It has found one entry for a file.
OneEntryInv == \A q, r \in files : q.file = r.file => q = r

\* The inductive invariant of Cleanup.
CleanupInv ==
  /\ CleanupTypeOK /\ WritersInv /\ PassInv /\ EntryInv /\ OneEntryInv
  /\ cpc \in {"idle", "list"} => files = {}

\* A file is a job's output or a day's log.
LEMMA OutputsAreNoDays == \A f \in LogFiles : f \in Outputs <=> f \notin Days
BY CleanupAssumption DEF LogFiles, Days

\* There is the log of the first day, and nothing in it.
LEMMA CleanupInitInv == CleanupInit => CleanupInv
<1> SUFFICES ASSUME CleanupInit PROVE CleanupInv
  OBVIOUS
<1>0. 0 \in Days /\ 0 \in LogFiles /\ 0 \notin Outputs
  BY DayFacts, CleanupAssumption DEF LogFiles
<1>1. CleanupTypeOK
  BY <1>0, CleanupAssumption DEF CleanupInit, CleanupTypeOK
<1>2. WritersInv
  <2>1. \A f \in LogFiles : shipped[f] = 0 /\ size[f] = 0 /\ mtime[f] = 0
    BY DEF CleanupInit
  <2>2. \A j \in Outputs : job[j] = "new" /\ j \notin dir
    BY <1>0 DEF CleanupInit
  <2>3. \A d \in Days \cap dir : DayOf(mtime[d]) = d
    BY <1>0, <2>1, DayFacts DEF CleanupInit
  <2>4. QED
    BY <2>1, <2>2, <2>3 DEF WritersInv
<1>3. PassInv /\ EntryInv /\ OneEntryInv /\ files = {}
  BY DEF CleanupInit, PassInv, EntryInv, OneEntryInv
<1>4. QED
  BY <1>1, <1>2, <1>3 DEF CleanupInv

\* Every variable keeps to its type.
LEMMA CleanupTypes == CleanupTypeOK /\ [CleanupNext]_cleanupVars => CleanupTypeOK'
<1> SUFFICES ASSUME CleanupTypeOK, [CleanupNext]_cleanupVars PROVE CleanupTypeOK'
  OBVIOUS
<1> USE DEF CleanupTypeOK, jobVars, cleanVars
<1>0. Outputs \subseteq LogFiles /\ DayOf(hour) \in LogFiles /\ hour \in Nat /\ MaxHours \in Nat
  BY DayFacts, CleanupAssumption DEF LogFiles
<1>1. CASE HourPasses
  BY <1>0, <1>1 DEF HourPasses
<1>2. CASE LogLine
  <2>1. dir' \in SUBSET LogFiles /\ size' \in [LogFiles -> Nat] /\ mtime' \in [LogFiles -> Nat]
    BY <1>0, <1>2 DEF LogLine, WriteTo, DayOf
  <2>2. QED
    BY <1>2, <2>1 DEF LogLine
<1>3. ASSUME NEW j \in Outputs, CreateOutput(j) \/ EnterJob(j) \/ EndJob(j) \/ JobOutput(j)
      PROVE  CleanupTypeOK'
  BY <1>0, <1>3 DEF CreateOutput, EnterJob, EndJob, JobOutput, WriteTo
<1>4. ASSUME NEW f \in LogFiles, Ship(f) PROVE CleanupTypeOK'
  BY <1>4 DEF Ship
<1>5. CASE BeginCleanup
  BY <1>0, <1>5 DEF BeginCleanup, InTable
<1>6. CASE ListFiles
  <2>1. ASSUME NEW f \in dir
        PROVE  [file |-> f, size |-> size[f], mtime |-> mtime[f], uploaded |-> Uploaded(f)] \in Entries
    <3>1. f \in LogFiles /\ size[f] \in Nat /\ mtime[f] \in Nat
      OBVIOUS
    <3>2. Uploaded(f) \in BOOLEAN
      BY DEF Uploaded
    <3>3. QED
      BY <3>1, <3>2, Zenon DEF Entries
  <2>2. files' \in SUBSET Entries
    BY <1>6, <2>1 DEF ListFiles
  <2>3. QED
    BY <1>6, <2>2 DEF ListFiles
<1>7. CASE RetentionPass
  <2>1. dir' \in SUBSET LogFiles
    BY <1>7 DEF RetentionPass, RemoveFiles
  <2>2. QED
    BY <1>7, <2>1 DEF RetentionPass
<1>8. CASE BudgetStep
  <2>1. PICK r \in files :
          /\ RemoveFiles({r.file})
          /\ files' = (files \ {r}) \cup
               (IF r.file \in dir' THEN {[r EXCEPT !.uploaded = FALSE]} ELSE {})
    BY <1>8 DEF BudgetStep
  <2>2. dir' \in SUBSET LogFiles
    BY <2>1 DEF RemoveFiles
  <2>3. [r EXCEPT !.uploaded = FALSE] \in Entries
    BY DEF Entries
  <2>4. files' \in SUBSET Entries
    BY <2>1, <2>3
  <2>5. QED
    BY <1>8, <2>2, <2>4 DEF BudgetStep
<1>9. CASE EndCleanup \/ ListFails
  BY <1>9 DEF EndCleanup, ListFails, CleanupRests
<1>10. CASE UNCHANGED cleanupVars
  BY <1>10 DEF cleanupVars
<1>11. QED
  BY <1>1, <1>2, <1>3, <1>4, <1>5, <1>6, <1>7, <1>8, <1>9, <1>10 DEF CleanupNext, CleanupStep

\* The writers keep what cleanup relies on.
LEMMA CleanupKeepsWriters ==
  CleanupInv /\ [CleanupNext]_cleanupVars => WritersInv'
<1> SUFFICES ASSUME CleanupInv, [CleanupNext]_cleanupVars PROVE WritersInv'
  OBVIOUS
<1> USE DEF jobVars, cleanVars
<1>0. /\ CleanupTypeOK /\ WritersInv /\ hour \in Nat
      /\ Outputs \subseteq LogFiles /\ DayOf(hour) \in Days /\ Days \subseteq LogFiles
      /\ \A j \in Outputs : j \notin Days
  BY DayFacts, OutputsAreNoDays, CleanupAssumption DEF CleanupInv, CleanupTypeOK, LogFiles
<1>1. CASE HourPasses
  BY <1>0, <1>1 DEF HourPasses, WritersInv
<1>2. CASE LogLine
  <2>1. /\ size' = [size EXCEPT ![DayOf(hour)] = @ + 1] /\ mtime' = [mtime EXCEPT ![DayOf(hour)] = hour]
        /\ dir' \subseteq dir \cup {DayOf(hour)} /\ UNCHANGED <<hour, job, shipped>>
    BY <1>2 DEF LogLine, WriteTo, DayOf
  <2>2. QED
    BY <1>0, <2>1 DEF WritersInv, CleanupTypeOK
<1>3. ASSUME NEW j \in Outputs, CreateOutput(j) PROVE WritersInv'
  BY <1>0, <1>3 DEF CreateOutput, WritersInv, CleanupTypeOK
<1>4. ASSUME NEW j \in Outputs, EnterJob(j) \/ EndJob(j) PROVE WritersInv'
  BY <1>0, <1>4 DEF EnterJob, EndJob, WritersInv, CleanupTypeOK
<1>5. ASSUME NEW j \in Outputs, JobOutput(j) PROVE WritersInv'
  BY <1>0, <1>5 DEF JobOutput, WriteTo, WritersInv, CleanupTypeOK
<1>6. ASSUME NEW f \in LogFiles, Ship(f) PROVE WritersInv'
  BY <1>0, <1>6 DEF Ship, WritersInv, CleanupTypeOK
<1>7. CASE CleanupStep
  <2>1. dir' \subseteq dir
    BY <1>7 DEF CleanupStep, BeginCleanup, ListFiles, RetentionPass, ListFails, BudgetStep, EndCleanup,
                CleanupRests, RemoveFiles
  <2>2. UNCHANGED <<hour, job, size, mtime, shipped>>
    BY <1>7 DEF CleanupStep, BeginCleanup, ListFiles, RetentionPass, ListFails, BudgetStep, EndCleanup,
                CleanupRests
  <2>3. QED
    BY <1>0, <2>1, <2>2 DEF WritersInv
<1>8. CASE UNCHANGED cleanupVars
  BY <1>0, <1>8 DEF cleanupVars, WritersInv
<1>9. QED
  BY <1>1, <1>2, <1>3, <1>4, <1>5, <1>6, <1>7, <1>8 DEF CleanupNext

\* Only a job that is in its copy of the table, or that it does not know of, can
\* be written to while cleanup runs.
LEMMA CleanupKeepsPass ==
  CleanupInv /\ [CleanupNext]_cleanupVars => PassInv'
<1> SUFFICES ASSUME CleanupInv, [CleanupNext]_cleanupVars PROVE PassInv'
  OBVIOUS
<1> USE DEF jobVars, cleanVars
<1>0. /\ CleanupTypeOK /\ WritersInv /\ PassInv /\ hour \in Nat
      /\ Outputs \subseteq LogFiles /\ DayOf(hour) \in Days /\ Days \subseteq LogFiles
      /\ \A j \in Outputs : j \notin Days
  BY DayFacts, OutputsAreNoDays, CleanupAssumption DEF CleanupInv, CleanupTypeOK, LogFiles
<1>1. CASE HourPasses
  BY <1>0, <1>1 DEF HourPasses, PassInv
<1>2. CASE LogLine
  <2>1. mtime' = [mtime EXCEPT ![DayOf(hour)] = hour] /\ UNCHANGED <<hour, job, cpc, began, running, known>>
    BY <1>2 DEF LogLine, WriteTo, DayOf
  <2>2. QED
    BY <1>0, <2>1 DEF PassInv, CleanupTypeOK
<1>3. ASSUME NEW j \in Outputs, CreateOutput(j) \/ EnterJob(j) \/ EndJob(j) \/ JobOutput(j)
      PROVE  PassInv'
  BY <1>0, <1>3 DEF CreateOutput, EnterJob, EndJob, JobOutput, Writes, WriteTo, PassInv, CleanupTypeOK
<1>4. ASSUME NEW f \in LogFiles, Ship(f) PROVE PassInv'
  BY <1>0, <1>4 DEF Ship, PassInv
<1>5. CASE BeginCleanup
  BY <1>0, <1>5 DEF BeginCleanup, InTable, PassInv, WritersInv, CleanupTypeOK
<1>6. CASE ListFiles \/ RetentionPass \/ BudgetStep
  <2>1. cpc # "idle" /\ UNCHANGED <<hour, job, mtime, began, running, known>>
    BY <1>6 DEF ListFiles, RetentionPass, BudgetStep
  <2>2. QED
    BY <1>0, <2>1 DEF PassInv
<1>7. CASE EndCleanup \/ ListFails
  BY <1>7 DEF EndCleanup, ListFails, CleanupRests, PassInv
<1>8. CASE UNCHANGED cleanupVars
  BY <1>0, <1>8 DEF cleanupVars, PassInv
<1>9. QED
  BY <1>1, <1>2, <1>3, <1>4, <1>5, <1>6, <1>7, <1>8 DEF CleanupNext, CleanupStep

\* A step of a writer or of the shipper leaves what was found out true.
LEMMA WritersKeepEntries ==
  ASSUME CleanupInv, UNCHANGED <<hour, cleanVars>>, dir \subseteq dir',
         \A f \in LogFiles : size[f] <= size'[f] /\ size'[f] \in Nat,
         \A f \in LogFiles : f \in known \ running =>
           mtime'[f] = mtime[f] /\ (shipped[f] = size[f] => shipped'[f] = size'[f]),
         \A d \in Days : d # DayOf(hour) => mtime'[d] = mtime[d]
  PROVE  EntryInv' /\ OneEntryInv'
<1> USE DEF cleanVars
<1>1. ASSUME NEW r \in files
      PROVE  /\ r.file \in dir' /\ r.size <= size'[r.file]
             /\ r.file \in known \ running =>
                  r.mtime = mtime'[r.file] /\ (r.uploaded => shipped'[r.file] = size'[r.file])
             /\ r.file \in Outputs \ known => r.mtime = hour
             /\ r.file \in Days =>
                  DayOf(r.mtime) = r.file /\ (r.file # DayOf(hour) => r.mtime = mtime'[r.file])
  <2>1. r.file \in LogFiles /\ r.size \in Nat /\ size[r.file] \in Nat
    BY DEF CleanupInv, CleanupTypeOK, Entries
  <2>2. /\ r.file \in dir /\ r.size <= size[r.file]
        /\ r.file \in known \ running =>
             r.mtime = mtime[r.file] /\ (r.uploaded => shipped[r.file] = size[r.file])
        /\ r.file \in Outputs \ known => r.mtime = hour
        /\ r.file \in Days =>
             DayOf(r.mtime) = r.file /\ (r.file # DayOf(hour) => r.mtime = mtime[r.file])
    BY Zenon DEF CleanupInv, EntryInv
  <2>3. r.size <= size'[r.file]
    BY <2>1, <2>2
  <2>4. QED
    BY <2>1, <2>2, <2>3, Zenon
<1>2. EntryInv'
  BY <1>1, Zenon DEF EntryInv
<1>3. OneEntryInv'
  BY DEF CleanupInv, OneEntryInv
<1>4. QED
  BY <1>2, <1>3

\* The list is true of what it was made from, and the passes strike out what
\* they remove.
LEMMA CleanupKeepsEntries ==
  CleanupInv /\ [CleanupNext]_cleanupVars => EntryInv' /\ OneEntryInv'
<1> SUFFICES ASSUME CleanupInv, [CleanupNext]_cleanupVars PROVE EntryInv' /\ OneEntryInv'
  OBVIOUS
<1> USE DEF jobVars, cleanVars
<1>0. /\ CleanupTypeOK /\ WritersInv /\ PassInv /\ EntryInv /\ OneEntryInv /\ hour \in Nat
      /\ Outputs \subseteq LogFiles /\ DayOf(hour) \in Days /\ Days \subseteq LogFiles
      /\ \A j \in Outputs : j \notin Days
      /\ cpc \in {"idle", "list"} => files = {}
  BY DayFacts, OutputsAreNoDays, CleanupAssumption DEF CleanupInv, CleanupTypeOK, LogFiles
<1>a. /\ files # {} => \A j \in known \ running : job[j] = "done"
      /\ known \subseteq Outputs
  BY <1>0 DEF PassInv, CleanupTypeOK
<1>1. CASE files = {} /\ files' = {}
  BY <1>1 DEF EntryInv, OneEntryInv
<1>2. CASE LogLine
  <2>1. /\ size' = [size EXCEPT ![DayOf(hour)] = @ + 1] /\ mtime' = [mtime EXCEPT ![DayOf(hour)] = hour]
        /\ dir \subseteq dir' /\ UNCHANGED <<hour, job, shipped, cleanVars>>
    BY <1>2 DEF LogLine, WriteTo, DayOf
  <2>2. QED
    BY <1>0, <1>a, <2>1, WritersKeepEntries DEF CleanupTypeOK
<1>3. ASSUME NEW j \in Outputs, CreateOutput(j) \/ EnterJob(j) \/ EndJob(j) \/ JobOutput(j)
      PROVE  EntryInv' /\ OneEntryInv'
  <2>1. /\ UNCHANGED <<hour, shipped, cleanVars>> /\ dir \subseteq dir'
        /\ \A f \in LogFiles : size[f] <= size'[f] /\ size'[f] \in Nat
        /\ \A f \in LogFiles \ {j} : mtime'[f] = mtime[f] /\ size'[f] = size[f]
        /\ job[j] # "done"
    BY <1>0, <1>3 DEF CreateOutput, EnterJob, EndJob, JobOutput, Writes, WriteTo, CleanupTypeOK
  <2>2. CASE files # {}
    <3>1. j \notin known \ running /\ j \notin Days
      BY <1>0, <1>a, <2>1, <2>2
    <3>2. QED
      BY <1>0, <2>1, <3>1, WritersKeepEntries
  <2>3. CASE files = {}
    BY <2>1, <2>3, <1>1
  <2>4. QED
    BY <2>2, <2>3
<1>4. ASSUME NEW f \in LogFiles, Ship(f) PROVE EntryInv' /\ OneEntryInv'
  <2>1. /\ UNCHANGED <<hour, dir, size, mtime, cleanVars>>
        /\ \A g \in LogFiles : shipped[g] = size[g] => shipped'[g] = size[g]
        /\ \A g \in LogFiles : size[g] \in Nat
    BY <1>4 , <1>0 DEF Ship, CleanupTypeOK
  <2>2. QED
    BY <1>0, <2>1, WritersKeepEntries
<1>5. CASE HourPasses \/ BeginCleanup \/ EndCleanup \/ ListFails
  BY <1>0, <1>1, <1>5 DEF HourPasses, BeginCleanup, EndCleanup, ListFails, CleanupRests, EntryInv, OneEntryInv
<1>6. CASE ListFiles
  <2>1. ASSUME NEW r \in files'
        PROVE  /\ r.file \in dir /\ r.size = size[r.file] /\ r.mtime = mtime[r.file]
               /\ r.uploaded => shipped[r.file] >= size[r.file]
    <3>1. PICK f \in dir :
            r = [file |-> f, size |-> size[f], mtime |-> mtime[f], uploaded |-> Uploaded(f)]
      BY <1>6, <2>1 DEF ListFiles
    <3>2. r.file = f /\ r.size = size[f] /\ r.mtime = mtime[f] /\ r.uploaded = Uploaded(f)
      BY <3>1, Zenon
    <3>3. QED
      BY <3>2, Zenon DEF Uploaded
  <2>2. OneEntryInv'
    BY <1>6 DEF ListFiles, OneEntryInv
  <2>3. UNCHANGED <<hour, dir, size, mtime, shipped, running, known, job>> /\ cpc # "idle"
    BY <1>6 DEF ListFiles
  <2>4. \A f \in dir : f \in LogFiles /\ size[f] \in Nat /\ shipped[f] \in Nat /\ shipped[f] <= size[f]
    BY <1>0 DEF CleanupTypeOK, WritersInv
  <2>5. \A f \in Outputs \ known : f \in dir => mtime[f] = hour
    <3>1. \A f \in Outputs : f \in dir => job[f] # "new"
      BY <1>0 DEF WritersInv
    <3>2. QED
      BY <1>0, <2>3, <3>1 DEF PassInv
  <2>6. \A d \in Days : d \in dir => DayOf(mtime[d]) = d
    BY <1>0 DEF WritersInv
  <2>7. ASSUME NEW r \in files'
        PROVE  /\ r.file \in dir /\ r.size <= size[r.file]
               /\ r.file \in known \ running =>
                    r.mtime = mtime[r.file] /\ (r.uploaded => shipped[r.file] = size[r.file])
               /\ r.file \in Outputs \ known => r.mtime = hour
               /\ r.file \in Days =>
                    DayOf(r.mtime) = r.file /\ (r.file # DayOf(hour) => r.mtime = mtime[r.file])
    <3>1. r.size <= size[r.file] /\ (r.uploaded => shipped[r.file] = size[r.file])
      BY <2>1, <2>4
    <3>2. QED
      BY <3>1, <2>1, <2>5, <2>6, Zenon
  <2>8. EntryInv'
    BY <2>3, <2>7 DEF EntryInv
  <2>9. QED
    BY <2>2, <2>8
<1>7. CASE RetentionPass
  <2>1. /\ files' \subseteq files /\ \A r \in files' : r.file \in dir'
        /\ UNCHANGED <<hour, size, mtime, shipped, running, known>>
    BY <1>7 DEF RetentionPass
  <2>2. QED
    BY <1>0, <2>1 DEF EntryInv, OneEntryInv
<1>8. CASE BudgetStep
  <2>1. PICK r \in files :
          /\ RemoveFiles({r.file})
          /\ files' = (files \ {r}) \cup
               (IF r.file \in dir' THEN {[r EXCEPT !.uploaded = FALSE]} ELSE {})
    BY <1>8 DEF BudgetStep
  <2>2. UNCHANGED <<hour, size, mtime, shipped, running, known>>
    BY <1>8 DEF BudgetStep
  <2>3. \A f \in dir : f # r.file => f \in dir'
    BY <2>1 DEF RemoveFiles
  <2>4. ASSUME NEW q \in files'
        PROVE  \/ q \in files /\ q # r
               \/ /\ r.file \in dir' /\ q.file = r.file /\ q.size = r.size /\ q.mtime = r.mtime
                  /\ ~q.uploaded /\ q = [r EXCEPT !.uploaded = FALSE]
    <3>1. r \in Entries
      BY <1>0 DEF CleanupTypeOK
    <3>2. QED
      BY <2>1, <2>4, <3>1 DEF Entries
  <2>5. \A q \in files : q # r => q.file # r.file
    BY <1>0 DEF OneEntryInv
  <2>6. EntryInv'
    <3>1. ASSUME NEW q \in files'
          PROVE  /\ q.file \in dir' /\ q.size <= size[q.file]
                 /\ q.file \in known \ running =>
                      q.mtime = mtime[q.file] /\ (q.uploaded => shipped[q.file] = size[q.file])
                 /\ q.file \in Outputs \ known => q.mtime = hour
                 /\ q.file \in Days =>
                      DayOf(q.mtime) = q.file /\ (q.file # DayOf(hour) => q.mtime = mtime[q.file])
      <4>1. CASE q \in files /\ q # r
        BY <1>0, <2>3, <2>5, <4>1 DEF EntryInv
      <4>2. CASE /\ r.file \in dir' /\ q.file = r.file /\ q.size = r.size /\ q.mtime = r.mtime
                 /\ ~q.uploaded
        BY <1>0, <4>2 DEF EntryInv
      <4>3. QED
        BY <2>4, <4>1, <4>2
    <3>2. QED
      BY <2>2, <3>1 DEF EntryInv
  <2>7. OneEntryInv'
    <3>1. ASSUME NEW p \in files', NEW q \in files', p.file = q.file PROVE p = q
      BY <2>4, <2>5, <3>1, <1>0 DEF OneEntryInv
    <3>2. QED
      BY <3>1 DEF OneEntryInv
  <2>8. QED
    BY <2>6, <2>7
<1>9. CASE UNCHANGED cleanupVars
  BY <1>0, <1>9 DEF cleanupVars, EntryInv, OneEntryInv
<1>10. QED
  BY <1>2, <1>3, <1>4, <1>5, <1>6, <1>7, <1>8, <1>9 DEF CleanupNext, CleanupStep

\* So the invariant holds for ever.
LEMMA CleanupInvHolds == CleanupSpec => []CleanupInv
<1>1. CleanupInv /\ [CleanupNext]_cleanupVars => (cpc \in {"idle", "list"} => files = {})'
  <2> SUFFICES ASSUME CleanupInv, [CleanupNext]_cleanupVars PROVE (cpc \in {"idle", "list"} => files = {})'
    OBVIOUS
  <2>1. CASE CleanupStep
    BY <2>1 DEF CleanupStep, BeginCleanup, ListFiles, RetentionPass, ListFails, BudgetStep, EndCleanup,
                CleanupRests
  <2>2. CASE UNCHANGED cleanVars
    BY <2>2 DEF cleanVars, CleanupInv
  <2>3. [CleanupNext]_cleanupVars => CleanupStep \/ UNCHANGED cleanVars
    BY DEF CleanupNext, cleanupVars, HourPasses, LogLine, CreateOutput, EnterJob, EndJob, JobOutput, Ship
  <2>4. QED
    BY <2>1, <2>2, <2>3
<1>2. CleanupInv /\ [CleanupNext]_cleanupVars => CleanupInv'
  BY <1>1, CleanupTypes, CleanupKeepsWriters, CleanupKeepsPass, CleanupKeepsEntries DEF CleanupInv
<1>3. QED
  BY <1>2, CleanupInitInv, PTL DEF CleanupSpec

\* What a cleanup removes, decided from sizes and markers that are stale by then:
\* output of a job that was started before it began goes only after all of it was
\* sent and the job has ended; and a file goes only when it is as old as the
\* retention, or while what is on the cleanup's list is over the budget.
RemovedFromTheList ==
  [][\A f \in LogFiles : Removed(f) =>
       /\ f \in known => ~Writes(f) /\ shipped[f] = size[f]
       /\ hour - mtime[f] >= Retention \/ (cpc = "budget" /\ Total > MaxTotal)]_cleanupVars

\* The list never has more bytes than the directory: every entry on it is of a
\* file of its own that is still there, and has at most that file's size.
ListUnderstates ==
  /\ \A r \in files : r.file \in dir /\ r.size <= size[r.file]
  /\ \A q, r \in files : q.file = r.file => q = r

\* The removals of RetentionPass and BudgetStep (jobs.rs cleanup), although jobs
\* start, write and end between the listing and a removal. A log of today is
\* never as old as the retention, and neither is the output of a job that was
\* not in the table when the cleanup began.
THEOREM CleanupRemovesRightly == CleanupSpec => RemovedFromTheList
<1> DEFINE Right ==
      \A f \in LogFiles : Removed(f) =>
        /\ f \in known => ~Writes(f) /\ shipped[f] = size[f]
        /\ hour - mtime[f] >= Retention \/ (cpc = "budget" /\ Total > MaxTotal)
<1>1. ASSUME CleanupInv, CleanupNext PROVE Right
  <2> SUFFICES ASSUME NEW f \in LogFiles, Removed(f)
               PROVE  /\ f \in known => ~Writes(f) /\ shipped[f] = size[f]
                      /\ hour - mtime[f] >= Retention \/ (cpc = "budget" /\ Total > MaxTotal)
    OBVIOUS
  <2>0. /\ CleanupTypeOK /\ PassInv /\ EntryInv
        /\ DayLength \in Nat \ {0} /\ Retention \in Nat /\ Retention >= DayLength
        /\ hour \in Nat /\ mtime[f] \in Nat
    BY <1>1, CleanupAssumption DEF CleanupInv, CleanupTypeOK
  \* Only the two passes remove anything, and only what is on the list.
  <2>1. \/ /\ RetentionPass
           /\ \E r \in files : r.file = f /\ Removable(r) /\ began - r.mtime >= Retention
        \/ /\ BudgetStep /\ \E r \in files : r.file = f /\ Removable(r)
    <3>1. RetentionPass \/ BudgetStep
      BY <1>1 DEF CleanupNext, CleanupStep, Removed, HourPasses, LogLine, CreateOutput, EnterJob, EndJob,
             JobOutput, Ship, BeginCleanup, ListFiles, ListFails, EndCleanup, jobVars, cleanVars
    <3>2. CASE RetentionPass
      BY <3>2 DEF RetentionPass, RemoveFiles, Removed
    <3>3. CASE BudgetStep
      BY <3>3 DEF BudgetStep, RemoveFiles, Removed
    <3>4. QED
      BY <3>1, <3>2, <3>3
  <2>2. cpc \in {"retain", "budget"} /\ began = hour /\ \A j \in known \ running : job[j] = "done"
    BY <2>0, <2>1 DEF RetentionPass, BudgetStep, PassInv
  <2>3. f \in known => ~Writes(f) /\ shipped[f] = size[f]
    <3>1. SUFFICES ASSUME f \in known PROVE ~Writes(f) /\ shipped[f] = size[f]
      OBVIOUS
    <3>2. PICK r \in files : r.file = f /\ Removable(r)
      BY <2>1
    <3>3. f \notin running /\ r.uploaded
      BY <3>2, Zenon DEF Removable
    <3>4. QED
      BY <2>0, <2>2, <3>1, <3>2, <3>3 DEF EntryInv, Writes
  <2>4. CASE BudgetStep
    BY <2>3, <2>4 DEF BudgetStep
  <2>5. CASE \E r \in files : r.file = f /\ Removable(r) /\ began - r.mtime >= Retention
    <3>1. PICK r \in files : r.file = f /\ Removable(r) /\ hour - r.mtime >= Retention
      BY <2>2, <2>5
    <3>2. r.mtime \in Nat /\ r.file \notin running
      BY <2>0, <3>1 DEF CleanupTypeOK, Entries, Removable
    <3>3. CASE f \in known
      BY <2>0, <2>3, <3>1, <3>2, <3>3 DEF EntryInv
    <3>4. CASE f \in Outputs \ known
      BY <2>0, <3>1, <3>2, <3>4 DEF EntryInv
    <3>5. CASE f \in Days
      <4>1. DayOf(r.mtime) = f /\ (f # DayOf(hour) => r.mtime = mtime[f])
        BY <2>0, <3>1, <3>5 DEF EntryInv
      <4>2. f # DayOf(hour)
        BY <2>0, <3>1, <3>2, <4>1, DayFacts
      <4>3. QED
        BY <2>3, <3>1, <4>1, <4>2
    <3>6. QED
      BY <3>3, <3>4, <3>5 DEF LogFiles
  <2>6. QED
    BY <2>1, <2>4, <2>5
<1>2. CleanupInv /\ [CleanupNext]_cleanupVars => [Right]_cleanupVars
  BY <1>1
<1>3. QED
  BY <1>2, CleanupInvHolds, PTL DEF CleanupSpec, RemovedFromTheList

\* So what cleanup takes for the usage is at most the usage: the listing of
\* ListFiles is only ever too small, by what was written since.
THEOREM CleanupNeverOvercounts == CleanupSpec => []ListUnderstates
<1>1. CleanupInv => ListUnderstates
  BY DEF CleanupInv, EntryInv, OneEntryInv, ListUnderstates
<1>2. QED
  BY <1>1, CleanupInvHolds, PTL
===============================================================================
