----------------------------- MODULE Transfer -----------------------------
(***************************************************************************)
(* push_file and pull_file: the chunk objects of a transfer under          *)
(* blob/<agent>/<transfer>/, the controller's side (controller main.rs     *)
(* push, pull) and the agent's side (executor.rs push_blob, pull_blob),    *)
(* and the command that hands the transfer over. What the command does is  *)
(* taken from CommandDelivery, the abstract specification that Mailbox     *)
(* implements: Run, End and Report are its actions.                        *)
(*                                                                         *)
(* A transfer id is new for each call, so transfers share nothing. A side  *)
(* that assembles reads chunk after chunk; one that stages uploads them in *)
(* any order.                                                              *)
(***************************************************************************)
EXTENDS CommandDelivery, FiniteSets

CONSTANTS
  Pushes,     \* the commands that are PushBlob; the others are PullBlob
  Count,      \* number of chunks of a file
  MaxFaults   \* bound: failing requests, rejections and dying processes

ASSUME ConstantsAssumption ==
  /\ Pushes \subseteq Cmds
  /\ Count \in Nat \ {0}
  /\ MaxFaults \in Nat

Chunks == 0..(Count - 1)

VARIABLES
  bucket,    \* bucket[t]: chunks of t that are stored
  late,      \* late[t]: aborted uploads that may still take effect
  ctl,       \* ctl[t]: where the controller's call is
  agent,     \* agent[t]: where the agent's executor is
  got,       \* got[t]: chunks in the temporary file
  result,    \* result[t]: whether the agent's response says ok
  written,   \* written[t]: chunks in the file renamed over the destination, or 0
  reported,  \* reported[t]: what the tool call returned
  mishap,    \* history: a process died, a delete failed, a late upload landed, or
             \* pull gave up before its cleanup
  faults

transferVars == <<bucket, late, ctl, agent, got, result, written, reported, mishap, faults>>
vars == <<deliveryVars, transferVars>>

TransferInit ==
  /\ bucket = [t \in Cmds |-> {}]
  /\ late = [t \in Cmds |-> {}]
  /\ ctl = [t \in Cmds |-> IF t \in Pushes THEN "stage" ELSE "relay"]
  /\ agent = [t \in Cmds |-> "idle"]
  /\ got = [t \in Cmds |-> 0]
  /\ result = [t \in Cmds |-> FALSE]
  /\ written = [t \in Cmds |-> 0]
  /\ reported = [t \in Cmds |-> "none"]
  /\ mishap = [t \in Cmds |-> FALSE]
  /\ faults = 0

Init == DeliveryInit /\ TransferInit

Fault == faults < MaxFaults /\ faults' = faults + 1
Pull(t) == t \in Cmds \ Pushes

\* The side that stages and the side that assembles.
Staging(t) == (t \in Pushes /\ ctl[t] = "stage") \/ (Pull(t) /\ agent[t] = "stage")
Assembling(t) == (t \in Pushes /\ agent[t] = "fetch") \/ (Pull(t) /\ ctl[t] = "fetch")

--------------------------------------------------------------------------
(* Staging: stage_file on the controller (push) or the agent (pull).       *)

StageChunk(t) ==
  /\ Staging(t)
  /\ \E i \in Chunks \ bucket[t] : bucket' = [bucket EXCEPT ![t] = @ \cup {i}]
  /\ UNCHANGED <<deliveryVars, late, ctl, agent, got, result, written, reported, mishap,
                 faults>>

\* An upload or a read fails; the rest is aborted, which cannot recall what was
\* sent, and the caller deletes the chunks.
StageFails(t) ==
  /\ Staging(t) /\ Fault
  /\ \E sent \in SUBSET (Chunks \ bucket[t]) : late' = [late EXCEPT ![t] = sent]
  /\ IF t \in Pushes
     THEN /\ ctl' = [ctl EXCEPT ![t] = "clean"]
          /\ reported' = [reported EXCEPT ![t] = "error"]
          /\ UNCHANGED agent
     ELSE agent' = [agent EXCEPT ![t] = "clean"] /\ UNCHANGED <<ctl, reported>>
  /\ UNCHANGED <<deliveryVars, bucket, got, result, written, mishap>>

LateChunk(t) ==
  /\ \E i \in late[t] :
       /\ late' = [late EXCEPT ![t] = @ \ {i}]
       /\ \/ /\ bucket' = [bucket EXCEPT ![t] = @ \cup {i}]
             /\ mishap' = [mishap EXCEPT ![t] = TRUE]
          \/ UNCHANGED <<bucket, mishap>>
  /\ UNCHANGED <<deliveryVars, ctl, agent, got, result, written, reported, faults>>

\* Every chunk is up: push sends its command, pull_blob answers BlobStaged.
Staged(t) ==
  /\ Staging(t) /\ bucket[t] = Chunks
  /\ IF t \in Pushes
     THEN ctl' = [ctl EXCEPT ![t] = "relay"] /\ UNCHANGED <<agent, result>>
     ELSE /\ agent' = [agent EXCEPT ![t] = "answer"]
          /\ result' = [result EXCEPT ![t] = TRUE]
          /\ UNCHANGED ctl
  /\ UNCHANGED <<deliveryVars, bucket, late, got, written, reported, mishap, faults>>

--------------------------------------------------------------------------
(* Assembling: assemble_file on the agent (push) or the controller (pull). *)

FetchChunk(t) ==
  /\ Assembling(t) /\ got[t] < Count /\ got[t] \in bucket[t]
  /\ got' = [got EXCEPT ![t] = @ + 1]
  /\ UNCHANGED <<deliveryVars, bucket, late, ctl, agent, result, written, reported, mishap,
                 faults>>

\* assemble_file returns ok or not. push_blob deletes the chunks only after
\* success; pull deletes them either way.
AssembleEnds(t, ok) ==
  IF t \in Pushes
  THEN /\ agent' = [agent EXCEPT ![t] = IF ok THEN "clean" ELSE "answer"]
       /\ result' = [result EXCEPT ![t] = ok]
       /\ UNCHANGED <<ctl, reported>>
  ELSE /\ ctl' = [ctl EXCEPT ![t] = "clean"]
       /\ reported' = [reported EXCEPT ![t] = IF ok THEN "ok" ELSE "error"]
       /\ UNCHANGED <<agent, result>>

\* Mutant: the file is renamed into place before the chunks are complete.
AnyLength(t) == TRUE

\* total_bytes and sha256 of the manifest: all chunks, in order.
Complete(t) == got[t] = Count

\* The hash matches and the file is renamed into place.
Assembled(t) ==
  /\ Assembling(t) /\ Complete(t)
  /\ written' = [written EXCEPT ![t] = got[t]]
  /\ AssembleEnds(t, TRUE)
  /\ UNCHANGED <<deliveryVars, bucket, late, got, mishap, faults>>

\* A chunk is missing, or a request or a write fails.
AssembleFails(t) ==
  /\ Assembling(t)
  /\ (got[t] < Count /\ got[t] \notin bucket[t] /\ UNCHANGED faults) \/ Fault
  /\ AssembleEnds(t, FALSE)
  /\ UNCHANGED <<deliveryVars, bucket, late, got, written, mishap>>

\* pull cannot create the local directory, and returns before its cleanup.
NoDirectory(t) ==
  /\ Pull(t) /\ ctl[t] = "fetch" /\ got[t] = 0 /\ Fault
  /\ ctl' = [ctl EXCEPT ![t] = "over"]
  /\ reported' = [reported EXCEPT ![t] = "error"]
  /\ mishap' = [mishap EXCEPT ![t] = TRUE]
  /\ UNCHANGED <<deliveryVars, bucket, late, agent, got, result, written>>

--------------------------------------------------------------------------
(* delete_blob: lists the prefix and deletes; errors are only logged.      *)

DeleteBlob(t) ==
  \/ bucket' = [bucket EXCEPT ![t] = {}] /\ UNCHANGED <<mishap, faults>>
  \/ /\ Fault
     /\ \E left \in SUBSET bucket[t] : bucket' = [bucket EXCEPT ![t] = left]
     /\ mishap' = [mishap EXCEPT ![t] = TRUE]

ControllerCleans(t) ==
  /\ ctl[t] = "clean"
  /\ DeleteBlob(t)
  /\ ctl' = [ctl EXCEPT ![t] = "over"]
  /\ UNCHANGED <<deliveryVars, late, agent, got, result, written, reported>>

AgentCleans(t) ==
  /\ agent[t] = "clean"
  /\ DeleteBlob(t)
  /\ agent' = [agent EXCEPT ![t] = "answer"]
  /\ UNCHANGED <<deliveryVars, late, ctl, got, result, written, reported>>

--------------------------------------------------------------------------
(* The command, with the promises of CommandDelivery.                      *)

\* The agent begins, and policy or size may reject the transfer at once.
Begin(t) ==
  /\ ctl[t] \in {"relay", "gone"} \/ verdict[t] = "unknown"
  /\ Run(t)
  /\ \/ /\ agent' = [agent EXCEPT ![t] = IF t \in Pushes THEN "fetch" ELSE "stage"]
        /\ UNCHANGED faults
     \/ agent' = [agent EXCEPT ![t] = "answer"] /\ Fault
  /\ UNCHANGED <<bucket, late, ctl, got, result, written, reported, mishap>>

Answer(t) ==
  /\ agent[t] = "answer"
  /\ End(t)
  /\ agent' = [agent EXCEPT ![t] = "over"]
  /\ UNCHANGED <<bucket, late, ctl, got, result, written, reported, mishap, faults>>

\* Mutant: push tidies up after a timeout as well.
CleansAfterDoubt(t, v) == IF v = "ok" THEN "over" ELSE "clean"

\* Mutant: push leaves the chunks to the agent even when it rejected them.
LeavesRejected(t, v) == "over"

\* What push does next: the agent deleted what it has taken, chunks it rejected
\* are deleted here, and a timeout or an error leaves them alone.
PushNext(t, v) == IF v \in {"failed", "refused"} THEN "clean" ELSE "over"

\* What pull does next: nothing to clean unless there is something to fetch.
PullNext(t, v) == IF v = "ok" THEN "fetch" ELSE "over"

Returned(t) ==
  /\ ctl[t] = "relay"
  /\ \E v \in Verdicts \ {"none"} :
       /\ v \in {"ok", "failed"} => v = (IF result[t] THEN "ok" ELSE "failed")
       /\ Report(t, v)
       /\ ctl' = [ctl EXCEPT ![t] = IF t \in Pushes THEN PushNext(t, v) ELSE PullNext(t, v)]
       /\ reported' = [reported EXCEPT ![t] =
            IF v # "ok" THEN "error" ELSE IF t \in Pushes THEN "ok" ELSE "none"]
  /\ UNCHANGED <<bucket, late, agent, got, result, written, mishap, faults>>

\* A process dies; a command it had sent is still there.
SideDies(t) ==
  /\ Fault
  /\ \/ agent[t] \notin {"idle", "over"}
        /\ agent' = [agent EXCEPT ![t] = "over"] /\ UNCHANGED <<ctl, reported>>
     \/ /\ ctl[t] \notin {"over", "gone"}
        /\ ctl' = [ctl EXCEPT ![t] = IF ctl[t] = "relay" THEN "gone" ELSE "over"]
        /\ reported' = [reported EXCEPT ![t] = "error"]
        /\ UNCHANGED agent
  /\ mishap' = [mishap EXCEPT ![t] = TRUE]
  /\ UNCHANGED <<deliveryVars, bucket, late, got, result, written>>

AgentStep(t) == Begin(t) \/ Answer(t) \/ AgentCleans(t)
ControllerStep(t) == Returned(t) \/ ControllerCleans(t)
CopyStep(t) == StageChunk(t) \/ Staged(t) \/ FetchChunk(t) \/ Assembled(t) \/ AssembleFails(t)

Next ==
  \E t \in Cmds :
    AgentStep(t) \/ ControllerStep(t) \/ CopyStep(t) \/ StageFails(t) \/ LateChunk(t)
      \/ NoDirectory(t) \/ SideDies(t)

Spec == Init /\ [][Next]_vars

\* Both sides go on with what they are doing, and the controller's wait ends; a
\* command need not be picked up.
Fairness ==
  \A t \in Cmds : /\ WF_vars(CopyStep(t)) /\ WF_vars(ControllerStep(t))
                  /\ WF_vars(Answer(t)) /\ WF_vars(AgentCleans(t))
FairSpec == Spec /\ Fairness

--------------------------------------------------------------------------
(* Properties.                                                             *)

TransferTypeOK ==
  /\ DeliveryTypeOK
  /\ bucket \in [Cmds -> SUBSET Chunks] /\ late \in [Cmds -> SUBSET Chunks]
  /\ ctl \in [Cmds -> {"stage", "relay", "fetch", "clean", "over", "gone"}]
  /\ agent \in [Cmds -> {"idle", "stage", "fetch", "clean", "answer", "over"}]
  /\ got \in [Cmds -> 0..Count]
  /\ result \in [Cmds -> BOOLEAN]
  /\ written \in [Cmds -> 0..Count]
  /\ reported \in [Cmds -> {"none", "ok", "error"}]
  /\ mishap \in [Cmds -> BOOLEAN]
  /\ faults \in 0..MaxFaults

\* "Deleting chunks would corrupt a transfer that is about to succeed": while
\* one side assembles, all chunks are there, whatever the other side was told.
NothingPulledAway == \A t \in Cmds : Assembling(t) => bucket[t] = Chunks

\* A tool call that returns success found the whole file renamed into place on
\* the other machine, or here, and no failure or rejection is taken for it.
OkMeansWritten ==
  \A t \in Cmds : /\ reported[t] = "ok" => written[t] = Count
                  /\ written[t] \in {0, Count}

\* Who may still need the chunks of a push: the agent that reads them, and an
\* agent that may begin later. What it rests on is the promise of the relay:
\* nothing begins after "refused" or "timeout", and "failed" comes after the end.
PushInv ==
  \A t \in Pushes :
    /\ agent[t] = "fetch" => bucket[t] = Chunks
    /\ runs[t] = 0 /\ (ctl[t] \in {"relay", "gone"} \/ verdict[t] = "unknown")
         => bucket[t] = Chunks
    /\ ctl[t] = "stage" => verdict[t] = "none" /\ runs[t] = 0
    /\ ctl[t] = "clean" => agent[t] \in {"idle", "over"} /\ verdict[t] # "unknown"
    /\ ctl[t] # "fetch" /\ agent[t] # "stage"
    /\ result[t] => written[t] = Count

\* The chunks of a pull stay from the agent's BlobStaged to the controller's
\* own cleanup.
PullInv ==
  \A t \in Cmds \ Pushes :
    /\ result[t] /\ ctl[t] \in {"relay", "fetch"} => bucket[t] = Chunks
    /\ ctl[t] = "fetch" => result[t]
    /\ agent[t] \in {"idle", "stage", "clean"} => ~result[t]
    /\ ctl[t] # "stage" /\ agent[t] # "fetch"

TransferInv ==
  /\ TransferTypeOK /\ PushInv /\ PullInv /\ OkMeansWritten
  /\ \A t \in Cmds : /\ agent[t] = "idle" <=> runs[t] = 0
                     /\ t \in done => agent[t] = "over"

\* "Chunks are deleted on success and on failure", to the extent it holds: what
\* stays in the bucket for good belongs to a transfer that timed out or whose
\* call broke, or to one where a process died, a delete failed, an aborted
\* upload arrived late or pull could not create the local directory.
ChunksAreDeleted ==
  \A t \in Cmds :
    <>[](bucket[t] # {} => verdict[t] \in {"timeout", "unknown"} \/ mishap[t])
==========================================================================
