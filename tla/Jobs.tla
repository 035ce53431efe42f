------------------------------- MODULE Jobs -------------------------------
(***************************************************************************)
(* Detached jobs of one agent (jobs.rs JobManager, executor.rs start_job): *)
(* the job table behind its mutex, the process of each job, and the        *)
(* supervisor task that races the exit of the process against max_runtime  *)
(* and a cancel. The command loop, the supervisors and the waiter tasks    *)
(* run in parallel; a step is what happens between two locks or awaits.    *)
(*                                                                         *)
(* The agent's own death takes the children along (the service manager     *)
(* ends the control group); the table is lost with it.                     *)
(***************************************************************************)
EXTENDS Integers, FiniteSets

CONSTANTS
  JobIds,     \* job ids, each named by at most one start_job at a time
  NoJob,      \* "no start_job is under way"
  Endless,    \* jobs whose process does not exit by itself
  Unlimited,  \* jobs whose max_runtime is beyond what the run looks at
  Retained,   \* FINISHED_RETAINED
  MaxNow,     \* bound: the clock stops here
  MaxDeaths   \* bound: how often the agent dies

ASSUME ConstantsAssumption ==
  /\ NoJob \notin JobIds /\ IsFiniteSet(JobIds)
  /\ Endless \subseteq JobIds /\ Unlimited \subseteq JobIds
  /\ Retained \in Nat /\ MaxNow \in Nat /\ MaxDeaths \in Nat

Terminal == {"succeeded", "failed", "timed_out", "cancelled"}

VARIABLES
  now, deaths,
  starting,   \* the job whose start is between the spawn and the insert
  table,      \* table[j]: state of the entry of j, "absent" if there is none
  finishedAt, \* finished_at of the entry
  sender,     \* jobs whose entry still holds the cancel sender
  signalled,  \* jobs whose cancel sender was used
  sup,        \* sup[j]: "none", "select", or the outcome about to be recorded
  waiter,     \* waiter[j]: "none", "wait" or "abort"
  proc        \* proc[j]: "none", "alive" or "exited"

vars == <<now, deaths, starting, table, finishedAt, sender, signalled, sup, waiter, proc>>

Init ==
  /\ now = 0 /\ deaths = 0 /\ starting = NoJob
  /\ table = [j \in JobIds |-> "absent"]
  /\ finishedAt = [j \in JobIds |-> 0]
  /\ sender = {} /\ signalled = {}
  /\ sup = [j \in JobIds |-> "none"]
  /\ waiter = [j \in JobIds |-> "none"]
  /\ proc = [j \in JobIds |-> "none"]

\* start: an id that is in the table is refused; files are created and the
\* process is spawned before the table knows of it. (A failure up to the spawn
\* leaves only empty output files.)
SpawnJob(j) ==
  /\ starting = NoJob
  /\ table[j] = "absent" /\ proc[j] = "none"
  /\ starting' = j
  /\ proc' = [proc EXCEPT ![j] = "alive"]
  /\ UNCHANGED <<now, deaths, table, finishedAt, sender, signalled, sup, waiter>>

\* start: the entry, then the supervisor task and the waiter task it owns.
InsertJob(j) ==
  /\ starting = j
  /\ starting' = NoJob
  /\ table' = [table EXCEPT ![j] = "running"]
  /\ sender' = sender \cup {j}
  /\ sup' = [sup EXCEPT ![j] = "select"]
  /\ waiter' = [waiter EXCEPT ![j] = "wait"]
  /\ UNCHANGED <<now, deaths, finishedAt, signalled, proc>>

\* The process exits on its own.
Exit(j) ==
  /\ proc[j] = "alive" /\ j \notin Endless
  /\ proc' = [proc EXCEPT ![j] = "exited"]
  /\ UNCHANGED <<now, deaths, starting, table, finishedAt, sender, signalled, sup, waiter>>

\* select!: the waiter has the exit status.
SelectExit(j) ==
  /\ sup[j] = "select" /\ waiter[j] = "wait" /\ proc[j] = "exited"
  /\ \E outcome \in {"succeeded", "failed"} : sup' = [sup EXCEPT ![j] = outcome]
  /\ waiter' = [waiter EXCEPT ![j] = "none"]
  /\ UNCHANGED <<now, deaths, starting, table, finishedAt, sender, signalled, proc>>

\* Mutant: the supervisor lets go of the waiter without aborting it.
DetachWaiter(j) == UNCHANGED waiter

\* waiter.abort() asks the task to stop; it is dropped later.
AbortWaiter(j) == waiter' = [waiter EXCEPT ![j] = "abort"]

\* select!: max_runtime has passed.
SelectTimeout(j) ==
  /\ sup[j] = "select" /\ j \notin Unlimited
  /\ AbortWaiter(j)
  /\ sup' = [sup EXCEPT ![j] = "timed_out"]
  /\ UNCHANGED <<now, deaths, starting, table, finishedAt, sender, signalled, proc>>

\* select!: the cancel channel fired. With the exit ready as well, either
\* branch may be taken.
SelectCancel(j) ==
  /\ sup[j] = "select" /\ j \in signalled
  /\ AbortWaiter(j)
  /\ sup' = [sup EXCEPT ![j] = "cancelled"]
  /\ UNCHANGED <<now, deaths, starting, table, finishedAt, sender, signalled, proc>>

\* The aborted waiter drops the Child: kill_on_drop.
DropChild(j) ==
  /\ waiter[j] = "abort"
  /\ waiter' = [waiter EXCEPT ![j] = "none"]
  /\ proc' = [proc EXCEPT ![j] = "exited"]
  /\ UNCHANGED <<now, deaths, starting, table, finishedAt, sender, signalled, sup>>

\* Mutant: prune looks at every entry.
PrunesAnything(tbl, at, gone) ==
  LET entries == {j \in JobIds : tbl[j] # "absent"} IN
    /\ gone \subseteq entries
    /\ Cardinality(entries \ gone) =
         IF Cardinality(entries) <= Retained THEN Cardinality(entries) ELSE Retained
    /\ \A j \in gone, k \in entries \ gone : at[j] <= at[k]

\* Mutant: prune sorts the other way round.
PrunesNewest(tbl, at, gone) ==
  LET finished == {j \in JobIds : tbl[j] \in Terminal} IN
    /\ gone \subseteq finished
    /\ Cardinality(finished \ gone) =
         IF Cardinality(finished) <= Retained THEN Cardinality(finished) ELSE Retained
    /\ \A j \in gone, k \in finished \ gone : at[j] >= at[k]

\* gone are the entries that prune drops from a table: the oldest finished ones
\* beyond Retained; entries of one second are in no particular order.
Prunes(tbl, at, gone) ==
  LET finished == {j \in JobIds : tbl[j] \in Terminal} IN
    /\ gone \subseteq finished
    /\ Cardinality(finished \ gone) =
         IF Cardinality(finished) <= Retained THEN Cardinality(finished) ELSE Retained
    /\ \A j \in gone, k \in finished \ gone : at[j] <= at[k]

\* The supervisor records the outcome, if the entry is still there, and prunes.
Record(j) ==
  /\ sup[j] \in Terminal
  /\ LET found == table[j] # "absent"
         tbl == IF found THEN [table EXCEPT ![j] = sup[j]] ELSE table
         at == IF found THEN [finishedAt EXCEPT ![j] = now] ELSE finishedAt
     IN \E gone \in SUBSET JobIds :
          /\ Prunes(tbl, at, gone)
          /\ table' = [k \in JobIds |-> IF k \in gone THEN "absent" ELSE tbl[k]]
          /\ finishedAt' = [k \in JobIds |-> IF k \in gone THEN 0 ELSE at[k]]
          /\ sender' = sender \ (gone \cup {j})
  /\ sup' = [sup EXCEPT ![j] = "none"]
  /\ UNCHANGED <<now, deaths, starting, signalled, waiter, proc>>

\* cancel: refused for an entry that is absent, finished or being cancelled.
Cancel(j) ==
  /\ table[j] = "running" /\ j \in sender
  /\ sender' = sender \ {j}
  /\ signalled' = signalled \cup {j}   \* sender.send(())
  /\ UNCHANGED <<now, deaths, starting, table, finishedAt, sup, waiter, proc>>

\* The agent stops or dies and starts anew with an empty table; report_orphans
\* counts the output files it finds, for the log, and records nothing.
AgentDies ==
  /\ deaths < MaxDeaths
  /\ deaths' = deaths + 1
  /\ starting' = NoJob
  /\ table' = [j \in JobIds |-> "absent"]
  /\ finishedAt' = [j \in JobIds |-> 0]
  /\ sender' = {} /\ signalled' = {}
  /\ sup' = [j \in JobIds |-> "none"]
  /\ waiter' = [j \in JobIds |-> "none"]
  /\ proc' = [j \in JobIds |-> IF proc[j] = "alive" THEN "exited" ELSE proc[j]]
  /\ UNCHANGED now

Tick == now < MaxNow /\ now' = now + 1
        /\ UNCHANGED <<deaths, starting, table, finishedAt, sender, signalled, sup, waiter,
                       proc>>

Supervise(j) == SelectExit(j) \/ SelectTimeout(j) \/ SelectCancel(j) \/ Record(j)

Next ==
  \/ \E j \in JobIds :
       \/ SpawnJob(j) \/ InsertJob(j) \/ Exit(j) \/ Supervise(j) \/ DropChild(j)
       \/ Cancel(j)
  \/ AgentDies \/ Tick

Spec == Init /\ [][Next]_vars

\* tokio runs every task that is ready; a timer fires. A process need not exit.
Fairness ==
  \A j \in JobIds : WF_vars(InsertJob(j)) /\ WF_vars(Supervise(j)) /\ WF_vars(DropChild(j))
FairSpec == Spec /\ Fairness

--------------------------------------------------------------------------
(* Properties.                                                             *)

TypeOK ==
  /\ now \in 0..MaxNow /\ deaths \in 0..MaxDeaths
  /\ starting \in JobIds \cup {NoJob}
  /\ table \in [JobIds -> {"absent", "running"} \cup Terminal]
  /\ finishedAt \in [JobIds -> 0..MaxNow]
  /\ sender \in SUBSET JobIds /\ signalled \in SUBSET JobIds
  /\ sup \in [JobIds -> {"none", "select"} \cup Terminal]
  /\ waiter \in [JobIds -> {"none", "wait", "abort"}]
  /\ proc \in [JobIds -> {"none", "alive", "exited"}]

\* What running_count promises to the self-update: a process that is alive is
\* in the table as running, or start has yet to insert it, or its kill is
\* already under way. No prune, cancel or race of the three ends loses one.
RunningIsCounted ==
  \A j \in JobIds :
    proc[j] = "alive" => table[j] = "running" \/ starting = j \/ waiter[j] = "abort"

\* Why it holds: an entry is running exactly as long as a supervisor owes it an
\* outcome, and a supervisor past its select has seen the process end or has
\* aborted the waiter that owns it.
JobsInv ==
  /\ TypeOK
  /\ RunningIsCounted
  /\ \A j \in JobIds :
       /\ sup[j] # "none" => table[j] = "running" /\ starting # j
       /\ sup[j] \in Terminal /\ proc[j] = "alive" => waiter[j] = "abort"
       /\ starting = j => table[j] = "absent"

\* "How both the timeout and the cancel paths actually stop the work": a job
\* that was cancelled, or that has a max_runtime, does not outlive it, and
\* its entry does not stay running.
StopsInTheEnd ==
  \A j \in JobIds :
    (j \in signalled \/ (table[j] = "running" /\ j \notin Unlimited))
      ~> (proc[j] # "alive" /\ table[j] # "running")

\* An outcome that was recorded stays as it is until prune or a restart drops
\* it, and what prune drops, the job that has just ended included, is never
\* newer than a finished job it keeps.
OutcomeIsKept ==
  [][deaths' = deaths =>
       \A j \in JobIds : table[j] # "absent" =>
         IF table'[j] # "absent"
         THEN table[j] \in Terminal => table'[j] = table[j] /\ finishedAt'[j] = finishedAt[j]
         ELSE \A k \in JobIds : table'[k] \in Terminal =>
                finishedAt'[k] >= (IF table[j] \in Terminal THEN finishedAt[j] ELSE now)
    ]_vars
==========================================================================
