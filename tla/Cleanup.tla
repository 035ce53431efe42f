------------------------------ MODULE Cleanup ------------------------------
(***************************************************************************)
(* The agent's local log files and their cleanup (jobs.rs cleanup, agent   *)
(* main.rs): jobs and the agent's own log write files in one directory,    *)
(* the shipper sends them to the controller, and every few hours cleanup   *)
(* removes what is old, or more than the disk budget, and already sent.    *)
(*                                                                         *)
(* cleanup runs on a thread of its own: jobs start, write and end between  *)
(* any two of its file system calls. A job's two output files are one      *)
(* here, and one step sends all of a file that is new (module LogShipping  *)
(* has the chunks). Time passes in hours.                                  *)
(***************************************************************************)
EXTENDS Integers, FiniteSets, FiniteSetsExt

CONSTANTS
  Outputs,
  DayLength,  \* hours until the agent's log rolls over
  Retention,  \* policy.retention
  MaxTotal,   \* policy.max_total_bytes
  MaxSize,    \* bound: how much is written to one file
  MaxHours,   \* bound: the clock stops here
  MaxStuck    \* bound: how often a file cannot be removed or looked at

ASSUME CleanupAssumption ==
  /\ DayLength \in Nat \ {0} /\ Retention \in Nat /\ Retention >= DayLength
  /\ MaxTotal \in Nat /\ MaxSize \in Nat /\ MaxHours \in Nat /\ MaxStuck \in Nat
  /\ Outputs \cap Nat = {}

\* agent.log.<day>, and the output of every job.
Days == 0..(MaxHours \div DayLength)
LogFiles == Outputs \cup Days

VARIABLES
  hour, stuck,
  job,      \* job[j]: "new", "started" (not in the table yet), "running", "done"
  day,      \* the log file the agent has open
  dir,      \* the files in the directory
  size,     \* size[f]: what was written to f, also once it is unlinked
  mtime,    \* mtime[f]: when that was
  shipped,  \* shipped[f]: how much of it was sent; as long as f is in the
            \* directory its marker says so
  cpc,       \* where cleanup is: "idle", "list", "retain" or "budget"
  began,    \* when cleanup began
  running,  \* its copy of the job table: the ids that are running
  files,    \* what it has found out of each file
  known     \* history: jobs whose start had returned when cleanup began

jobVars == <<job, day, size, mtime>>
cleanVars == <<cpc, began, running, files, known>>
cleanupVars == <<hour, stuck, jobVars, dir, shipped, cleanVars>>

CleanupInit ==
  /\ hour = 0 /\ stuck = 0
  /\ job = [j \in Outputs |-> "new"]
  /\ day = 0 /\ dir = {0}
  /\ size = [f \in LogFiles |-> 0] /\ mtime = [f \in LogFiles |-> 0]
  /\ shipped = [f \in LogFiles |-> 0]
  /\ cpc = "idle" /\ began = 0 /\ running = {} /\ files = {} /\ known = {}

\* Neither start nor cleanup takes anything like an hour.
HourPasses ==
  /\ hour < MaxHours
  /\ cpc = "idle" /\ \A j \in Outputs : job[j] # "started"
  /\ hour' = hour + 1
  /\ UNCHANGED <<stuck, jobVars, dir, shipped, cleanVars>>

--------------------------------------------------------------------------
(* The writers and the shipper.                                            *)

\* start: the files are created and the process is spawned ...
CreateOutput(j) ==
  /\ job[j] = "new"
  /\ job' = [job EXCEPT ![j] = "started"]
  /\ dir' = dir \cup {j}
  /\ mtime' = [mtime EXCEPT ![j] = hour]
  /\ UNCHANGED <<hour, stuck, day, size, shipped, cleanVars>>

\* ... then the job is entered in the table.
EnterJob(j) ==
  /\ job[j] = "started"
  /\ job' = [job EXCEPT ![j] = "running"]
  /\ UNCHANGED <<hour, stuck, day, size, mtime, dir, shipped, cleanVars>>

EndJob(j) ==
  /\ job[j] = "running"
  /\ job' = [job EXCEPT ![j] = "done"]
  /\ UNCHANGED <<hour, stuck, day, size, mtime, dir, shipped, cleanVars>>

WriteTo(f) ==
  /\ size[f] < MaxSize
  /\ size' = [size EXCEPT ![f] = @ + 1]
  /\ mtime' = [mtime EXCEPT ![f] = hour]

Writes(j) == job[j] \in {"started", "running"}

\* The job writes to the descriptor it was given.
JobOutput(j) ==
  /\ Writes(j) /\ WriteTo(j)
  /\ UNCHANGED <<hour, stuck, job, day, dir, shipped, cleanVars>>

\* The rolling appender opens the file of a new day at its first line, and
\* keeps it open.
LogLine ==
  LET today == hour \div DayLength IN
  /\ day' = today
  /\ dir' = IF today = day THEN dir ELSE dir \cup {today}
  /\ WriteTo(today)
  /\ UNCHANGED <<hour, stuck, job, shipped, cleanVars>>

Ship(f) ==
  /\ f \in dir /\ shipped[f] < size[f]
  /\ shipped' = [shipped EXCEPT ![f] = size[f]]
  /\ UNCHANGED <<hour, stuck, jobVars, dir, cleanVars>>

--------------------------------------------------------------------------
(* cleanup.                                                                *)

InTable == {j \in Outputs : job[j] = "running"}

\* The task sleeps for cleanup_interval before its first pass, too.
BeginCleanup ==
  /\ cpc = "idle" /\ hour > 0
  /\ cpc' = "list" /\ began' = hour
  /\ running' = InTable
  /\ known' = {j \in Outputs : job[j] \in {"running", "done"}}
  /\ files' = {}
  /\ UNCHANGED <<hour, stuck, jobVars, dir, shipped>>

\* Mutant: a marker that reaches the end of the file is not past it.
SentBeyond(f) == shipped[f] > size[f]

\* The marker says that all of the file was sent.
Uploaded(f) == shipped[f] >= size[f]

\* The directory, and of every file in it the metadata and the marker (in one
\* step: what is found out of one file has no bearing on another).
ListFiles ==
  /\ cpc = "list"
  /\ cpc' = "retain"
  /\ files' = {[file |-> f, size |-> size[f], mtime |-> mtime[f], uploaded |-> Uploaded(f)]
                 : f \in dir}
  /\ UNCHANGED <<hour, stuck, jobVars, dir, shipped, began, running, known>>

\* What cleanup keeps of a pass: nothing.
CleanupRests == cpc' = "idle" /\ began' = 0 /\ running' = {} /\ files' = {} /\ known' = {}

\* The directory, an entry or its metadata cannot be read (a file may be gone by
\* then): the ? ends the pass with nothing removed.
ListFails ==
  /\ cpc = "list"
  /\ stuck < MaxStuck /\ stuck' = stuck + 1
  /\ CleanupRests
  /\ UNCHANGED <<hour, jobVars, dir, shipped>>

\* A log that was not written to for an hour counts as closed.
ActiveAgentLog(r) == r.file \in Days /\ began - r.mtime < 1

\* Mutant: what was not sent may go, too.
RemovableUnsent(r) == r.file \notin running /\ ~ActiveAgentLog(r)

Removable(r) == r.uploaded /\ r.file \notin running /\ ~ActiveAgentLog(r)

\* remove_file, or an error that is ignored.
RemoveFiles(gone) ==
  \/ dir' = dir \ gone /\ UNCHANGED stuck
  \/ /\ gone # {} /\ stuck < MaxStuck /\ stuck' = stuck + 1
     /\ \E f \in gone : dir' = dir \ (gone \ {f})

\* First what is older than the retention ...
RetentionPass ==
  /\ cpc = "retain"
  /\ RemoveFiles({r.file : r \in {r \in files : Removable(r) /\ began - r.mtime >= Retention}})
  /\ files' = {r \in files : r.file \in dir'}
  /\ cpc' = "budget"
  /\ UNCHANGED <<hour, jobVars, shipped, began, running, known>>

\* Bytes that the files left to consider, or kept, add up to.
Total == MapThenSumSet(LAMBDA r : r.size, files)

\* ... then, oldest first, as much as the rest is over the budget. files keeps
\* what stays, with uploaded cleared so that it is not considered again.
BudgetStep ==
  LET candidates == {r \in files : Removable(r)} IN
  /\ cpc = "budget" /\ Total > MaxTotal
  /\ \E r \in candidates :
       /\ \A q \in candidates : r.mtime <= q.mtime
       /\ RemoveFiles({r.file})
       /\ files' = (files \ {r}) \cup
            (IF r.file \in dir' THEN {[r EXCEPT !.uploaded = FALSE]} ELSE {})
  /\ UNCHANGED <<hour, jobVars, shipped, cpc, began, running, known>>

EndCleanup ==
  /\ cpc = "budget"
  /\ Total <= MaxTotal \/ \A r \in files : ~Removable(r)
  /\ CleanupRests
  /\ UNCHANGED <<hour, stuck, jobVars, dir, shipped>>

--------------------------------------------------------------------------
CleanupStep ==
  \/ BeginCleanup \/ ListFiles \/ ListFails \/ RetentionPass \/ BudgetStep \/ EndCleanup

CleanupNext ==
  \/ HourPasses \/ LogLine
  \/ \E j \in Outputs : CreateOutput(j) \/ EnterJob(j) \/ EndJob(j) \/ JobOutput(j)
  \/ \E f \in LogFiles : Ship(f)
  \/ CleanupStep

CleanupSpec == CleanupInit /\ [][CleanupNext]_cleanupVars

\* The cleanup task and the shipper loop for ever.
CleanupFairness ==
  WF_cleanupVars(CleanupStep) /\ \A f \in LogFiles : WF_cleanupVars(Ship(f))
CleanupFairSpec == CleanupSpec /\ CleanupFairness

--------------------------------------------------------------------------
(* Properties.                                                             *)

Removed(f) == f \in dir /\ f \notin dir'

\* The removals of a cleanup are decided from sizes and markers that are stale
\* by then. Still, output of a job that was started before it began goes only
\* after all of it was sent; and nothing goes before its time: only when it is as
\* old as the retention, or while the directory really holds more than the budget.
RemovedRightly ==
  [][\A f \in LogFiles : Removed(f) =>
       /\ f \in known => ~Writes(f) /\ shipped[f] = size[f]
       /\ \/ hour - mtime[f] >= Retention
          \/ MapThenSumSet(LAMBDA g : size[g], dir) > MaxTotal]_cleanupVars

\* Once no job runs any more and time goes on, what finished jobs and closed logs
\* take up comes down to the budget, also if a file resists once.
UsageComesDown ==
  <>(hour > 0) /\ <>[](\A j \in Outputs : ~Writes(j)) =>
    <>[](MapThenSumSet(LAMBDA f : size[f], dir \ {day}) <= MaxTotal)
============================================================================
