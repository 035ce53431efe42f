---------------------------- MODULE SelfUpdate ---------------------------
(***************************************************************************)
(* One agent installing what the controller publishes for it: its manifest *)
(* slot in the bucket, the update task and the restart (agent main.rs      *)
(* update_loop, update.rs check_and_apply, install and download).          *)
(*                                                                         *)
(* The controller is the environment here (module Rollout has its side):   *)
(* publishes, possibly several at once, put a manifest after their payload *)
(* is complete, and a retraction or a sweep may take the manifest or the   *)
(* payload away at any time. The ETag of the slot is represented by the    *)
(* release it names, since no release is put twice.                        *)
(***************************************************************************)
EXTENDS Integers

CONSTANTS
  Releases,    \* release ids, positive numbers
  Builds,      \* binaries, told apart by their SHA-256
  FitBuilds,   \* those built for this host
  Initial,     \* the build the agent was installed with
  NoBuild,     \* no executable, or no process
  Chunks,      \* the number of chunks of a release
  MaxNow,      \* bound: the clock stops here
  MaxFaults    \* bound: how many steps fail or are cut off by a crash

ASSUME ConstantsAssumption ==
  /\ Releases \subseteq Nat \ {0}
  /\ FitBuilds \subseteq Builds /\ Initial \in FitBuilds /\ NoBuild \notin Builds
  /\ Chunks \in Nat \ {0}
  /\ MaxNow \in Nat \ {0} /\ MaxFaults \in Nat

NoRelease == 0
Unsettled == -1

VARIABLES
  slot,      \* the release named by updates/manifest/<agent>.json
  payload,   \* releases whose chunks are in the bucket
  build,     \* build[r]: the manifest's sha256
  at,        \* at[r]: the manifest's published_at, 0 until staged
  pending,   \* staged releases whose manifest is not put yet
  now, faults,
  upc,       \* where the update task is
  tag,       \* the ETag this check started from
  idle,      \* whether no job was running when it started
  want,      \* the release being installed
  got,       \* how many of its chunks are in the staged file
  astray,    \* it is installed beside the install path, see BeginInstall
  settled,   \* the ETag whose outcome is decided
  disk,      \* the executable at the install path
  running,   \* the executable of the process
  lastAt,    \* last_published_at in the state file
  busy,      \* a job is running
  newest,    \* history: published_at of the release last installed
  unsaved    \* history: that install did not reach the state file

bucketVars == <<slot, payload, build, at, pending>>
taskVars == <<upc, tag, idle, want, got, astray, settled>>
hostVars == <<disk, running, lastAt, busy>>
historyVars == <<newest, unsaved>>
vars == <<bucketVars, now, faults, taskVars, hostVars, historyVars>>

Init ==
  /\ slot = NoRelease /\ payload = {} /\ pending = {}
  /\ build = [r \in Releases |-> NoBuild] /\ at = [r \in Releases |-> 0]
  /\ now = 1 /\ faults = 0
  /\ upc = "idle" /\ tag = NoRelease /\ idle = FALSE
  /\ want = NoRelease /\ got = 0 /\ astray = FALSE /\ settled = Unsettled
  /\ disk = Initial /\ running = Initial /\ lastAt = 0 /\ busy = FALSE
  /\ newest = 0 /\ unsaved = FALSE

Fault == faults < MaxFaults /\ faults' = faults + 1
NoFault == UNCHANGED faults

--------------------------------------------------------------------------
(* The bucket, as the controller changes it.                               *)

\* A publish has uploaded its chunks and takes its timestamp.
StageRelease(r, b) ==
  /\ at[r] = 0
  /\ at' = [at EXCEPT ![r] = now]
  /\ build' = [build EXCEPT ![r] = b]
  /\ payload' = payload \cup {r}
  /\ pending' = pending \cup {r}
  /\ UNCHANGED <<slot, now, faults, taskVars, hostVars, historyVars>>

\* It reaches this agent in its loop, perhaps much later, and puts the
\* manifest.
PutManifest(r) ==
  /\ r \in pending
  /\ slot' = r
  /\ pending' = pending \ {r}
  /\ UNCHANGED <<payload, build, at, now, faults, taskVars, hostVars, historyVars>>

\* retract_update or the sweep removes the manifest, or a payload.
Withdraw ==
  /\ slot # NoRelease
  /\ slot' = NoRelease
  /\ UNCHANGED <<payload, build, at, pending, now, faults, taskVars, hostVars, historyVars>>

DeleteRelease(r) ==
  /\ r \in payload
  /\ payload' = payload \ {r}
  /\ UNCHANGED <<slot, build, at, pending, now, faults, taskVars, hostVars, historyVars>>

--------------------------------------------------------------------------
(* The update task.                                                        *)

Up == running # NoBuild

\* HEAD finds an ETag that is not settled; the number of running jobs is taken
\* now. (With a settled one, or an error, the task sleeps again.)
CheckTag ==
  /\ upc = "idle" /\ Up
  /\ settled # slot
  /\ tag' = slot /\ idle' = ~busy /\ upc' = "check"
  /\ UNCHANGED <<bucketVars, now, faults, want, got, astray, settled, hostVars, historyVars>>

\* What the task keeps of a check between two checks: nothing but settled.
TaskRests ==
  /\ upc' = "idle" /\ tag' = NoRelease /\ idle' = FALSE
  /\ want' = NoRelease /\ got' = 0 /\ astray' = FALSE

\* A decided outcome is remembered under the ETag the check started from.
Settle == TaskRests /\ settled' = tag

\* An error is left unsettled on purpose, so that the next tick retries.
Retry == TaskRests /\ UNCHANGED settled

\* Mutant: a deferred update is settled like any other outcome.
SettlesDeferral == Settle

\* Outcome::Deferred must be reconsidered although nothing in the bucket
\* changed.
Defer == TaskRests /\ UNCHANGED settled

\* Mutant: the age of the manifest is not looked at.
AnyAge(r) == TRUE

\* published_at is newer than that of anything acted on before.
IsNewer(r) == at[r] > lastAt

\* No manifest, or one for another platform.
Fits(r) == r # NoRelease /\ build[r] \in FitBuilds

CheckVars == <<bucketVars, now, disk, running, busy, newest>>

\* check_and_apply up to its decision, one action per outcome. Fetching or
\* hashing the running binary may fail. Where a failed install has left nothing
\* at the install path, hashing fails for good, unless current_exe follows the
\* renamed file (as on Linux).
CheckFails ==
  /\ upc = "check"
  /\ Fault \/ (Fits(slot) /\ disk = NoBuild /\ NoFault)
  /\ Retry
  /\ UNCHANGED <<CheckVars, lastAt, unsaved>>

\* Outcome::None, and Outcome::Skipped for the platform or the age.
CheckSkips ==
  /\ upc = "check"
  /\ Fits(slot) => running # build[slot] /\ ~IsNewer(slot)
  /\ Settle
  /\ UNCHANGED <<CheckVars, faults, lastAt, unsaved>>

\* Outcome::UpToDate: the state file is brought forward; an error is ignored.
CheckUpToDate ==
  /\ upc = "check"
  /\ Fits(slot) /\ running = build[slot]
  /\ Settle
  /\ \/ /\ lastAt' = IF IsNewer(slot) THEN at[slot] ELSE lastAt
        /\ unsaved' = (unsaved /\ lastAt' < newest)
        /\ NoFault
     \/ IsNewer(slot) /\ Fault /\ UNCHANGED <<lastAt, unsaved>>
  /\ UNCHANGED CheckVars

CheckDefers ==
  /\ upc = "check"
  /\ Fits(slot) /\ running # build[slot] /\ IsNewer(slot)
  /\ ~idle
  /\ Defer
  /\ UNCHANGED <<CheckVars, faults, lastAt, unsaved>>

\* The install goes to where current_exe found the running binary: beside the
\* install path, if it was moved aside and never put back.
BeginInstall ==
  /\ upc = "check"
  /\ Fits(slot) /\ running # build[slot] /\ IsNewer(slot)
  /\ idle
  /\ want' = slot /\ astray' = (disk = NoBuild) /\ upc' = "download"
  /\ UNCHANGED <<CheckVars, faults, tag, idle, got, settled, lastAt, unsaved>>

\* The next chunk; a missing one ("the release may have been cleaned up") and
\* a failing request are errors.
DownloadChunk ==
  /\ upc = "download" /\ got < Chunks
  /\ \/ /\ want \in payload /\ got' = got + 1
        /\ NoFault /\ UNCHANGED <<upc, tag, idle, want, astray, settled>>
     \/ want \notin payload /\ Retry /\ NoFault
     \/ Retry /\ Fault
  /\ UNCHANGED <<bucketVars, now, hostVars, historyVars>>

\* Length and hash of the staged file are right and it answers --version (or
\* not, and the install fails); the running binary is moved aside.
MoveAside ==
  /\ upc = "download" /\ got = Chunks
  /\ \/ /\ disk' = NoBuild /\ upc' = "place"
        /\ NoFault /\ UNCHANGED <<tag, idle, want, got, astray, settled>>
     \/ Retry /\ Fault /\ UNCHANGED disk
  /\ UNCHANGED <<bucketVars, now, running, lastAt, busy, historyVars>>

\* The staged binary takes the place. If that fails the old one is put back,
\* which may fail as well.
PlaceNew ==
  /\ upc = "place"
  /\ \/ /\ disk' = IF astray THEN disk ELSE build[want]
        /\ newest' = at[want]
        /\ upc' = "save"
        /\ NoFault /\ UNCHANGED <<tag, idle, want, got, astray, settled>>
     \/ /\ Fault /\ Retry /\ UNCHANGED newest
        /\ disk' \in IF astray THEN {disk} ELSE {disk, running}
  /\ UNCHANGED <<bucketVars, now, running, lastAt, busy, unsaved>>

\* Mutant: the state file is not written after an install.
SavesNothing ==
  /\ upc = "save"
  /\ upc' = "exit"
  /\ UNCHANGED <<bucketVars, now, faults, tag, idle, want, got, astray, settled, hostVars, historyVars>>

\* The state file; an error is only logged. The task reports the version to
\* run_loop and stops.
SaveState ==
  /\ upc = "save"
  /\ \/ lastAt' = at[want] /\ unsaved' = FALSE /\ NoFault
     \/ Fault /\ unsaved' = TRUE /\ UNCHANGED lastAt
  /\ upc' = "exit"
  /\ UNCHANGED <<bucketVars, now, tag, idle, want, got, astray, settled, disk, running, busy, newest>>

\* A process ends: its memory and its jobs go with it.
ProcessEnds == TaskRests /\ settled' = Unsettled /\ busy' = FALSE

\* run_loop takes up the message between two commands: the process exits, and
\* its supervisor starts the new binary.
Restart ==
  /\ upc = "exit"
  /\ ProcessEnds
  /\ running' = disk
  /\ UNCHANGED <<bucketVars, now, faults, disk, lastAt, historyVars>>

\* The process dies at any point of the above.
Crash ==
  /\ Up
  /\ Fault
  /\ ProcessEnds
  /\ running' = NoBuild
  /\ unsaved' = (unsaved \/ upc = "save")
  /\ UNCHANGED <<bucketVars, now, disk, lastAt, newest>>

\* Started again, if there is something to start.
Boot ==
  /\ ~Up /\ disk # NoBuild
  /\ running' = disk
  /\ UNCHANGED <<bucketVars, now, faults, taskVars, disk, lastAt, busy, historyVars>>

\* The command loop starts a job, at any time while the process runs.
StartJob ==
  /\ Up /\ ~busy
  /\ busy' = TRUE
  /\ UNCHANGED <<bucketVars, now, faults, taskVars, disk, running, lastAt, historyVars>>

EndJob ==
  /\ busy
  /\ busy' = FALSE
  /\ UNCHANGED <<bucketVars, now, faults, taskVars, disk, running, lastAt, historyVars>>

Tick ==
  /\ now < MaxNow
  /\ now' = now + 1
  /\ UNCHANGED <<bucketVars, faults, taskVars, hostVars, historyVars>>

--------------------------------------------------------------------------
BucketStep ==
  \/ \E r \in Releases : PutManifest(r) \/ DeleteRelease(r)
  \/ \E r \in Releases, b \in Builds : StageRelease(r, b)
  \/ Withdraw

TaskStep ==
  \/ CheckTag \/ CheckFails \/ CheckSkips \/ CheckUpToDate \/ CheckDefers
  \/ BeginInstall \/ DownloadChunk \/ MoveAside \/ PlaceNew \/ SaveState \/ Restart

Next == BucketStep \/ TaskStep \/ Crash \/ Boot \/ StartJob \/ EndJob \/ Tick

Spec == Init /\ [][Next]_vars

\* The update task keeps polling, and Restart=always starts the agent again.
\* Nothing is owed by the controller or by the jobs.
Fairness == WF_vars(TaskStep) /\ WF_vars(Boot)
FairSpec == Spec /\ Fairness

--------------------------------------------------------------------------
(* Properties.                                                             *)

FlagsOK ==
  idle \in BOOLEAN /\ astray \in BOOLEAN /\ busy \in BOOLEAN /\ unsaved \in BOOLEAN

TypeOK ==
  /\ FlagsOK
  /\ slot \in Releases \cup {NoRelease} /\ payload \in SUBSET Releases
  /\ pending \in SUBSET Releases
  /\ build \in [Releases -> Builds \cup {NoBuild}]
  /\ at \in [Releases -> Nat]
  /\ now \in Nat \ {0} /\ faults \in 0..MaxFaults
  /\ upc \in {"idle", "check", "download", "place", "save", "exit"}
  /\ tag \in Releases \cup {NoRelease}
  /\ want \in Releases \cup {NoRelease} /\ got \in 0..Chunks
  /\ settled \in Releases \cup {NoRelease, Unsettled}
  /\ disk \in Builds \cup {NoBuild} /\ running \in Builds \cup {NoBuild}
  /\ lastAt \in Nat /\ newest \in Nat

\* "published_at must be strictly newer than the last one applied": however
\* publishes overlap and wherever the agent dies, it never installs a release
\* published earlier than (or with) the one it installed last, unless that
\* install did not reach the state file.
NeverGoesBack == [][newest' # newest => newest' > newest \/ unsaved]_vars

\* What the process at every point has under way, and why it is safe to do:
\* an install that goes on is of a fitting build newer than all before it, and
\* the state file knows the last install unless its writing was cut off.
UpdateInv ==
  /\ TypeOK
  /\ upc \in {"download", "place", "save", "exit"} =>
       /\ want \in Releases /\ build[want] \in FitBuilds
       /\ at[want] > 0
  /\ upc \in {"download", "place"} => at[want] > lastAt
  /\ upc = "save" => newest = at[want]
  /\ upc \notin {"save"} /\ ~unsaved => newest <= lastAt
  /\ disk \in FitBuilds \cup {NoBuild} /\ running \in FitBuilds \cup {NoBuild}
  /\ disk = NoBuild => upc = "place" \/ faults > 0
  /\ astray => faults > 0
  /\ \A r \in Releases : at[r] > 0 <=> build[r] \in Builds

\* A manifest that stays, with its payload, is in the end installed by an idle
\* agent it fits, or turned down for its age: a deferral, a failed check, or a
\* manifest replaced under a check is always taken up again. (An agent cut off
\* between the two renames has nothing to start.)
EventuallyInstalled ==
  \A r \in Releases :
    <>[](slot = r /\ r \in payload /\ Fits(r) /\ ~busy)
    => <>[](running = build[r] \/ disk = NoBuild \/ at[r] <= lastAt)

\* "The install waits until the agent is idle": no restart into a new build
\* ends a job.
InstallEndsNoJob == [][upc = "exit" /\ running' = disk => ~busy]_vars
==========================================================================
