---------------------------- MODULE Presence -----------------------------
(***************************************************************************)
(* Several agent processes under one identity (a cloned machine, or a      *)
(* restart inside the heartbeat's lifetime): the heartbeat object they     *)
(* share, the heartbeat task of each, and the automatic rule by which one  *)
(* of them yields (agent main.rs Presence and heartbeat_loop).             *)
(***************************************************************************)
EXTENDS Integers, FiniteSets

CONSTANTS
  Ids,         \* instance ids, compared as the code compares the strings
  NoId,        \* "no other process seen"
  TtlSecs,     \* heartbeat ttl_secs
  MaxNow,      \* bound: the clock stops here
  MaxFaults,   \* bound: how many S3 requests fail
  MaxStandDown \* bound: how many processes are told to stand down

ASSUME ConstantsAssumption ==
  /\ Ids \subseteq Nat /\ IsFiniteSet(Ids) /\ NoId \notin Ids
  /\ TtlSecs \in Nat /\ MaxNow \in Nat /\ MaxFaults \in Nat /\ MaxStandDown \in Nat

VARIABLES
  heartbeat,  \* the object agents/<agent>.json: {} or one record
  now, faults,
  pc,         \* pc[p]: "down", "read", "write", "sleep" or "dead"
  startedAt,  \* startedAt[p]: started_at
  conflict,   \* conflict[p]: Presence.conflict_with
  yielded,    \* yielded[p]: Presence.yielded
  stoodDown,  \* processes that were told to stand down
  lastBeat    \* history: lastBeat[p], when p last sent its heartbeat

vars == <<heartbeat, now, faults, pc, startedAt, conflict, yielded, stoodDown, lastBeat>>

\* The fields of Heartbeat that another process acts on (conflict_with and
\* suspended are for the operator to read).
Heartbeats == [instance : Ids, at : 0..MaxNow]

Init ==
  /\ heartbeat = {}
  /\ now = 0 /\ faults = 0
  /\ pc = [p \in Ids |-> "down"]
  /\ startedAt = [p \in Ids |-> 0]
  /\ conflict = [p \in Ids |-> NoId]
  /\ yielded = [p \in Ids |-> FALSE]
  /\ stoodDown = {}
  /\ lastBeat = [p \in Ids |-> -1]

Live == {p \in Ids : pc[p] \notin {"down", "dead"}}
Suspended(p) == yielded[p] \/ p \in stoodDown
Fault == faults < MaxFaults /\ faults' = faults + 1

\* A process starts with a new instance id and an empty Presence.
Start(p) ==
  /\ pc[p] = "down"
  /\ pc' = [pc EXCEPT ![p] = "read"]
  /\ startedAt' = [startedAt EXCEPT ![p] = now]
  /\ UNCHANGED <<heartbeat, now, faults, conflict, yielded, stoodDown, lastBeat>>

Die(p) ==
  /\ p \in Live
  /\ pc' = [pc EXCEPT ![p] = "dead"]
  /\ conflict' = [conflict EXCEPT ![p] = NoId]
  /\ yielded' = [yielded EXCEPT ![p] = FALSE]
  /\ stoodDown' = stoodDown \ {p}
  /\ startedAt' = [startedAt EXCEPT ![p] = 0]

\* The process dies, and its heartbeat stays until it is stale.
Crash(p) == Die(p) /\ UNCHANGED <<heartbeat, now, faults, lastBeat>>

\* A clean shutdown removes the heartbeat object, whoever wrote it; an error
\* is ignored.
Shutdown(p) ==
  /\ Die(p)
  /\ \/ heartbeat' = {} /\ UNCHANGED faults
     \/ Fault /\ UNCHANGED heartbeat
  /\ UNCHANGED <<now, lastBeat>>

\* read_heartbeat: what is stale counts as absent.
IsStale(h) == now - h.at > TtlSecs
Fresh == {h \in heartbeat : ~IsStale(h)}

\* Mutant: a heartbeat from before this process started counts as well.
RivalSinceEver(p) == {h \in Fresh : h.instance # p}

\* Heartbeats that another process wrote while this one was running.
Rival(p) == {h \in Fresh : h.instance # p /\ h.at >= startedAt[p]}

\* Mutant: the lower id yields when it is the one that sees the other.
YieldsToAnyone(mine, other) == TRUE

\* The tie-break of Presence::observed.
Yields(mine, other) == mine > other

\* Mutant: a rival once seen is never forgotten.
RemembersRival(p) ==
  IF Rival(p) = {} THEN UNCHANGED <<conflict, yielded>>
  ELSE \E h \in Rival(p) :
         /\ conflict' = [conflict EXCEPT ![p] = h.instance]
         /\ yielded' = [yielded EXCEPT ![p] = Yields(p, h.instance)]

\* Presence::observed.
Observed(p) ==
  IF Rival(p) = {}
  THEN /\ conflict' = [conflict EXCEPT ![p] = NoId]
       /\ yielded' = [yielded EXCEPT ![p] = FALSE]
  ELSE \E h \in Rival(p) :
         /\ conflict' = [conflict EXCEPT ![p] = h.instance]
         /\ yielded' = [yielded EXCEPT ![p] = Yields(p, h.instance)]

\* First half of a heartbeat round: read the object and apply the rule. A read
\* error changes nothing.
ReadBack(p) ==
  /\ pc[p] = "read"
  /\ \/ Observed(p) /\ UNCHANGED faults
     \/ Fault /\ UNCHANGED <<conflict, yielded>>
  /\ pc' = [pc EXCEPT ![p] = "write"]
  /\ UNCHANGED <<heartbeat, now, startedAt, stoodDown, lastBeat>>

\* Second half: overwrite the object with this process's own heartbeat.
WriteHeartbeat(p) ==
  /\ pc[p] = "write"
  /\ LET mine == [instance |-> p, at |-> now]
     IN \/ heartbeat' = {mine} /\ UNCHANGED faults
        \/ Fault /\ heartbeat' \in {heartbeat, {mine}}
  /\ lastBeat' = [lastBeat EXCEPT ![p] = now]
  /\ pc' = [pc EXCEPT ![p] = "sleep"]
  /\ UNCHANGED <<now, startedAt, conflict, yielded, stoodDown>>

\* The interval has passed.
Wake(p) ==
  /\ pc[p] = "sleep"
  /\ pc' = [pc EXCEPT ![p] = "read"]
  /\ UNCHANGED <<heartbeat, now, faults, startedAt, conflict, yielded, stoodDown,
                 lastBeat>>

\* run_loop receives a StandDown addressed to this process.
StandDown(p) ==
  /\ p \in Live \ stoodDown
  /\ Cardinality(stoodDown) < MaxStandDown
  /\ stoodDown' = stoodDown \cup {p}
  /\ UNCHANGED <<heartbeat, now, faults, pc, startedAt, conflict, yielded, lastBeat>>

Tick ==
  /\ now < MaxNow
  /\ now' = now + 1
  /\ UNCHANGED <<heartbeat, faults, pc, startedAt, conflict, yielded, stoodDown, lastBeat>>

Round(p) == ReadBack(p) \/ WriteHeartbeat(p) \/ Wake(p)

Next ==
  \/ \E p \in Ids : Start(p) \/ Crash(p) \/ Shutdown(p) \/ Round(p) \/ StandDown(p)
  \/ Tick

Spec == Init /\ [][Next]_vars

\* Every running process keeps its heartbeat rounds going.
Fairness == \A p \in Ids : WF_vars(Round(p))
FairSpec == Spec /\ Fairness

--------------------------------------------------------------------------
(* Properties.                                                             *)

TypeOK ==
  /\ heartbeat \in SUBSET Heartbeats
  /\ \A g, h \in heartbeat : g = h
  /\ now \in 0..MaxNow /\ faults \in 0..MaxFaults
  /\ pc \in [Ids -> {"down", "read", "write", "sleep", "dead"}]
  /\ startedAt \in [Ids -> 0..MaxNow]
  /\ conflict \in [Ids -> Ids \cup {NoId}]
  /\ yielded \in [Ids -> BOOLEAN]
  /\ stoodDown \in SUBSET Ids
  /\ lastBeat \in [Ids -> (-1)..MaxNow]

\* "If both yielded the agent would be unreachable": whatever each process has
\* read and when, the automatic rule never idles everybody that was ever
\* started; the one with the lowest id keeps working.
LowestNeverYields ==
  \A p \in Ids :
    (\A q \in Ids : pc[q] # "down" => p <= q) => ~yielded[p]

\* A process yields only to a process with a lower id that was running at or
\* after its own start: a restart does not yield to its predecessor, except
\* when both fall into the same second.
YieldsOnlyToContemporary ==
  \A p \in Ids : yielded[p] =>
    /\ conflict[p] \in Ids /\ conflict[p] < p
    /\ lastBeat[conflict[p]] >= startedAt[p]

\* Why the two hold: a heartbeat in the bucket was sent by a process that has
\* started, not later than the last one that process sent, and what a process
\* yields to has written such a heartbeat.
PresenceInv ==
  /\ TypeOK /\ YieldsOnlyToContemporary
  /\ \A h \in heartbeat : pc[h.instance] # "down" /\ h.at <= lastBeat[h.instance]
  /\ \A p \in Ids : /\ lastBeat[p] <= now
                    /\ yielded[p] => pc[p] # "down" /\ pc[conflict[p]] # "down"

\* "The duplicate went away; nothing should keep this one idle": a process left
\* alone on the identity stops yielding.
WorkResumes ==
  \A p \in Ids : <>[](Live = {p}) => <>[]~yielded[p]

\* "Send this to the instance you want to stand down and the other resumes."
OtherResumes ==
  \A p, q \in Ids :
    p # q => (<>[](Live = {p, q} /\ stoodDown = {p}) => []<>~Suspended(q))
==========================================================================
