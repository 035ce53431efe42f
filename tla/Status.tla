------------------------------- MODULE Status -------------------------------
(***************************************************************************)
(* How an agent's troubles and its being alive reach the controller: the   *)
(* event ring (events.rs), the heartbeat that carries it (agent main.rs),  *)
(* and the refresh that copies heartbeats into the registry and writes the *)
(* status file (status_cache.rs, registry.rs).                             *)
(*                                                                         *)
(* Every MCP session runs a controller; they share the registry and the    *)
(* status file. Modules Presence, LogShipping and Rollout have the rest of *)
(* the heartbeat and of the refresh.                                       *)
(***************************************************************************)
EXTENDS Integers, Sequences, SequencesExt, FiniteSets, FiniteSetsExt

CONSTANTS
  Fleet,       \* agents
  Refreshers,  \* MCP sessions, one cache_loop each
  Capacity,    \* CAPACITY of the ring
  MaxEvents,   \* bound: events of all agents together
  MaxMisses    \* bound: requests that fail and processes that die

ASSUME StatusAssumption ==
  /\ Capacity \in Nat \ {0} /\ MaxEvents \in Nat /\ MaxMisses \in Nat

VARIABLES
  misses,
  up,       \* agents that run
  count,    \* count[a]: events recorded so far, numbered 1, 2, ...
  base,     \* base[a]: how many of them an earlier process recorded
  ring,     \* ring[a]: the events a holds
  beat,     \* beat[a]: the heartbeat in the bucket: "none", "stale" or "live",
            \* with the events it carries
  events,   \* rows of events in the registry
  rpc,      \* rpc[c]: "off", "idle", "visit", "writing" or "rename"
  unseen,   \* unseen[c]: agents that this refresh has yet to visit
  fd,       \* fd[c]: where the file that c is writing is: "tmp", "path", "gone"
  mixed,    \* sessions whose file another one has truncated or is writing, too
  tmp,      \* path.with_extension("tmp"): "absent", "torn" or "whole"
  path      \* the status file, likewise

agentVars == <<up, count, base, ring, beat>>
fileVars == <<fd, mixed, tmp, path>>
refreshVars == <<rpc, unseen>>
statusVars == <<misses, agentVars, events, refreshVars, fileVars>>

NoBeat == [state |-> "none", events |-> <<>>]

StatusInit ==
  /\ misses = 0
  /\ up = {}
  /\ count = [a \in Fleet |-> 0] /\ base = [a \in Fleet |-> 0]
  /\ ring = [a \in Fleet |-> <<>>]
  /\ beat = [a \in Fleet |-> NoBeat]
  /\ events = {}
  /\ rpc = [c \in Refreshers |-> "off"] /\ unseen = [c \in Refreshers |-> {}]
  /\ fd = [c \in Refreshers |-> "gone"] /\ mixed = {}
  /\ tmp = "absent" /\ path = "absent"

Miss == misses < MaxMisses /\ misses' = misses + 1
NoMiss == UNCHANGED misses

--------------------------------------------------------------------------
(* The agent.                                                              *)

\* EventLog::record: the oldest of a full ring makes room.
Recorded(r, e) == Append(IF Len(r) = Capacity THEN Tail(r) ELSE r, e)

RecordEvent(a) ==
  /\ a \in up /\ MapThenSumSet(LAMBDA b : count[b], Fleet) < MaxEvents
  /\ count' = [count EXCEPT ![a] = @ + 1]
  /\ ring' = [ring EXCEPT ![a] = Recorded(@, count[a] + 1)]

\* A poll that fails, a response that is lost, a log that cannot be sent.
Trouble(a) ==
  /\ RecordEvent(a)
  /\ UNCHANGED <<misses, up, base, beat, events, refreshVars, fileVars>>

\* Mutant: the events go out with one heartbeat.
Consumed(a) == <<>>

\* snapshot: what the ring holds after a heartbeat has copied it.
AfterSnapshot(a) == ring[a]

\* heartbeat_loop: a heartbeat that cannot be uploaded is itself an event.
Beat(a) ==
  /\ a \in up
  /\ \/ /\ beat' = [beat EXCEPT ![a] = [state |-> "live", events |-> ring[a]]]
        /\ ring' = [ring EXCEPT ![a] = AfterSnapshot(a)]
        /\ NoMiss /\ UNCHANGED count
     \/ Miss /\ RecordEvent(a) /\ UNCHANGED beat
  /\ UNCHANGED <<up, base, events, refreshVars, fileVars>>

\* The process ends, and the ring with it; its heartbeat goes stale.
AgentStops(a) ==
  /\ a \in up /\ Miss
  /\ up' = up \ {a}
  /\ ring' = [ring EXCEPT ![a] = <<>>]
  /\ base' = [base EXCEPT ![a] = count[a]]
  /\ UNCHANGED <<count, beat, events, refreshVars, fileVars>>

Stale(a) ==
  /\ a \notin up /\ beat[a].state = "live"
  /\ beat' = [beat EXCEPT ![a] = [state |-> "stale", events |-> <<>>]]
  /\ UNCHANGED <<misses, up, count, base, ring, events, refreshVars, fileVars>>

AgentStarts(a) ==
  /\ a \notin up
  /\ up' = up \cup {a}
  /\ UNCHANGED <<misses, count, base, ring, beat, events, refreshVars, fileVars>>

--------------------------------------------------------------------------
(* refresh.                                                                *)

Goto(c, where) == rpc' = [rpc EXCEPT ![c] = where]

BeginRefresh(c) ==
  /\ rpc[c] = "idle"
  /\ Goto(c, "visit") /\ unseen' = [unseen EXCEPT ![c] = Fleet]
  /\ UNCHANGED <<misses, agentVars, events, fileVars>>

\* Mutant: the error ends the loop, too.
LoopEnds(c) ==
  /\ Goto(c, "ended") /\ unseen' = [unseen EXCEPT ![c] = {}]
  /\ fd' = [fd EXCEPT ![c] = "gone"] /\ mixed' = mixed \ {c}

\* A ? on the way: the refresh is over, and with it the rest of the agents.
RefreshFails(c) ==
  /\ Goto(c, "idle") /\ unseen' = [unseen EXCEPT ![c] = {}]
  /\ fd' = [fd EXCEPT ![c] = "gone"] /\ mixed' = mixed \ {c}

\* One agent: its heartbeat unless that is stale, each event of it (INSERT OR
\* IGNORE), mark_seen (Rollout has the row), then its log chunks (LogShipping). An error at any of these ends the
\* refresh; what was entered before it stays.
Visit(c) ==
  \E a \in unseen[c] :
  LET read == IF beat[a].state = "live" THEN {a} ELSE {}
      report == read \X Range(beat[a].events)
  IN
  /\ rpc[c] = "visit"
  /\ \/ /\ events' = events \cup report
        /\ unseen' = [unseen EXCEPT ![c] = @ \ {a}]
        /\ NoMiss /\ UNCHANGED <<rpc, fd, mixed>>
     \/ /\ Miss /\ RefreshFails(c)
        /\ \E entered \in SUBSET report : events' = events \cup entered
  /\ UNCHANGED <<agentVars, tmp, path>>

\* Every agent was visited: the status goes to a file beside the old one, which
\* is created or truncated. A session that is still writing to it goes on where
\* it was. The directory or the file may be refused.
BeginWrite(c) ==
  LET others == {d \in Refreshers : rpc[d] = "writing" /\ fd[d] = "tmp"}
  IN
  /\ rpc[c] = "visit" /\ unseen[c] = {}
  /\ \/ /\ Goto(c, "writing") /\ fd' = [fd EXCEPT ![c] = "tmp"]
        /\ tmp' = "torn"
        /\ mixed' = IF others = {} THEN mixed ELSE mixed \cup others \cup {c}
        /\ NoMiss /\ UNCHANGED unseen
     \/ Miss /\ RefreshFails(c) /\ UNCHANGED tmp
  /\ UNCHANGED <<agentVars, events, path>>

\* What a write that returns leaves in its file: the status, or, if another
\* session wrote to the same file, possibly parts of two.
Written(c) == IF c \in mixed THEN {"whole", "torn"} ELSE {"whole"}

\* The file is filled, wherever somebody has moved it meanwhile, or the write
\* fails half-way.
EndWrite(c) ==
  /\ rpc[c] = "writing"
  /\ \E left \in Written(c) \cup {"torn"} :
       /\ tmp' = IF fd[c] = "tmp" THEN left ELSE tmp
       /\ path' = IF fd[c] = "path" THEN left ELSE path
       /\ \/ left \in Written(c) /\ NoMiss /\ Goto(c, "rename") /\ UNCHANGED <<unseen, fd, mixed>>
          \/ left = "torn" /\ Miss /\ RefreshFails(c)
  /\ UNCHANGED <<agentVars, events>>

\* The file is moved into place, whatever it holds by now. A file that is gone is
\* an error, and the rename may fail by itself.
MoveIntoPlace(c) ==
  /\ rpc[c] = "rename"
  /\ \/ /\ tmp # "absent"
        /\ path' = tmp /\ tmp' = "absent"
        /\ fd' = [d \in Refreshers |-> IF d # c /\ fd[d] = "tmp" THEN "path" ELSE "gone"]
        /\ mixed' = {d \in mixed : d # c /\ fd[d] = "tmp"}
        /\ NoMiss /\ Goto(c, "idle") /\ UNCHANGED unseen
     \/ /\ (tmp = "absent" /\ NoMiss) \/ Miss
        /\ RefreshFails(c) /\ UNCHANGED <<tmp, path>>
  /\ UNCHANGED <<agentVars, events>>

\* An MCP session begins, and ends in the middle; what it was writing stays as it
\* is.
RefresherStarts(c) ==
  /\ rpc[c] = "off" /\ Goto(c, "idle")
  /\ UNCHANGED <<misses, agentVars, events, unseen, fileVars>>

RefresherDies(c) ==
  /\ rpc[c] # "off" /\ Miss
  /\ Goto(c, "off") /\ unseen' = [unseen EXCEPT ![c] = {}]
  /\ fd' = [fd EXCEPT ![c] = "gone"] /\ mixed' = mixed \ {c}
  /\ UNCHANGED <<agentVars, events, tmp, path>>

--------------------------------------------------------------------------
RefreshStep(c) ==
  BeginRefresh(c) \/ Visit(c) \/ BeginWrite(c) \/ EndWrite(c) \/ MoveIntoPlace(c)

StatusNext ==
  \/ \E a \in Fleet :
       Trouble(a) \/ Beat(a) \/ AgentStops(a) \/ Stale(a) \/ AgentStarts(a)
  \/ \E c \in Refreshers : RefreshStep(c) \/ RefresherStarts(c) \/ RefresherDies(c)

StatusSpec == StatusInit /\ [][StatusNext]_statusVars

\* The heartbeat task and cache_loop run for ever, whatever one round of them
\* comes to.
StatusFairness ==
  /\ \A a \in Fleet : WF_statusVars(Beat(a))
  /\ \A c \in Refreshers : WF_statusVars(RefreshStep(c))

StatusFairSpec == StatusSpec /\ StatusFairness

--------------------------------------------------------------------------
(* Properties.                                                             *)

Running == {c \in Refreshers : rpc[c] # "off"}

\* Some session runs.
Watched == Running # {}

\* snapshot: "Events are kept, not consumed, so a controller that checks every
\* few minutes still sees what happened". An event of a process that stays up
\* and has fewer than CAPACITY others after it gets into the registry,
\* whichever heartbeats are lost, overwritten unread or fail to be read.
EventsArrive ==
  \A a \in Fleet, e \in 1..MaxEvents :
    <>[](Watched /\ base[a] < e /\ e <= count[a] /\ count[a] - e < Capacity) => <>(<<a, e>> \in events)

\* A refresh puts a file in place, and mark_seen updates the row of agent a.
Installs == tmp # "absent" /\ tmp' = "absent"
Hears(a) == \E c \in Refreshers :
  rpc'[c] = "visit" /\ a \in unseen[c] \ unseen'[c] /\ beat[a].state = "live"

\* README: "the controller refreshes a local status file every 30 seconds". While
\* some session runs, the refresh goes on whatever breaks off a pass: the file is
\* installed again and again, and the registry hears of every agent that is up
\* again and again, wherever in its pass an error hit (the sweep takes one it
\* does not hear of for gone). Two sessions may between them install a file that
\* is no status at all; it does not outlive their overlap: a session that is
\* left alone puts whole files in its place from then on.
RefreshGoesOn ==
  /\ <>[]Watched =>
       /\ []<><<Installs>>_statusVars
       /\ \A a \in Fleet : <>[](a \in up) => []<><<Hears(a)>>_statusVars
  /\ \A c \in Refreshers : <>[](Running = {c}) => <>[](path = "whole")
=============================================================================
