----------------------------- MODULE Mailbox -----------------------------
(***************************************************************************)
(* The encrypted mailbox between the controller and one agent identity:    *)
(* command and response objects in S3, the doorbell that announces new     *)
(* commands, the controller's relay calls, and the poll loop of every      *)
(* process that runs under the identity (transport.rs, agent main.rs,      *)
(* controller main.rs).                                                    *)
(*                                                                         *)
(* Every S3 request is a step of its own, so a fetch and the delete that   *)
(* claims the object interleave with everything else. A request that fails *)
(* may or may not have taken effect. A process may die at any step; its    *)
(* successor is a new instance with nothing in memory. S3 itself is taken  *)
(* as strongly consistent, and one put_object call stores at most once.    *)
(***************************************************************************)
EXTENDS Integers

CONSTANTS
  Cmds,             \* command ids; each is used by one relay call
  Instances,        \* agent processes, each with its run-time instance id
  NoInstance,       \* "addressed to no particular process"
  NoCmd,            \* "no command in hand"
  QueueTtl,         \* queue_ttl_secs: expires_at - created_at
  TimeoutSecs,      \* timeout_secs of a command
  ReplySlack,       \* the 10 seconds that relay_with adds for the answer
  MaxWaitSecs,      \* max_wait_secs
  ClockLag,         \* how far the agent's clock is behind the controller's
  SkewLimit,        \* created_at may lie this far in the agent's future
  SentKinds,        \* the kinds of command the controller sends
  Readers,          \* the sets of processes that may be able to open a command
  AllowDuplicates,  \* TRUE: two live processes may share the identity
  MaxNow,           \* bound: the clock stops here
  MaxFaults         \* bound: how many S3 requests fail

ASSUME ConstantsAssumption ==
  /\ NoInstance \notin Instances
  /\ NoCmd \notin Cmds
  /\ QueueTtl \in Nat /\ TimeoutSecs \in Nat /\ ReplySlack \in Nat
  /\ MaxWaitSecs \in Nat /\ SkewLimit \in Nat
  /\ ClockLag \in Int
  /\ Readers \subseteq SUBSET Instances
  /\ SentKinds \subseteq {"plain", "overlong", "stand_down"}
  /\ AllowDuplicates \in BOOLEAN
  /\ MaxNow \in Nat /\ MaxFaults \in Nat

\* How long relay_with and relay_instance wait for a response.
WaitSecs ==
  LET whole == QueueTtl + TimeoutSecs + ReplySlack
  IN IF whole <= MaxWaitSecs THEN whole ELSE MaxWaitSecs

\* Longer than a command may stay queued. The defaults satisfy it (430 against
\* 120); main does not check that max_wait_secs exceeds queue_ttl_secs.
ASSUME WaitAssumption == WaitSecs > QueueTtl + ClockLag

VARIABLES
  bucket,     \* commands whose object is under cmd/<agent>/
  resp,       \* resp[c]: the response object of c, "none" if there is none
  doorbell,   \* ETag of the doorbell object: number of rings, 0 if absent
  now,        \* the controller's clock
  faults,     \* S3 requests that have failed so far
  call,       \* call[c]: where the controller's relay of c is
  kind,       \* kind[c]: what the command is (only meaningful once created)
  opens,      \* opens[c]: the processes that can open and parse its object
  target,     \* target[c]: Command.instance
  created,    \* created[c]: Command.created_at
  deadline,   \* deadline[c]: when await_response gives up
  pc,         \* pc[p]: where the poll loop of process p is
  seen,       \* seen[p]: seen_doorbell
  keys,       \* keys[p]: listed keys that drain_commands has yet to visit
  current,    \* current[p]: the command in hand
  batch,      \* batch[p]: claimed commands waiting for their turn
  answer,     \* answer[p]: the response about to be sent
  yielded,    \* yielded[p]: Presence.yielded, set by the heartbeat task
  stoodDown,  \* stoodDown[p]: Presence.stood_down
  missed,     \* history: missed[p], the last scan of p did not complete
  runs,       \* history: runs[c], how often c was begun
  done,       \* history: commands whose run ended
  rung        \* history: commands announced by a ring that succeeded

s3Vars == <<bucket, resp, doorbell>>
callVars == <<call, kind, opens, target, created, deadline>>
loopVars == <<pc, seen, keys, current, batch, answer, missed>>
presenceVars == <<yielded, stoodDown>>
historyVars == <<runs, done, rung>>
vars == <<s3Vars, now, faults, callVars, loopVars, presenceVars, historyVars>>

Kinds == {"plain", "overlong", "stand_down"}
Answers == {"ok", "failed", "refused"}
Waiting == {"put", "ring", "waiting", "expired"}
Verdict == Answers \cup {"timeout", "unknown"}
Live == {"idle", "scan", "drain", "claim", "handle", "exec", "reply"}

TypeOK ==
  /\ bucket \in SUBSET Cmds
  /\ resp \in [Cmds -> Answers \cup {"none"}]
  /\ doorbell \in Nat
  /\ now \in 0..MaxNow
  /\ faults \in 0..MaxFaults
  /\ call \in [Cmds -> {"new"} \cup Waiting \cup Verdict]
  /\ kind \in [Cmds -> Kinds]
  /\ opens \in [Cmds -> SUBSET Instances]
  /\ target \in [Cmds -> Instances \cup {NoInstance}]
  /\ created \in [Cmds -> Nat]
  /\ deadline \in [Cmds -> Nat]
  /\ pc \in [Instances -> {"down", "dead"} \cup Live]
  /\ seen \in [Instances -> Nat]
  /\ keys \in [Instances -> SUBSET Cmds]
  /\ current \in [Instances -> Cmds \cup {NoCmd}]
  /\ batch \in [Instances -> SUBSET Cmds]
  /\ answer \in [Instances -> Answers \cup {"none"}]
  /\ yielded \in [Instances -> BOOLEAN]
  /\ stoodDown \in [Instances -> BOOLEAN]
  /\ missed \in [Instances -> BOOLEAN]
  /\ runs \in [Cmds -> Nat]
  /\ done \in SUBSET Cmds
  /\ rung \in SUBSET Cmds

Init ==
  /\ bucket = {}
  /\ resp = [c \in Cmds |-> "none"]
  /\ doorbell = 0
  /\ now = 0
  /\ faults = 0
  /\ call = [c \in Cmds |-> "new"]
  /\ kind = [c \in Cmds |-> "plain"]
  /\ opens = [c \in Cmds |-> Instances]
  /\ target = [c \in Cmds |-> NoInstance]
  /\ created = [c \in Cmds |-> 0]
  /\ deadline = [c \in Cmds |-> 0]
  /\ pc = [p \in Instances |-> "down"]
  /\ seen = [p \in Instances |-> 0]
  /\ keys = [p \in Instances |-> {}]
  /\ current = [p \in Instances |-> NoCmd]
  /\ batch = [p \in Instances |-> {}]
  /\ answer = [p \in Instances |-> "none"]
  /\ yielded = [p \in Instances |-> FALSE]
  /\ stoodDown = [p \in Instances |-> FALSE]
  /\ missed = [p \in Instances |-> FALSE]
  /\ runs = [c \in Cmds |-> 0]
  /\ done = {}
  /\ rung = {}

\* One S3 request fails; the count only bounds the model.
Fault == faults < MaxFaults /\ faults' = faults + 1

\* A delete_object that fails may still have removed the object.
MaybeDeleted(c) == bucket' \in {bucket, bucket \ {c}}

--------------------------------------------------------------------------
(* The controller: one relay call per command.                             *)

\* relay_with and relay_instance build the command. Only stand_down goes
\* through relay_instance and carries an instance, an id some process has
\* reported in its heartbeat. A command may exceed the agent's
\* max_timeout_secs. Which processes can open it is not the controller's to
\* choose: an old pairing or an old version is a matter of each process.
NewCommand(c, k, t, o) ==
  /\ call[c] = "new"
  /\ (k = "stand_down") <=> (t # NoInstance)
  /\ t # NoInstance => pc[t] # "down"
  /\ now + WaitSecs <= MaxNow
  /\ call' = [call EXCEPT ![c] = "put"]
  /\ kind' = [kind EXCEPT ![c] = k]
  /\ opens' = [opens EXCEPT ![c] = o]
  /\ target' = [target EXCEPT ![c] = t]
  /\ created' = [created EXCEPT ![c] = now]
  /\ UNCHANGED <<s3Vars, now, faults, deadline, loopVars, presenceVars, historyVars>>

\* send_command: the command object is stored first; on an error, which may
\* hide a stored object, the call fails.
PutCommand(c) ==
  /\ call[c] = "put"
  /\ \/ /\ bucket' = bucket \cup {c}
        /\ call' = [call EXCEPT ![c] = "ring"]
        /\ UNCHANGED faults
     \/ /\ Fault
        /\ bucket' \in {bucket, bucket \cup {c}}
        /\ call' = [call EXCEPT ![c] = "unknown"]
  /\ UNCHANGED <<resp, doorbell, now, kind, opens, target, created, deadline, loopVars,
                 presenceVars, historyVars>>

\* send_command, second half: ring_doorbell gives the object a new ETag; a
\* failure, after which it may have a new one all the same, is only logged.
\* await_response then fixes its deadline.
RingDoorbell(c) ==
  /\ call[c] = "ring"
  /\ \/ /\ doorbell' = doorbell + 1
        /\ rung' = rung \cup {c}
        /\ UNCHANGED faults \/ Fault
     \/ Fault /\ UNCHANGED <<doorbell, rung>>
  /\ call' = [call EXCEPT ![c] = "waiting"]
  /\ deadline' = [deadline EXCEPT ![c] = now + WaitSecs]
  /\ UNCHANGED <<bucket, resp, now, kind, opens, target, created, loopVars, presenceVars,
                 runs, done>>

\* await_response finds the response and take_encrypted deletes it. The only
\* reader of resp/<agent>/<c> is this call, so both requests are one step.
TakeResponse(c) ==
  /\ call[c] = "waiting"
  /\ resp[c] # "none"
  /\ call' = [call EXCEPT ![c] = resp[c]]
  /\ resp' = [resp EXCEPT ![c] = "none"]
  /\ UNCHANGED <<bucket, doorbell, now, faults, kind, opens, target, created, deadline,
                 loopVars, presenceVars, historyVars>>

\* The get_object or the delete_object of take_encrypted fails: the call
\* fails, and the response may already be gone.
AwaitFails(c) ==
  /\ call[c] = "waiting"
  /\ Fault
  /\ call' = [call EXCEPT ![c] = "unknown"]
  /\ resp' \in {resp, [resp EXCEPT ![c] = "none"]}
  /\ UNCHANGED <<bucket, doorbell, now, kind, opens, target, created, deadline, loopVars,
                 presenceVars, historyVars>>

\* Mutant: the deadline is computed inside the polling loop and never comes.
NeverExpires(c) == FALSE

\* await_response returns None. relay_instance reports the timeout at once and
\* leaves the command object where it is.
AwaitExpires(c) ==
  /\ call[c] = "waiting"
  /\ resp[c] = "none"
  /\ now >= deadline[c]
  /\ call' = [call EXCEPT ![c] = IF target[c] = NoInstance THEN "expired" ELSE "timeout"]
  /\ UNCHANGED <<s3Vars, now, faults, kind, opens, target, created, deadline, loopVars,
                 presenceVars, historyVars>>

\* relay_with deletes the command, ignores an error, and reports the timeout.
WithdrawCommand(c) ==
  /\ call[c] = "expired"
  /\ \/ bucket' = bucket \ {c} /\ UNCHANGED faults
     \/ Fault /\ MaybeDeleted(c)
  /\ call' = [call EXCEPT ![c] = "timeout"]
  /\ UNCHANGED <<resp, doorbell, now, kind, opens, target, created, deadline, loopVars,
                 presenceVars, historyVars>>

\* The controller dies, or the tool call is cancelled, at any await point.
Abandon(c) ==
  /\ call[c] \in Waiting
  /\ call' = [call EXCEPT ![c] = "unknown"]
  /\ UNCHANGED <<s3Vars, now, faults, kind, opens, target, created, deadline, loopVars,
                 presenceVars, historyVars>>

--------------------------------------------------------------------------
(* The agent process: start, death and run_loop.                           *)

Alive(p) == pc[p] \in Live

\* A new process, with a fresh instance id: run_loop's locals and Presence.
Start(p) ==
  /\ pc[p] = "down"
  /\ AllowDuplicates \/ \A q \in Instances : ~Alive(q)
  /\ pc' = [pc EXCEPT ![p] = "idle"]
  /\ UNCHANGED <<s3Vars, now, faults, callVars, seen, keys, current, batch, answer,
                 missed, presenceVars, historyVars>>

\* Mutant: a failed drain keeps what it had claimed for the next one.
KeepsBatch(p) ==
  /\ keys' = [keys EXCEPT ![p] = {}]
  /\ current' = [current EXCEPT ![p] = NoCmd]
  /\ UNCHANGED batch

\* Forget the drain or batch in progress; its commands are lost.
DropWork(p) ==
  /\ keys' = [keys EXCEPT ![p] = {}]
  /\ current' = [current EXCEPT ![p] = NoCmd]
  /\ batch' = [batch EXCEPT ![p] = {}]

\* The process dies (crash, kill, shutdown signal, restart after an update).
Crash(p) ==
  /\ Alive(p)
  /\ DropWork(p)
  /\ seen' = [seen EXCEPT ![p] = 0]
  /\ answer' = [answer EXCEPT ![p] = "none"]
  /\ missed' = [missed EXCEPT ![p] = FALSE]
  /\ yielded' = [yielded EXCEPT ![p] = FALSE]
  /\ stoodDown' = [stoodDown EXCEPT ![p] = FALSE]
  /\ pc' = [pc EXCEPT ![p] = "dead"]
  /\ UNCHANGED <<s3Vars, now, faults, callVars, historyVars>>

\* The doorbell is read before listing, and remembered before the drain.
\* A tick that sees no new ETag sleeps again, which changes nothing.
DoorbellTick(p) ==
  /\ pc[p] = "idle"
  /\ doorbell # seen[p]
  /\ seen' = [seen EXCEPT ![p] = doorbell]
  /\ pc' = [pc EXCEPT ![p] = "scan"]
  /\ UNCHANGED <<s3Vars, now, faults, callVars, keys, current, batch, answer, missed,
                 presenceVars, historyVars>>

\* Mutant: no full scan; only the doorbell triggers a listing.
NoForcedTick(p) == FALSE

\* next_full_scan has passed (or use_doorbell is off): list without looking at
\* the doorbell. The timer is not modelled; it may fire at any tick.
ForcedTick(p) ==
  /\ pc[p] = "idle"
  /\ pc' = [pc EXCEPT ![p] = "scan"]
  /\ UNCHANGED <<s3Vars, now, faults, callVars, seen, keys, current, batch, answer,
                 missed, presenceVars, historyVars>>

\* doorbell_tag fails: list, and leave seen_doorbell alone.
DoorbellTickFails(p) ==
  /\ pc[p] = "idle"
  /\ Fault
  /\ pc' = [pc EXCEPT ![p] = "scan"]
  /\ UNCHANGED <<s3Vars, now, callVars, seen, keys, current, batch, answer, missed,
                 presenceVars, historyVars>>

\* drain_commands lists the prefix.
ListCommands(p) ==
  /\ pc[p] = "scan"
  /\ keys' = [keys EXCEPT ![p] = bucket]
  /\ pc' = [pc EXCEPT ![p] = "drain"]
  /\ UNCHANGED <<s3Vars, now, faults, callVars, seen, current, batch, answer, missed,
                 presenceVars, historyVars>>

\* Any error in drain_commands returns early: what this drain had claimed is
\* dropped with it. In the middle of a claim the delete may have happened.
DrainFails(p) ==
  /\ pc[p] \in {"scan", "drain", "claim"}
  /\ pc[p] = "drain" => keys[p] # {}
  /\ Fault
  /\ IF pc[p] = "claim" THEN MaybeDeleted(current[p]) ELSE UNCHANGED bucket
  /\ DropWork(p)
  /\ missed' = [missed EXCEPT ![p] = TRUE]
  /\ pc' = [pc EXCEPT ![p] = "idle"]
  /\ UNCHANGED <<resp, doorbell, now, callVars, seen, answer, presenceVars, historyVars>>

\* Mutant: a process takes whatever it finds.
AddressedToAll(p, c) == TRUE

\* Whether drain_commands lets process p take command c.
Addressed(p, c) == target[c] \in {NoInstance, p}

\* get_raw finds a command this process can open and may take; the delete is
\* next.
FetchCommand(p, c) ==
  /\ pc[p] = "drain"
  /\ c \in keys[p] \cap bucket
  /\ p \in opens[c]
  /\ Addressed(p, c)
  /\ current' = [current EXCEPT ![p] = c]
  /\ pc' = [pc EXCEPT ![p] = "claim"]
  /\ UNCHANGED <<s3Vars, now, faults, callVars, seen, keys, batch, answer, missed,
                 presenceVars, historyVars>>

\* The object is gone; or this process cannot open it, and deletes it, an error
\* ignored, before it could know whom it is addressed to; or it is addressed
\* to another instance and stays.
SkipCommand(p, c) ==
  /\ pc[p] = "drain"
  /\ c \in keys[p]
  /\ \/ c \notin bucket /\ UNCHANGED <<bucket, faults>>
     \/ /\ c \in bucket /\ p \notin opens[c]
        /\ \/ bucket' = bucket \ {c} /\ UNCHANGED faults
           \/ Fault /\ MaybeDeleted(c)
     \/ /\ c \in bucket /\ p \in opens[c] /\ ~Addressed(p, c)
        /\ UNCHANGED <<bucket, faults>>
  /\ keys' = [keys EXCEPT ![p] = @ \ {c}]
  /\ UNCHANGED <<resp, doorbell, now, callVars, pc, seen, current, batch, answer, missed,
                 presenceVars, historyVars>>

\* Mutant: the command is kept in the batch although its object is not deleted.
KeepsObject(c) == bucket

\* What delete_key leaves of the prefix.
WithoutObject(c) == bucket \ {c}

\* delete_key succeeds, also when the object is gone by now: claimed.
ClaimCommand(p) ==
  /\ pc[p] = "claim"
  /\ bucket' = WithoutObject(current[p])
  /\ batch' = [batch EXCEPT ![p] = @ \cup {current[p]}]
  /\ keys' = [keys EXCEPT ![p] = @ \ {current[p]}]
  /\ current' = [current EXCEPT ![p] = NoCmd]
  /\ pc' = [pc EXCEPT ![p] = "drain"]
  /\ UNCHANGED <<resp, doorbell, now, faults, callVars, seen, answer, missed, presenceVars,
                 historyVars>>

\* Mutant: the doorbell is read after the drain instead of before it.
DoorbellReadAfterDrain(p) ==
  /\ pc[p] = "drain"
  /\ keys[p] = {}
  /\ missed' = [missed EXCEPT ![p] = FALSE]
  /\ seen' = [seen EXCEPT ![p] = doorbell]
  /\ pc' = [pc EXCEPT ![p] = "handle"]
  /\ UNCHANGED <<s3Vars, now, faults, callVars, keys, current, batch, answer,
                 presenceVars, historyVars>>

\* drain_commands returns: every listed key was visited.
DrainReturns(p) ==
  /\ pc[p] = "drain"
  /\ keys[p] = {}
  /\ missed' = [missed EXCEPT ![p] = FALSE]
  /\ pc' = [pc EXCEPT ![p] = "handle"]
  /\ UNCHANGED <<s3Vars, now, faults, callVars, seen, keys, current, batch, answer,
                 presenceVars, historyVars>>

\* The batch is sorted by created_at; equal times keep the listing's order.
IsNext(p, c) ==
  /\ c \in batch[p]
  /\ \A d \in batch[p] : created[c] <= created[d]

Suspended(p) == yielded[p] \/ stoodDown[p]

AgentClock == now - ClockLag

\* Mutant: expires_at is not looked at.
IgnoresExpiry(c) == created[c] <= AgentClock + SkewLimit /\ kind[c] # "overlong"

\* validate_for_agent, at the moment the command is about to begin.
Valid(c) ==
  /\ created[c] <= AgentClock + SkewLimit
  /\ AgentClock <= created[c] + QueueTtl
  /\ kind[c] # "overlong"

\* Take c from the batch; the step that does so says what happens to it.
TakeUp(p, c) ==
  /\ pc[p] = "handle"
  /\ IsNext(p, c)
  /\ batch' = [batch EXCEPT ![p] = @ \ {c}]
  /\ current' = [current EXCEPT ![p] = c]
  /\ UNCHANGED <<s3Vars, now, faults, callVars, seen, keys, missed, yielded>>

\* A suspended process declines what is not addressed to it; any process
\* refuses a command that fails validation.
RefuseCommand(p, c) ==
  /\ TakeUp(p, c)
  /\ \/ Suspended(p) /\ target[c] = NoInstance
     \/ kind[c] # "stand_down" /\ ~Valid(c)
  /\ answer' = [answer EXCEPT ![p] = "refused"]
  /\ pc' = [pc EXCEPT ![p] = "reply"]
  /\ UNCHANGED <<stoodDown, historyVars>>

\* StandDown is applied before any validation, its expiry included.
HandleStandDown(p, c) ==
  /\ TakeUp(p, c)
  /\ kind[c] = "stand_down"
  /\ stoodDown' = [stoodDown EXCEPT ![p] = TRUE]
  /\ runs' = [runs EXCEPT ![c] = @ + 1]
  /\ done' = done \cup {c}
  /\ answer' = [answer EXCEPT ![p] = "ok"]
  /\ pc' = [pc EXCEPT ![p] = "reply"]
  /\ UNCHANGED rung

\* executor::execute begins.
BeginCommand(p, c) ==
  /\ TakeUp(p, c)
  /\ ~(Suspended(p) /\ target[c] = NoInstance)
  /\ kind[c] # "stand_down"
  /\ Valid(c)
  /\ runs' = [runs EXCEPT ![c] = @ + 1]
  /\ pc' = [pc EXCEPT ![p] = "exec"]
  /\ UNCHANGED <<answer, stoodDown, done, rung>>

\* executor::execute returns with the command's own result.
EndCommand(p) ==
  /\ pc[p] = "exec"
  /\ done' = done \cup {current[p]}
  /\ \E a \in {"ok", "failed"} : answer' = [answer EXCEPT ![p] = a]
  /\ pc' = [pc EXCEPT ![p] = "reply"]
  /\ UNCHANGED <<s3Vars, now, faults, callVars, seen, keys, current, batch, missed,
                 presenceVars, runs, rung>>

\* One attempt of send_response_with_retry: stored, or an error, after which there
\* is another attempt or the response is given up. An attempt that reported an
\* error may have stored it all the same, and the next one stores it again,
\* also if the controller has taken it in between.
SendResponse(p) ==
  LET sent == [resp EXCEPT ![current[p]] = answer[p]]
      over == /\ current' = [current EXCEPT ![p] = NoCmd]
              /\ answer' = [answer EXCEPT ![p] = "none"]
              /\ pc' = [pc EXCEPT ![p] = "handle"]
  IN
  /\ pc[p] = "reply"
  /\ \/ resp' = sent /\ UNCHANGED faults /\ over
     \/ Fault /\ resp' \in {resp, sent} /\ (over \/ UNCHANGED <<current, answer, pc>>)
  /\ UNCHANGED <<bucket, doorbell, now, callVars, seen, keys, batch, missed, presenceVars,
                 historyVars>>

\* The batch is empty: sleep until the next tick.
Sleep(p) ==
  /\ pc[p] = "handle"
  /\ batch[p] = {}
  /\ pc' = [pc EXCEPT ![p] = "idle"]
  /\ UNCHANGED <<s3Vars, now, faults, callVars, seen, keys, current, batch, answer,
                 missed, presenceVars, historyVars>>

\* The heartbeat task changes its mind about a rival (module Presence).
Observe(p) ==
  /\ Alive(p)
  /\ AllowDuplicates
  /\ yielded' = [yielded EXCEPT ![p] = ~@]
  /\ UNCHANGED <<s3Vars, now, faults, callVars, loopVars, stoodDown, historyVars>>

\* Bound: near MaxNow the clock waits for the calls that are still sending.
Tick ==
  /\ now < MaxNow
  /\ \A c \in Cmds : call[c] \in {"put", "ring"} => now + WaitSecs < MaxNow
  /\ now' = now + 1
  /\ UNCHANGED <<s3Vars, faults, callVars, loopVars, presenceVars, historyVars>>

--------------------------------------------------------------------------
ControllerStep(c) ==
  \/ \E k \in SentKinds, t \in Instances \cup {NoInstance}, o \in Readers :
       NewCommand(c, k, t, o)
  \/ PutCommand(c)
  \/ RingDoorbell(c)
  \/ TakeResponse(c)
  \/ AwaitFails(c)
  \/ AwaitExpires(c)
  \/ WithdrawCommand(c)
  \/ Abandon(c)

\* The steps run_loop takes by itself once it has decided to scan.
LoopStep(p) ==
  \/ ListCommands(p)
  \/ \E c \in Cmds : FetchCommand(p, c) \/ SkipCommand(p, c)
  \/ ClaimCommand(p)
  \/ DrainReturns(p)
  \/ \E c \in Cmds : RefuseCommand(p, c) \/ HandleStandDown(p, c) \/ BeginCommand(p, c)
  \/ EndCommand(p)
  \/ SendResponse(p)
  \/ Sleep(p)

AgentStep(p) ==
  \/ Start(p)
  \/ Crash(p)
  \/ DoorbellTick(p)
  \/ ForcedTick(p)
  \/ DoorbellTickFails(p)
  \/ DrainFails(p)
  \/ Observe(p)
  \/ LoopStep(p)

Next ==
  \/ \E c \in Cmds : ControllerStep(c)
  \/ \E p \in Instances : AgentStep(p)
  \/ Tick

Spec == Init /\ [][Next]_vars

\* The controller task and a running agent keep taking their next step, the
\* full-scan timer fires again and again, and the service manager restarts an
\* agent (Restart=always). New commands, cancellations, crashes and faults are
\* never owed.
Fairness ==
  /\ WF_vars(Tick)
  /\ \A c \in Cmds : WF_vars(PutCommand(c) \/ RingDoorbell(c) \/ TakeResponse(c)
                             \/ AwaitExpires(c) \/ WithdrawCommand(c))
  /\ \A p \in Instances : WF_vars(Start(p)) /\ WF_vars(ForcedTick(p)) /\ WF_vars(LoopStep(p))

FairSpec == Spec /\ Fairness

--------------------------------------------------------------------------
(* Properties.                                                             *)

\* Commands only one process can ever consume: with no duplicate process all
\* of them, and those addressed to one instance in any case.
OneConsumer(c) == ~AllowDuplicates \/ target[c] # NoInstance

\* Delivery is at-most-once (drain_commands: "a crash loses the command rather
\* than repeating its side effects"), whatever requests fail, whenever the
\* process dies, and while the controller withdraws the command.
AtMostOnce == \A c \in Cmds : OneConsumer(c) => runs[c] <= 1

\* Process p has the current ETag, and c is there for it and was announced.
Announced(p, c) ==
  /\ seen[p] = doorbell /\ c \in bucket \cap rung
  /\ Addressed(p, c) /\ p \in opens[c]

\* "Anything the controller writes after this point changes the tag again, so
\* it cannot be missed": a process that sleeps with the current ETag leaves no
\* announced command behind, unless its last scan broke off.
NoLostWakeup ==
  \A p \in Instances, c \in Cmds :
    pc[p] = "idle" /\ Announced(p, c) => missed[p]

\* Why no wakeup is lost: a scan that started from the current ETag lists
\* every command that ETag announced, and visits them all before it sleeps.
WakeInv ==
  /\ \A c \in rung : doorbell > 0 /\ call[c] \notin {"new", "put"}
  /\ \A p \in Instances :
       /\ seen[p] <= doorbell
       /\ pc[p] = "down" => seen[p] = 0
       /\ \A c \in Cmds : Announced(p, c) =>
            /\ pc[p] \in {"drain", "claim"} => c \in keys[p]
            /\ pc[p] \notin {"handle", "exec", "reply"}
            /\ pc[p] = "idle" => missed[p]

\* Once relay_with has reported a timeout the command may still be running but
\* is never begun any more: it has expired by then, even for an agent that
\* claimed it before it was withdrawn.
NoBeginAfterTimeout ==
  [][\A c \in Cmds :
       call[c] \in {"expired", "timeout"} /\ kind[c] # "stand_down" => runs'[c] = runs[c]]_vars

\* Process p visits the object of c, which it cannot open, and discards it.
Discards(p, c) == p \notin opens[c] /\ c \in keys[p] \ keys'[p]

\* "A command addressed to a different instance is deliberately left in the
\* bucket" by every process that can read the address: it disappears by the
\* claim of the process it names, or because some process cannot open it and
\* discards it, the process it names or another.
OnlyTargetConsumes ==
  [][\A c \in bucket \ bucket' : target[c] # NoInstance =>
       \/ pc[target[c]] = "claim" /\ current[target[c]] = c
       \/ \E p \in Instances : Discards(p, c)]_vars

\* Locals of run_loop at each of its points; what a process holds is its own.
LoopInv ==
  \A p \in Instances :
    /\ pc[p] \in {"down", "dead", "idle", "scan"} => keys[p] = {} /\ batch[p] = {}
    /\ pc[p] \in {"handle", "exec", "reply"} => keys[p] = {}
    /\ pc[p] \in {"claim", "exec", "reply"} <=> current[p] # NoCmd
    /\ pc[p] = "claim" => current[p] \in keys[p]
    /\ pc[p] = "reply" => answer[p] # "none"
    /\ \A c \in Cmds : c = current[p] \/ c \in batch[p] => Addressed(p, c)

AloneInv ==
  ~AllowDuplicates => \A p, q \in Instances : Alive(p) /\ Alive(q) => p = q

\* No process will ever get hold of c again (c was stored before).
Spent(c) ==
  /\ c \notin bucket
  /\ \A p \in Instances : c \notin batch[p] /\ (Addressed(p, c) => c \notin keys[p])

\* Where a command can be: unsent, in the bucket, listed, claimed, or spent;
\* only a spent one has run.
PlaceInv ==
  \A c \in Cmds :
    /\ call[c] \in {"new", "put"} =>
         /\ runs[c] = 0 /\ resp[c] = "none" /\ c \notin bucket /\ c \notin done
         /\ \A p \in Instances : c \notin keys[p] /\ c \notin batch[p] /\ c # current[p]
    /\ OneConsumer(c) =>
         /\ runs[c] \in {0, 1}
         /\ runs[c] = 1 => Spent(c)
         /\ \A p \in Instances :
              c \in batch[p] => c \notin bucket /\ c \notin keys[p]

\* What an answer on its way says of the command.
Justified(c, a) ==
  /\ a \in {"ok", "failed"} => c \in done
  /\ a = "refused" => runs[c] = 0 /\ Spent(c)

AnswerInv ==
  \A c \in Cmds : OneConsumer(c) =>
    /\ c \in done => runs[c] = 1
    /\ Justified(c, resp[c]) /\ Justified(c, call[c])
    /\ \A p \in Instances : c = current[p] =>
         /\ pc[p] = "exec" => runs[c] = 1
         /\ pc[p] = "reply" => Justified(c, answer[p])
         /\ pc[p] \in {"exec", "reply"} => Spent(c)

\* A call that gave up did so after the command had expired for the agent.
TimeInv ==
  \A c \in Cmds :
    /\ created[c] <= now
    /\ call[c] = "waiting" => deadline[c] >= created[c] + WaitSecs
    /\ call[c] \in {"expired", "timeout"} => now >= created[c] + WaitSecs
    /\ call[c] = "expired" => target[c] = NoInstance
    /\ kind[c] = "stand_down" <=> target[c] # NoInstance

\* The inductive invariant behind AtMostOnce and ImplementsDelivery: where a
\* command object, its copies and its answers can be at the same time.
DeliveryInv == TypeOK /\ LoopInv /\ AloneInv /\ PlaceInv /\ AnswerInv /\ TimeInv

\* What the caller was told, in the words of CommandDelivery. relay_instance
\* does not withdraw a command that timed out, so its timeout promises nothing.
Told(c) ==
  IF call[c] \in {"new"} \cup Waiting THEN "none"
  ELSE IF call[c] = "timeout" /\ target[c] # NoInstance THEN "unknown"
  ELSE call[c]

Delivery == INSTANCE CommandDelivery WITH verdict <- [c \in Cmds |-> Told(c)]

\* The mailbox, its faults and crashes included, implements the abstract
\* at-most-once delivery, as long as one process holds the identity.
ImplementsDelivery == Delivery!DeliverySpec

\* Every command object is eventually consumed, withdrawn, or has nobody left
\* to consume it: the full scan makes up for lost rings and failed drains.
EventuallyConsumed ==
  \A c \in Cmds :
    c \in bucket ~> \/ c \notin bucket
                    \/ \A p \in Instances : Addressed(p, c) => pc[p] = "dead"

\* Every relay call returns to its caller.
CallsReturn == \A c \in Cmds : call[c] \in Waiting ~> call[c] \in Verdict
==========================================================================
