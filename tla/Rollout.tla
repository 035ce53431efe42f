----------------------------- MODULE Rollout -----------------------------
(***************************************************************************)
(* The controller's side of fleet updates: publish and retract_update, the *)
(* manifest slot of every agent and the payload of every release, what the *)
(* registry remembers of each agent, and the sweep that retires a finished *)
(* rollout (controller main.rs, rollout.rs, registry.rs, status_cache.rs). *)
(*                                                                         *)
(* Tool calls, the sweep and the agents interleave at every S3 request.    *)
(* An agent installs what its slot offers in one step; module SelfUpdate   *)
(* has the steps. Releases are numbered in the order of published_at.      *)
(***************************************************************************)
EXTENDS Integers

CONSTANTS
  Agents,
  Releases,    \* release ids, positive numbers
  Builds,      \* binaries, told apart by their SHA-256
  VersionOf,   \* VersionOf[b]: the version string build b reports, a positive number
  Labels,      \* version strings a release may be published under
  NoHash,      \* pairs <<a, b>>: agent a, running b, reports no binary_sha256, since
               \* b is too old to or a cannot read its own executable
  TargetOf,    \* TargetOf[b]: the platform build b runs on
  HostOf,      \* HostOf[a]: the platform of agent a
  InitialOf,   \* InitialOf[a]: the build agent a was installed with
  NoBuild,     \* no hash, no build yet
  MaxEvents    \* bound: failing requests, dying controllers, agents that go down
               \* and calls of retract_update, together

ASSUME ConstantsAssumption ==
  /\ Releases \subseteq Nat \ {0}
  /\ NoBuild \notin Builds
  /\ InitialOf \in [Agents -> Builds]
  /\ VersionOf \in [Builds -> Nat \ {0}] /\ Labels \subseteq Nat \ {0}
  /\ \A a \in Agents : TargetOf[InitialOf[a]] = HostOf[a]
  /\ MaxEvents \in Nat

NoRelease == 0

\* What agent_seen keeps of a heartbeat of agent a running build b; and of an
\* agent that has not been heard from within seen_window.
Reports(a, b) ==
  [hash |-> IF <<a, b>> \in NoHash THEN NoBuild ELSE b, version |-> VersionOf[b]]
Silent == [hash |-> NoBuild, version |-> 0]
SeenAgents == [hash : Builds \cup {NoBuild}, version : Nat]

VARIABLES
  manifest,  \* manifest[a]: the release named by updates/manifest/<a>.json
  payload,   \* releases with chunks under updates/blob/
  events,
  pub,       \* pub[r]: "new", "put", "published" or "failed"
  build,     \* build[r]: what it carries
  label,     \* label[r]: the version in its manifests, 0 until published
  puts,      \* puts[r]: agents whose manifest is still to be put
  given,     \* given[r]: agents whose manifest was put without an error
  disk,      \* disk[a]: the build installed on a
  up,        \* agents that are running
  last,      \* last[a]: the newest release a has acted on
  seen,      \* seen[a]: the row of a in agent_seen
  spc,       \* where the sweep is: "idle", "read", "decide" or "retire"
  live,      \* the sweep's copy of seen
  toRead,    \* agents whose manifest the sweep has yet to read
  held,      \* held[a]: the manifest the sweep read for a
  retiring,  \* the release it is retiring
  early,     \* history: releases not all given out when the sweep began
  cut,       \* history: releases whose retirement broke off
  retract,   \* agents retract_update has yet to visit
  marked,    \* the one whose manifest it has read
  doomed     \* releases it will delete

bucketVars == <<manifest, payload>>
pubVars == <<pub, build, label, puts, given>>
agentVars == <<disk, up, last>>
sweepVars == <<spc, live, toRead, held, retiring, early, cut>>
retractVars == <<retract, marked, doomed>>
vars == <<bucketVars, events, pubVars, agentVars, seen, sweepVars, retractVars>>

Init ==
  /\ manifest = [a \in Agents |-> NoRelease] /\ payload = {}
  /\ events = 0
  /\ pub = [r \in Releases |-> "new"]
  /\ build = [r \in Releases |-> NoBuild] /\ label = [r \in Releases |-> 0]
  /\ puts = [r \in Releases |-> {}] /\ given = [r \in Releases |-> {}]
  /\ disk = InitialOf /\ up = Agents
  /\ last = [a \in Agents |-> NoRelease]
  /\ seen = [a \in Agents |-> Reports(a, InitialOf[a])]
  /\ spc = "idle" /\ live = [a \in Agents |-> Silent] /\ toRead = {}
  /\ held = [a \in Agents |-> NoRelease] /\ retiring = NoRelease /\ early = {} /\ cut = {}
  /\ retract = {} /\ marked = {} /\ doomed = {}

Event == events < MaxEvents /\ events' = events + 1
NoEvent == UNCHANGED events

\* The manifest of a is gone, or an error hides whether it is.
Cleared(a) == [manifest EXCEPT ![a] = NoRelease]

--------------------------------------------------------------------------
(* publish and retract_update.                                             *)

\* The upload of the chunks completes, or fails and is deleted again (unless
\* that fails too, which is ignored). The agents are the ones asked for, by
\* default all of them; the version is the one asked for, by default the
\* controller's own, and the tag when publishing is automatic: no need for it
\* to be the build's.
StageRelease(r, b, v, agents) ==
  /\ pub[r] = "new" /\ \A q \in Releases : q < r => pub[q] # "new"
  /\ build' = [build EXCEPT ![r] = b] /\ label' = [label EXCEPT ![r] = v]
  /\ \/ /\ payload' = payload \cup {r}
        /\ pub' = [pub EXCEPT ![r] = "put"]
        /\ puts' = [puts EXCEPT ![r] = agents]
        /\ NoEvent
     \/ /\ Event
        /\ pub' = [pub EXCEPT ![r] = "failed"]
        /\ payload' \in {payload, payload \cup {r}}
        /\ UNCHANGED puts
  /\ UNCHANGED <<manifest, given, agentVars, seen, sweepVars, retractVars>>

\* put_update_manifest for one agent overwrites whatever its slot held. An
\* error is reported for that agent, and the object may be stored anyway.
PutManifest(r, a) ==
  /\ pub[r] = "put"
  /\ a \in puts[r]
  /\ puts' = [puts EXCEPT ![r] = @ \ {a}]
  /\ \/ /\ manifest' = [manifest EXCEPT ![a] = r]
        /\ given' = [given EXCEPT ![r] = @ \cup {a}]
        /\ NoEvent
     \/ /\ Event
        /\ manifest' \in {manifest, [manifest EXCEPT ![a] = r]}
        /\ UNCHANGED given
  /\ UNCHANGED <<payload, pub, build, label, agentVars, seen, sweepVars, retractVars>>

\* No agent was given the release: remove it, and ignore an error. Otherwise
\* record the rollout.
EndPublish(r) ==
  /\ pub[r] = "put"
  /\ puts[r] = {}
  /\ pub' = [pub EXCEPT ![r] = IF given[r] = {} THEN "failed" ELSE "published"]
  /\ payload' \in IF given[r] = {} THEN {payload, payload \ {r}} ELSE {payload}
  /\ UNCHANGED <<manifest, events, build, label, puts, given, agentVars, seen, sweepVars,
                 retractVars>>

BeginRetract(agents) ==
  /\ retract = {} /\ doomed = {}
  /\ Event
  /\ retract' = agents
  /\ UNCHANGED <<bucketVars, pubVars, agentVars, seen, sweepVars, marked,
                 doomed>>

\* For each agent: note the release it is offered, if it is to be deleted and
\* the manifest can be read ...
RetractRead(a) ==
  /\ a \in retract /\ marked = {}
  /\ marked' = {a}
  /\ doomed' \in {doomed, doomed \cup ({manifest[a]} \ {NoRelease})}
  /\ UNCHANGED <<bucketVars, events, pubVars, agentVars, seen, sweepVars, retract>>

\* ... and delete the manifest that is there by now. An error ends the call.
RetractFrom(a) ==
  /\ a \in marked
  /\ marked' = {}
  /\ \/ /\ manifest' = Cleared(a)
        /\ retract' = retract \ {a}
        /\ NoEvent /\ UNCHANGED doomed
     \/ /\ Event
        /\ manifest' \in {manifest, Cleared(a)}
        /\ retract' = {} /\ doomed' = {}
  /\ UNCHANGED <<payload, pubVars, agentVars, seen, sweepVars>>

\* With delete_release those releases are deleted as well. An error in listing
\* the chunks ends the call, one in deleting them is only logged.
RetractPayload(r) ==
  /\ retract = {}
  /\ r \in doomed
  /\ \/ payload' = payload \ {r} /\ doomed' = doomed \ {r} /\ NoEvent
     \/ Event /\ doomed' \in {{}, doomed \ {r}} /\ UNCHANGED payload
  /\ UNCHANGED <<manifest, pubVars, agentVars, seen, sweepVars, retract, marked>>

--------------------------------------------------------------------------
(* The agents, as far as the controller can tell.                          *)

Fits(a, r) == r # NoRelease /\ TargetOf[build[r]] = HostOf[a]

\* check_and_apply: a newer release for this platform is installed while its
\* payload is there, or found to be the build in place already.
Install(a) ==
  LET r == manifest[a] IN
  /\ a \in up
  /\ Fits(a, r) /\ r > last[a]
  /\ disk[a] = build[r] \/ r \in payload
  /\ disk' = [disk EXCEPT ![a] = build[r]]
  /\ last' = [last EXCEPT ![a] = r]
  /\ UNCHANGED <<bucketVars, events, pubVars, up, seen, sweepVars, retractVars>>

GoDown(a) ==
  /\ a \in up
  /\ Event
  /\ up' = up \ {a}
  /\ UNCHANGED <<bucketVars, pubVars, disk, last, seen, sweepVars, retractVars>>

ComeUp(a) ==
  /\ a \notin up
  /\ up' = up \cup {a}
  /\ UNCHANGED <<bucketVars, events, pubVars, disk, last, seen, sweepVars, retractVars>>

\* refresh reads the heartbeat of a running agent and calls mark_seen.
MarkSeen(a) ==
  /\ a \in up /\ seen[a] # Reports(a, disk[a])
  /\ seen' = [seen EXCEPT ![a] = Reports(a, disk[a])]
  /\ UNCHANGED <<bucketVars, events, pubVars, agentVars, sweepVars, retractVars>>

\* An agent that is down stays so for longer than seen_window.
FallSilent(a) ==
  /\ a \notin up /\ seen[a] # Silent
  /\ seen' = [seen EXCEPT ![a] = Silent]
  /\ UNCHANGED <<bucketVars, events, pubVars, agentVars, sweepVars, retractVars>>

--------------------------------------------------------------------------
(* The sweep.                                                              *)

\* It starts from one look at the registry ...
BeginSweep ==
  /\ spc = "idle"
  /\ spc' = "read" /\ live' = seen /\ toRead' = Agents
  /\ early' = {r \in Releases : pub[r] \in {"new", "put"}}
  /\ UNCHANGED <<bucketVars, events, pubVars, agentVars, seen, held, retiring, cut,
                 retractVars>>

\* A retirement under way is broken off.
SweepEnds ==
  /\ spc' = "idle" /\ toRead' = {} /\ retiring' = NoRelease /\ early' = {}
  /\ live' = [a \in Agents |-> Silent] /\ held' = [a \in Agents |-> NoRelease]
  /\ cut' = cut \cup ({retiring} \ {NoRelease})

\* ... then reads every manifest; an error ends it.
SweepRead(a) ==
  /\ spc = "read"
  /\ a \in toRead
  /\ \/ /\ held' = [held EXCEPT ![a] = manifest[a]]
        /\ toRead' = toRead \ {a}
        /\ spc' = IF toRead = {a} THEN "decide" ELSE "read"
        /\ NoEvent /\ UNCHANGED <<live, retiring, early, cut>>
     \/ SweepEnds /\ Event
  /\ UNCHANGED <<bucketVars, pubVars, agentVars, seen, retractVars>>

Held(r) == \E a \in Agents : held[a] = r

\* Mutant: only a hash tells what an agent runs.
RunsByHash(s, r) == s.hash = build[r]

\* runs: by the hash, and by the version string for an agent that reports none.
Runs(s, r) == IF s.hash = NoBuild THEN s.version = label[r] ELSE s.hash = build[r]

\* Every holder of the release is silent or runs the build.
Complete(r) ==
  \A a \in Agents : held[a] = r => live[a] = Silent \/ Runs(live[a], r)

SweepDecide(r) ==
  /\ spc = "decide"
  /\ Held(r) /\ Complete(r)
  /\ spc' = "retire" /\ retiring' = r
  /\ UNCHANGED <<bucketVars, events, pubVars, agentVars, seen, live, toRead, held, early,
                 cut, retractVars>>

SweepDone ==
  /\ spc = "decide"
  /\ \A r \in Releases : Held(r) => ~Complete(r)
  /\ SweepEnds
  /\ UNCHANGED <<bucketVars, events, pubVars, agentVars, seen, retractVars>>

\* Mutant: a manifest that cannot be deleted does not stop the sweep, and is
\* forgotten.
SkipsManifest(a) ==
  /\ spc = "retire"
  /\ held[a] = retiring
  /\ held' = [held EXCEPT ![a] = NoRelease]
  /\ UNCHANGED <<bucketVars, events, pubVars, agentVars, seen, spc, live, toRead, retiring,
                 early, cut, retractVars>>

\* The manifests of the holders go first, whatever the slots hold by now ...
SweepManifest(a) ==
  /\ spc = "retire"
  /\ held[a] = retiring
  /\ \/ /\ manifest' = Cleared(a)
        /\ held' = [held EXCEPT ![a] = NoRelease]
        /\ NoEvent /\ UNCHANGED <<spc, live, toRead, retiring, early, cut>>
     \/ /\ Event
        /\ manifest' \in {manifest, Cleared(a)}
        /\ SweepEnds
  /\ UNCHANGED <<payload, pubVars, agentVars, seen, retractVars>>

\* ... then the payload, and the row in the ledger is closed. A chunk that cannot
\* be deleted is only logged; chunks that cannot be listed, or a row that cannot
\* be written, end the sweep.
SweepPayload ==
  /\ spc = "retire"
  /\ ~Held(retiring)
  /\ \/ SweepEnds /\ Event /\ payload' \in {payload, payload \ {retiring}}
     \/ /\ spc' = "decide" /\ retiring' = NoRelease
        /\ \/ payload' = payload \ {retiring} /\ NoEvent /\ UNCHANGED cut
           \/ Event /\ cut' = cut \cup {retiring} /\ UNCHANGED payload
        /\ UNCHANGED <<live, toRead, held, early>>
  /\ UNCHANGED <<manifest, pubVars, agentVars, seen, retractVars>>

\* The controller dies: what it was publishing, retracting or sweeping stays
\* as it is in the bucket.
ControllerDies ==
  /\ Event
  /\ pub' = [r \in Releases |-> IF pub[r] = "put" THEN "failed" ELSE pub[r]]
  /\ puts' = [r \in Releases |-> {}]
  /\ retract' = {} /\ marked' = {} /\ doomed' = {}
  /\ SweepEnds
  /\ UNCHANGED <<bucketVars, build, label, given, agentVars, seen>>

--------------------------------------------------------------------------
PublishStep(r) == (\E a \in Agents : PutManifest(r, a)) \/ EndPublish(r)

RetractStep ==
  \/ \E a \in Agents : RetractRead(a) \/ RetractFrom(a)
  \/ \E r \in Releases : RetractPayload(r)

SweepStep ==
  \/ BeginSweep \/ SweepDone \/ SweepPayload
  \/ \E a \in Agents : SweepRead(a) \/ SweepManifest(a)
  \/ \E r \in Releases : SweepDecide(r)

Next ==
  \/ \E r \in Releases, b \in Builds, v \in Labels, s \in (SUBSET Agents) \ {{}} :
       StageRelease(r, b, v, s)
  \/ \E r \in Releases : PublishStep(r)
  \/ \E s \in (SUBSET Agents) \ {{}} : BeginRetract(s)
  \/ RetractStep
  \/ \E a \in Agents : \/ Install(a) \/ GoDown(a) \/ ComeUp(a) \/ MarkSeen(a) \/ FallSilent(a)
  \/ SweepStep
  \/ ControllerDies

Spec == Init /\ [][Next]_vars

\* A call that has begun goes on unless the controller dies, its background
\* loops run for ever (it is restarted), and a running agent keeps looking at
\* its slot. Publishes, retractions and the return of an agent are not owed.
Fairness ==
  /\ \A r \in Releases : WF_vars(PublishStep(r))
  /\ WF_vars(RetractStep) /\ WF_vars(SweepStep)
  /\ \A a \in Agents : WF_vars(Install(a)) /\ WF_vars(MarkSeen(a))

FairSpec == Spec /\ Fairness

--------------------------------------------------------------------------
(* Properties.                                                             *)

TypeOK ==
  /\ manifest \in [Agents -> Releases \cup {NoRelease}] /\ payload \in SUBSET Releases
  /\ events \in 0..MaxEvents
  /\ pub \in [Releases -> {"new", "put", "published", "failed"}]
  /\ build \in [Releases -> Builds \cup {NoBuild}]
  /\ label \in [Releases -> Nat]
  /\ puts \in [Releases -> SUBSET Agents] /\ given \in [Releases -> SUBSET Agents]
  /\ disk \in [Agents -> Builds] /\ up \in SUBSET Agents
  /\ last \in [Agents -> Releases \cup {NoRelease}]
  /\ seen \in [Agents -> SeenAgents]
  /\ spc \in {"idle", "read", "decide", "retire"}
  /\ live \in [Agents -> SeenAgents] /\ toRead \in SUBSET Agents
  /\ held \in [Agents -> Releases \cup {NoRelease}]
  /\ retiring \in Releases \cup {NoRelease}
  /\ early \in SUBSET Releases /\ cut \in SUBSET Releases
  /\ retract \in SUBSET Agents /\ marked \in SUBSET retract /\ doomed \in SUBSET Releases

\* "It can only be deleted once none of them still need it", "manifests first,
\* then the payload": where the sweep deletes the payload of a release that had
\* been given out before the sweep began, no agent is still offered it, although
\* publishes, retractions and failures go on between its reads, its decision and
\* its deletes. (A release still being given out may lose its payload before the
\* last agents get their manifests.)
SweepLeavesNoDeadOffer ==
  [][spc' # "retire" /\ retiring \in payload \ early /\ retiring \notin payload'
     => \A a \in Agents : manifest[a] # retiring]_vars

\* What a slot names has been staged, so its build is known.
Staged ==
  /\ \A r \in Releases : pub[r] # "new" => build[r] \in Builds
  /\ \A a \in Agents : manifest[a] # NoRelease => pub[manifest[a]] # "new"

\* A release given out before the sweep began is put nowhere any more, so that a
\* slot the sweep has passed names it only if the sweep still holds it for that
\* agent.
Passed ==
  /\ IF spc = "retire" THEN retiring \in Releases ELSE retiring = NoRelease
  /\ spc \in {"decide", "retire"} => toRead = {}
  /\ spc # "idle" => \A r \in Releases : pub[r] \in {"new", "put"} => r \in early
  /\ spc # "idle" => \A a \in Agents \ toRead :
                      manifest[a] \in Releases \ early => held[a] = manifest[a]

\* Why SweepLeavesNoDeadOffer holds.
RolloutInv == TypeOK /\ Staged /\ Passed

\* A release whose holders all run it, and let the controller know: by their
\* hash, or by the version string if the release is published under it.
Finished(r) ==
  /\ \E a \in Agents : manifest[a] = r
  /\ \A a \in Agents : manifest[a] = r =>
       /\ a \in up /\ disk[a] = build[r]
       /\ <<a, disk[a]>> \notin NoHash \/ VersionOf[disk[a]] = label[r]

\* "Once every agent that still matters is running the published build, the
\* controller deletes the release and its manifests": a rollout that has reached
\* all its holders does not stay offered, and once the sweep retires it its
\* payload goes as well, unless a failure breaks just that off. (Nothing then
\* takes up a payload that no manifest names any more.)
FinishedRolloutsGo ==
  \A r \in Releases :
    ~<>[]Finished(r) /\ (retiring = r ~> (r \notin payload \/ r \in cut))
==========================================================================
