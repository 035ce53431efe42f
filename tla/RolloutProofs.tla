--------------------------- MODULE RolloutProofs --------------------------
(***************************************************************************)
(* Proofs about Rollout, for any fleet, any releases, builds and version   *)
(* strings, and any number of faults, outages and retractions: the sweep   *)
(* deletes no payload from under an agent that is still offered it.        *)
(***************************************************************************)
EXTENDS Rollout, TLAPS

LEMMA NoReleaseIsNone == NoRelease \notin Releases
BY ConstantsAssumption DEF NoRelease

LEMMA ReportsAreRows ==
  ASSUME NEW a \in Agents, NEW b \in Builds
  PROVE  Reports(a, b) \in SeenAgents
<1>1. VersionOf[b] \in Nat
  BY ConstantsAssumption
<1>2. QED
  BY <1>1 DEF Reports, SeenAgents

LEMMA SilentIsARow == Silent \in SeenAgents
BY DEF Silent, SeenAgents

LEMMA InitEstablishesRolloutInv == Init => RolloutInv
<1> SUFFICES ASSUME Init PROVE RolloutInv
  OBVIOUS
<1>1. seen \in [Agents -> SeenAgents] /\ live \in [Agents -> SeenAgents]
  BY ConstantsAssumption, ReportsAreRows, SilentIsARow DEF Init
<1>2. TypeOK
  BY <1>1, ConstantsAssumption DEF Init, TypeOK
<1>3. QED
  BY <1>2, NoReleaseIsNone DEF Init, RolloutInv, Staged, Passed

--------------------------------------------------------------------------
(* The types.                                                              *)

LEMMA SweepEndsTypes ==
  ASSUME TypeOK, SweepEnds
  PROVE  /\ spc' \in {"idle", "read", "decide", "retire"}
         /\ live' \in [Agents -> SeenAgents] /\ toRead' \in SUBSET Agents
         /\ held' \in [Agents -> Releases \cup {NoRelease}]
         /\ retiring' \in Releases \cup {NoRelease}
         /\ early' \in SUBSET Releases /\ cut' \in SUBSET Releases
BY SilentIsARow DEF SweepEnds, TypeOK

LEMMA NextKeepsTypes == RolloutInv /\ [Next]_vars => TypeOK'
<1> SUFFICES ASSUME TypeOK, Staged, Passed, [Next]_vars PROVE TypeOK'
  BY DEF RolloutInv
<1> USE ConstantsAssumption, NoReleaseIsNone DEF bucketVars, pubVars, agentVars, sweepVars, retractVars
<1>0. Event \/ NoEvent => events' \in 0..MaxEvents
  BY DEF Event, NoEvent, TypeOK
<1>1. ASSUME NEW r \in Releases, NEW b \in Builds, NEW v \in Labels, NEW s \in SUBSET Agents,
             StageRelease(r, b, v, s)
      PROVE  TypeOK'
  <2>1. label' \in [Releases -> Nat] /\ build' \in [Releases -> Builds \cup {NoBuild}]
    BY <1>1 DEF StageRelease, TypeOK
  <2>2. QED
    BY <1>0, <1>1, <2>1 DEF StageRelease, TypeOK
<1>2. ASSUME NEW r \in Releases, NEW a \in Agents, PutManifest(r, a) PROVE TypeOK'
  BY <1>0, <1>2 DEF PutManifest, TypeOK
<1>3. ASSUME NEW r \in Releases, EndPublish(r) PROVE TypeOK'
  BY <1>3 DEF EndPublish, TypeOK
<1>4. ASSUME NEW s \in SUBSET Agents, BeginRetract(s) PROVE TypeOK'
  <2>1. retract' = s /\ UNCHANGED marked /\ marked = {}
    BY <1>4 DEF BeginRetract, TypeOK
  <2>2. QED
    BY <1>0, <1>4, <2>1 DEF BeginRetract, TypeOK
<1>5. ASSUME NEW a \in Agents, RetractRead(a) PROVE TypeOK'
  BY <1>5 DEF RetractRead, TypeOK
<1>6. ASSUME NEW a \in Agents, RetractFrom(a) PROVE TypeOK'
  BY <1>0, <1>6 DEF RetractFrom, Cleared, TypeOK
<1>7. ASSUME NEW r \in Releases, RetractPayload(r) PROVE TypeOK'
  BY <1>0, <1>7 DEF RetractPayload, TypeOK
<1>8. ASSUME NEW a \in Agents, Install(a) PROVE TypeOK'
  <2>1. manifest[a] \in Releases
    BY <1>8 DEF Install, Fits, TypeOK
  <2>2. build[manifest[a]] \in Builds
    BY <2>1 DEF Staged
  <2>3. QED
    BY <1>8, <2>1, <2>2 DEF Install, TypeOK
<1>9. ASSUME NEW a \in Agents, GoDown(a) \/ ComeUp(a) PROVE TypeOK'
  BY <1>0, <1>9 DEF GoDown, ComeUp, TypeOK
<1>10. ASSUME NEW a \in Agents, MarkSeen(a) \/ FallSilent(a) PROVE TypeOK'
  <2>1. Reports(a, disk[a]) \in SeenAgents /\ Silent \in SeenAgents
    BY ReportsAreRows, SilentIsARow DEF TypeOK
  <2>2. seen' \in [Agents -> SeenAgents]
    BY <1>10, <2>1 DEF MarkSeen, FallSilent, TypeOK
  <2>3. UNCHANGED <<bucketVars, events, pubVars, agentVars, sweepVars, retractVars>>
    BY <1>10 DEF MarkSeen, FallSilent
  <2>4. QED
    BY <2>2, <2>3 DEF TypeOK
<1>11. CASE BeginSweep
  BY <1>11 DEF BeginSweep, TypeOK
<1>12. CASE SweepDone
  BY <1>12, SweepEndsTypes DEF SweepDone, TypeOK
<1>13. CASE SweepPayload
  <2>1. CASE SweepEnds
    BY <1>0, <1>13, <2>1, SweepEndsTypes DEF SweepPayload, TypeOK
  <2>2. CASE ~SweepEnds
    <3>1. retiring \in Releases
      BY <1>13 DEF SweepPayload, Passed
    <3>2. QED
      BY <1>0, <1>13, <2>2, <3>1 DEF SweepPayload, TypeOK
  <2>3. QED
    BY <2>1, <2>2
<1>14. ASSUME NEW a \in Agents, SweepRead(a) PROVE TypeOK'
  BY <1>0, <1>14, SweepEndsTypes DEF SweepRead, TypeOK
<1>15. ASSUME NEW a \in Agents, SweepManifest(a) PROVE TypeOK'
  BY <1>0, <1>15, SweepEndsTypes DEF SweepManifest, Cleared, TypeOK
<1>16. ASSUME NEW r \in Releases, SweepDecide(r) PROVE TypeOK'
  BY <1>16 DEF SweepDecide, TypeOK
<1>17. CASE ControllerDies
  BY <1>0, <1>17, SweepEndsTypes DEF ControllerDies, TypeOK
<1>18. CASE UNCHANGED vars
  BY <1>18 DEF vars, TypeOK
<1>19. QED
  BY <1>1, <1>2, <1>3, <1>4, <1>5, <1>6, <1>7, <1>8, <1>9, <1>10, <1>11, <1>12, <1>13, <1>14,
     <1>15, <1>16, <1>17, <1>18
     DEF Next, PublishStep, RetractStep, SweepStep

--------------------------------------------------------------------------
(* What the slots name, and what the sweep has passed.                     *)

\* Steps that put nothing: slots are at most cleared.
LEMMA ClearingKeepsStaged ==
  ASSUME Staged, UNCHANGED build,
         manifest \in [Agents -> Releases \cup {NoRelease}],
         \A r \in Releases : pub[r] # "new" <=> pub'[r] # "new",
         \A a \in Agents : manifest'[a] \in {manifest[a], NoRelease}
  PROVE  Staged'
BY NoReleaseIsNone DEF Staged

\* The sweep rests.
LEMMA RestingIsPassed ==
  ASSUME SweepEnds
  PROVE  Passed'
BY DEF SweepEnds, Passed

\* The sweep stands still, and the publish of one release goes on.
LEMMA PublishKeepsPassed ==
  ASSUME TypeOK, Passed, sweepVars' = sweepVars,
         NEW r \in Releases, pub[r] \in {"new", "put"},
         \A q \in Releases \ {r} : pub'[q] = pub[q],
         \A a \in Agents : manifest'[a] = manifest[a] \/ (manifest'[a] = r /\ pub[r] = "put")
  PROVE  Passed'
BY NoReleaseIsNone DEF Passed, sweepVars, TypeOK

\* The sweep stands still, and slots are at most cleared.
LEMMA ClearingKeepsPassed ==
  ASSUME TypeOK, Passed, sweepVars' = sweepVars, pub' = pub,
         \A a \in Agents : manifest'[a] = manifest[a] \/ manifest'[a] = NoRelease
  PROVE  Passed'
BY NoReleaseIsNone DEF Passed, sweepVars, TypeOK

LEMMA NextKeepsParts == RolloutInv /\ [Next]_vars => Staged' /\ Passed'
<1> SUFFICES ASSUME TypeOK, Staged, Passed, [Next]_vars PROVE Staged' /\ Passed'
  BY DEF RolloutInv
<1>0. /\ manifest \in [Agents -> Releases \cup {NoRelease}]
      /\ pub \in [Releases -> {"new", "put", "published", "failed"}]
  BY DEF TypeOK
<1> USE NoReleaseIsNone DEF bucketVars, pubVars
<1>1. ASSUME NEW r \in Releases, NEW b \in Builds, NEW v \in Labels, NEW s \in SUBSET Agents,
             StageRelease(r, b, v, s)
      PROVE  Staged' /\ Passed'
  <2>0. pub[r] = "new" /\ UNCHANGED <<manifest, sweepVars>> /\ \A q \in Releases \ {r} : pub'[q] = pub[q]
    BY <1>0, <1>1 DEF StageRelease
  <2>1. Passed'
    BY <2>0, PublishKeepsPassed
  <2>2. Staged'
    BY <1>0, <1>1 DEF StageRelease, Staged, TypeOK
  <2>3. QED
    BY <2>1, <2>2
<1>2. ASSUME NEW r \in Releases, NEW a \in Agents, PutManifest(r, a) PROVE Staged' /\ Passed'
  <2>1. pub[r] = "put" /\ UNCHANGED <<pub, build, sweepVars>>
    BY <1>2 DEF PutManifest
  <2>2. \A c \in Agents : manifest'[c] = manifest[c] \/ manifest'[c] = r
    BY <1>0, <1>2 DEF PutManifest
  <2>3. Passed'
    BY <2>1, <2>2, PublishKeepsPassed
  <2>4. Staged'
    BY <2>1, <2>2 DEF Staged
  <2>5. QED
    BY <2>3, <2>4
<1>3. ASSUME NEW r \in Releases, EndPublish(r) PROVE Staged' /\ Passed'
  <2>1. pub' \in {[pub EXCEPT ![r] = "failed"], [pub EXCEPT ![r] = "published"]} /\ pub[r] = "put"
    BY <1>3 DEF EndPublish
  <2>2. UNCHANGED <<manifest, build, sweepVars>>
    BY <1>3 DEF EndPublish
  <2>3. QED
    <3>1. \A q \in Releases : (q # r => pub'[q] = pub[q]) /\ (pub[q] # "new" <=> pub'[q] # "new")
      BY <1>0, <2>1
    <3>2. QED
      BY <1>0, <2>1, <2>2, <3>1, PublishKeepsPassed, ClearingKeepsStaged
<1>4. ASSUME UNCHANGED <<pub, build, sweepVars>>,
             \A a \in Agents : manifest'[a] \in {manifest[a], NoRelease}
      PROVE  Staged' /\ Passed'
  <2>1. Passed'
    BY <1>4, ClearingKeepsPassed
  <2>2. Staged'
    BY <1>0, <1>4, ClearingKeepsStaged
  <2>3. QED
    BY <2>1, <2>2
<1>5. ASSUME NEW s \in SUBSET Agents, BeginRetract(s) PROVE Staged' /\ Passed'
  BY <1>4, <1>5 DEF BeginRetract
<1>6. ASSUME NEW a \in Agents, RetractRead(a) \/ RetractFrom(a) PROVE Staged' /\ Passed'
  BY <1>0, <1>4, <1>6 DEF RetractRead, RetractFrom, Cleared
<1>7. ASSUME NEW r \in Releases, RetractPayload(r) PROVE Staged' /\ Passed'
  BY <1>4, <1>7 DEF RetractPayload
<1>8. ASSUME NEW a \in Agents,
             Install(a) \/ GoDown(a) \/ ComeUp(a) \/ MarkSeen(a) \/ FallSilent(a)
      PROVE  Staged' /\ Passed'
  BY <1>4, <1>8 DEF Install, GoDown, ComeUp, MarkSeen, FallSilent
<1>9. CASE BeginSweep
  <2>1. UNCHANGED <<pub, build, manifest, retiring>> /\ spc = "idle" /\ spc' = "read"
    BY <1>9 DEF BeginSweep
  <2>2. toRead' = Agents /\ early' = {r \in Releases : pub[r] \in {"new", "put"}}
    BY <1>9 DEF BeginSweep
  <2>3. QED
    BY <1>0, <2>1, <2>2, ClearingKeepsStaged DEF Passed
<1>10. ASSUME SweepEnds, UNCHANGED build,
              \A r \in Releases : pub[r] # "new" <=> pub'[r] # "new",
              \A a \in Agents : manifest'[a] \in {manifest[a], NoRelease}
       PROVE  Staged' /\ Passed'
  BY <1>0, <1>10, RestingIsPassed, ClearingKeepsStaged
<1>11. CASE SweepDone
  BY <1>10, <1>11 DEF SweepDone
<1>12. CASE SweepPayload
  <2>1. UNCHANGED <<pub, build, manifest>> /\ spc = "retire"
    BY <1>12 DEF SweepPayload
  <2>2. CASE SweepEnds
    BY <1>10, <2>1, <2>2
  <2>3. CASE spc' = "decide" /\ retiring' = NoRelease /\ UNCHANGED <<toRead, held, early>>
    <3>1. Passed'
      BY <2>1, <2>3 DEF Passed
    <3>2. QED
      BY <1>0, <2>1, <3>1, ClearingKeepsStaged
  <2>4. QED
    BY <1>12, <2>2, <2>3 DEF SweepPayload
<1>13. ASSUME NEW a \in Agents, SweepRead(a) PROVE Staged' /\ Passed'
  <2>1. UNCHANGED <<pub, build, manifest>> /\ spc = "read" /\ a \in toRead
    BY <1>13 DEF SweepRead
  <2>2. CASE SweepEnds
    BY <1>10, <2>1, <2>2
  <2>3. CASE ~SweepEnds
    <3>1. /\ held' = [held EXCEPT ![a] = manifest[a]] /\ toRead' = toRead \ {a}
          /\ spc' = IF toRead = {a} THEN "decide" ELSE "read"
          /\ UNCHANGED <<retiring, early>>
      BY <1>13, <2>3 DEF SweepRead
    <3>2. held'[a] = manifest[a] /\ \A c \in Agents \ {a} : held'[c] = held[c]
      BY <3>1 DEF TypeOK
    <3>3. Passed'
      BY <2>1, <3>1, <3>2 DEF Passed
    <3>4. QED
      BY <1>0, <2>1, <3>3, ClearingKeepsStaged
  <2>4. QED
    BY <2>2, <2>3
<1>14. ASSUME NEW a \in Agents, SweepManifest(a) PROVE Staged' /\ Passed'
  <2>1. UNCHANGED <<pub, build>> /\ spc = "retire"
    BY <1>14 DEF SweepManifest
  <2>2. \A c \in Agents : manifest'[c] \in {manifest[c], NoRelease}
    BY <1>0, <1>14 DEF SweepManifest, Cleared
  <2>3. CASE SweepEnds
    BY <1>10, <2>1, <2>2, <2>3
  <2>4. CASE ~SweepEnds
    <3>1. /\ manifest' = Cleared(a) /\ held' = [held EXCEPT ![a] = NoRelease]
          /\ UNCHANGED <<spc, toRead, retiring, early>>
      BY <1>14, <2>4 DEF SweepManifest
    <3>2. manifest'[a] = NoRelease /\ \A c \in Agents \ {a} : manifest'[c] = manifest[c] /\ held'[c] = held[c]
      BY <3>1 DEF Cleared, TypeOK
    <3>3. Passed'
      BY <2>1, <3>1, <3>2 DEF Passed
    <3>4. QED
      BY <1>0, <2>1, <2>2, <3>3, ClearingKeepsStaged
  <2>5. QED
    BY <2>3, <2>4
<1>15. ASSUME NEW r \in Releases, SweepDecide(r) PROVE Staged' /\ Passed'
  <2>1. /\ UNCHANGED <<pub, build, manifest, toRead, held, early>>
        /\ spc = "decide" /\ spc' = "retire" /\ retiring' = r
    BY <1>15 DEF SweepDecide
  <2>2. QED
    BY <1>0, <2>1, ClearingKeepsStaged DEF Passed
<1>16. CASE ControllerDies
  <2>1. SweepEnds /\ UNCHANGED <<manifest, build>>
    BY <1>16 DEF ControllerDies
  <2>2. \A r \in Releases : pub[r] # "new" <=> pub'[r] # "new"
    BY <1>0, <1>16 DEF ControllerDies
  <2>3. QED
    BY <1>10, <2>1, <2>2
<1>17. CASE UNCHANGED vars
  BY <1>4, <1>17 DEF vars
<1>18. QED
  BY <1>1, <1>2, <1>3, <1>5, <1>6, <1>7, <1>8, <1>9, <1>11, <1>12, <1>13, <1>14, <1>15, <1>16,
     <1>17
     DEF Next, PublishStep, RetractStep, SweepStep

LEMMA RolloutInvariant == Spec => []RolloutInv
<1>1. RolloutInv /\ [Next]_vars => RolloutInv'
  BY NextKeepsTypes, NextKeepsParts DEF RolloutInv
<1>2. QED
  BY InitEstablishesRolloutInv, <1>1, PTL DEF Spec

\* The type invariant, from the slots naming only what was staged.
THEOREM RolloutTypes == Spec => []TypeOK
<1>1. RolloutInv => TypeOK
  BY DEF RolloutInv
<1>2. QED
  BY RolloutInvariant, <1>1, PTL

\* A release that was given out when the sweep began loses its payload to the
\* sweep only once no slot names it, although publishes and retractions go on
\* between its reads, its decision and its deletes: only SweepPayload takes a
\* payload and leaves the retirement, and the sweep then holds the release for
\* nobody.
THEOREM SweepSparesTheOffered == Spec => SweepLeavesNoDeadOffer
<1> DEFINE Spared ==
      spc' # "retire" /\ retiring \in payload \ early /\ retiring \notin payload'
      => \A a \in Agents : manifest[a] # retiring
<1>1. RolloutInv /\ [Next]_vars => Spared
  <2> SUFFICES ASSUME RolloutInv, [Next]_vars, spc' # "retire",
                      retiring \in payload \ early, retiring \notin payload'
               PROVE  \A a \in Agents : manifest[a] # retiring
    BY DEF Spared
  <2>1. retiring \in Releases /\ spc = "retire"
    BY NoReleaseIsNone DEF RolloutInv, TypeOK, Passed
  <2>2. SweepPayload
    <3>1. ASSUME NEW r \in Releases, NEW b \in Builds, NEW v \in Labels, NEW s \in SUBSET Agents,
                 StageRelease(r, b, v, s)
          PROVE  FALSE
      BY <2>1, <3>1 DEF StageRelease, sweepVars
    <3>2. ASSUME UNCHANGED spc \/ UNCHANGED payload PROVE FALSE
      BY <2>1, <3>2
    <3>3. ASSUME NEW r \in Releases, PublishStep(r) PROVE FALSE
      BY <3>2, <3>3 DEF PublishStep, PutManifest, EndPublish, sweepVars
    <3>4. ASSUME NEW s \in SUBSET Agents, BeginRetract(s) PROVE FALSE
      BY <3>2, <3>4 DEF BeginRetract, sweepVars
    <3>5. ASSUME RetractStep PROVE FALSE
      BY <3>2, <3>5 DEF RetractStep, RetractRead, RetractFrom, RetractPayload, sweepVars
    <3>6. ASSUME NEW a \in Agents,
                 Install(a) \/ GoDown(a) \/ ComeUp(a) \/ MarkSeen(a) \/ FallSilent(a)
          PROVE  FALSE
      BY <3>2, <3>6 DEF Install, GoDown, ComeUp, MarkSeen, FallSilent, sweepVars
    <3>7. ASSUME SweepStep PROVE SweepPayload
      BY <3>2, <3>7 DEF SweepStep, BeginSweep, SweepDone, SweepRead, SweepManifest, SweepDecide,
                        bucketVars
    <3>8. ASSUME ControllerDies \/ UNCHANGED vars PROVE FALSE
      BY <3>2, <3>8 DEF ControllerDies, vars, bucketVars
    <3>9. QED
      BY <3>1, <3>3, <3>4, <3>5, <3>6, <3>7, <3>8 DEF Next
  <2>3. spc = "retire" /\ ~Held(retiring)
    BY <2>2 DEF SweepPayload
  <2>4. QED
    BY <2>1, <2>3 DEF RolloutInv, Passed, Held
<1> HIDE DEF Spared
<1>2. RolloutInv /\ [Next]_vars => [Spared]_vars
  BY <1>1
<1>3. Spec => [][Spared]_vars
  BY RolloutInvariant, <1>2, PTL DEF Spec
<1>4. QED
  BY <1>3 DEF Spared, SweepLeavesNoDeadOffer
==========================================================================
