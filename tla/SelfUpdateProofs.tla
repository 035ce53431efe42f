--------------------------- MODULE SelfUpdateProofs ---------------------------
(*****************************************************************************)
(* Proofs about SelfUpdate and AutoPublish:                                  *)
(*   - SelfUpdate, for any releases, builds, number of chunks and of faults: *)
(*     an agent never installs anything older than, or of the same second    *)
(*     as, what it installed last;                                           *)
(*   - AutoPublish, for any fleet, any number of controllers that share one  *)
(*     staging directory, of versions and of failures: a release staged from *)
(*     a controller's own download is what it is labelled, and the ledger    *)
(*     bounds how often a version is uploaded.                               *)
(*****************************************************************************)
EXTENDS SelfUpdate, AutoPublish, FiniteSetTheorems, SequenceTheorems, TLAPS

-------------------------------------------------------------------------------
(* SelfUpdate.                                                               *)

\* The agent runs the build it was installed with.
LEMMA InitEstablishesUpdateInv == Init => UpdateInv
<1>1. Init => FlagsOK
  BY DEF Init, FlagsOK
<1>2. QED
  BY <1>1, ConstantsAssumption DEF Init, UpdateInv, TypeOK, NoRelease, Unsettled

\* Boolean variables stay Boolean.
LEMMA NextKeepsFlags == FlagsOK /\ [Next]_vars => FlagsOK'
<1> SUFFICES ASSUME FlagsOK, [Next]_vars PROVE FlagsOK'
  OBVIOUS
<1> USE DEF FlagsOK, CheckVars, taskVars, hostVars, historyVars, TaskRests
<1>1. CASE BucketStep
  BY <1>1 DEF BucketStep, StageRelease, PutManifest, DeleteRelease, Withdraw
<1>2. CASE CheckTag \/ BeginInstall
  BY <1>2 DEF CheckTag, BeginInstall
<1>3. CASE CheckFails \/ CheckSkips \/ CheckDefers
  BY <1>3 DEF CheckFails, CheckSkips, CheckDefers, Retry, Settle, Defer
<1>4. CASE CheckUpToDate
  BY <1>4 DEF CheckUpToDate, Settle
<1>5. CASE DownloadChunk
  BY <1>5 DEF DownloadChunk, Retry
<1>6. CASE MoveAside \/ PlaceNew
  BY <1>6 DEF MoveAside, PlaceNew, Retry
<1>7. CASE SaveState \/ Restart
  BY <1>7 DEF SaveState, Restart, ProcessEnds
<1>8. CASE Crash \/ Boot
  BY <1>8 DEF Crash, Boot, ProcessEnds
<1>9. CASE StartJob \/ EndJob \/ Tick
  BY <1>9 DEF StartJob, EndJob, Tick
<1>10. CASE UNCHANGED vars
  BY <1>10 DEF vars
<1>11. QED
  BY <1>1, <1>2, <1>3, <1>4, <1>5, <1>6, <1>7, <1>8, <1>9, <1>10 DEF Next, TaskStep

\* Every step of the publisher, the update task and the host keeps the
\* invariant.
LEMMA NextKeepsUpdateInv == UpdateInv /\ [Next]_vars => UpdateInv'
<1> SUFFICES ASSUME UpdateInv, [Next]_vars PROVE UpdateInv'
  OBVIOUS
<1>a. FlagsOK'
  BY NextKeepsFlags DEF UpdateInv, TypeOK
<1> USE <1>a, ConstantsAssumption
    DEF UpdateInv, TypeOK, NoRelease, Unsettled, bucketVars, taskVars, hostVars, historyVars,
        CheckVars, Fault, NoFault, Fits
<1>1. ASSUME NEW r \in Releases, NEW b \in Builds, StageRelease(r, b) PROVE UpdateInv'
  BY <1>1 DEF StageRelease
<1>2. ASSUME NEW r \in Releases, PutManifest(r) PROVE UpdateInv'
  BY <1>2 DEF PutManifest
<1>3. ASSUME NEW r \in Releases, DeleteRelease(r) PROVE UpdateInv'
  BY <1>3 DEF DeleteRelease
<1>4. CASE Withdraw
  BY <1>4 DEF Withdraw
<1>5. CASE CheckTag
  BY <1>5 DEF CheckTag
<1>6. CASE CheckFails
  BY <1>6 DEF CheckFails, TaskRests, Retry
<1>7. CASE CheckSkips
  BY <1>7 DEF CheckSkips, TaskRests, Settle
<1>8. CASE CheckUpToDate
  <2>1. \/ /\ lastAt' = IF IsNewer(slot) THEN at[slot] ELSE lastAt
           /\ ~unsaved' => ~(unsaved /\ lastAt' < newest)
           /\ faults' = faults
        \/ Fault /\ UNCHANGED lastAt /\ unsaved' = unsaved
    BY <1>8, Zenon DEF CheckUpToDate, NoFault
  <2>2. lastAt' \in Nat /\ lastAt' >= lastAt /\ faults' \in 0..MaxFaults /\ faults' >= faults
    BY <1>8, <2>1 DEF CheckUpToDate, IsNewer
  <2>3. ~unsaved' => newest <= lastAt'
    BY <1>8, <2>1, <2>2 DEF CheckUpToDate
  <2>4. QED
    BY <1>8, <2>2, <2>3 DEF CheckUpToDate, TaskRests, Settle
<1>9. CASE CheckDefers
  BY <1>9 DEF CheckDefers, TaskRests, Defer
<1>10. CASE BeginInstall
  BY <1>10 DEF BeginInstall, IsNewer
<1>11. CASE DownloadChunk
  BY <1>11 DEF DownloadChunk, TaskRests, Retry
<1>12. CASE MoveAside
  BY <1>12 DEF MoveAside, TaskRests, Retry
<1>13. CASE PlaceNew
  <2>1. want \in Releases /\ build[want] \in FitBuilds /\ upc = "place"
    BY <1>13 DEF PlaceNew
  <2>2. CASE upc' = "save"
    BY <1>13, <2>1, <2>2 DEF PlaceNew, TaskRests, Retry
  <2>3. CASE upc' # "save"
    BY <1>13, <2>1, <2>3 DEF PlaceNew, TaskRests, Retry
  <2>4. QED
    BY <2>2, <2>3
<1>14. CASE SaveState
  BY <1>14 DEF SaveState
<1>15. CASE Restart
  BY <1>15 DEF Restart, TaskRests, ProcessEnds
<1>16. CASE Crash
  <2>1. ~unsaved' => ~unsaved /\ upc # "save"
    BY <1>16, Zenon DEF Crash
  <2>2. QED
    BY <1>16, <2>1 DEF Crash, TaskRests, ProcessEnds
<1>17. CASE Boot
  BY <1>17 DEF Boot, Up
<1>18. CASE StartJob
  BY <1>18 DEF StartJob, Up
<1>19. CASE EndJob
  BY <1>19 DEF EndJob
<1>20. CASE Tick
  BY <1>20 DEF Tick
<1>21. CASE UNCHANGED vars
  BY <1>21 DEF vars
<1>22. QED
  BY <1>1, <1>2, <1>3, <1>4, <1>5, <1>6, <1>7, <1>8, <1>9, <1>10, <1>11, <1>12, <1>13, <1>14, <1>15, <1>16, <1>17, <1>18, <1>19, <1>20, <1>21
     DEF Next, BucketStep, TaskStep

\* Wherever the process dies and whatever publishes, retractions and sweeps do
\* meanwhile: the file in place is a build for this host, and the state file
\* knows the last install unless its own writing failed.
THEOREM UpdateIsSound == Spec => []UpdateInv
BY InitEstablishesUpdateInv, NextKeepsUpdateInv, PTL DEF Spec

\* The age check at the start of check_and_apply is enough, although the
\* download, the two renames and a restart lie between it and the next check.
THEOREM NoDowngrade == Spec => NeverGoesBack
<1>1. UpdateInv /\ [Next]_vars => [newest' # newest => newest' > newest \/ unsaved]_vars
  <2> SUFFICES ASSUME UpdateInv, Next, newest' # newest, ~unsaved
               PROVE  newest' > newest
    OBVIOUS
  <2>1. PlaceNew
    BY DEF Next, BucketStep, TaskStep, StageRelease, PutManifest, DeleteRelease, Withdraw, CheckTag,
           CheckFails, CheckSkips, CheckUpToDate, CheckDefers, BeginInstall, DownloadChunk,
           MoveAside, SaveState, Restart, Crash, Boot, StartJob, EndJob, Tick, CheckVars,
           historyVars
  <2>2. QED
    BY <2>1 DEF PlaceNew, UpdateInv, TypeOK
<1>2. QED
  BY UpdateIsSound, <1>1, PTL DEF Spec, NeverGoesBack

--------------------------------------------------------------------------
(* AutoPublish: types.                                                     *)

\* A file in the staging directory, and who has written to it.
Downloads == [version : Nat, built : AssetTargets \cup {NoTarget}, whole : BOOLEAN,
              by : SUBSET Controllers]

\* A staged release.
Publishes == [version : Versions, target : Targets, own : BOOLEAN, content : Downloads]

\* Where check_for_release may be ...
Stations == {"off", "idle", "pick", "download", "detect", "stage", "put", "published", "failed"}

\* ... and where it has a target in hand.
InTarget == {"download", "detect", "stage", "put", "published", "failed"}

\* Types; a controller past its request has a version, and one with a target
\* in hand has a target.
AutoPublishTypeOK ==
  /\ latest \in 0..MaxVersion
  /\ asset \in [Versions -> [Targets -> AssetTargets \cup {NoTarget}]]
  /\ seen \in SUBSET Agents
  /\ uploads \in Seq(Publishes)
  /\ file \in [Targets -> Downloads]
  /\ cpc \in [Controllers -> Stations]
  /\ rtag \in [Controllers -> 0..MaxVersion]
  /\ avail \in [Controllers -> SUBSET Targets]
  /\ fleet \in [Controllers -> SUBSET Agents]
  /\ todo \in [Controllers -> SUBSET Targets]
  /\ target \in [Controllers -> Targets \cup {NoTarget}]
  /\ puts \in [Controllers -> SUBSET Agents]
  /\ given \in [Controllers -> SUBSET Agents]
  /\ hitches \in Nat
  /\ \A c \in Controllers : cpc[c] \notin {"off", "idle"} => rtag[c] \in Versions
  /\ \A c \in Controllers : cpc[c] \in InTarget => target[c] \in Targets

\* Nothing is released, downloaded or uploaded.
LEMMA AutoPublishInitTypes == AutoPublishInit => AutoPublishTypeOK
BY AutoPublishAssumption, EmptySeq
DEF AutoPublishInit, AutoPublishTypeOK, NoFile, Downloads, Stations, InTarget

\* An empty place in the staging directory.
LEMMA NoFileType == NoFile \in Downloads
BY DEF NoFile, Downloads

\* What a download leaves behind, also if it is cut off or two were mixed.
LEMMA AssetTypes ==
  ASSUME AutoPublishTypeOK, NEW c \in Controllers, NEW v \in Versions, NEW t \in Targets
  PROVE  /\ Asset(c, v, t) \in Downloads /\ Torn(Asset(c, v, t)) \in Downloads
         /\ [Torn(Asset(c, v, t)) EXCEPT !.by = Controllers] \in Downloads
<1>1. asset[v][t] \in AssetTargets \cup {NoTarget} /\ v \in Nat
  BY AutoPublishAssumption DEF AutoPublishTypeOK, Versions
<1>2. Asset(c, v, t) \in Downloads
  BY <1>1 DEF Asset, Downloads
<1>3. ASSUME NEW f \in Downloads
      PROVE  Torn(f) \in Downloads /\ [f EXCEPT !.by = Controllers] \in Downloads
  BY DEF Torn, Downloads
<1>4. QED
  BY <1>2, <1>3

\* A controller that moves on with the target it has in hand.
LEMMA MovesOn ==
  ASSUME AutoPublishTypeOK, NEW c \in Controllers, target[c] \in Targets, rtag[c] \in Versions,
         NEW p \in {"put", "published", "failed"}, cpc' = [cpc EXCEPT ![c] = p],
         UNCHANGED <<latest, asset, seen, file, rtag, avail, fleet, todo, target, given>>,
         uploads' \in Seq(Publishes), puts' \in [Controllers -> SUBSET Agents], hitches' \in Nat
  PROVE  AutoPublishTypeOK'
<1>1. /\ cpc' \in [Controllers -> Stations]
      /\ \A d \in Controllers : cpc'[d] \in InTarget => target[d] \in Targets
      /\ \A d \in Controllers : cpc'[d] \notin {"off", "idle"} => rtag[d] \in Versions
  BY DEF AutoPublishTypeOK, Stations, InTarget
<1>2. QED
  BY <1>1 DEF AutoPublishTypeOK

\* Every variable keeps to its type.
LEMMA AutoPublishNextTypes == AutoPublishTypeOK /\ [AutoPublishNext]_autoPublishVars => AutoPublishTypeOK'
<1> SUFFICES ASSUME AutoPublishTypeOK, [AutoPublishNext]_autoPublishVars PROVE AutoPublishTypeOK'
  OBVIOUS
<1> USE AutoPublishAssumption
    DEF repoVars, releaseVars, checkVars, Goto, Hitch, NoHitch
<1>1. CASE TagRelease
  BY <1>1 DEF TagRelease, AutoPublishTypeOK
<1>2. ASSUME NEW t \in Targets, NEW p \in AssetTargets, UploadAsset(t, p) PROVE AutoPublishTypeOK'
  BY <1>2 DEF UploadAsset, AutoPublishTypeOK, Versions
<1>3. ASSUME NEW a \in Agents, Hear(a) \/ Install(a) PROVE AutoPublishTypeOK'
  BY <1>3 DEF Hear, Install, AutoPublishTypeOK
<1>4. ASSUME NEW r \in UploadIds, Sweep(r) PROVE AutoPublishTypeOK'
  BY <1>4 DEF Sweep, AutoPublishTypeOK
<1>5. ASSUME NEW c \in Controllers, CheckEnds(c), UNCHANGED <<latest, asset, seen, uploads>>,
             hitches' \in Nat, file' \in [Targets -> Downloads]
      PROVE  AutoPublishTypeOK'
  BY <1>5 DEF CheckEnds, AutoPublishTypeOK, Stations, InTarget
<1>6. ASSUME NEW c \in Controllers, NextTarget(c), UNCHANGED <<latest, asset, seen, uploads>>,
             cpc[c] \notin {"off", "idle"}, hitches' \in Nat, file' \in [Targets -> Downloads]
      PROVE  AutoPublishTypeOK'
  BY <1>6 DEF NextTarget, AutoPublishTypeOK, Stations, InTarget
<1>7. ASSUME NEW c \in Controllers, BeginCheck(c) PROVE AutoPublishTypeOK'
  <2>1. latest \in Versions /\ ByTarget(seen) \in SUBSET Targets
    BY <1>7 DEF BeginCheck, AutoPublishTypeOK, Versions, ByTarget
  <2>2. QED
    BY <1>7, <2>1 DEF BeginCheck, AutoPublishTypeOK, Stations, InTarget
<1>8. ASSUME NEW c \in Controllers, EndCheck(c) PROVE AutoPublishTypeOK'
  BY <1>5, <1>8 DEF EndCheck, AutoPublishTypeOK
<1>9. ASSUME NEW c \in Controllers, NEW t \in Targets, SkipTarget(c, t) PROVE AutoPublishTypeOK'
  BY <1>9 DEF SkipTarget, AutoPublishTypeOK
<1>10. ASSUME NEW c \in Controllers, NEW t \in Targets, BeginDownload(c, t) PROVE AutoPublishTypeOK'
  <2>1. Torn(Asset(c, rtag[c], t)) \in Downloads
    BY <1>10, AssetTypes DEF BeginDownload, AutoPublishTypeOK
  <2>2. file' \in [Targets -> Downloads]
    BY <1>10, <2>1 DEF BeginDownload, AutoPublishTypeOK
  <2>3. QED
    BY <1>10, <2>2 DEF BeginDownload, AutoPublishTypeOK, Stations, InTarget
<1>11. ASSUME NEW c \in Controllers, EndDownload(c) PROVE AutoPublishTypeOK'
  <2>1. target[c] \in Targets /\ rtag[c] \in Versions
    BY <1>11 DEF EndDownload, AutoPublishTypeOK, InTarget
  <2>2. file' \in [Targets -> Downloads]
    <3>1. file[target[c]] \in Downloads
      BY <2>1 DEF AutoPublishTypeOK
    <3>2. \/ UNCHANGED file
          \/ \E f \in Downloads : file' = [file EXCEPT ![target[c]] = f]
      BY <1>11, <2>1, <3>1, AssetTypes DEF EndDownload
    <3>3. QED
      BY <3>2 DEF AutoPublishTypeOK
  <2>3. UNCHANGED <<latest, asset, seen, uploads>> /\ hitches' \in Nat
    BY <1>11 DEF EndDownload, AutoPublishTypeOK
  <2>4. CASE CheckEnds(c)
    BY <1>5, <2>2, <2>3, <2>4
  <2>5. CASE Goto(c, "detect") /\ UNCHANGED <<rtag, avail, fleet, todo, target, rel, puts, given>>
    BY <2>1, <2>2, <2>3, <2>5 DEF AutoPublishTypeOK, Stations, InTarget
  <2>6. QED
    BY <1>11, <2>4, <2>5 DEF EndDownload
<1>12. ASSUME NEW c \in Controllers, Detect(c) PROVE AutoPublishTypeOK'
  <2>1. target[c] \in Targets /\ rtag[c] \in Versions /\ cpc[c] = "detect"
    BY <1>12 DEF Detect, AutoPublishTypeOK, InTarget
  <2>2. file' \in [Targets -> Downloads]
    BY <1>12, NoFileType DEF Detect, RemoveFile, AutoPublishTypeOK
  <2>3. UNCHANGED <<latest, asset, seen, uploads>> /\ hitches' \in Nat
    BY <1>12 DEF Detect, AutoPublishTypeOK
  <2>4. CASE Goto(c, "stage") /\ UNCHANGED <<rtag, avail, fleet, todo, target, rel, puts, given>>
    BY <2>1, <2>2, <2>3, <2>4 DEF AutoPublishTypeOK, Stations, InTarget
  <2>5. QED
    BY <1>5, <1>6, <1>12, <2>1, <2>2, <2>3, <2>4 DEF Detect
<1>13. ASSUME NEW c \in Controllers, Stage(c) PROVE AutoPublishTypeOK'
  <2>1. target[c] \in Targets /\ rtag[c] \in Versions /\ cpc[c] = "stage"
    BY <1>13 DEF Stage, AutoPublishTypeOK, InTarget
  <2>2. UNCHANGED <<latest, asset, seen, file, rtag, avail, fleet, todo, target, given>> /\ hitches' \in Nat
    BY <1>13 DEF Stage, AutoPublishTypeOK
  <2>3. Mine(c) \in SUBSET Agents
    BY DEF Mine, AutoPublishTypeOK
  <2>4. uploads' \in Seq(Publishes)
    <3>1. CASE UNCHANGED uploads
      BY <3>1 DEF AutoPublishTypeOK
    <3>2. CASE uploads' = Append(uploads, [version |-> rtag[c], target |-> target[c],
                                           own |-> file[target[c]].by = {c},
                                           content |-> [file[target[c]] EXCEPT !.by = {}]])
      <4>1. file[target[c]] \in Downloads
        BY <2>1 DEF AutoPublishTypeOK
      <4>2. [file[target[c]] EXCEPT !.by = {}] \in Downloads
        BY <4>1 DEF Downloads
      <4>3. (file[target[c]].by = {c}) \in BOOLEAN
        OBVIOUS
      <4>4. [version |-> rtag[c], target |-> target[c], own |-> file[target[c]].by = {c},
             content |-> [file[target[c]] EXCEPT !.by = {}]] \in Publishes
        BY <2>1, <4>2, <4>3, Zenon DEF Publishes
      <4>5. QED
        BY <3>2, <4>4, AppendProperties DEF AutoPublishTypeOK
    <3>3. QED
      BY <1>13, <3>1, <3>2 DEF Stage
  <2>5. puts' \in [Controllers -> SUBSET Agents]
    BY <1>13, <2>3 DEF Stage, AutoPublishTypeOK
  <2>6. cpc' \in {[cpc EXCEPT ![c] = "put"], [cpc EXCEPT ![c] = "failed"]}
    BY <1>13 DEF Stage
  <2>7. QED
    BY <2>1, <2>2, <2>4, <2>5, <2>6, MovesOn
<1>14. ASSUME NEW c \in Controllers, OfferRelease(c) PROVE AutoPublishTypeOK'
  <2>1. puts' \in [Controllers -> SUBSET Agents] /\ given' \in [Controllers -> SUBSET Agents] /\ hitches' \in Nat
    <3>1. PICK a \in puts[c] :
            /\ puts' = [puts EXCEPT ![c] = @ \ {a}]
            /\ given' = [given EXCEPT ![c] = @ \cup {a}] \/ UNCHANGED given
            /\ NoHitch \/ Hitch
      BY <1>14 DEF OfferRelease
    <3>2. a \in Agents
      BY <3>1 DEF AutoPublishTypeOK
    <3>3. puts[c] \ {a} \in SUBSET Agents /\ given[c] \cup {a} \in SUBSET Agents
      BY <3>2 DEF AutoPublishTypeOK
    <3>4. puts' \in [Controllers -> SUBSET Agents]
      BY <3>1, <3>3 DEF AutoPublishTypeOK
    <3>5. given' \in [Controllers -> SUBSET Agents]
      BY <3>1, <3>3 DEF AutoPublishTypeOK
    <3>6. hitches' \in Nat
      BY <3>1 DEF AutoPublishTypeOK, NoHitch, Hitch
    <3>7. QED
      BY <3>4, <3>5, <3>6
  <2>2. UNCHANGED <<latest, asset, seen, uploads, file, cpc, rtag, avail, fleet, todo, target>>
    BY <1>14 DEF OfferRelease, repoVars
  <2>3. QED
    BY <2>1, <2>2 DEF AutoPublishTypeOK
<1>15. ASSUME NEW c \in Controllers, Record(c) PROVE AutoPublishTypeOK'
  <2>1. target[c] \in Targets /\ rtag[c] \in Versions
    BY <1>15 DEF Record, AutoPublishTypeOK, InTarget
  <2>2. cpc' \in {[cpc EXCEPT ![c] = "published"], [cpc EXCEPT ![c] = "failed"]} /\ hitches' \in Nat
    BY <1>15 DEF Record, AutoPublishTypeOK
  <2>3. /\ UNCHANGED <<latest, asset, seen, file, rtag, avail, fleet, todo, target, given, uploads, puts>>
        /\ uploads \in Seq(Publishes) /\ puts \in [Controllers -> SUBSET Agents]
    BY <1>15 DEF Record, AutoPublishTypeOK
  <2>4. QED
    BY <2>1, <2>2, <2>3, MovesOn
<1>16. ASSUME NEW c \in Controllers, AfterPublish(c) PROVE AutoPublishTypeOK'
  <2>1. file' \in [Targets -> Downloads]
    BY <1>16, NoFileType DEF AfterPublish, RemoveFile, AutoPublishTypeOK
  <2>2. QED
    BY <1>5, <1>6, <1>16, <2>1 DEF AfterPublish, AutoPublishTypeOK
<1>17. ASSUME NEW c \in Controllers, ControllerDies(c) PROVE AutoPublishTypeOK'
  BY <1>5, <1>17 DEF ControllerDies, AutoPublishTypeOK
<1>18. ASSUME NEW c \in Controllers, SessionOnOff(c) PROVE AutoPublishTypeOK'
  BY <1>18 DEF SessionOnOff, AutoPublishTypeOK, Stations, InTarget
<1>19. CASE UNCHANGED autoPublishVars
  BY <1>19 DEF autoPublishVars, AutoPublishTypeOK
<1>20. QED
  BY <1>1, <1>2, <1>3, <1>4, <1>7, <1>8, <1>9, <1>10, <1>11, <1>12, <1>13, <1>14, <1>15, <1>16,
     <1>17, <1>18, <1>19 DEF AutoPublishNext, CheckStep

--------------------------------------------------------------------------
(* What is published is what the label says. A file that only this         *)
(* controller's curl has written since it was last created is the whole    *)
(* asset from the end of the download on, and for the platform of its      *)
(* target once its header was seen: whoever else writes the file leaves a  *)
(* trace in it, or removes it.                                             *)

\* A file that only c has written to is the whole asset that c has asked for,
\* and for its target's platform once c has looked at the header.
OwnFile(c) ==
  LET f == file[target[c]] IN
  cpc[c] \in {"detect", "stage"} /\ f.by = {c} =>
    /\ f.whole /\ f.version = rtag[c]
    /\ cpc[c] = "stage" => PlatformOf[f.built] = PlatformOf[target[c]]

\* The inductive invariant for PublishedAsLabelled.
LabelInv ==
  /\ AutoPublishTypeOK
  /\ \A t \in Targets : file[t] # NoFile => file[t].by # {}
  /\ \A c \in Controllers : OwnFile(c)
  /\ PublishedAsLabelled

\* There are no files and no releases.
LEMMA InitEstablishesLabel == AutoPublishInit => LabelInv
<1> SUFFICES ASSUME AutoPublishInit PROVE LabelInv
  OBVIOUS
<1>1. AutoPublishTypeOK
  BY AutoPublishInitTypes
<1>2. (\A t \in Targets : file[t] # NoFile => file[t].by # {}) /\ \A c \in Controllers : OwnFile(c)
  BY DEF AutoPublishInit, OwnFile
<1>3. PublishedAsLabelled
  BY DEF AutoPublishInit, PublishedAsLabelled
<1>4. QED
  BY <1>1, <1>2, <1>3 DEF LabelInv

\* The step of another controller, or of nobody's.
LEMMA FileOfAnother ==
  ASSUME AutoPublishTypeOK, NEW c \in Controllers, OwnFile(c),
         cpc'[c] = cpc[c], rtag'[c] = rtag[c], target'[c] = target[c],
         \A t \in Targets : file'[t] = file[t] \/ file'[t].by # {c}
  PROVE  OwnFile(c)'
<1>1. CASE cpc[c] \in {"detect", "stage"}
  <2>1. target[c] \in Targets
    BY <1>1 DEF AutoPublishTypeOK, InTarget
  <2>2. QED
    BY <1>1, <2>1 DEF OwnFile
<1>2. CASE cpc[c] \notin {"detect", "stage"}
  BY <1>2 DEF OwnFile
<1>3. QED
  BY <1>1, <1>2

\* A step of controller c that publishes nothing, and what has to be seen of it.
LEMMA StepKeepsLabel ==
  ASSUME LabelInv, AutoPublishTypeOK', NEW c \in Controllers, UNCHANGED uploads,
         \A d \in Controllers \ {c} : cpc'[d] = cpc[d] /\ rtag'[d] = rtag[d] /\ target'[d] = target[d],
         \A t \in Targets : \/ file'[t] = file[t]
                              \/ file'[t] = NoFile
                              \/ c \in file'[t].by,
         OwnFile(c)'
  PROVE  LabelInv'
<1>1. \A t \in Targets : file'[t] # NoFile => file'[t].by # {}
  BY DEF LabelInv
<1>2. \A d \in Controllers \ {c} : OwnFile(d)'
  <2> SUFFICES ASSUME NEW d \in Controllers \ {c} PROVE OwnFile(d)'
    OBVIOUS
  <2>1. \A t \in Targets : file'[t] = file[t] \/ file'[t].by # {d}
    BY DEF NoFile
  <2>2. QED
    BY <2>1, FileOfAnother DEF LabelInv
<1>3. PublishedAsLabelled'
  BY DEF LabelInv, PublishedAsLabelled
<1>4. QED
  BY <1>1, <1>2, <1>3 DEF LabelInv

\* Every step keeps it.
LEMMA NextKeepsLabel == LabelInv /\ [AutoPublishNext]_autoPublishVars => LabelInv'
<1> SUFFICES ASSUME LabelInv, [AutoPublishNext]_autoPublishVars PROVE LabelInv'
  OBVIOUS
<1>0. AutoPublishTypeOK /\ AutoPublishTypeOK'
  BY AutoPublishNextTypes DEF LabelInv
<1> USE DEF repoVars, releaseVars, checkVars, Goto, NoHitch
<1>1. ASSUME UNCHANGED <<uploads, file, cpc, rtag, target>> PROVE LabelInv'
  BY <1>0, <1>1 DEF LabelInv, OwnFile, PublishedAsLabelled
<1>2. CASE TagRelease
  BY <1>1, <1>2 DEF TagRelease
<1>3. ASSUME NEW t \in Targets, NEW p \in AssetTargets, UploadAsset(t, p) PROVE LabelInv'
  BY <1>1, <1>3 DEF UploadAsset
<1>4. ASSUME NEW a \in Agents, Hear(a) \/ Install(a) PROVE LabelInv'
  BY <1>1, <1>4 DEF Hear, Install
<1>5. ASSUME NEW r \in UploadIds, Sweep(r) PROVE LabelInv'
  BY <1>1, <1>5 DEF Sweep
<1>6. ASSUME NEW c \in Controllers, NEW p \in Stations \ {"detect", "stage"}, cpc' = [cpc EXCEPT ![c] = p],
             UNCHANGED uploads,
             \A d \in Controllers \ {c} : rtag'[d] = rtag[d] /\ target'[d] = target[d],
             \A t \in Targets : file'[t] = file[t] \/ file'[t] = NoFile \/ c \in file'[t].by
      PROVE  LabelInv'
  <2>1. cpc'[c] = p /\ \A d \in Controllers \ {c} : cpc'[d] = cpc[d]
    BY <1>0, <1>6 DEF AutoPublishTypeOK
  <2>2. OwnFile(c)'
    BY <2>1 DEF OwnFile
  <2>3. QED
    BY <1>0, <1>6, <2>1, <2>2, StepKeepsLabel
<1>7. ASSUME NEW c \in Controllers, CheckEnds(c), UNCHANGED uploads,
             \A t \in Targets : file'[t] = file[t] \/ file'[t] = NoFile
      PROVE  LabelInv'
  <2>1. cpc' = [cpc EXCEPT ![c] = "idle"]
    BY <1>7 DEF CheckEnds
  <2>2. \A d \in Controllers \ {c} : rtag'[d] = rtag[d] /\ target'[d] = target[d]
    BY <1>0, <1>7 DEF CheckEnds, AutoPublishTypeOK
  <2>3. QED
    BY <1>6, <1>7, <2>1, <2>2 DEF Stations
<1>8. ASSUME NEW c \in Controllers, NextTarget(c), UNCHANGED uploads,
             \A t \in Targets : file'[t] = file[t] \/ file'[t] = NoFile
      PROVE  LabelInv'
  <2>1. cpc' = [cpc EXCEPT ![c] = "pick"]
    BY <1>8 DEF NextTarget
  <2>2. \A d \in Controllers \ {c} : rtag'[d] = rtag[d] /\ target'[d] = target[d]
    BY <1>0, <1>8 DEF NextTarget, AutoPublishTypeOK
  <2>3. QED
    BY <1>6, <1>8, <2>1, <2>2 DEF Stations
<1>9. ASSUME NEW c \in Controllers, BeginCheck(c) PROVE LabelInv'
  <2>1. \A d \in Controllers \ {c} : rtag'[d] = rtag[d] /\ target'[d] = target[d]
    BY <1>0, <1>9 DEF BeginCheck, AutoPublishTypeOK
  <2>2. QED
    BY <1>6, <1>9, <2>1 DEF BeginCheck, Stations
<1>10. ASSUME NEW c \in Controllers, EndCheck(c) PROVE LabelInv'
  BY <1>7, <1>10 DEF EndCheck
<1>11. ASSUME NEW c \in Controllers, NEW t \in Targets, SkipTarget(c, t) PROVE LabelInv'
  BY <1>1, <1>11 DEF SkipTarget
<1>12. ASSUME NEW c \in Controllers, NEW t \in Targets, BeginDownload(c, t) PROVE LabelInv'
  <2>1. /\ file' = [file EXCEPT ![t] = Torn(Asset(c, rtag[c], t))]
        /\ target' = [target EXCEPT ![c] = t] /\ cpc' = [cpc EXCEPT ![c] = "download"]
        /\ UNCHANGED <<uploads, rtag>>
    BY <1>12 DEF BeginDownload
  <2>2. c \in Torn(Asset(c, rtag[c], t)).by
    BY DEF Torn, Asset
  <2>3. \A u \in Targets : file'[u] = file[u] \/ c \in file'[u].by
    BY <1>0, <2>1, <2>2 DEF AutoPublishTypeOK
  <2>4. \A d \in Controllers \ {c} : rtag'[d] = rtag[d] /\ target'[d] = target[d]
    BY <1>0, <2>1 DEF AutoPublishTypeOK
  <2>5. QED
    BY <1>6, <2>1, <2>3, <2>4 DEF Stations
<1>13. ASSUME NEW c \in Controllers, EndDownload(c) PROVE LabelInv'
  <2> DEFINE t == target[c]
             whole == Asset(c, rtag[c], t)
             mixed == [Torn(whole) EXCEPT !.by = Controllers]
  <2>1. t \in Targets /\ UNCHANGED uploads /\ cpc[c] = "download"
    BY <1>0, <1>13 DEF EndDownload, AutoPublishTypeOK, InTarget
  <2>2. CASE CheckEnds(c) /\ UNCHANGED file
    BY <1>7, <2>1, <2>2
  <2>3. CASE Goto(c, "detect") /\ UNCHANGED <<rtag, target>>
    <3>0. ~CheckEnds(c)
      BY <1>0, <2>3 DEF CheckEnds, AutoPublishTypeOK
    <3>1. \/ file[t] = NoFile /\ UNCHANGED file
          \/ file[t] # NoFile /\ file' = [file EXCEPT ![t] = whole]
          \/ file[t] # NoFile /\ file[t].by # {c} /\ file' = [file EXCEPT ![t] = file[t]]
          \/ /\ file[t] # NoFile /\ file' = [file EXCEPT ![t] = mixed]
             /\ \/ \E d \in Controllers \ {c} : cpc[d] = "download" /\ target[d] = t
                \/ file[t].by # {c}
      BY <1>13, <3>0 DEF EndDownload
    <3>2. /\ whole.by = {c} /\ whole.whole /\ whole.version = rtag[c]
          /\ mixed.by = Controllers /\ NoFile.by = {}
      BY DEF Torn, Asset, NoFile
    <3>3. file[t] # NoFile /\ file[t].by # {c} => Controllers # {c}
      BY <1>0, <2>1 DEF LabelInv, AutoPublishTypeOK, Downloads
    <3>4. cpc'[c] = "detect" /\ \A d \in Controllers \ {c} : cpc'[d] = cpc[d]
      BY <1>0, <2>3 DEF AutoPublishTypeOK
    <3>5. \A u \in Targets : u # t => file'[u] = file[u]
      BY <1>0, <3>1 DEF AutoPublishTypeOK
    <3>6. \/ file'[t] = file[t] /\ file[t].by # {c}
          \/ file'[t] = whole
          \/ file'[t] = mixed /\ Controllers # {c}
      <4>1. DOMAIN file = Targets
        BY <1>0 DEF AutoPublishTypeOK
      <4> HIDE DEF whole, mixed
      <4>2. QED
        BY <2>1, <3>1, <3>2, <3>3, <4>1
    <3> HIDE DEF whole, mixed
    <3>7. \A u \in Targets : file'[u] = file[u] \/ c \in file'[u].by
      BY <3>2, <3>5, <3>6
    <3>8. OwnFile(c)'
      <4>1. target'[c] = t /\ rtag'[c] = rtag[c]
        BY <2>3
      <4>2. QED
        BY <3>2, <3>4, <3>6, <4>1 DEF OwnFile
    <3>9. QED
      BY <1>0, <2>1, <2>3, <3>4, <3>7, <3>8, StepKeepsLabel
  <2>4. QED
    BY <1>13, <2>2, <2>3 DEF EndDownload
<1>14. ASSUME NEW c \in Controllers, Detect(c) PROVE LabelInv'
  <2> DEFINE t == target[c]
  <2>1. UNCHANGED uploads /\ cpc[c] = "detect"
    BY <1>14 DEF Detect
  <2>2. CASE HeaderMatches(file[t], t) /\ Goto(c, "stage") /\ UNCHANGED <<file, rtag, target>>
    <3>1. cpc'[c] = "stage" /\ \A d \in Controllers \ {c} : cpc'[d] = cpc[d]
      BY <1>0, <2>2 DEF AutoPublishTypeOK
    <3>2. OwnFile(c)'
      BY <2>1, <2>2, <3>1 DEF LabelInv, OwnFile, HeaderMatches
    <3>3. QED
      BY <1>0, <2>1, <2>2, <3>1, <3>2, StepKeepsLabel
  <2>3. CASE CheckEnds(c) /\ UNCHANGED file
    BY <1>7, <2>1, <2>3
  <2>4. CASE RemoveFile(t) /\ NextTarget(c)
    <3>1. \A u \in Targets : file'[u] = file[u] \/ file'[u] = NoFile
      BY <1>0, <2>4 DEF RemoveFile, AutoPublishTypeOK
    <3>2. QED
      BY <1>8, <2>1, <2>4, <3>1
  <2>5. QED
    BY <1>14, <2>2, <2>3, <2>4 DEF Detect
<1>15. ASSUME NEW c \in Controllers, Stage(c) PROVE LabelInv'
  <2> DEFINE t == target[c]
             u == [version |-> rtag[c], target |-> t, own |-> file[t].by = {c},
                   content |-> [file[t] EXCEPT !.by = {}]]
  <2>1. UNCHANGED <<file, rtag, target>> /\ cpc[c] = "stage" /\ t \in Targets
    BY <1>0, <1>15 DEF Stage, AutoPublishTypeOK, InTarget
  <2>2. CASE UNCHANGED uploads
    BY <1>6, <1>15, <2>1, <2>2 DEF Stage, Stations
  <2>3. CASE uploads' = Append(uploads, u) /\ cpc' = [cpc EXCEPT ![c] = "put"]
    <3>1. ASSUME u.own
          PROVE  u.content.whole /\ u.content.version = u.version /\ PlatformOf[u.content.built] = PlatformOf[u.target]
      <4>1. file[t] \in Downloads
        BY <1>0, <2>1 DEF AutoPublishTypeOK
      <4>2. file[t].by = {c}
        BY <3>1, Zenon
      <4>3. file[t].whole /\ file[t].version = rtag[c] /\ PlatformOf[file[t].built] = PlatformOf[t]
        BY <2>1, <4>2 DEF LabelInv, OwnFile
      <4>4. [file[t] EXCEPT !.by = {}].whole = file[t].whole
            /\ [file[t] EXCEPT !.by = {}].version = file[t].version
            /\ [file[t] EXCEPT !.by = {}].built = file[t].built
        BY <4>1 DEF Downloads
      <4>5. QED
        BY <4>3, <4>4
    <3> HIDE DEF u
    <3>2. PublishedAsLabelled'
      <4> SUFFICES ASSUME NEW r \in 1..Len(uploads'), uploads'[r].own
                   PROVE  LET w == uploads'[r] IN
                          /\ w.content.whole
                          /\ w.content.version = w.version /\ PlatformOf[w.content.built] = PlatformOf[w.target]
        BY DEF PublishedAsLabelled
      <4>1. uploads \in Seq(Publishes) /\ Len(uploads) \in Nat
        BY <1>0 DEF AutoPublishTypeOK
      <4>2. CASE r \in 1..Len(uploads)
        <5>1. uploads'[r] = uploads[r]
          BY <2>3, <4>1, <4>2
        <5>2. QED
          BY <4>2, <5>1 DEF LabelInv, PublishedAsLabelled
      <4>3. CASE r \notin 1..Len(uploads)
        <5>1. uploads'[r] = u
          BY <2>3, <4>1, <4>3
        <5>2. QED
          BY <3>1, <5>1
      <4>4. QED
        BY <4>2, <4>3
    <3>3. \A d \in Controllers : OwnFile(d)'
      <4> SUFFICES ASSUME NEW d \in Controllers PROVE OwnFile(d)'
        OBVIOUS
      <4>1. CASE d = c
        <5>1. cpc'[c] = "put"
          BY <1>0, <2>3 DEF AutoPublishTypeOK
        <5>2. QED
          BY <4>1, <5>1 DEF OwnFile
      <4>2. CASE d # c
        <5>1. cpc'[d] = cpc[d]
          BY <1>0, <2>3, <4>2 DEF AutoPublishTypeOK
        <5>2. QED
          BY <1>0, <2>1, <5>1, FileOfAnother DEF LabelInv
      <4>3. QED
        BY <4>1, <4>2
    <3>4. QED
      BY <1>0, <2>1, <3>2, <3>3 DEF LabelInv
  <2>4. QED
    BY <1>15, <2>2, <2>3 DEF Stage
<1>16. ASSUME NEW c \in Controllers, OfferRelease(c) PROVE LabelInv'
  BY <1>1, <1>16 DEF OfferRelease
<1>17. ASSUME NEW c \in Controllers, Record(c) PROVE LabelInv'
  BY <1>6, <1>17 DEF Record, Stations
<1>18. ASSUME NEW c \in Controllers, AfterPublish(c) PROVE LabelInv'
  <2>1. \A u \in Targets : file'[u] = file[u] \/ file'[u] = NoFile
    BY <1>0, <1>18 DEF AfterPublish, RemoveFile, AutoPublishTypeOK
  <2>2. QED
    BY <1>7, <1>8, <1>18, <2>1 DEF AfterPublish
<1>19. ASSUME NEW c \in Controllers, ControllerDies(c) PROVE LabelInv'
  BY <1>7, <1>19 DEF ControllerDies
<1>20. ASSUME NEW c \in Controllers, SessionOnOff(c) PROVE LabelInv'
  BY <1>6, <1>20 DEF SessionOnOff, Stations
<1>21. CASE UNCHANGED autoPublishVars
  BY <1>1, <1>21 DEF autoPublishVars
<1>22. QED
  BY <1>2, <1>3, <1>4, <1>5, <1>9, <1>10, <1>11, <1>12, <1>13, <1>14, <1>15, <1>16, <1>17,
     <1>18, <1>19, <1>20, <1>21 DEF AutoPublishNext, CheckStep

\* Whatever assets the repository attaches, whatever curl leaves half done and
\* however many controllers share the staging directory: a release staged from
\* a controller's own download holds a whole build of the version and platform
\* it is published as.
THEOREM ReleasesAreAsLabelled == AutoPublishSpec => []PublishedAsLabelled
<1>1. LabelInv => PublishedAsLabelled
  BY DEF LabelInv
<1>2. QED
  BY InitEstablishesLabel, NextKeepsLabel, <1>1, PTL DEF AutoPublishSpec

--------------------------------------------------------------------------
(* How often a version is uploaded for a target. Before it is in the       *)
(* ledger, an upload is paid for by the controller that is still giving it *)
(* out, unless all its offers failed so far, or by a request that failed   *)
(* or a controller that died. Once it is there, only the controllers that  *)
(* have read the ledger before can add one each.                           *)

\* The uploads of a version for a target.
UploadsOf(v, t) == {r \in 1..Len(uploads) : uploads[r].version = v /\ uploads[r].target = t}

\* Controller c is at version v for target t.
At(c, v, t) == rtag[c] = v /\ target[c] = t

\* Controllers that have read the ledger and will upload ...
Ahead(v, t) == {c \in Controllers : cpc[c] \in {"download", "detect", "stage"} /\ At(c, v, t)}

\* ... and those that have uploaded and will write to the ledger, as they have
\* given the release to an agent or still have one to give it to.
Giving(v, t) == {c \in Controllers : /\ cpc[c] = "put" /\ At(c, v, t)
                                     /\ given[c] # {} \/ puts[c] = Mine(c)}

\* A target is visited because one of the agents seen runs it.
FleetInv ==
  \A c \in Controllers :
    /\ todo[c] \subseteq ByTarget(fleet[c])
    /\ cpc[c] \in {"download", "detect", "stage", "put"} => Mine(c) # {}

\* An upload is matched by a failure, by a controller that has yet to record it,
\* or (once the row is there) by a controller that had read the ledger before.
BoundInv(v, t) ==
  /\ <<v, t>> \in ledger =>
       Cardinality(UploadsOf(v, t)) + Cardinality(Ahead(v, t)) <= Cardinality(Controllers) + hitches
  /\ <<v, t>> \notin ledger =>
       Cardinality(UploadsOf(v, t)) <= Cardinality(Giving(v, t)) + hitches

\* The inductive invariant for UploadsAreBounded.
CountInv ==
  /\ AutoPublishTypeOK /\ FleetInv
  /\ \A v \in Versions, t \in Targets : BoundInv(v, t)

\* Finite sets, and what one element more or less does to their size.
LEMMA SmallerSet ==
  ASSUME NEW S, IsFiniteSet(S), NEW T, T \subseteq S
  PROVE  Cardinality(T) \in Nat /\ Cardinality(S) \in Nat /\ Cardinality(T) <= Cardinality(S)
BY FS_Subset, FS_CardinalityType

\* One element more.
LEMMA OneLess ==
  ASSUME NEW S, IsFiniteSet(S), NEW T, IsFiniteSet(T), NEW c, T \subseteq S \cup {c}
  PROVE  Cardinality(T) <= Cardinality(S) + 1
<1>0. Cardinality(S) \in Nat
  BY FS_CardinalityType
<1>1. IsFiniteSet(S \cup {c}) /\ Cardinality(S \cup {c}) <= Cardinality(S) + 1
  BY <1>0, FS_AddElement
<1>2. Cardinality(T) <= Cardinality(S \cup {c})
  BY <1>1, SmallerSet
<1>3. QED
  BY <1>1, <1>2, FS_CardinalityType

\* One element less.
LEMMA OneGone ==
  ASSUME NEW S, IsFiniteSet(S), NEW T, NEW c \in S, T \subseteq S \ {c}
  PROVE  Cardinality(T) + 1 <= Cardinality(S)
<1>1. IsFiniteSet(S \ {c}) /\ Cardinality(S \ {c}) = Cardinality(S) - 1
  BY FS_RemoveElement
<1>2. Cardinality(T) <= Cardinality(S \ {c}) /\ Cardinality(T) \in Nat /\ Cardinality(S \ {c}) \in Nat
  BY <1>1, SmallerSet
<1>3. QED
  BY <1>1, <1>2, FS_CardinalityType

\* Two parts that have nothing in common.
LEMMA Apart ==
  ASSUME NEW U, IsFiniteSet(U), NEW S, S \subseteq U, NEW T, T \subseteq U, S \cap T = {}
  PROVE  Cardinality(S) + Cardinality(T) <= Cardinality(U)
<1>1. IsFiniteSet(S) /\ IsFiniteSet(T) /\ S \cup T \in SUBSET U
  BY FS_Subset
<1>2. Cardinality(S \cup T) = Cardinality(S) + Cardinality(T) - Cardinality(S \cap T)
  BY <1>1, FS_Union
<1>3. Cardinality(S \cap T) = 0 /\ Cardinality(S) \in Nat /\ Cardinality(T) \in Nat
  BY <1>1, FS_EmptySet, FS_CardinalityType
<1>4. Cardinality(S \cup T) <= Cardinality(U)
  BY <1>1, SmallerSet
<1>5. QED
  BY <1>2, <1>3, <1>4

\* The sizes that BoundInv adds up.
LEMMA SetsAreFinite ==
  ASSUME AutoPublishTypeOK, NEW v, NEW t
  PROVE  /\ IsFiniteSet(Controllers) /\ IsFiniteSet(UploadsOf(v, t))
         /\ IsFiniteSet(Ahead(v, t)) /\ IsFiniteSet(Giving(v, t))
         /\ Cardinality(Controllers) \in Nat /\ Cardinality(UploadsOf(v, t)) \in Nat
         /\ Cardinality(Ahead(v, t)) \in Nat /\ Cardinality(Giving(v, t)) \in Nat
         /\ hitches \in Nat
<1>1. IsFiniteSet(Controllers)
  BY AutoPublishAssumption
<1>2. Ahead(v, t) \in SUBSET Controllers /\ Giving(v, t) \in SUBSET Controllers
  BY DEF Ahead, Giving
<1>3. Len(uploads) \in Nat
  BY DEF AutoPublishTypeOK
<1>4. IsFiniteSet(1..Len(uploads)) /\ UploadsOf(v, t) \in SUBSET (1..Len(uploads))
  BY <1>3, FS_Interval DEF UploadsOf
<1>5. IsFiniteSet(UploadsOf(v, t)) /\ IsFiniteSet(Ahead(v, t)) /\ IsFiniteSet(Giving(v, t))
  BY <1>1, <1>2, <1>4, FS_Subset
<1>6. QED
  BY <1>1, <1>5, FS_CardinalityType DEF AutoPublishTypeOK

\* A step that uploads and records nothing: nobody gets ahead of a ledger row,
\* and who gives up costs a hitch.
LEMMA NothingUploaded ==
  ASSUME AutoPublishTypeOK, AutoPublishTypeOK', NEW v \in Versions, NEW t \in Targets, BoundInv(v, t),
         UNCHANGED <<uploads, ledger>>,
         <<v, t>> \in ledger => Ahead(v, t)' \subseteq Ahead(v, t),
         \/ Giving(v, t) \subseteq Giving(v, t)' /\ hitches <= hitches'
         \/ hitches' = hitches + 1 /\ \E c \in Controllers : Giving(v, t) \subseteq Giving(v, t)' \cup {c}
  PROVE  BoundInv(v, t)'
<1>1. /\ IsFiniteSet(Ahead(v, t)) /\ IsFiniteSet(Giving(v, t)) /\ Cardinality(Controllers) \in Nat
      /\ Cardinality(UploadsOf(v, t)) \in Nat /\ Cardinality(Ahead(v, t)) \in Nat
      /\ Cardinality(Giving(v, t)) \in Nat /\ hitches \in Nat
  BY SetsAreFinite
<1>2. /\ IsFiniteSet(Ahead(v, t)') /\ IsFiniteSet(Giving(v, t)')
      /\ Cardinality(Ahead(v, t)') \in Nat /\ Cardinality(Giving(v, t)') \in Nat /\ hitches' \in Nat
  <2> DEFINE G == Giving(v, t)'
             A == Ahead(v, t)'
  <2>1. A \in SUBSET Controllers /\ G \in SUBSET Controllers
    BY DEF Ahead, Giving
  <2>2. QED
    BY <2>1, AutoPublishAssumption, FS_Subset, FS_CardinalityType DEF AutoPublishTypeOK
<1>3. UploadsOf(v, t)' = UploadsOf(v, t)
  BY DEF UploadsOf
<1>4. hitches <= hitches'
  BY <1>1
<1>5. CASE <<v, t>> \in ledger
  <2>1. Cardinality(Ahead(v, t)') <= Cardinality(Ahead(v, t))
    BY <1>1, <1>5, SmallerSet
  <2>2. Cardinality(UploadsOf(v, t)) + Cardinality(Ahead(v, t)) <= Cardinality(Controllers) + hitches
    BY <1>5 DEF BoundInv
  <2>3. Cardinality(UploadsOf(v, t)) + Cardinality(Ahead(v, t)') <= Cardinality(Controllers) + hitches'
    BY <1>1, <1>2, <1>4, <2>1, <2>2
  <2>4. QED
    BY <1>3, <1>5, <2>3 DEF BoundInv
<1>6. CASE <<v, t>> \notin ledger
  <2>1. Cardinality(UploadsOf(v, t)) <= Cardinality(Giving(v, t)) + hitches
    BY <1>6 DEF BoundInv
  <2>2. Cardinality(Giving(v, t)) + hitches <= Cardinality(Giving(v, t)') + hitches'
    <3>1. CASE Giving(v, t) \subseteq Giving(v, t)' /\ hitches <= hitches'
      <4>1. Cardinality(Giving(v, t)) <= Cardinality(Giving(v, t)')
        BY <1>2, <3>1, SmallerSet
      <4>2. QED
        BY <1>1, <1>2, <3>1, <4>1
    <3>2. ASSUME hitches' = hitches + 1, NEW c \in Controllers, Giving(v, t) \subseteq Giving(v, t)' \cup {c}
          PROVE  Cardinality(Giving(v, t)) + hitches <= Cardinality(Giving(v, t)') + hitches'
      <4>1. Cardinality(Giving(v, t)) <= Cardinality(Giving(v, t)') + 1
        BY <1>1, <1>2, <3>2, OneLess
      <4>2. QED
        BY <1>1, <1>2, <3>2, <4>1
    <3>3. QED
      BY <3>1, <3>2
  <2>3. Cardinality(UploadsOf(v, t)) <= Cardinality(Giving(v, t)') + hitches'
    BY <1>1, <1>2, <2>1, <2>2
  <2>4. QED
    BY <1>3, <1>6, <2>3 DEF BoundInv
<1>7. QED
  BY <1>5, <1>6

\* Every other controller stays where it is.
OthersRest(c) ==
  \A d \in Controllers \ {c} :
    /\ cpc'[d] = cpc[d] /\ rtag'[d] = rtag[d] /\ target'[d] = target[d] /\ fleet'[d] = fleet[d]
    /\ todo'[d] = todo[d] /\ puts'[d] = puts[d] /\ given'[d] = given[d]

\* FleetInv for one controller.
FleetOf(c) ==
  /\ todo[c] \subseteq ByTarget(fleet[c])
  /\ cpc[c] \in {"download", "detect", "stage", "put"} => Mine(c) # {}

\* It is enough to look at the controller that moves.
LEMMA OthersKeepFleet ==
  ASSUME FleetInv, NEW c \in Controllers, OthersRest(c), FleetOf(c)' PROVE FleetInv'
BY DEF FleetInv, FleetOf, OthersRest, Mine, ByTarget

\* A step of controller c that uploads and records nothing.
LEMMA StepKeepsCount ==
  ASSUME CountInv, AutoPublishTypeOK', NEW c \in Controllers, OthersRest(c), UNCHANGED <<uploads, ledger>>,
         FleetOf(c)',
         cpc'[c] \in {"download", "detect", "stage"} =>
           \/ <<rtag'[c], target'[c]>> \notin ledger
           \/ /\ cpc[c] \in {"download", "detect", "stage"}
              /\ rtag'[c] = rtag[c] /\ target'[c] = target[c],
         \/ hitches' = hitches + 1
         \/ /\ hitches' = hitches
            /\ cpc[c] = "put" /\ (given[c] # {} \/ puts[c] = Mine(c)) =>
                 cpc'[c] = "put" /\ rtag'[c] = rtag[c] /\ target'[c] = target[c] /\ given'[c] # {}
  PROVE  CountInv'
<1>1. AutoPublishTypeOK /\ FleetInv
  BY DEF CountInv
<1>2. FleetInv'
  BY <1>1, OthersKeepFleet
<1>3. ASSUME NEW v \in Versions, NEW t \in Targets PROVE BoundInv(v, t)'
  <2>1. ASSUME <<v, t>> \in ledger, NEW d \in Ahead(v, t)' PROVE d \in Ahead(v, t)
    <3>1. CASE d = c
      BY <2>1, <3>1 DEF Ahead, At
    <3>2. CASE d # c
      BY <2>1, <3>2 DEF Ahead, At, OthersRest
    <3>3. QED
      BY <3>1, <3>2
  <2>2. ASSUME NEW d \in Giving(v, t), d # c PROVE d \in Giving(v, t)'
    <3>1. Mine(d)' = Mine(d)
      BY <2>2 DEF OthersRest, Mine, Giving
    <3>2. QED
      BY <2>2, <3>1 DEF OthersRest, Giving, At
  <2>3. hitches' = hitches => (c \in Giving(v, t) => c \in Giving(v, t)')
    <3>1. hitches \in Nat
      BY <1>1 DEF AutoPublishTypeOK
    <3>2. QED
      BY <3>1 DEF Giving, At
  <2>4. BoundInv(v, t) /\ hitches \in Nat
    BY <1>1 DEF CountInv, AutoPublishTypeOK
  <2>5. \/ Giving(v, t) \subseteq Giving(v, t)' /\ hitches <= hitches'
        \/ hitches' = hitches + 1 /\ \E d \in Controllers : Giving(v, t) \subseteq Giving(v, t)' \cup {d}
    BY <2>2, <2>3, <2>4
  <2>6. QED
    BY <1>1, <2>1, <2>4, <2>5, NothingUploaded
<1>4. QED
  BY <1>2, <1>3 DEF CountInv

\* A release is staged: the controller has used its place ahead of the ledger
\* and gives the release out.
LEMMA StageKeepsCount ==
  ASSUME CountInv, AutoPublishTypeOK', NEW c \in Controllers, OthersRest(c), FleetOf(c)', cpc[c] = "stage",
         cpc'[c] = "put", rtag'[c] = rtag[c], target'[c] = target[c], fleet'[c] = fleet[c],
         puts'[c] = Mine(c), UNCHANGED <<ledger, hitches>>,
         NEW u, uploads' = Append(uploads, u), u.version = rtag[c], u.target = target[c]
  PROVE  CountInv'
<1>1. AutoPublishTypeOK /\ FleetInv
  BY DEF CountInv
<1>2. FleetInv'
  BY <1>1, OthersKeepFleet
<1>3. Len(uploads) \in Nat /\ uploads \in Seq(Publishes)
  BY <1>1 DEF AutoPublishTypeOK
<1>4. /\ Len(uploads') = Len(uploads) + 1 /\ uploads'[Len(uploads) + 1] = u
      /\ \A r \in 1..Len(uploads) : uploads'[r] = uploads[r]
  BY <1>3
<1>5. ASSUME NEW v \in Versions, NEW t \in Targets PROVE BoundInv(v, t)'
  <2>1. BoundInv(v, t)
    BY DEF CountInv
  <2>2. \A d \in Controllers \ {c} : d \in Ahead(v, t)' <=> d \in Ahead(v, t)
    BY DEF Ahead, At, OthersRest
  <2>3. \A d \in Controllers \ {c} : d \in Giving(v, t)' <=> d \in Giving(v, t)
    BY DEF Giving, At, OthersRest, Mine
  <2>4. c \notin Ahead(v, t)' /\ c \notin Giving(v, t)
    BY DEF Ahead, Giving
  <2>5. Ahead(v, t)' \subseteq Ahead(v, t) \ {c}
    BY <2>2, <2>4 DEF Ahead
  <2>6. Giving(v, t) \subseteq Giving(v, t)' \ {c}
    BY <2>3, <2>4 DEF Giving
  <2>7. /\ IsFiniteSet(Ahead(v, t)) /\ IsFiniteSet(UploadsOf(v, t)) /\ Cardinality(Controllers) \in Nat
        /\ Cardinality(UploadsOf(v, t)) \in Nat /\ Cardinality(Ahead(v, t)) \in Nat
        /\ Cardinality(Giving(v, t)) \in Nat /\ hitches \in Nat
    BY <1>1, SetsAreFinite
  <2>8. /\ IsFiniteSet(Giving(v, t)') /\ Cardinality(Giving(v, t)') \in Nat
        /\ Cardinality(Ahead(v, t)') \in Nat
    <3> DEFINE G == Giving(v, t)'
               A == Ahead(v, t)'
    <3>1. A \in SUBSET Controllers /\ G \in SUBSET Controllers
      BY DEF Ahead, Giving
    <3>2. QED
      BY <3>1, AutoPublishAssumption, FS_Subset, FS_CardinalityType
  <2>9. CASE rtag[c] = v /\ target[c] = t
    <3>1. UploadsOf(v, t)' = UploadsOf(v, t) \cup {Len(uploads) + 1} /\ Len(uploads) + 1 \notin UploadsOf(v, t)
      BY <1>3, <1>4, <2>9 DEF UploadsOf
    <3>2. Cardinality(UploadsOf(v, t)') = Cardinality(UploadsOf(v, t)) + 1
      BY <2>7, <3>1, FS_AddElement
    <3>3. c \in Ahead(v, t) /\ c \in Giving(v, t)'
      BY <2>9 DEF Ahead, Giving, At, Mine
    <3>4. Cardinality(Ahead(v, t)') + 1 <= Cardinality(Ahead(v, t))
      BY <2>5, <2>7, <3>3, OneGone
    <3>5. Cardinality(Giving(v, t)) + 1 <= Cardinality(Giving(v, t)')
      BY <2>6, <2>8, <3>3, OneGone
    <3>6. <<v, t>> \in ledger =>
            Cardinality(UploadsOf(v, t)') + Cardinality(Ahead(v, t)') <= Cardinality(Controllers) + hitches
      BY <2>1, <2>7, <2>8, <3>2, <3>4 DEF BoundInv
    <3>7. <<v, t>> \notin ledger => Cardinality(UploadsOf(v, t)') <= Cardinality(Giving(v, t)') + hitches
      BY <2>1, <2>7, <2>8, <3>2, <3>5 DEF BoundInv
    <3>8. QED
      BY <3>6, <3>7 DEF BoundInv
  <2>10. CASE ~(rtag[c] = v /\ target[c] = t)
    <3>1. UploadsOf(v, t)' = UploadsOf(v, t)
      BY <1>3, <1>4, <2>10 DEF UploadsOf
    <3>2. Cardinality(Ahead(v, t)') <= Cardinality(Ahead(v, t))
      BY <2>5, <2>7, SmallerSet
    <3>3. Cardinality(Giving(v, t)) <= Cardinality(Giving(v, t)')
      BY <2>6, <2>8, SmallerSet
    <3>4. <<v, t>> \in ledger =>
            Cardinality(UploadsOf(v, t)) + Cardinality(Ahead(v, t)') <= Cardinality(Controllers) + hitches
      BY <2>1, <2>7, <2>8, <3>2 DEF BoundInv
    <3>5. <<v, t>> \notin ledger => Cardinality(UploadsOf(v, t)) <= Cardinality(Giving(v, t)') + hitches
      BY <2>1, <2>7, <2>8, <3>3 DEF BoundInv
    <3>6. QED
      BY <3>1, <3>4, <3>5 DEF BoundInv
  <2>11. QED
    BY <2>9, <2>10
<1>6. QED
  BY <1>2, <1>5 DEF CountInv

\* A rollout is recorded: who gives out this version for this target and who
\* is still ahead of the row are different controllers.
LEMMA RecordKeepsCount ==
  ASSUME CountInv, AutoPublishTypeOK', NEW c \in Controllers, OthersRest(c), FleetOf(c)', cpc[c] = "put",
         cpc'[c] = "published", UNCHANGED <<uploads, hitches>>,
         ledger' = ledger \cup {<<rtag[c], target[c]>>}
  PROVE  CountInv'
<1>1. AutoPublishTypeOK /\ FleetInv
  BY DEF CountInv
<1>2. FleetInv'
  BY <1>1, OthersKeepFleet
<1>3. ASSUME NEW v \in Versions, NEW t \in Targets PROVE BoundInv(v, t)'
  <2>1. BoundInv(v, t)
    BY DEF CountInv
  <2>2. Ahead(v, t)' = Ahead(v, t)
    BY DEF Ahead, At, OthersRest
  <2>3. UploadsOf(v, t)' = UploadsOf(v, t)
    BY DEF UploadsOf
  <2>4. /\ IsFiniteSet(Controllers) /\ Cardinality(Controllers) \in Nat
        /\ Cardinality(UploadsOf(v, t)) \in Nat /\ Cardinality(Ahead(v, t)) \in Nat
        /\ Cardinality(Giving(v, t)) \in Nat /\ hitches \in Nat
    BY <1>1, SetsAreFinite
  <2>5. CASE <<v, t>> \in ledger
    BY <2>1, <2>2, <2>3, <2>5 DEF BoundInv
  <2>6. CASE <<v, t>> \notin ledger /\ <<v, t>> \in ledger'
    <3>1. Cardinality(Giving(v, t)) + Cardinality(Ahead(v, t)) <= Cardinality(Controllers)
      <4>1. /\ Giving(v, t) \subseteq Controllers /\ Ahead(v, t) \subseteq Controllers
            /\ Giving(v, t) \cap Ahead(v, t) = {}
        BY DEF Giving, Ahead
      <4>2. QED
        BY <2>4, <4>1, Apart
    <3>2. Cardinality(UploadsOf(v, t)) + Cardinality(Ahead(v, t)) <= Cardinality(Controllers) + hitches
      BY <2>1, <2>4, <2>6, <3>1 DEF BoundInv
    <3>3. QED
      BY <2>2, <2>3, <2>6, <3>2 DEF BoundInv
  <2>7. CASE <<v, t>> \notin ledger'
    <3>1. Giving(v, t)' = Giving(v, t)
      <4>1. ~At(c, v, t)
        BY <2>7 DEF At
      <4>2. \A d \in Controllers \ {c} : d \in Giving(v, t)' <=> d \in Giving(v, t)
        BY DEF Giving, At, OthersRest, Mine
      <4>3. c \notin Giving(v, t) /\ c \notin Giving(v, t)'
        BY <4>1 DEF Giving
      <4>4. Giving(v, t) \subseteq Controllers /\ Giving(v, t)' \subseteq Controllers
        BY DEF Giving
      <4>5. QED
        BY <4>2, <4>3, <4>4
    <3>2. QED
      BY <2>1, <2>3, <2>7, <3>1 DEF BoundInv
  <2>8. QED
    BY <2>5, <2>6, <2>7
<1>4. QED
  BY <1>2, <1>3 DEF CountInv

\* Nothing was uploaded.
LEMMA InitEstablishesCount == AutoPublishInit => CountInv
<1> SUFFICES ASSUME AutoPublishInit PROVE CountInv
  OBVIOUS
<1>1. AutoPublishTypeOK
  BY AutoPublishInitTypes
<1>2. FleetInv
  BY DEF AutoPublishInit, FleetInv
<1>3. ASSUME NEW v \in Versions, NEW t \in Targets PROVE BoundInv(v, t)
  <2>1. UploadsOf(v, t) = {}
    BY DEF AutoPublishInit, UploadsOf
  <2>2. Cardinality(UploadsOf(v, t)) = 0 /\ Cardinality(Giving(v, t)) \in Nat /\ hitches \in Nat
    BY <1>1, <2>1, FS_EmptySet, SetsAreFinite
  <2>3. <<v, t>> \notin ledger
    BY DEF AutoPublishInit
  <2>4. Cardinality(UploadsOf(v, t)) <= Cardinality(Giving(v, t)) + hitches
    BY <2>2
  <2>5. QED
    BY <2>3, <2>4 DEF BoundInv
<1>4. QED
  BY <1>1, <1>2, <1>3 DEF CountInv

\* Every step keeps the bound.
LEMMA NextKeepsCount == CountInv /\ [AutoPublishNext]_autoPublishVars => CountInv'
<1> SUFFICES ASSUME CountInv, [AutoPublishNext]_autoPublishVars PROVE CountInv'
  OBVIOUS
<1>0. AutoPublishTypeOK /\ AutoPublishTypeOK' /\ FleetInv /\ hitches \in Nat
  BY AutoPublishNextTypes DEF CountInv, AutoPublishTypeOK
<1> USE DEF repoVars, releaseVars, checkVars, Goto, NoHitch, Hitch
<1>1. ASSUME UNCHANGED <<uploads, ledger, hitches, cpc, rtag, target, fleet, todo, puts, given>>
      PROVE  CountInv'
  <2>1. FleetInv'
    BY <1>0, <1>1 DEF FleetInv, Mine, ByTarget
  <2>2. ASSUME NEW v \in Versions, NEW t \in Targets PROVE BoundInv(v, t)'
    <3>1. /\ Ahead(v, t)' = Ahead(v, t) /\ Giving(v, t)' = Giving(v, t)
          /\ UploadsOf(v, t)' = UploadsOf(v, t)
      BY <1>1 DEF Ahead, Giving, UploadsOf, At, Mine
    <3>2. QED
      BY <1>1, <3>1 DEF CountInv, BoundInv
  <2>3. QED
    BY <1>0, <2>1, <2>2 DEF CountInv
<1>2. CASE TagRelease
  BY <1>1, <1>2 DEF TagRelease
<1>3. ASSUME NEW t \in Targets, NEW p \in AssetTargets, UploadAsset(t, p) PROVE CountInv'
  BY <1>1, <1>3 DEF UploadAsset
<1>4. ASSUME NEW a \in Agents, Hear(a) \/ Install(a) PROVE CountInv'
  BY <1>1, <1>4 DEF Hear, Install
<1>5. ASSUME NEW r \in UploadIds, Sweep(r) PROVE CountInv'
  BY <1>1, <1>5 DEF Sweep
<1>6. ASSUME NEW c \in Controllers, CheckEnds(c), UNCHANGED <<uploads, ledger>>,
             hitches' = hitches + 1 \/ (hitches' = hitches /\ cpc[c] # "put")
      PROVE  CountInv'
  <2>1. OthersRest(c) /\ cpc'[c] = "idle" /\ todo'[c] = {}
    BY <1>0, <1>6 DEF CheckEnds, OthersRest, AutoPublishTypeOK
  <2>2. FleetOf(c)'
    BY <2>1 DEF FleetOf
  <2>3. QED
    BY <1>0, <1>6, <2>1, <2>2, StepKeepsCount
<1>7. ASSUME NEW c \in Controllers, NextTarget(c), UNCHANGED <<uploads, ledger, hitches>>, cpc[c] # "put"
      PROVE  CountInv'
  <2>1. /\ OthersRest(c) /\ cpc'[c] = "pick" /\ todo'[c] \subseteq todo[c]
        /\ fleet' = fleet
    BY <1>0, <1>7 DEF NextTarget, OthersRest, AutoPublishTypeOK
  <2>2. FleetOf(c)'
    BY <1>0, <2>1 DEF FleetOf, FleetInv, ByTarget
  <2>3. QED
    BY <1>0, <1>7, <2>1, <2>2, StepKeepsCount
<1>8. ASSUME NEW c \in Controllers, BeginCheck(c) PROVE CountInv'
  <2>1. /\ OthersRest(c) /\ cpc'[c] = "pick" /\ todo'[c] = ByTarget(seen) /\ fleet'[c] = seen
        /\ UNCHANGED <<uploads, ledger, hitches>> /\ cpc[c] = "idle"
    BY <1>0, <1>8 DEF BeginCheck, OthersRest, AutoPublishTypeOK
  <2>2. FleetOf(c)'
    BY <2>1 DEF FleetOf, ByTarget
  <2>3. QED
    BY <1>0, <2>1, <2>2, StepKeepsCount
<1>9. ASSUME NEW c \in Controllers, EndCheck(c) PROVE CountInv'
  BY <1>6, <1>9 DEF EndCheck
<1>10. ASSUME NEW c \in Controllers, NEW t \in Targets, SkipTarget(c, t) PROVE CountInv'
  <2>1. /\ OthersRest(c) /\ cpc' = cpc /\ cpc[c] = "pick" /\ todo'[c] \subseteq todo[c]
        /\ UNCHANGED <<uploads, ledger, hitches, fleet>>
    BY <1>0, <1>10 DEF SkipTarget, OthersRest, AutoPublishTypeOK
  <2>2. FleetOf(c)'
    BY <1>0, <2>1 DEF FleetOf, FleetInv, ByTarget
  <2>3. QED
    BY <1>0, <2>1, <2>2, StepKeepsCount
<1>11. ASSUME NEW c \in Controllers, NEW t \in Targets, BeginDownload(c, t) PROVE CountInv'
  <2>1. /\ OthersRest(c) /\ cpc'[c] = "download" /\ cpc[c] = "pick" /\ target'[c] = t
        /\ UNCHANGED <<uploads, ledger, hitches, fleet, todo, rtag>>
    BY <1>0, <1>11 DEF BeginDownload, OthersRest, AutoPublishTypeOK
  <2>2. t \in todo[c] /\ <<rtag[c], t>> \notin ledger
    BY <1>11 DEF BeginDownload, AlreadyPublished
  <2>3. FleetOf(c)'
    <3>1. PICK a \in fleet[c] : HostOf[a] = t
      BY <1>0, <2>2 DEF FleetInv, ByTarget
    <3>2. a \in Mine(c)'
      BY <2>1, <3>1 DEF Mine
    <3>3. QED
      BY <1>0, <2>1, <3>2 DEF FleetOf, FleetInv, ByTarget
  <2>4. QED
    BY <1>0, <2>1, <2>2, <2>3, StepKeepsCount
<1>12. ASSUME NEW c \in Controllers, NEW p \in {"detect", "stage", "put", "published", "failed"},
              cpc' = [cpc EXCEPT ![c] = p], UNCHANGED <<rtag, target, fleet, todo, puts, given>>,
              cpc[c] \in {"download", "detect", "stage", "put"}
       PROVE  OthersRest(c) /\ FleetOf(c)' /\ cpc'[c] = p
  <2>1. cpc'[c] = p /\ OthersRest(c)
    BY <1>0, <1>12 DEF OthersRest, AutoPublishTypeOK
  <2>2. QED
    BY <1>0, <1>12, <2>1 DEF FleetOf, FleetInv, Mine, ByTarget
<1>13. ASSUME NEW c \in Controllers, EndDownload(c) PROVE CountInv'
  <2>1. UNCHANGED <<uploads, ledger>> /\ cpc[c] = "download"
    BY <1>13 DEF EndDownload
  <2>2. CASE Hitch /\ CheckEnds(c)
    BY <1>6, <2>1, <2>2
  <2>3. CASE Goto(c, "detect") /\ NoHitch /\ UNCHANGED <<rtag, avail, fleet, todo, target, rel, puts, given>>
    <3>1. OthersRest(c) /\ FleetOf(c)' /\ cpc'[c] = "detect"
      BY <1>12, <2>1, <2>3
    <3>2. QED
      BY <1>0, <2>1, <2>3, <3>1, StepKeepsCount
  <2>4. QED
    BY <1>13, <2>2, <2>3 DEF EndDownload
<1>14. ASSUME NEW c \in Controllers, Detect(c) PROVE CountInv'
  <2>1. UNCHANGED <<uploads, ledger, hitches>> /\ cpc[c] = "detect"
    BY <1>14 DEF Detect
  <2>2. CASE CheckEnds(c)
    BY <1>6, <2>1, <2>2
  <2>3. CASE NextTarget(c)
    BY <1>7, <2>1, <2>3
  <2>4. CASE Goto(c, "stage") /\ UNCHANGED <<file, rtag, avail, fleet, todo, target, rel, puts, given>>
    <3>1. OthersRest(c) /\ FleetOf(c)' /\ cpc'[c] = "stage"
      BY <1>12, <2>1, <2>4
    <3>2. QED
      BY <1>0, <2>1, <2>4, <3>1, StepKeepsCount
  <2>5. QED
    BY <1>14, <2>2, <2>3, <2>4 DEF Detect
<1>15. ASSUME NEW c \in Controllers, Stage(c) PROVE CountInv'
  <2> DEFINE t == target[c]
             u == [version |-> rtag[c], target |-> t, own |-> file[t].by = {c},
                   content |-> [file[t] EXCEPT !.by = {}]]
  <2>1. cpc[c] = "stage" /\ UNCHANGED <<ledger, rtag, target, fleet, todo, given>>
    BY <1>15 DEF Stage
  <2>2. CASE uploads' = Append(uploads, u) /\ puts' = [puts EXCEPT ![c] = Mine(c)] /\ Goto(c, "put") /\ UNCHANGED hitches
    <3>1. OthersRest(c) /\ cpc'[c] = "put" /\ puts'[c] = Mine(c)
      BY <1>0, <2>1, <2>2 DEF OthersRest, AutoPublishTypeOK
    <3>2. FleetOf(c)'
      BY <1>0, <2>1, <3>1 DEF FleetOf, FleetInv, Mine, ByTarget
    <3>3. u.version = rtag[c] /\ u.target = target[c]
      OBVIOUS
    <3> HIDE DEF u
    <3>4. QED
      BY <1>0, <2>1, <2>2, <3>1, <3>2, <3>3, StageKeepsCount
  <2>3. CASE /\ (file[t] = NoFile /\ NoHitch) \/ Hitch
             /\ Goto(c, "failed") /\ UNCHANGED <<uploads, puts>>
    <3>1. OthersRest(c) /\ FleetOf(c)' /\ cpc'[c] = "failed"
      BY <1>12, <2>1, <2>3
    <3>2. QED
      BY <1>0, <2>1, <2>3, <3>1, StepKeepsCount
  <2>4. QED
    BY <1>15, <2>2, <2>3 DEF Stage
<1>16. ASSUME NEW c \in Controllers, OfferRelease(c) PROVE CountInv'
  <2>1. UNCHANGED <<uploads, ledger, cpc, rtag, target, fleet, todo>> /\ cpc[c] = "put"
    BY <1>16 DEF OfferRelease
  <2>2. OthersRest(c)
    BY <1>0, <1>16 DEF OfferRelease, OthersRest, AutoPublishTypeOK
  <2>3. FleetOf(c)'
    BY <1>0, <2>1 DEF FleetOf, FleetInv, Mine, ByTarget
  <2>4. hitches' = hitches + 1 \/ (hitches' = hitches /\ given'[c] # {})
    <3>1. \/ hitches' = hitches + 1
          \/ hitches' = hitches /\ \E a \in puts[c] : given' = [given EXCEPT ![c] = @ \cup {a}]
      BY <1>16 DEF OfferRelease
    <3>2. DOMAIN given = Controllers
      BY <1>0 DEF AutoPublishTypeOK
    <3>3. ASSUME NEW a, given' = [given EXCEPT ![c] = @ \cup {a}] PROVE a \in given'[c]
      BY <3>2, <3>3
    <3>4. QED
      BY <3>1, <3>3
  <2>5. QED
    BY <1>0, <2>1, <2>2, <2>3, <2>4, StepKeepsCount
<1>17. ASSUME NEW c \in Controllers, Record(c) PROVE CountInv'
  <2>1. /\ UNCHANGED <<uploads, rtag, target, fleet, todo, puts, given>>
        /\ cpc[c] = "put" /\ puts[c] = {}
    BY <1>17 DEF Record
  <2>2. Mine(c) # {}
    BY <1>0, <2>1 DEF FleetInv
  <2>3. CASE Goto(c, "failed") /\ UNCHANGED ledger /\ (Hitch \/ (given[c] = {} /\ NoHitch))
    <3>1. OthersRest(c) /\ FleetOf(c)' /\ cpc'[c] = "failed"
      BY <1>12, <2>1, <2>3
    <3>2. QED
      BY <1>0, <2>1, <2>2, <2>3, <3>1, StepKeepsCount
  <2>4. CASE Goto(c, "published") /\ NoHitch /\ ledger' = ledger \cup {<<rtag[c], target[c]>>}
    <3>1. OthersRest(c) /\ FleetOf(c)' /\ cpc'[c] = "published"
      BY <1>12, <2>1, <2>4
    <3>2. QED
      BY <1>0, <2>1, <2>4, <3>1, RecordKeepsCount
  <2>5. QED
    BY <1>17, <2>3, <2>4 DEF Record
<1>18. ASSUME NEW c \in Controllers, AfterPublish(c) PROVE CountInv'
  BY <1>6, <1>7, <1>18 DEF AfterPublish
<1>19. ASSUME NEW c \in Controllers, ControllerDies(c) PROVE CountInv'
  BY <1>6, <1>19 DEF ControllerDies
<1>20. ASSUME NEW c \in Controllers, SessionOnOff(c) PROVE CountInv'
  <2>1. /\ UNCHANGED <<uploads, ledger, hitches, rtag, target, fleet, todo, puts, given>>
        /\ cpc[c] \in {"off", "idle"}
    BY <1>20 DEF SessionOnOff
  <2>2. OthersRest(c) /\ cpc'[c] \in {"off", "idle"}
    BY <1>0, <1>20 DEF SessionOnOff, OthersRest, AutoPublishTypeOK
  <2>3. FleetOf(c)'
    BY <1>0, <2>1, <2>2 DEF FleetOf, FleetInv, ByTarget
  <2>4. QED
    BY <1>0, <2>1, <2>2, <2>3, StepKeepsCount
<1>21. CASE UNCHANGED autoPublishVars
  BY <1>1, <1>21 DEF autoPublishVars
<1>22. QED
  BY <1>2, <1>3, <1>4, <1>5, <1>8, <1>9, <1>10, <1>11, <1>13, <1>14, <1>15, <1>16, <1>17, <1>18,
     <1>19, <1>20, <1>21 DEF AutoPublishNext, CheckStep

\* The ledger, read long before it is written by any number of controllers,
\* bounds the uploads of a version for a target by one per controller and one
\* per failed request or death, for ever.
THEOREM LedgerBoundsUploads == AutoPublishSpec => []UploadsAreBounded
<1>1. CountInv => UploadsAreBounded
  <2> SUFFICES ASSUME CountInv, NEW v \in Versions, NEW t \in Targets
               PROVE  Cardinality(UploadsOf(v, t)) <= Cardinality(Controllers) + hitches
    BY DEF UploadsAreBounded, UploadsOf
  <2>1. AutoPublishTypeOK /\ BoundInv(v, t)
    BY DEF CountInv
  <2>2. /\ IsFiniteSet(Controllers) /\ Cardinality(Controllers) \in Nat
        /\ Cardinality(UploadsOf(v, t)) \in Nat /\ Cardinality(Ahead(v, t)) \in Nat
        /\ Cardinality(Giving(v, t)) \in Nat /\ hitches \in Nat
    BY <2>1, SetsAreFinite
  <2>3. Cardinality(Giving(v, t)) <= Cardinality(Controllers)
    BY <2>2, SmallerSet DEF Giving
  <2>4. QED
    BY <2>1, <2>2, <2>3 DEF BoundInv
<1>2. QED
  BY InitEstablishesCount, NextKeepsCount, <1>1, PTL DEF AutoPublishSpec
===============================================================================
