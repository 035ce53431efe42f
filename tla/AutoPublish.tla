--------------------------- MODULE AutoPublish ----------------------------
(***************************************************************************)
(* Automatic publishing: every controller process of a configured machine  *)
(* (one per MCP session) watches the repository, downloads the asset of    *)
(* each target its agents run, checks it and publishes it, and the         *)
(* registry's ledger keeps what was published (controller main.rs          *)
(* auto_publish_loop, check_for_release, publish; rollout.rs; registry.rs).*)
(*                                                                         *)
(* The controllers share the bucket, the registry and the directory the    *)
(* assets are downloaded to. A step is what happens between two awaits.    *)
(* The sweep of a finished rollout and the install of a build are one step *)
(* each; modules Rollout and SelfUpdate have theirs.                       *)
(***************************************************************************)
EXTENDS Integers, Sequences, FiniteSets

CONSTANTS
  Agents, Controllers,
  Targets,     \* what agents report: operating system, architecture and libc
  AssetTargets,\* what an asset may really be built for; some of it no agent runs
  PlatformOf,  \* PlatformOf[t]: target t without its libc, which no header tells
  HostOf,      \* HostOf[a]: the target agent a reports
  NoTarget,    \* "no asset", "no target in hand"
  MaxVersion,  \* bound: versions are 1..MaxVersion, in the order of their tags
  MaxUploads,  \* bound: how many releases are staged
  MaxHitches   \* bound: failing requests and dying controllers

ASSUME AutoPublishAssumption ==
  /\ IsFiniteSet(Controllers)
  /\ HostOf \in [Agents -> Targets] /\ NoTarget \notin AssetTargets
  /\ Targets \subseteq AssetTargets /\ DOMAIN PlatformOf = AssetTargets
  /\ MaxVersion \in Nat /\ MaxUploads \in Nat /\ MaxHitches \in Nat

Versions == 1..MaxVersion
UploadIds == 1..MaxUploads
NoUpload == 0

\* What a file holds: a build of a version for some target, complete or cut
\* off, and (history) the controllers whose curl wrote it.
NoFile == [version |-> 0, built |-> NoTarget, whole |-> FALSE, by |-> {}]

VARIABLES
  latest,    \* the newest tag of the repository, 0 if it has none
  asset,     \* asset[v][t]: the target that the asset named for t is built for
  seen,      \* agents heard from within seen_window
  ledger,    \* rows of rollouts, as far as already_published asks
  uploads,   \* uploads[r]: what release r was published as, what it holds, and
             \* (history) whether its controller has downloaded that itself
  staged,    \* releases with chunks in the bucket
  manifest,  \* manifest[a]: the release offered to a
  installed, \* installed[a]: the last release a has installed
  file,      \* file[t]: staging_dir()/asset_name(t)
  cpc,       \* cpc[c]: where check_for_release is
  rtag,      \* rtag[c]: release.tag
  avail,     \* avail[c]: targets with an asset in the response
  fleet,     \* fleet[c]: agents seen when the check began
  todo,      \* todo[c]: targets of by_target still to visit
  target,    \* target[c]: the one in hand
  rel,       \* rel[c]: the release publish is giving out
  puts,      \* puts[c]: agents publish has yet to give the manifest
  given,     \* given[c]: agents it has given it
  hitches

repoVars == <<latest, asset, seen>>
releaseVars == <<uploads, staged, manifest>>
checkVars == <<cpc, rtag, avail, fleet, todo, target, rel, puts, given>>
autoPublishVars == <<repoVars, ledger, releaseVars, installed, file, checkVars, hitches>>

AutoPublishInit ==
  /\ latest = 0
  /\ asset = [v \in Versions |-> [t \in Targets |-> NoTarget]]
  /\ seen = {} /\ ledger = {}
  /\ uploads = <<>> /\ staged = {}
  /\ manifest = [a \in Agents |-> NoUpload]
  /\ installed = [a \in Agents |-> NoUpload]
  /\ file = [t \in Targets |-> NoFile]
  /\ cpc = [c \in Controllers |-> "off"]
  /\ rtag = [c \in Controllers |-> 0]
  /\ avail = [c \in Controllers |-> {}]
  /\ fleet = [c \in Controllers |-> {}]
  /\ todo = [c \in Controllers |-> {}]
  /\ target = [c \in Controllers |-> NoTarget]
  /\ rel = [c \in Controllers |-> NoUpload]
  /\ puts = [c \in Controllers |-> {}]
  /\ given = [c \in Controllers |-> {}]
  /\ hitches = 0

Hitch == hitches < MaxHitches /\ hitches' = hitches + 1
NoHitch == UNCHANGED hitches
Goto(c, where) == cpc' = [cpc EXCEPT ![c] = where]

\* Mutant: the asset's name is taken for its platform.
TrustsTheName(f, t) == TRUE

\* detect_target on the first bytes, compared with platform_of the target.
HeaderMatches(f, t) == PlatformOf[f.built] = PlatformOf[t]

--------------------------------------------------------------------------
(* The repository and the agents.                                          *)

TagRelease ==
  /\ latest < MaxVersion
  /\ latest' = latest + 1
  /\ UNCHANGED <<asset, seen, ledger, releaseVars, installed, file, checkVars, hitches>>

\* The release workflow attaches an asset, as a rule built for the right target.
UploadAsset(t, p) ==
  /\ latest > 0 /\ asset[latest][t] = NoTarget
  /\ asset' = [asset EXCEPT ![latest][t] = p]
  /\ UNCHANGED <<latest, seen, ledger, releaseVars, installed, file, checkVars, hitches>>

\* An agent is heard from again, or falls silent for longer than seen_window.
Hear(a) ==
  /\ seen' = IF a \in seen THEN seen \ {a} ELSE seen \cup {a}
  /\ UNCHANGED <<latest, asset, ledger, releaseVars, installed, file, checkVars, hitches>>

\* The agent installs what it is offered if it passes the agent's own checks: the
\* manifest names its target, length and hash are right, and the build answers
\* --version, which one for another platform cannot and one for another libc may.
Install(a) ==
  LET r == manifest[a] IN
  /\ r \in staged /\ r > installed[a]
  /\ uploads[r].target = HostOf[a]
  /\ uploads[r].content.whole /\ HeaderMatches(uploads[r].content, HostOf[a])
  /\ installed' = [installed EXCEPT ![a] = r]
  /\ UNCHANGED <<repoVars, ledger, releaseVars, file, checkVars, hitches>>

\* The sweep retires a release whose holders are silent or report the build or,
\* if they report no hash, its version (module Rollout has the conditions).
Sweep(r) ==
  /\ \E a \in Agents : manifest[a] = r
  /\ manifest' = [a \in Agents |-> IF manifest[a] = r THEN NoUpload ELSE manifest[a]]
  /\ staged' = staged \ {r}
  /\ UNCHANGED <<repoVars, ledger, uploads, installed, file, checkVars, hitches>>

--------------------------------------------------------------------------
(* check_for_release.                                                      *)

\* by_target: only targets that somebody runs.
ByTarget(agents) == {HostOf[a] : a \in agents}

\* latest_release and seen_since. With nobody to publish to, or an error, the
\* check is over at once and changes nothing.
BeginCheck(c) ==
  /\ cpc[c] = "idle" /\ latest > 0 /\ seen # {}
  /\ Goto(c, "pick")
  /\ rtag' = [rtag EXCEPT ![c] = latest]
  /\ avail' = [avail EXCEPT ![c] = {t \in Targets : asset[latest][t] # NoTarget}]
  /\ fleet' = [fleet EXCEPT ![c] = seen]
  /\ todo' = [todo EXCEPT ![c] = ByTarget(seen)]
  /\ UNCHANGED <<repoVars, ledger, releaseVars, installed, file, target, rel, puts, given,
                 hitches>>

\* Mutant: an error ends the loop, too.
LoopIsOver(c) ==
  /\ Goto(c, IF todo[c] = {} THEN "idle" ELSE "over")
  /\ rtag' = [rtag EXCEPT ![c] = 0] /\ avail' = [avail EXCEPT ![c] = {}]
  /\ fleet' = [fleet EXCEPT ![c] = {}] /\ todo' = [todo EXCEPT ![c] = {}]
  /\ target' = [target EXCEPT ![c] = NoTarget]
  /\ rel' = [rel EXCEPT ![c] = NoUpload]
  /\ puts' = [puts EXCEPT ![c] = {}] /\ given' = [given EXCEPT ![c] = {}]

\* The check returns, at its end or at a ?.
CheckEnds(c) ==
  /\ Goto(c, "idle")
  /\ rtag' = [rtag EXCEPT ![c] = 0] /\ avail' = [avail EXCEPT ![c] = {}]
  /\ fleet' = [fleet EXCEPT ![c] = {}] /\ todo' = [todo EXCEPT ![c] = {}]
  /\ target' = [target EXCEPT ![c] = NoTarget]
  /\ rel' = [rel EXCEPT ![c] = NoUpload]
  /\ puts' = [puts EXCEPT ![c] = {}] /\ given' = [given EXCEPT ![c] = {}]

EndCheck(c) ==
  /\ cpc[c] = "pick" /\ todo[c] = {}
  /\ CheckEnds(c)
  /\ UNCHANGED <<repoVars, ledger, releaseVars, installed, file, hitches>>

\* The target in hand is done with; on to the next one.
NextTarget(c) ==
  /\ Goto(c, "pick")
  /\ todo' = [todo EXCEPT ![c] = @ \ {target[c]}]
  /\ target' = [target EXCEPT ![c] = NoTarget]
  /\ rel' = [rel EXCEPT ![c] = NoUpload]
  /\ puts' = [puts EXCEPT ![c] = {}] /\ given' = [given EXCEPT ![c] = {}]
  /\ UNCHANGED <<rtag, avail, fleet>>

\* Mutant: what is in the bucket is what was published.
StillInBucket(v, t) ==
  \E r \in staged : uploads[r].version = v /\ uploads[r].target = t

\* already_published.
AlreadyPublished(v, t) == <<v, t>> \in ledger

\* A target that is served already, or for which the release carries no
\* asset, is skipped.
SkipTarget(c, t) ==
  /\ cpc[c] = "pick" /\ t \in todo[c]
  /\ AlreadyPublished(rtag[c], t) \/ t \notin avail[c]
  /\ todo' = [todo EXCEPT ![c] = @ \ {t}]
  /\ UNCHANGED <<repoVars, ledger, releaseVars, installed, file, cpc, rtag, avail, fleet,
                 target, rel, puts, given, hitches>>

\* What c downloads of version v for target t; and a file cut off.
Asset(c, v, t) == [version |-> v, built |-> asset[v][t], whole |-> TRUE, by |-> {c}]
Torn(f) == [f EXCEPT !.whole = FALSE]

\* curl -o truncates the file and writes it piece by piece.
BeginDownload(c, t) ==
  /\ cpc[c] = "pick" /\ t \in todo[c] \cap avail[c]
  /\ ~AlreadyPublished(rtag[c], t)
  /\ file' = [file EXCEPT ![t] = Torn(Asset(c, rtag[c], t))]
  /\ target' = [target EXCEPT ![c] = t]
  /\ Goto(c, "download")
  /\ UNCHANGED <<repoVars, ledger, releaseVars, installed, rtag, avail, fleet, todo, rel,
                 puts, given, hitches>>

\* curl is done. A file that somebody has removed meanwhile is not there, and
\* one that another curl writes or has written may be its own, the other's, or
\* some of each. A failure ends the check and leaves the file.
EndDownload(c) ==
  LET t == target[c]
      whole == Asset(c, rtag[c], t)
      shared == \/ \E d \in Controllers \ {c} : cpc[d] = "download" /\ target[d] = t
                \/ file[t].by # {c}
      mixed == [Torn(whole) EXCEPT !.by = Controllers]
  IN
  /\ cpc[c] = "download"
  /\ \/ /\ IF file[t] = NoFile THEN UNCHANGED file
           ELSE \E f \in {whole} \cup (IF shared THEN {mixed} ELSE {})
                             \cup (IF file[t].by # {c} THEN {file[t]} ELSE {}) :
                  file' = [file EXCEPT ![t] = f]
        /\ Goto(c, "detect") /\ NoHitch
        /\ UNCHANGED <<rtag, avail, fleet, todo, target, rel, puts, given>>
     \/ Hitch /\ CheckEnds(c) /\ UNCHANGED file
  /\ UNCHANGED <<repoVars, ledger, releaseVars, installed>>

RemoveFile(t) == file' = [file EXCEPT ![t] = NoFile]

\* A missing file is an error; the wrong platform, or a header that is not
\* all there yet, skips the target and removes the file.
Detect(c) ==
  LET t == target[c] IN
  /\ cpc[c] = "detect"
  /\ \/ /\ file[t] = NoFile
        /\ CheckEnds(c) /\ UNCHANGED file
     \/ /\ file[t] # NoFile /\ HeaderMatches(file[t], t)
        /\ Goto(c, "stage")
        /\ UNCHANGED <<file, rtag, avail, fleet, todo, target, rel, puts, given>>
     \/ /\ file[t] # NoFile /\ (~file[t].whole \/ ~HeaderMatches(file[t], t))
        /\ RemoveFile(t)
        /\ NextTarget(c)
  /\ UNCHANGED <<repoVars, ledger, releaseVars, installed, hitches>>

Mine(c) == {a \in fleet[c] : HostOf[a] = target[c]}

\* publish: stage what the file holds by now under a new release id. A missing
\* file or a failing upload (what it had uploaded is deleted) is an error.
Stage(c) ==
  LET t == target[c] IN
  /\ cpc[c] = "stage"
  /\ \/ /\ file[t] # NoFile /\ Len(uploads) < MaxUploads
        /\ uploads' = Append(uploads, 
             [version |-> rtag[c], target |-> t, own |-> file[t].by = {c},
              content |-> [file[t] EXCEPT !.by = {}]])
        /\ staged' = staged \cup {Len(uploads) + 1}
        /\ rel' = [rel EXCEPT ![c] = Len(uploads) + 1]
        /\ puts' = [puts EXCEPT ![c] = Mine(c)]
        /\ Goto(c, "put")
        /\ UNCHANGED <<file, rtag, avail, fleet, todo, target, given, hitches>>
     \/ /\ (file[t] = NoFile /\ NoHitch) \/ Hitch
        /\ Goto(c, "failed")
        /\ UNCHANGED <<uploads, staged, file, rtag, avail, fleet, todo, target, rel, puts,
                       given>>
  /\ UNCHANGED <<repoVars, ledger, manifest, installed>>

\* put_update_manifest for one agent; an error is only reported.
OfferRelease(c) ==
  /\ cpc[c] = "put"
  /\ \E a \in puts[c] :
       /\ puts' = [puts EXCEPT ![c] = @ \ {a}]
       /\ \/ /\ manifest' = [manifest EXCEPT ![a] = rel[c]]
             /\ given' = [given EXCEPT ![c] = @ \cup {a}]
             /\ NoHitch
          \/ Hitch /\ manifest' \in {manifest, [manifest EXCEPT ![a] = rel[c]]} /\ UNCHANGED given
  /\ UNCHANGED <<repoVars, ledger, uploads, staged, installed, file, cpc, rtag, avail,
                 fleet, todo, target, rel>>

\* Every agent was tried: with no success the release is deleted, otherwise the
\* rollout is recorded, unless that fails.
Record(c) ==
  /\ cpc[c] = "put" /\ puts[c] = {}
  /\ \/ /\ given[c] = {}
        /\ staged' \in {staged \ {rel[c]}, staged}
        /\ Goto(c, "failed") /\ UNCHANGED ledger /\ NoHitch
     \/ /\ given[c] # {} /\ UNCHANGED staged
        /\ \/ /\ ledger' = ledger \cup {<<rtag[c], target[c]>>}
              /\ Goto(c, "published") /\ NoHitch
           \/ Hitch /\ Goto(c, "failed") /\ UNCHANGED ledger
  /\ UNCHANGED <<repoVars, uploads, manifest, installed, file, rtag, avail, fleet, todo,
                 target, rel, puts, given>>

\* publish has returned: the file is removed either way, and an error ends the
\* check.
AfterPublish(c) ==
  /\ \/ cpc[c] = "published" /\ NextTarget(c)
     \/ cpc[c] = "failed" /\ CheckEnds(c)
  /\ RemoveFile(target[c])
  /\ UNCHANGED <<repoVars, ledger, releaseVars, installed, hitches>>

\* The MCP session ends in the middle of a check, or between two; a later one
\* begins with nothing in hand.
ControllerDies(c) ==
  /\ cpc[c] \notin {"off", "idle"} /\ Hitch
  /\ CheckEnds(c)
  /\ UNCHANGED <<repoVars, ledger, releaseVars, installed, file>>

SessionOnOff(c) ==
  /\ cpc[c] \in {"off", "idle"}
  /\ Goto(c, IF cpc[c] = "off" THEN "idle" ELSE "off")
  /\ UNCHANGED <<repoVars, ledger, releaseVars, installed, file, rtag, avail, fleet, todo,
                 target, rel, puts, given, hitches>>

--------------------------------------------------------------------------
CheckStep(c) ==
  \/ BeginCheck(c) \/ EndCheck(c) \/ EndDownload(c) \/ Detect(c) \/ Stage(c)
  \/ OfferRelease(c) \/ Record(c) \/ AfterPublish(c)
  \/ \E t \in Targets : SkipTarget(c, t) \/ BeginDownload(c, t)

AutoPublishNext ==
  \/ TagRelease
  \/ \E t \in Targets, p \in AssetTargets : UploadAsset(t, p)
  \/ \E a \in Agents : Hear(a) \/ Install(a)
  \/ \E r \in UploadIds : Sweep(r)
  \/ \E c \in Controllers : CheckStep(c) \/ ControllerDies(c) \/ SessionOnOff(c)

AutoPublishSpec == AutoPublishInit /\ [][AutoPublishNext]_autoPublishVars

\* auto_publish_loop checks again and again and goes on with a check it has
\* begun; by_target is a HashMap, so no target is last for ever, and curl has
\* a time limit.
AutoPublishFairness ==
  \A c \in Controllers :
    /\ WF_autoPublishVars(CheckStep(c))
    /\ \A t \in Targets : SF_autoPublishVars(SkipTarget(c, t) \/ BeginDownload(c, t))

AutoPublishFairSpec == AutoPublishSpec /\ AutoPublishFairness

--------------------------------------------------------------------------
(* Properties.                                                             *)

\* Whatever the repository attaches and whatever failed downloads left in the
\* staging directory, a release staged from the file its own controller has
\* downloaded carries a whole build of the version it is published as, for the
\* operating system and architecture of the target it is published for: the libc,
\* which the header does not tell, is taken from the asset's name. (Another
\* controller may overwrite the file in between; the two share it.)
PublishedAsLabelled ==
  \A r \in 1..Len(uploads) :
    LET u == uploads[r] IN
      u.own =>
        /\ u.content.whole
        /\ u.content.version = u.version
        /\ PlatformOf[u.content.built] = PlatformOf[u.target]

\* README: "a version already rolled out is not uploaded again - the ledger
\* outlives the release in the bucket". The ledger is read minutes before it is
\* written, by every controller: what it lets through is one upload of a version
\* and target per controller, and one more for each request that fails or
\* controller that dies, also after the release was swept.
UploadsAreBounded ==
  \A v \in Versions, t \in Targets :
    Cardinality({r \in 1..Len(uploads) : uploads[r].version = v /\ uploads[r].target = t})
      <= Cardinality(Controllers) + hitches

\* An asset that passes the check of its header.
Proper(v, t) == asset[v][t] # NoTarget /\ PlatformOf[asset[v][t]] = PlatformOf[t]

\* "The next check picks it up": a version that stays the latest is rolled out
\* to a target that has an agent and an asset built for its platform, also if
\* the asset came after the tag, checks broke off on the way, and other sessions
\* left their files behind. (Two that go on for ever may remove each other's file
\* for ever.)
LatestIsPublished ==
  \A v \in Versions, t \in Targets :
    /\ <>[](Cardinality({c \in Controllers : cpc[c] # "off"}) = 1)
    /\ <>[](latest = v /\ Proper(v, t) /\ \E a \in seen : HostOf[a] = t)
    => <>(<<v, t>> \in ledger \/ Len(uploads) = MaxUploads)
==========================================================================
