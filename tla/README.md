# A TLA+ development for s3-mcp-relay

s3-mcp-relay lets an MCP client run commands on machines that share nothing with
it but an S3 bucket. There is no connection and no lock: a controller and many
agents put, list, fetch and delete objects, each on its own clock, and any of
them may fail or die between two requests. That is what these modules model.
Every S3 request is a step of its own, every request may fail with or without
its effect, every process may die at any step.

The modules are translated from `src/crates/{agent,common,controller}/src`.
`PROJECT.json` gives the lines behind each definition (`map`), the runs, the
hazards of the code with the properties that watch them, and the findings.

## 1. Inventory

| Component | State | Operations | Hard behaviour | What makes it correct |
|---|---|---|---|---|
| Mailbox (`transport.rs`, agent `main.rs` `run_loop`, controller `main.rs` `relay*`) | command and response objects, doorbell ETag; per call a deadline; per process `seen_doorbell`, the batch, suspension | send, ring, await, withdraw; poll, list, fetch, claim, run, answer | fetch-then-delete is not atomic; failed drains; crashes; timeouts racing answers; two processes on one identity | at most one run; an answer says what happened; nothing starts after a timeout; no ring is lost |
| Presence (agent `main.rs` `Presence`, `heartbeat_loop`) | one heartbeat object per identity; `conflict_with`, `yielded`, `stood_down` per process | read back, write, stand down, shutdown | read-then-write by several writers; stale heartbeats; restarts within a second | never everybody idle; the survivor resumes |
| Log shipping (`log_shipper.rs`, `jobs.rs` `cleanup`, `log_store.rs`, `status_cache.rs`) | log files, `.shipped` markers, offsets in memory; chunk objects; local log and `next_offset` row | ship a chunk, write the marker, clean up; list, fetch, ingest, commit, acknowledge | replays; torn markers; crash between write and commit; several controllers on one database, one of them late | the central log is a gapless prefix; nothing shipped is lost |
| Self-update (`update.rs`, agent `main.rs` `update_loop`) | manifest slot, payload; `settled` tag; executable on disk, in memory; state file | check, defer, download, two renames, save, restart | overlapping publishes; vanishing payloads; crash between renames; jobs started meanwhile | never an older build; a fitting one in the end |
| Rollout (controller `main.rs` `publish`, `retract_update`; `rollout.rs`; `registry.rs`) | a slot per agent, payloads, `agent_seen` | publish, retract, mark seen, sweep | a sweep that decides on what it read earlier; partial failure | the sweep leaves no offer without its payload; finished rollouts go |
| Shared area (`executor.rs` `share_*`, `transport.rs`, `blob.rs`, `rollout.rs` `sweep_shares`) | chunks and manifest under a name | put, get, remove, expire, sweep orphans | several publishers of one name; deletes running through them; aborted uploads that land later | a fetched file is whole; storage is reclaimed |
| Jobs (`jobs.rs`) | job table, process, supervisor and waiter tasks | start, exit, time out, cancel, record, prune | three events racing in one `select!`; kill by drop | every live process is counted; cancelled jobs stop |
| Transfers (`blob.rs`, `executor.rs` `push_blob`, `pull_blob`; controller `push`, `pull`) | chunks under a transfer id, temporary file | stage, hand over, assemble, clean up | a timeout while the other side still reads | chunks stay for the reader; success means written |
| Upload (`blob.rs` `upload_chunks`, `fill`, `upload_concurrency`) | position in the file, uploads in flight, running hash | read, hash, spawn, join | uploads end in any order while the file changes; short reads | the manifest describes the objects; the file is whole |
| Exec (`executor.rs` `exec`, `read_bounded`) | child process, three pipes, what is kept of the output | spawn, feed, read, wait, kill, join | full pipes in a cycle; a child that leaves a process behind; the limit | every ending program is answered; the answer is exact |
| File commands (`executor.rs` `make_dir`, `remove`, `move_path`, `write_file`) | the tree | check, create parents, create, rename, unlink | other processes between check and use | "ok" is true; only `recursive` takes a tree |
| Cleanup of local logs (`jobs.rs` `cleanup`) | files, sizes, markers, the job table | snapshot, list, retention pass, budget pass | decisions on old sizes; a job that starts meanwhile | nothing unsent goes; nothing goes in vain; usage comes down |
| Status and events (`events.rs`, agent `heartbeat_loop`, `status_cache.rs`) | event ring, heartbeat, `events` and `agent_seen` rows, status file and its temporary | record, beat, visit, write, rename | lost heartbeats; a refresh that breaks off; sessions sharing one temporary file | events arrive; live agents are heard again and again; the file is refreshed and heals |
| Automatic publishing (controller `main.rs` `check_for_release`, `publish`; `rollout.rs`; `registry.rs`) | releases, assets, the downloaded file, the ledger `rollouts` | check, download, verify, publish, record | several sessions on one file and one ledger; failures in the middle | what is offered is of the version and platform it is labelled with; uploads are bounded; the latest release goes out |
| Enrolment and keys (`admin.rs` of both programs, `pairing.rs`, `crypto.rs`, `registry.rs` `share_key`) | key files, registry row, keys in running processes, share key | init, add, reset, restart, seal, open | any order of re-pairing and restarts; two sessions minting a share key | a complete pairing works; one share key |
| Settings (`config.rs`, `bounded_env`, `Policy::from_env`, `PollPolicy`) | environment, file, loaded values | edit, start, stop | blank, garbled and half-configured values | the source order holds; no process runs on incoherent values |

Not modelled: see section 6.

How the parts interact: every remote tool call goes through the mailbox; a
transfer and a share hand their names over in a command and move the bytes on
their own; the self-update asks the job table whether it may restart; the
heartbeat decides whether the mailbox loop works or declines; the refresh that
stores logs also records what each agent runs, and the sweep acts on that record.

## 2. Modules

    CommandDelivery            what the relay promises of a command
      ^ refined by Mailbox     (one process per identity)
      ^ extended by Transfer   (push and pull on top of that promise)
    Presence   LogShipping   SelfUpdate   Rollout   Share   Jobs
    Status     Cleanup       AutoPublish  Upload    Exec    Files
    Enrolment  Settings
    XProofs    theorems about X       MCX, MCX*.cfg    instances of X for TLC
    (JobsProofs, TransferProofs and SelfUpdateProofs cover the components of MCJobs,
    MCTransfer and MCSelfUpdate.)

Definitions keep the names of the code where they can. In all of them `Fault`
counts failing requests (or deaths) only to bound TLC; `MaxFaults` and the other
bounds are constants, and no theorem depends on their values.

* **CommandDelivery** – `Run`, `End`, `RunToEnd`, `Report(c, v)`. "ok" and
  "failed" only after the end of a run, "refused" only for a command that never
  runs, nothing begins after "timeout", "unknown" promises nothing.
* **Mailbox** – the controller's call is a state machine over `call[c]` (`put`,
  `ring`, `waiting`, `expired`, then a verdict), the agent's loop one over `pc[p]`
  (`idle`, `scan`, `drain`, `claim`, `handle`, `exec`, `reply`). The response of
  `await_response` is fetched and deleted in one step, since one call is its only
  reader. Commands are of three kinds: plain, longer than the agent allows, and
  `stand_down` (the only one that carries an instance and does not get
  withdrawn). `opens[c]` is the set of processes that can open `c`: after a new
  pairing two processes of one identity may have different keys, and one that
  cannot open an object discards it before it sees whom it is for. `yielded`
  changes freely here; `Presence` says when.
* **Presence** – ids are numbers, compared as the code compares strings. A round
  is `ReadBack`, `WriteHeartbeat`, `Wake`.
* **LogShipping** – bytes are numbered by their place, `local[s]` is a function
  from places to bytes, so that holes, repeats and wrong bytes would all show. A
  torn marker reads as 0 (what `read_marker` makes of it). `Controllers` is a set:
  several MCP sessions may refresh the same database. `straddled` and
  `setBack` are history: the sources to which one of two mishaps has happened that
  leave a gap (sections "What the violations show" and "Known limits").
* **SelfUpdate** – one agent; the controller is the environment. The ETag is the
  release a slot names. `CheckFails`, `CheckSkips`, `CheckUpToDate`,
  `CheckDefers`, `BeginInstall` are the outcomes of `check_and_apply`. `astray`:
  a failed install has left nothing at the install path, and the process still
  finds its own file under the other name.
* **Rollout** – the fleet; an install is one step. Releases are numbered in the
  order of `published_at`. A row of `agent_seen` has a hash or, for the pairs in
  `NoHash`, only the version string of the build (`Reports`); a release has the
  build it carries and the version it is published under, which need not be that
  build's (`Runs` compares the one or the other). `ControllerDies` cuts off
  whatever is under way. `early` and `cut` are history: what was still being
  given out when the sweep began, and the retirements that broke off.
* **Share** – one name, any number of publishers. A chunk is known by who wrote
  it. `late` holds requests that were aborted but may still arrive.
* **Jobs** – steps are what happens between two locks or awaits. The death of
  the agent takes its children along (systemd's control group).
* **Transfer** – `EXTENDS CommandDelivery`; which side stages and which one
  assembles depends on the direction.
* **Upload** – a file is a sequence of bytes, read in pieces of any length; its
  hash is the sequence of what was hashed. A task in `inflight` that has `ended`
  has stored its chunk and waits for `join_next`.
* **Exec** – a program is the amounts it will read and write and whether it ever
  exits; it enters one blocking call at a time. Pipes hold `PipeSize` units.
  `Fork` leaves a process behind that holds the output pipes.
* **Files** – the tree is a function from paths to "dir" or "file"; every system
  call is a step, other processes move in between (`Other`). Symbolic links and
  the containment check of `Policy` are left out.
* **Cleanup** – `BeginCleanup` (the running jobs), `ListFiles`, `RetentionPass`,
  `BudgetStep` (one file at a time, oldest first), while jobs write and the
  shipper ships. `ListFails` is the `?` at the directory and its entries. Time is
  counted in hours.
* **Status** – events are numbered; a heartbeat carries the ring. `fd[c]` says
  which name the file that session `c` writes has by now, so that a rename under
  an open file shows; sessions that write to one file at the same time (`mixed`)
  may leave parts of two statuses in it.
* **AutoPublish** – `file[t]` is the one path to which every controller of the
  machine downloads. A version and the target it was really built for stand for a build;
  the check of its header sees that target without the libc (`PlatformOf`).
  Reading the file for the upload is one moment (`Stage`), and so is a sweep,
  which may come whenever a slot names a release (module Rollout has its
  conditions).
* **Enrolment** – a key pair is a number, the key two pairs derive is the set of
  the two. Processes keep what they loaded until they are restarted. A failing
  `SELECT` of the share key passes for "no key".
* **Settings** – nine numeric settings with their defaults, ranges and sources;
  values at, just inside and just beyond both limits, blank, garbled, fractional.

Components that share no state are explored in one instance: in `MCTransfer`,
`MCJobs`, `MCSelfUpdate` and `MCPresence` one component moves while the others
are in their initial states. This is a sum of state spaces and says nothing about
their interaction; it stands for one run per component. Fairness of a component
that stays in its initial state owes nothing there: none of its fair actions is
enabled (for `SelfUpdate` it is stated with that condition).

## 3. Runs

All runs finish within five minutes on two workers. Deadlock checking is off
because every system here may come to rest: bounded clocks stop, calls are
answered, processes stay dead.

| Run | Instance | States | Checks |
|---|---|---|---|
| `mailbox_single` | 2 plain commands that everybody or nobody can open, 2 processes one after the other, 1 fault, symmetric | 1.5 M | `NoLostWakeup`, `ImplementsDelivery` |
| `mailbox_duplicates` | 1 command of three kinds that both or only one can open, 2 processes at once, lagging clock, 1 fault | 0.8 M | `AtMostOnce`, `OnlyTargetConsumes`, `NoBeginAfterTimeout`, `EventuallyConsumed`, `CallsReturn` |
| `presence` | 2 ids, 3 seconds, 2 faults, 1 stand-down; 2 agents with rings of 1 event, 2 events, 2 sessions, 1 miss | 0.4 M | `LowestNeverYields`, `YieldsOnlyToContemporary`, `WorkResumes`; `EventsArrive`, `RefreshGoesOn` |
| `presence_stand_down` | 2 ids, no faults | violation | `OtherResumes` |
| `log_shipping` | 1 source of 3 bytes, chunks of 2, 2 controllers, 1 fault | 1.1 M | `LocalMirrors`, `NoByteLost`, `EventuallyStored` |
| `log_ack` | 1 source of 2 bytes, 1 fault | violation | `AckedOnlyWhenSynced` |
| `self_update` | 2 releases of 3 builds, 2 seconds, 2 faults; 2 controllers, 1 agent on musl, 1 version whose asset is the musl, the glibc or an arm build, 1 hitch | 0.85 M | `UpdateInv`, `NeverGoesBack`, `EventuallyInstalled`; `PublishedAsLabelled`, `UploadsAreBounded`, `LatestIsPublished` |
| `self_update_job` | 1 release, no faults | violation | `InstallEndsNoJob` |
| `rollout` | 2 agents that report no hash for the old build, one of them none for the new either, 1 release of 2 builds under 2 version strings, 2 events (faults, deaths, outages, retractions) | 1.4 M | `SweepLeavesNoDeadOffer`, `FinishedRolloutsGo` |
| `share` | 2 uploads (2 and 1 chunks), 1 reader, 1 removal, 1 fault | 1.0 M | `FetchedWhole`, `StorageReclaimed` |
| `jobs` | 3 jobs, one endless, room for 1 finished entry, 1 restart; pipes of 1 unit, limit 1, up to 2 units each way; 4 paths, 4 commands, 3 steps of others; 1 job's output and logs of 2 days, budget 1 | 0.14 M | `RunningIsCounted`, `StopsInTheEnd`, `OutcomeIsKept`; `AnswerIsExact`, `ExecAnswers`; `OkIsTrue`; `RemovedRightly`, `UsageComesDown` |
| `transfer` | 1 push, 1 pull, 2 chunks, 3 faults; files of up to 5 bytes in chunks of 2, 2 changes; 2 edits of 7 settings; 1 machine, 2 sessions, 5 key pairs | 1.2 M | `NothingPulledAway`, `OkMeansWritten`, `ChunksAreDeleted`; `ManifestIsStored`; `StartsAsConfigured`; `ShareKeyAgreed`, `PairingWorks` |

Why the bounds are enough. Two commands and two processes give every race on a
listing, a claim and a replacement process; one fault is enough for each request
to fail at each point, with and without effect (a request that fails twice in a
row leaves what it left the first time). In `mailbox_duplicates` the queue
lifetime is 0 and the wait 2, so that expiry, timeout and the lagging clock all
fall into reach. In `presence` the clock runs past the lifetime of a heartbeat
twice; of the two agents one comes after the other in a refresh, so that the one
that breaks it off may be the first. Three bytes in chunks of two allow a replay
that is shorter, equal or longer than the original, and a second controller one
that is overtaken between its read and its commit. In `self_update` two releases
in two seconds cover
publishes in the same second, in order, and overtaking each other; an asset for
another libc passes the check of its header and one for another architecture
does not. In `rollout` one release under either version string shows an agent
without a hash that counts as updated, too early, in time or never; two releases
are left to the proof. `share`
needs a file of two chunks for a mix. In `jobs` room for one entry makes every
second end a prune. A pipe of one unit fills at once, and two units against a
limit of one meet it and exceed it. Files of up to five bytes end before, at and
after a chunk boundary, and the empty file is among them. Two edits make any two
settings disagree, or one setting differ between environment and file. Two
sessions are enough for two share keys, for a torn status file and for two
downloads to one path; a ring of one event is full at the second. Larger
instances of some were run once (three ids, concurrency 2), with the same results.

Each property of a passing run has a mutant in `PROJECT.json`: an operator beside
the definition it replaces, marked `Mutant:`, that changes the model as a
plausible slip in that code would; TLC then finds the property violated.

### Fairness

Only what the code keeps doing by itself is owed:

* a task that is ready is run, a timer fires (tokio): `LoopStep`, `Supervise`,
  `Round`, `ShipStep`, `RefreshStep`, `TaskStep`, `Sweep`, the steps of a call;
* a program that is not blocked goes on, and so do the tasks that read its pipes
  (`Program`, `FeedInput`, `ReadBuffer`, `ReadEnd`); its timeout is not owed,
  `ExecAnswers` must do without it;
* the heartbeat, the refresh, the cleanup, the shipper and the check for releases
  are loops that go on after an error (`StatusFairness`, `CleanupFairness`,
  `AutoPublishFairness`; strong for the targets of a check, which come in the
  random order of a `HashMap`);
* the full scan of the poll loop comes again and again (`next_full_scan`);
* the service manager restarts an agent (`Restart=always` in
  `deploy/relay-agent.service`): `Start`, `Boot`.

New commands, publishes, retractions, the exit of a job's process, cancels,
crashes and faults are never owed. Faults are finite in the instances, so
"eventually" means: once requests succeed again. The properties name what else
they rest on: some session runs (`Watched`), one session runs on
(`LatestIsPublished`), no process is left behind for good (`ExecAnswers`),
no job runs any more (`UsageComesDown`).

### What the violations show

* **`OtherResumes`** – `protocol.rs` says "Send this to the instance you want to
  stand down and the other resumes". If that instance has the lower id, the
  other keeps yielding to the heartbeats that it still sends; both refuse work.
* **`AckedOnlyWhenSynced`** – the README says "A chunk is deleted from S3 only
  after the controller has synced it locally". When a chunk is published again
  after the file has grown (its marker was not written), it begins below
  `next_offset`; `ingest` ignores it, the refresh deletes it, and the bytes
  beyond the old end are gone. `NoByteLost` and `EventuallyStored` hold for
  every source to which this has not happened (`straddled`).
* **`InstallEndsNoJob`** – `update.rs` says "the install waits until the agent is
  idle". The count of running jobs is taken before the download; a job that
  starts during it is killed by the restart.

### Known limits

What came up beside these three and no run states. Where a property is concerned
its wording leaves the case out, as said here and in its comment. Most are paths
of the models about which nothing is claimed; those on settings, the peak of an
upload and the parents of `make_dir` are read from the code.

* A `stand_down` is honoured after it has expired (agent `main.rs:525` looks at
  it before `validate_for_agent`); `protocol.rs:16`: "Latest time at which the
  agent may begin this command." `CommandDelivery` therefore calls its timeout
  "unknown".
* A response stored after the controller gave up stays under `resp/`
  (`transport.rs:298`); `lib.rs:11-12`: "every object is deleted by whoever
  consumes it".
* No code sets `JobState::Lost`; `jobs.rs:14-16` says a job still marked running
  at startup is reported as such.
* Two heartbeat rounds that overlap in the same order every time hide one process
  from the other; agent `main.rs:368-370`: "each keeps seeing the other".
* A `share_put` of a name that exists already and fails deletes the earlier share,
  chunks and manifest (`executor.rs:456-458`: "Nothing references these yet"). A
  reader then gets an error, which `FetchedWhole` allows.
* A push of unknown outcome leaves its chunks (controller `main.rs:727`);
  `README.md:256`: "Chunks are deleted on success and on failure."
* Two controllers that refresh at the same time: one that has read `next_offset`
  and is overtaken sets it back when it commits (`log_store.rs:50-54`). If the
  chunks in between are acknowledged by then, the next chunk is a gap for ever and
  ends every refresh at that agent. The bytes are in the local log all the same
  (`NoByteLost`); `EventuallyStored` leaves the case out (`setBack`).
* Once every slot holds a later release, nothing names the earlier payload
  (`rollout.rs:60`); `rollout.rs:3-4`: "the bucket should not keep carrying it".
  The same when a retirement breaks off after its last manifest (`rollout.rs:99`):
  a later sweep finds no manifest that leads to the payload. `FinishedRolloutsGo`
  allows it (`cut`).
* A sweep that runs during a publish sees the agents that have their manifests
  already; if those run the build, it deletes the payload, and the others are then
  given an offer without one (`rollout.rs:60-68`, against 60-62 and 96-98).
  `SweepLeavesNoDeadOffer` leaves such a release out (`early`).
* The sweep deletes what the slot holds by then (`rollout.rs:88-91`): a newer
  manifest put since it was read is lost, and that agent is not offered the newer
  release again.
* An agent that reports no hash counts by its version string
  (`registry.rs:194-205`, which says that this is weaker): a release published
  under another string than its build reports never finishes, one published under
  the string of the build it replaces is finished before it is installed.
* `publish` fills the slot of every agent (controller `main.rs:602`), so a second
  architecture overwrites the first; `README.md:354-355`: "Publish once per
  architecture".
* Automatic publishing: sessions share one file per asset name (`rollout.rs:254`),
  so that one may publish what another downloaded after the check, or remove it
  for ever (`README.md:412-413`); hence `own` in `PublishedAsLabelled` and the
  single session in `LatestIsPublished`. The row in the ledger comes after the
  manifests (controller `main.rs:641`, against the comment at 638), and an agent
  whose own manifest failed is not offered the version again (`main.rs:632`,
  against 964). The header does not tell the libc (controller `main.rs:1033-1037`,
  `update.rs:80-91`): a glibc build attached under a musl name is published and
  installed. Two sessions that ask before either records upload twice.
* `cleanup` may remove the still empty output of a job that starts while it
  runs, or the open log of an agent that was quiet for an hour (`jobs.rs:238`,
  `277`; against 235: "never removed"). `RemovedRightly` speaks of jobs
  that were in the table.
* Sessions share the temporary status file (`status_cache.rs:87-89`): where two
  overlap, the installed file may be empty, or hold parts of two statuses, until
  the next refresh. And one object
  that stays unreadable ends every refresh at the same place
  (`status_cache.rs:52`; `README.md:239-240`: "every 30 seconds").
* After a timeout `exec` still waits for the pipes; a process the program left
  behind holds up the command loop (`executor.rs:685`; `README.md:65-66`).
* A command that cannot be opened is deleted also if it is addressed to another
  instance, which could open it, or could be opened after a restart
  (`transport.rs:274-285`, against 264-268 and 276-277). `OnlyTargetConsumes`
  allows it.
* `RELAY_KEY_ID` overrides the paired key id (`crypto.rs:71`), and
  `relay.toml.example:34` sets it; `crypto.rs:21-22`: "Both ends must choose the
  same string". `PairingWorks` excludes it.
* The peak of an upload is eight chunks twice (`blob.rs:41`), `README.md:253` says
  16 MB.
* `agent.max_job_secs` is not in `KNOWN_KEYS` (`config.rs:28`; `README.md:297`), a
  TOML float is accepted and ignored (`config.rs:218`), and a plain `push_file`
  asks for 1800 s where an agent allows 300 (controller `main.rs:698`;
  `README.md:245-248`).
* `make_dir` creates missing parents also without `parents` (`executor.rs:366`;
  `protocol.rs:174`).
* `CONTROL_MAX_WAIT_SECS` may be set below the queue lifetime (`main.rs:1260`);
  `WaitAssumption` excludes it.

## 4. Proofs

The theorems hold for every value of the constants under the assumptions named
in the modules. Most of these only say that bounds are numbers. Those with content:

* `WaitAssumption` (Mailbox): the controller waits longer than a command can stay
  valid for an agent whose clock lags by `ClockLag`. The defaults, 430 s against
  120 s, satisfy it; the code does not enforce it.
* `CleanupAssumption`: the retention is at least a day, as the range of the
  setting demands (`agent/src/main.rs:90`).
* `AutoPublishAssumption`: finitely many controllers (`UploadsAreBounded` counts
  them), and every target has a platform. `EnrolmentAssumption`: a machine is not
  a session. `PathsAssumption` (Files): a path is a non-empty sequence of
  names, and its parents are paths.

A proofs module covers a component and those that share its TLC instance, each in
a section of its own.

| Module | Theorems | Inductive invariant, and why it is needed |
|---|---|---|
| `MailboxProofs` | `TypeCorrect`, `AtMostOnceDelivery`, `NoLateBegin`, `AddressedIsLeftAlone`, `NoWakeupIsLost`, `MailboxImplementsDelivery` | `DeliveryInv`: `PlaceInv` says that a command that has run, is in a batch or is refused is in no listing any process could still act on; `AnswerInv` ties every answer on its way to that; `TimeInv` ties a given-up call to the expiry; `LoopInv`, that the command in hand is addressed to the process. For the doorbell `WakeInv`: a scan that began from the current tag still has every announced command before it. |
| `PresenceProofs` | `SomebodyWorks`, `YieldsToContemporary` | `PresenceInv`: whatever is in the bucket was written by a started process no later than its last beat. |
| `LogShippingProofs` | `CentralLogIsAPrefix` | `LogInv`: chunks are pieces of the file; a pass holds one chunk per key; the chunk in hand begins inside what is stored even if another controller has moved `next_offset` since it was read. |
| | `ShippedIsKept` | `DeliveryInv`: everything either side counts by is a *cut*, a place where a published chunk began or ended (`CutsInv`); chunks run from one cut to the next (`ChunksInv`, `GapInv`), so two chunks of one key are the same chunk, and an acknowledgement by key deletes what was stored and nothing else (`AckInv`); hence all bytes before a cut are in the bucket or in the central log (`CoveredInv`). |
| `SelfUpdateProofs` | `UpdateIsSound`, `NoDowngrade` | `UpdateInv`: an install under way is newer than the state file, and the state file knows the last install unless its write was cut off. |
| | `ReleasesAreAsLabelled` | `LabelInv`: a file that only one controller has written to is the whole asset it asked for, and of the platform of its target (operating system and architecture) once it has seen the header; another writer leaves a trace in it. |
| | `LedgerBoundsUploads` | `CountInv`: without a row in the ledger every upload is matched by a failure or by a controller that still owes the row (`Giving`); with one, uploads plus the controllers that read the ledger before (`Ahead`) are within the bound. An argument about cardinalities. |
| `RolloutProofs` | `SweepSparesTheOffered` | `RolloutInv`: a release that had been given out before the sweep began is put nowhere any more (`Staged`), so a slot the sweep has passed names it only as long as the sweep holds it for that agent (`Passed`); when it deletes the payload it holds it for nobody. |
| `ShareProofs` | `SharesArriveWhole` | `ShareInv`: a manifest is seen only after its upload ended. |
| `JobsProofs` | `EveryProcessIsCounted`, `OutcomesAreKept` | `JobsInv`: an entry is running as long as its supervisor owes an outcome; past its `select!` the process has ended or its waiter is aborted. |
| | `ExecAnswerIsExact` | `ExecInv`: what a reader has taken out of its pipe it has kept up to the limit, and flagged beyond it; a reader at the end has emptied its pipe; who has not timed out has seen the exit. |
| | `FileAnswersAreTrue` | `OpInv`: `remove` reaches `remove_dir_all` only if it was asked to. The rest is what the file system guarantees for the one call that each command ends with. |
| | `CleanupRemovesRightly`, `CleanupNeverOvercounts` | `CleanupInv`: while a cleanup runs, jobs that had ended when it began stay as they were, those it does not know of were created this hour, and a log that is not today's is closed (`PassInv`, `EntryInv`), so that what it has found out of a file it may remove is still true; it has one entry for a file, of at most its size. |
| `TransferProofs` | `ChunksStayForTheReader`, `SuccessMeansWritten` | `TransferInv`: who may still need the chunks; uses that `CommandDelivery` begins nothing after "refused" or "timeout". |
| | `ManifestDescribesObjects` | `UploadInv`: all chunks but the last are full (`CountInv`), and each chunk on its way or stored is its piece of what was hashed (`PiecesInv`). Arithmetic of multiples of the chunk size and of concatenation is in the lemmas before it. |
| | `StartIsAsConfigured` | types; the argument is in the one step `StartUp`. |
| | `OneShareKey`, `PairedAgentsUnderstand` | `EnrolmentInv`: a key that was handed out is the one in the registry, and a session that reads again finds one (`ShareInv`); who is up to date has loaded what is on file (`LoadedInv`). |

The invariants that are not in a run were checked with TLC on instances of the
size of the runs before they were proved (`DeliveryInv` of LogShipping with two
controllers, `CleanupInv` with two jobs and days of one hour). Each proof has one
step per action; steps that several actions share are lemmas. In `Mailbox`
`AtMostOnce` follows from `ImplementsDelivery` where there is one process, so the
runs check it only for two. `MailboxImplementsDelivery` assumes
`~AllowDuplicates`: with two processes on an identity the abstract specification
is not met, which the repository's README says itself ("fetch-then-delete is not
atomic").

`RemovedRightly` is proved but for one step. `CleanupRemovesRightly` has the sum
that the budget pass computes where the property has the sum over the directory,
and `CleanupNeverOvercounts` says that the first sums over some of the files,
with no larger sizes. That such a sum is not larger needs induction over finite
sets, which this prover cannot instantiate; TLC checks the whole property.

Only model-checked: that step, and the liveness properties (`EventuallyConsumed`,
`CallsReturn`, `WorkResumes`, `EventuallyStored`, `EventuallyInstalled`,
`FinishedRolloutsGo`, `StorageReclaimed`, `StopsInTheEnd`, `ChunksAreDeleted`,
`ExecAnswers`, `UsageComesDown`, `EventsArrive`, `RefreshGoesOn`,
`LatestIsPublished`), since liveness under fairness and ENABLED are out of the
prover's reach. RECURSIVE operators would be, too; no module declares one.

## 5. Assumptions about the environment

* S3 is strongly consistent, and one `put_object` of the client library stores at
  most once (a client-side retry that re-stores a claimed command is excluded).
* The death of an agent ends its children (systemd's default `KillMode`).
* Two files have the same SHA-256 only if they are equal.
* An object can be opened by its key holder and by nobody else.

## 6. Not modelled

* Path containment and symbolic links in `Policy`: string and file system
  semantics that the models would have to invent.
* The cipher, nonces, encodings of envelopes and pairing codes: library
  cryptography. Keys configured by hand (`RELAY_SHARED_KEY`).
* Settings that are strings, lists or flags; discovery and permissions of the
  configuration file.
* Metrics: samples of the operating system that nothing acts on.
* `read_file`, `list_dir`, `job_output`, `list_jobs`, `list_agents`,
  `update_status`, `share_list`: they only read.
* `list_heartbeats` and the rendering in controller `status.rs`, which nothing
  calls; the package managers behind `update`; installers and editor plugins.

## 7. Plan

Done: the components of section 1, their runs, and theorems for every safety
property of the runs (`RemovedRightly` in part).

Next, in this order:

1. SelfUpdate with Jobs in place of the flag `busy`; Mailbox with Presence in
   place of the free `yielded`; Rollout's install as an abstraction of
   SelfUpdate, by refinement.
2. Several agents in one refresh with their logs (composition of LogShipping,
   Status and Rollout).
