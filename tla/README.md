# TubeVault in TLA+

TubeVault is a self-hosted archive of YouTube channels: a NestJS api takes the
owner's commands, a worker downloads and verifies videos, records broadcasts
while they are on air and keeps looking whether the originals still exist; both
share Postgres rows, BullMQ queues in Redis and a media directory. This project
models the parts where these processes meet, checks them with TLC on small
instances and proves their central facts with TLAPS.

Paths below are relative to the repository; `worker/` and `api/` stand for
`src/apps/worker/src/` and `src/apps/api/src/`.

## 1. Inventory

There are four models, which share one abstract specification of
`Video.copyState`.

| Component | State | Operations | Modules |
| --- | --- | --- | --- |
| Copy lifecycle (`packages/core/src/domain/video-status.ts`) | the edges of `Video.copyState` | `transitionCopy`, a compare-and-set; a lost one writes nothing | `CopyLifecycle` |
| **Archive** | | | |
| Download consumer (`worker/jobs/download.processor.ts`) | one `process()` per slot; `.incoming` staging; control entries | claim, begin, yt-dlp, publish, advance, chain a verify, abort (cancel, pause, shutdown), failure ladder, stall listener | `JobExecution`, `DownloadConsumer` |
| Verify consumer (`worker/jobs/verify.processor.ts`) | one `process()` | claim, read, probe, verdict, failure ladder, stall listener | `JobExecution`, `VerifyConsumer` |
| Job recorder, control plane (`worker/jobs/job-recorder.ts`, `worker/control/control-subscriber.ts`) | `Job.status`, `Job.stagingDir`; the registry of jobs in flight | claim, finish, hand back, pause; register, deliver a command, unregister | `ArchiveState`, `DownloadConsumer` |
| Worker lifecycle, boot reconciler (`worker/role.ts`, `jobs/reconciler.ts`) | lists read by the sweep | drain, crash, sweep of rows and of videos, start of the consumers | `BootReconciler` |
| Queue service (`api/queue/queue.service.ts`) | one HTTP request per slot | enqueue with compensation, cancel, pause, resume | `QueueApi` |
| **Order of the queue** | | | |
| Priorities (`packages/core/src/domain/priority.ts`, `queue.service.ts`) | `Job.priority`, the priority of the BullMQ execution | chunks of an enqueue, move under the advisory lock, renumber, mirror | `PriorityGrid`, `QueueOrder` |
| **Live** | | | |
| Detection (`worker/jobs/live-scan.scheduler.ts`, `live-probe.processor.ts`) | `LIVE_PROBE` rows, sessions | scan, probe, close-out, detect, session, capture row and add | `LiveDetection` |
| Capture (`worker/jobs/live-capture.processor.ts`, `services/live-finalizer.ts`) | `LIVE_CAPTURE` rows, `.incoming` files | claim, continuation, recording, byte stall, shutdown, cancel, finalizers, stall listener | `LiveCapture`, `LiveFinalizer` |
| Live reconciler (`worker/jobs/live-reconciler.ts`) | lists read at boot | rows, orphan sessions, close-out | `LivePipeline` |
| Completeness (`worker/services/completeness-checker.ts`) | parked recordings, their deadline | re-check, deadline | `LiveArchive` |
| **Catalogue** | | | |
| Source checker (`worker/jobs/source-check.*`) | `SOURCE_CHECK` rows, source state, streak | scan tick, probe, observation by compare-and-set | `SourceWatch` |
| Notifications (`worker/services/notifications.service.ts`) | stored alerts, advisory lock | emit with its dedupe window | `Alerts` |
| Video service (`api/channels/videos.service.ts`) | copy, media | reclaim, purge, re-listing | `Removal` |

How they interact:

    owner --> QueueApi --(row, video in Postgres)--> DownloadConsumer --(VERIFY row)--> VerifyConsumer
                 |                                          ^
                 |--(add, remove: BullMQ execution)---------|
                 '--(job:control: cancel, pause)------------'
    scan --> LiveDetection --(session, LIVE_CAPTURE row)--> LiveCapture --(finalizer)--> verify, park, keep
    scan --> SourceWatch --(compare-and-set of source, streak)--> Alerts
    reconcilers: read rows once per boot, before any consumer starts, and
    repair what a dead process left behind.

There is no transaction across Postgres, Redis and the disk. Every component
makes one statement at a time; the design relies on compare-and-set writes, on
rows written before executions are added, on control entries registered before
the claim, on partial unique indexes, and on sweeps at boot.

What is hard: two actors between two statements (cancel and claim, pause and
stall listener, probe and enqueue); verdicts on executions that still run (lost
locks); one statement of several failing; a crash between any two of them while
the api goes on serving; a BullMQ id reused before its old execution is gone;
what was read before an `await` and is used after it. `PROJECT.json` lists 40
such hazards at their lines, each with the properties that would catch it.

Not modelled: session health (`recordAuthOutcome` has no production caller yet,
`worker/services/session.service.ts:8`), the login rate limiter (one process, no
`await`), SSE and pub/sub fan-out (telemetry), media and storage endpoints, the
yt-dlp engine and the integrity policy (their outcomes are choices), the web
UI, registration and update of channels, the purge of a whole channel, cadences
and batch limits (time), external notification senders.

## 2. Modules

**`CopyLifecycle`** is the abstract specification: `ALLOWED_COPY_TRANSITIONS` as
a set of edges, and the promise that a video starts as a candidate and moves one
edge at a time. `ArchiveState` and `LiveState` instantiate it with their own
`copyState`; `FollowsLifecycle` says that each pipeline implements it. RESCUED
and the source axis belong to the source checker and are not among its edges.

**Archive.** `ArchiveState` declares what is shared (rows, copy states, staging,
executions, commands, program counters, fault counters) and the guarded writes.
`JobExecution` is what both consumers share: activation, settling, retry, stall,
failure ladder, `failed` listener. `DownloadConsumer` and `VerifyConsumer` are
`process()` `await` by `await`, with the statements that can throw as actions of
their own. `BootReconciler` is the process: drain, crash, boot. `QueueApi` has a
record per request with what it read, one action per statement.
`ArchivePipeline` composes them and states fairness and properties.

**Order of the queue.** `PriorityGrid` holds tail, head, midpoint and the
renumbered grid as functions of constants; `QueueOrder` the requests that read,
write and mirror priorities.

**Live.** A finalizer is a *list of writes* its actor owes (`script`), made one
at a time, so that a crash or another actor may come between any two: `LiveState`
and `LiveFinalizer`. `LiveCapture` is the execution and its listener,
`LiveDetection` the scan and the probe, `LiveArchive` the re-check and the
broadcast as an ordinary video, `LivePipeline` the broadcast, stops, the
reconciler, fairness and properties.

**Catalogue.** `CatalogueState`, `SourceWatch`, `Alerts`, `Removal`, composed by
`Catalogue`.

**`MC...`** modules define the profiles of events the configurations use.
**`...Proofs`** modules hold theorems and proofs (section 4). `PROJECT.json`
maps every definition to its lines.

### Events and bounds

What the environment inflicts is counted and bounded: `MaxFaults` by kind in
archive and live, `MaxEvents` in catalogue and queue; `MaxTrouble` bounds their
sum, in the catalogue by weight (a lost lock weighs 2, a gone answer 0), so that
one run covers every kind without their product. `MaxSignals` bounds commands in
flight, `MinLength` and `MaxLength` the length of a broadcast. Ids are handed out in increasing
order and bound the number of rows. Properties that an event legitimately breaks
name it (`Without({...})`, `faults[...] = 0`). `unlabelled` answers are bounded
by themselves, outside `MaxTrouble`: a recording is measured before the broadcast
is over only after another event, and the two have to meet.

### Abstractions

* Archive: a video is non-LIVE; two videos meet only in the download slots, and
  the runs use one. Staging is the id of the row whose partial it holds. The
  attempt counter `made` stands for `attemptsStarted - 1`. A worker's death
  leaves its lock for 30 seconds, so `StallDetected` waits for requests that are
  about to touch that execution. A resume that finds the old execution gives up
  at its deadline at any time (`ResumeTimeout`): there is no clock. An execution
  reads row and video in one step (`Load`; only who settles the row changes what
  it read, and then the claim fails). A second `process()` of a row whose first
  one still runs, which takes a lost lock, a pause and a resume, is left out
  (`Activate`).
* Live: bytes are seconds of the broadcast; of several files set aside only the
  largest is ever published, and they are one number (`prior`).
  `classifyLiveCompleteness` is translated with its tolerance of max(1s, 2%) and
  its statuses: a measured length counts unless the source says `is_live`,
  `is_upcoming` or `post_live`, so a probe that names a length and no status of a
  broadcast still on air is taken for final (event `unlabelled`). The boot's
  hand-back and add of a row are one step, and so are the reads, the
  registration and the claim of an execution (`Load`). Statements that throw are
  modelled in a probe, at the natural end of a recording (its catch of last
  resort) and as swallowed writes; in a cancel, whose errors are swallowed
  (`live-capture.processor.ts:818`), in the other ends, in begin and mark, in the
  listener, a re-check and the boot they are left out. Left out too: twin probes
  after a lost lock, the members-only decline, malformed rows, cadences.
* Catalogue: one video and its checks; a tick has no batch limit, an alert
  window no time. The download of a video is a flag, there are no recordings
  (whose rows the guard of a delete also respects), and an original that is
  deleted or private is GONE. A check reads its row and registers in one step
  (`Activate`), and the cancel of a check by the purge of its channel is left out.
* Queue: rows carry priorities from the start; the branch for rows from before
  the priority column is left out. The transactions under the advisory lock
  (`enqueueChunk`, `runMoveTransaction`) are one step each: that the lock keeps
  them apart is assumed. The death of a worker leaves its execution where it is,
  as BullMQ does until the execution is found stalled; the boot takes it for
  alive, and the retry or the verdict after that is a `Leave`.

## 3. Runs

| Run | Bounds | Shows |
| --- | --- | --- |
| `succession` | 2 downloads, 1 request, all commands, 2 slots, 1 attempt, 1 refusal by Redis | one active download, no twin yt-dlp, no QUEUED row without an execution, no ownerless video, partials kept, no stale verdict |
| `restart` | 1 download, 2 requests, all commands, 2 attempts, 1 drain, 1 dead request | the claim gate (`RunnerOwnsRow`); a pause ends in the step of the owner's resume or cancel, not by an execution or a drain |
| `errors` | 1 download, enqueue and cancel, 2 attempts; 1 throwing statement, 1 lost lock, 1 crash | the pipeline implements `CopyLifecycle`; a row's first verdict stays |
| `settles` | 1 download, enqueue, cancel, pause, 2 verify attempts, 1 crash, 1 drain, fairness | no row out of a cancel's reach, no VERIFYING video without a verify; downloads settle and videos leave their working states |
| `live` | 1 broadcast of 3 seconds, 2 captures, 2 sessions, any one event but a lost lock or an enqueue, 1 unlabelled answer | one recorder, owned sessions, a recording verified is whole within the tolerance, nothing recorded is lost, final verdicts, boot frees sessions, `CopyLifecycle` |
| `live_ends` | 1 broadcast of 1 second, 2 captures, 2 sessions, 1 crash or enqueue, fairness | staged seconds are published, parked recordings resolved, the channel probed again, a kept partial is never fetched again |
| `queue` | 3 rows, grid start 3, gap 2, limit 7; 2 moves; one refusal, dead request or boot | priorities distinct and in range, a move does what was asked, renumbering finds room, BullMQ runs in that order |
| `catalogue` | 1 video, 2 checks, 2 slots, 2 failing downloads, 1 delete, threshold 2, 3 gone answers, trouble 2, fairness | losses are confirmed and told once, alerts deduped, deletes spare what was won meanwhile, the original is looked at again |

Why these bounds are enough: the properties relate at most two rows of one
video, and one actor that read before another wrote. With two DOWNLOAD ids an
enqueue can follow a settled download, with two captures a continuation follows
a recording, and with two sessions a new one follows a settled one. A broadcast of three seconds
can be recorded whole, short within the tolerance (2 of 3) and short beyond it
(1 of 3); the run whose properties do not measure airs one second. The grid of
the queue runs out after three rows, so that renumbering happens. Only request
slots are symmetric. `CHECK_DEADLOCK FALSE` everywhere: when ids are used up and
everything is settled, the system rests.

Four runs are expected to fail. Each checks one sentence of a comment:

| Run | Sentence | What happens |
| --- | --- | --- |
| `signal_lost` | the signal of a cancel of a RUNNING row "cannot be lost" (`api/queue/queue.service.ts:1111`) | between the read of the row and the delivery the attempt fails and unregisters; the command finds nothing and the download is retried |
| `twin` | a stalled execution is failed, "never silently respawn a twin yt-dlp" (`worker/jobs/download.processor.ts:155`) | the listener fails row and video but leaves the process running; the next enqueue starts a second one in the same directory |
| `double_writer` | "a video with an ACTIVE DOWNLOAD row is never captured" (`worker/jobs/live-probe.processor.ts:30`) | enqueue and probe each look for the other's row before their own insert, in transactions without a common lock |
| `parked_forever` | "A parked capture ALWAYS has a matching ENDED_PENDING session" (`worker/services/completeness-checker.ts:74`) | a crash between the hop that parks and the settle: the session ends interrupted, and no re-check finds the recording again |

Other disagreements met while modelling, not kept as runs; where a property
needs them excluded, it says so:

* A pause between the stall listener's read of the row and its write is
  overwritten (`download.processor.ts:708-720`). An execution that chains again
  a verify an earlier attempt could not add also overwrites one.
* A resume waits for the previous execution to disappear and adds its own later
  (`queue.service.ts:707-734`). A boot, or a second request, that adds in between
  turns that add into a no-op on an execution that is still settling, and the row
  stays QUEUED without an execution until the next boot. So does a row handed back
  while its verify was being chained, when the last attempt's add of the verify is
  rejected too. `QueuedHasExecution` names both (`AddsInTurn`).
* A cancel wipes staging by the pointer it read, after its settle
  (`queue.service.ts:558-587`). A rejected add, a failed statement or the sweep of
  a boot can free the video in between, and then the wipe takes the partial of the
  next row. A lost lock or a stall verdict leaves an execution at work that does
  the same. `PartialKept` holds of any number of requests while nothing fails, and
  of one request at a time otherwise.
* Two readers of a row can be overtaken, which fails the row of a DOWNLOADING
  video and leaves the video to the next boot: the stall listener, when a pause has
  parked the row and a resume adds its execution again before the listener marks
  it; and the compensation of a rejected add, when a boot, or a pause and a resume
  of a second request, has put the row to work. `NoZombieVideo` names both
  (`NotOvertaken`); TLC violates it without either exception.
* A stalled execution can be removed by a cancel still on its way after the boot
  took it for alive, which leaves a RUNNING row nobody can cancel; it takes a
  lost lock and a crash.
* Without the lock, the execution of an earlier row can move a video to VERIFYING
  for the row that replaced it: `transitionCopy` compares states, not owners
  (`video-state.service.ts:14-15` says a stale writer never does).
* Live: a thrown statement in a probe leaves its row RUNNING, and the scan skips
  the channel until the next boot, although `live-probe.processor.ts:49-50` says
  the next tick re-probes. A DETECTED session may leak until boot.
* Live: an execution that hung has failed its row before it settles its session.
  A recording of the next row may find that session still active, and mark it
  after it was settled: `Adopt` updates whatever it is by then
  (`live-capture.processor.ts:943-951`). A lost lock, or the slow listener of a
  crashed execution, does the same; `SessionVerdictFinal` excludes the three.
* Live: "ONLY the session leaves the ACTIVE set (freeing ux_live_session_active
  instead of stranding it until reboot)" (`live-capture.processor.ts:316-321`) is
  the session of the payload. A capture that had adopted another one, was drained
  and handed back and is no longer capturable after the boot strands that one:
  CAPTURING, no active row. `SessionOwned` excludes it.
* Catalogue: the purge of a channel says the running child stops writing before
  the wipe (`api/channels/channels.service.ts:232-236`), but publishes the cancel
  and does not wait. `video.rescued` is decided on a copy state read before the
  probe. An error outside the inner `try` of a source check leaves the row
  RUNNING, and the video is skipped until the next boot (`CheckedAgain` exempts
  it). A crash between the observation and its alert loses the alert. An enqueue
  between a reclaim's commit and its wipe loses files (`HeldHasMedia` exempts it).
  A worker that outlives its lock, or a purge with re-listing, may bring an old
  answer to a new streak (`GoneConfirmed` excludes both).
* Queue: a comment says a move "frees the tail" (`queue.service.ts:206-214`), but
  it renumbers only when its own slot is exhausted; and what overlapping moves
  leave wrong in BullMQ is not healed at boot (`:930-941`).

### Fairness

Weak fairness of what goes on by itself: pickups, the steps of an execution, of
a listener, of a re-check and of an alert, backoff and stall timers, the delivery of a
command, scans, the end of a drain, the boot (the supervisor restarts the
process), the statements of an accepted request, the passing of a deadline or an
interval; and a broadcast, which airs on or ends, comes to its end. Owners are not assumed to do anything,
yt-dlp need not end while a broadcast is on air, and no fault is assumed to
happen. Retries are bounded by attempts, so no strong fairness is needed.

## 4. Proofs

Eight modules hold 34 theorems, for any number of videos, rows, sessions,
requests, slots, attempts and events, under the assumptions named with the
constants. Ids are naturals because their order is the order of creation;
`Workers` and `Rows` are finite where a count is taken.

| Module | Theorems |
| --- | --- |
| `ArchiveProofs` | `TypeOK`, `OneActiveDownload`, `VerdictFinal`, refinement of `CopyLifecycle` |
| `ExecutionProofs` | `RunnerOwnsRow`, `NoTwin`, `CancelNeverBlind`, `VerifyingHasVerify`, `PauseKept`, `StaleVerdictFree` |
| `OwnershipProofs` | `NoZombieVideo`, `QueuedHasExecution`, `PartialKept` |
| `LiveProofs` | `TypeOK`, `RecordingKept`, `VodNeverRefetched`, refinement of `CopyLifecycle` |
| `SessionProofs` | `NoDoubleRecord`, `BootFreesSessions`, `VerifiedIsComplete` |
| `VerdictProofs` | `SessionVerdictFinal`, `SessionOwned` |
| `QueueProofs` | `TypeOK`, `PrioritiesDistinct`, `PrioritiesInRange`, `MoveFindsPlace`, `MirrorAgrees`, `MoveReorders` |
| `CatalogueProofs` | `TypeOK`, `AlertsDeduped`, `HeldHasMedia`, `ReclaimSparesDownload`, `OneAlertPerLoss`, `GoneConfirmed` |

None of these properties is inductive. The strengthenings, each checked with TLC
before it was proved:

* **Archive.** `IInv` adds to the types that who works on a row works on one that
  exists (`RowsLinked`, `RequestsLinked`, `ListsLinked`). One lemma per group of
  actions shows that it is kept, that rows move only from an active status or are
  created, and that videos move along an edge; the theorems of `ArchiveProofs`
  follow without looking at an action again.
* **Executions.** Until a lock is lost or a worker crashes nothing is ever
  stalled (`ExecInv`): an active execution has its `process()`, nothing runs while
  the worker is down or boots, a control entry exists only between registration
  and `finally`, and who can still act for a row has it RUNNING. `NoTwin` is then
  two RUNNING rows of one video, which `OneActiveDownload` excludes.
* **Ownership.** `CancelInv`: without failed statements and lost locks a RUNNING
  row has a registered runner, whose BullMQ lock is held, also across crashes.
  `JudgeInv`: a VERIFYING video has an active verify, a download about to chain
  one, or a listener about to judge it. `PauseInv`: an execution that is not
  registered has either claimed nothing or moved its video on. `StaleVerdictFree`
  needs nothing new: it is the claim gate and `OneActiveDownload`. For
  `PauseKept` a row whose execution is past its claim and registered is RUNNING,
  so the writes of an execution or a drain miss a paused one, and what remains
  are the swap of a resume and the settle of a cancel, which the formula names.
* **Videos in flight.** `OwnerInv`: a QUEUED or DOWNLOADING video has an active
  row, or a request, an execution or a listener that settled the row and will
  write the video from the state it is in, or a place before the boot's lists.
  It needs that a video of an active row only moves forward, at least as far as
  `process()` is (`VideosPassed`), that an execution at work keeps its row RUNNING
  (`RunnersHoldRow`), and that nobody puts a row to work while a listener or a
  compensation is about to settle it (`ListenersAlone`, `AddsFirst`). A census of
  what one step may do (`Moves`, `Enters`, `Sweeps`) is proved action by action;
  the invariant follows from it alone.
* **Queued rows.** `QueueInv`: a QUEUED row has an execution, a request or
  listener that owes it one or its verdict, or a boot to come that lists it
  (`RowsAttended`). An execution that ends leaves its row QUEUED only with
  attempts left or while the worker drains (`EndsRetried`), and the place of a
  resume that has waited stays empty (`ResumesAlone`).
* **Partials.** `FlightInv`: while nothing fails, the video of an active row is in
  flight until its own execution has moved it on (`RowsInFlight`). So a request or
  execution that settled a row finds the video in flight without a row, and holds
  it alone until its hop: no row can be created before, and nobody else frees it
  (`FreedByOne`). `WipeInv` needs less of a lone request: it is not free to create
  a row while it wipes, whatever fails. `PointerInv`: a row whose partial is on
  disk has its pointer, unless a statement failed, so the execution that goes on
  with it does not start afresh.
* **Live.** `LiveInv` adds that sessions, captures and who works on them belong
  to broadcasts marked LIVE, and that every list of owed writes consists of
  finalizer writes that never move a video out of PARTIAL_KEPT.
* **Sessions.** `RecorderInv` follows a capture row through its life: a
  broadcast has one active row although no index says so, for only the probe
  creates rows, between a look-up and an insert that nobody else comes between;
  an execution past its claim keeps its row RUNNING until it settles, for the
  boot hands rows back only while nobody works and a listener acts only for
  executions that are gone. `OrphansListed`: each orphan of a boot is listed or
  owed its settlement. `WholeInv`: who owes a hand-over to verification is the
  execution that recorded, its row RUNNING, or the re-check of a parked video,
  and hands over *first* in its list; whoever records, publishes or closes out
  has a video that is not handed over. What is measured NORMAL was over and short
  of the broadcast by the tolerance at most (`Whole`): only an unlabelled answer
  calls an unfinished broadcast final.
* **Verdicts of sessions.** `SessionInv`: a broadcast has one active session, and
  an execution that records another session than its row was created for records
  one that no row was created for (`Strangers`). So a settlement owed after the
  verdict of its row is owed to the row's own session (`LateSettles`), and what a
  recording adopts is active when it marks it (`AdoptedActive`). For
  `SessionOwned`, a session that is recording has an execution that records it or
  owes its settlement (`Holder`), or an active row created for it whose execution
  has not come to record or hands the row back (`Keeper`).
* **Queue.** `QueueInv`: active rows have distinct priorities in range, and what
  a request carries to BullMQ is the priority of its row unless a move
  overlapped. That a renumbered grid has room uses ranks (cardinalities of
  strict subsets) and minima of finite sets.
* **Catalogue.** `UpkeepInv`: who inserts an alert holds the key's lock and found
  the window empty; a video being downloaded is QUEUED, one being wiped is not
  held. `OneAlertPerLoss`: a video's announcements under way or made never exceed
  its moves into GONE. `GoneConfirmed`: without lost locks and deletes a video
  has one check, a check one execution and an execution one worker, so nobody
  moves the streak between a probe and its verdict.

Every safety property of the passing runs is a theorem. Only model-checked is
liveness: `DownloadSettles`, `VideoSettles`, `StagedPublished`, `ParkedResolved`,
`ChannelReprobed`, `CheckedAgain`. Fairness and ENABLED are out of the prover's
reach.

## 5. Running

    tlc -workers 2 -config Succession.cfg MCArchivePipeline.tla
    tlapm SessionProofs.tla

A run takes between half a minute and three minutes, a proof module between one
and eight. Operators commented `Mutant:` sit before the definition they alter;
each breaks one property and stands for a plausible bug in that code.

## 6. What is left

* What becomes of a recording that an unlabelled answer sends to verification
  before its broadcast is over (`VerifiedIsComplete` excludes it).
* Whether the guards of `QueuedHasExecution` and `PartialKept` can be weaker: no
  counterexample is known to the first with one rejected add and drains, nor to the
  second with two requests one of which dies.
* The purge of a whole channel against captures and downloads, and the double
  writer's aftermath: what either does with the other's file.
* The members-only decline of a probe, and twin probes after a lost lock.
