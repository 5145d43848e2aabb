# A TLA+ verification of aiofiles

aiofiles is a self-hosted media tool: a Go server that takes downloads,
conversions and uploads as *jobs*, runs external tools (yt-dlp, ffmpeg,
ImageMagick) on them, keeps the jobs in SQLite, and streams their progress to
browsers.  This directory models the parts of it that keep state, checks them
with TLC on small instances and proves with TLAPS, for all instances, every
safety property that TLC checks.

## 1. The system

| part | state | operations | interacts with |
|---|---|---|---|
| job queue (`internal/jobs/queue.go`) | buffered channel `ch`, registry `running` of cancel funcs, worker goroutines | `Submit`, `Resume`, `Start`, `Stop`, `Cancel`, `execute`, `publishStatus` | store, bus, runners; called by handlers and `main` |
| job store (`internal/jobs/store.go`) | table `jobs`, one connection | `Create`, `Get`, `List`, `SetStatus`, `SetProgress`, `SetOutput`, `Delete`, `Expired`, `FailInterrupted`, `QueuedIDs`, `InputPaths`, `InputPathShared` | everyone; the only state that survives the process |
| process (`cmd/server/main.go`) | phase of `run()` | boot: `FailInterrupted`, `Resume`, `Start`, listen; SIGTERM: `Shutdown`, `Stop` | restarted by the container |
| job handlers (`internal/api/handlers_jobs.go`) | none between requests | create, cancel, delete, list, download | queue, store, files |
| retention sweeper (`internal/retention`) | none between sweeps | `SweepOnce`: expired rows and outputs, then orphaned uploads | store, files, bus |
| event bus and stream (`jobs/bus.go`, `api/events.go`) | one buffer of 64 per subscriber | `Publish` (drops when full), `Subscribe` | browsers |
| browser (`frontend/app.js`) | list of jobs, tombstones | load list, apply event | event stream, list endpoint |
| uploads (`api/uploads.go`) | files | store, reuse of an input by several jobs, collection after 24 h | sweeper, job handlers |
| sessions (`internal/auth`) | session map and table, failure counters, hashing slots | `Login`, `Logout`, `Authenticated`, reap, restore | store, handlers |
| probe limiter (`api/probelimit.go`) | tokens and slots | acquire, refund | probe handler |
| runners (`internal/runner`) | child processes, scratch and output files | `Run` | queue |
| presets, config, proxy | none | validation, parsing, client address | handlers |

What is hard about it: handlers, workers, the sweeper and the shutdown run
concurrently on a table whose every access is a separate step; the process may
die between any two of them and must recover from the table alone; contexts end
for three reasons (cancel, time limit, SIGTERM) at any moment; the channel is
bounded; and the files on disk are changed by steps that are not atomic with the
table.  Around the queue: sessions live in memory and in a table and must mean
the same in both after a restart under another password; uploads are named by
rows, linked, aged, deleted and collected by four parties; a run drives process
groups that may hang, through scratch files whose names are two characters apart;
and parameters are parsed twice, by the handler and, any time later, by a runner.
`PROJECT.json` lists these hazards by line.

## 2. Modules

| module | what it is |
|---|---|
| `JobQueue` | queue, store, workers, submitting, canceling and deleting requests, sweeper, boot and end of the process |
| `JobLifecycle` | the abstract promise: a job is created queued, begins at most once, settles once, may be deleted, and its tool starts at most once |
| `JobQueueProps` | the properties of `JobQueue`, its inductive invariants in named parts, fairness, the refinement mapping, and a statement of a comment that does not hold |
| `MCJobQueue` | a symmetry set for TLC |
| `JobQueueStructure`, `JobQueueHistory`, `JobQueueRefinement` | the proofs: where the ids are, what has happened to the jobs and what clients are told of it, the refinement |
| `JobFeed` | event bus, event stream and the job list of one browser tab, with its properties and their inductive invariant |
| `MCJobFeed`, `JobFeedProofs` | TLC instances and proofs of `JobFeed` |
| `Uploads`, `MCUploads`, `UploadsProofs` | uploads, their reuse, the rows that name them, and everything that unlinks them: DELETE, expiry, the collection of orphans |
| `Runner`, `MCRunner`, `RunnerProofs` | the runners below `Queue.execute`: tools as process groups, scratch files, collection, naming and delivery of the output |
| `Presets`, `MCPresets`, `PresetsProofs` | parameters from the request through validation and the `params` column to the plan of a runner, with the address check of downloads |
| `Sessions`, `MCSessions`, `SessionsProofs` | logins, logouts, sessions in memory and table, the login limiter, the client address behind proxies |

The modules share no variables.  They meet in operations of which each has the
part that concerns its state: `handleCreateJob` is `SubmitCreate`..`SubmitEmit` in
`JobQueue`, `ResolveUpload` and `CreateJob` in `Uploads`, `CreateJob` in `Presets`;
`execute`'s call of `Run` is `RunnerStart`..`RunnerSucceeds` in `JobQueue`, all of
`Runner`, and `Run` in `Presets`.  What one takes from another is weaker than what
the other shows: `Runner` lets any jobs run together, `Uploads` lets a row go at
any time.

Definitions marked "Slip" are plausible mistakes; no action uses them.  They are
substituted for the definition after them to see that each property can fail.

### State and actions of JobQueue

One store call, one critical section of `Queue.mu`, one channel operation and one
`Bus.Publish` is one action.  Where the code makes several such steps, a program
counter says how far it has come:

* `wpc[w]` for a worker in `Start` and `execute`: `idle` (in the select), `load`
  (before `store.Get`), `register`, `mark` (before `SetStatus(running)`),
  `getRun`/`pubRun` (the two halves of `publishStatus`), `start`, `exec` (the tool
  runs), `runErr`/`runOk` (`Run` has returned), `setDone`, `getFin`/`pubFin`,
  `unregister`, `exited`;
* `sub[j]` for the request that submits `j`, `del[j]` for a DELETE of `j`,
  `swp[j]` for the sweeper at `j`; `dsnap` and `ssnap` are the output paths these
  two have read and act on later;
* `up` for `run()`: `boot` (after `FailInterrupted`), `resume`, `serving`,
  `draining` (after SIGTERM), `stopping` (channel closed), `down`.

`row` is the status column (`none` before the INSERT, `gone` after the DELETE),
`output` says whether `output_path` is set, `created` is the position in
`ORDER BY created_at, rowid`.  `wctx` is a worker's context; the first cause that
ends it stays, as with `context.Cause`.  `starts` is a history variable.
`Down` forgets everything but the table and the files.

A store call on a done context fails; on a live context it may fail too, at most
`MaxFaults` times, and then does what the code does with the error, mostly
nothing.

Simplifications, none of which a property depends on:
`created_at` and rowid are one counter; `SetOutput` and `SetProgress(100)` are one
step; progress events and the throttling in `emit` are left out; the branch for a
type without a runner is left out, since `run()` registers all types; SIGTERM
during boot is a crash as far as the table is concerned; a power cut that loses
committed transactions (`synchronous = NORMAL`) is not modelled; a run of several
tools is one start.

### State and actions of JobFeed

`row`, `sub`, `wpc` and `dpub` are the server as far as it reaches a browser: the
status of a row and the steps between changing it and publishing it.  `JobQueue`
has the same steps in full; this module does not compose with it, it takes over
the order it establishes (`EventsConverge`).  As in the code, a status update may
be refused and `publishStatus` may end without an event, at any time: its context
is the request's or the job's, and the store may fail.  The statuses done, failed
and canceled, which have one rank in `app.js`, are one.  `conn` and `buf` are the
`EventSource` and the events between `Bus.Publish` and `applyEvent`; `load` and
`lsnap` are the newest `loadJobs` and its answer (older ones are retired by
`jobsSeq`, so one suffices); `resp` and `del` are the browser's own requests;
`shown` and `tomb` are `jobs` and `recentlyDeleted`.  `dropped`, `cover`, `synced`
and `promised` are history variables, read by properties only.  `cover` and
`synced` are sets of jobs: a job leaves them when an event of it is lost, in a full
buffer or in a silent `publishStatus`, and is back in `synced` with the next event
that gets into the buffer.  A list that was overtaken by an event of a job covers
the other jobs only.

Streams, lists and requests may fail at any time, the process may restart at any
time, and a tab may come back to the foreground at any time; none of this is
bounded, since the state space is finite without it.  One assumption is about
time: a tombstone is pruned (after 60 s) only when nothing that names the job is
on its way any more, which is what the comment on `pruneTombstones` relies on.

### State and actions of Uploads

`file[f]` is a name in the upload directory: `free`, `partial` while
`storeUpload` copies, `here`, `cut` when the request that made it was never
answered, `gone`.  `node` and `age` are the inode and its mtime, since a reused
file is a hard link and `Chtimes` touches all its names.  `row` and `input` are the
jobs and their `input_path`; `del`, `swp`, `todo`, `cur`, `doomed` say how far the
DELETE requests and the sweep have come: lookup, query, unlink and row are
separate steps, as are `ReadDir`, `InputPaths`, the cutoff, and for each entry
`e.Info()` and `os.Remove`, with `aim` the entry between the two.  Every store call
may fail; a row whose `Store.Delete` failed stays.  A reused output lies in another
directory; only the age its link inherits matters, and it is arbitrary.  Ages are
counted up to `Grace`, beyond which the code distinguishes none.  `taken`, `prompt`
and `late` are history: who took the input of a row, jobs created from a young
upload, and jobs created in a moment in which the sweeper has looked at their input
and does not look again.  There are three such moments: between `removeInput`'s
query and its unlink, between `InputPaths` and the cutoff (the upload must pass its
24 hours just then), and between `e.Info()` and `os.Remove`, where a link is touched
and made a job after it was found old.  In all three the code does take the input,
and `InputKept` excepts these jobs and no others.

### State and actions of Runner

`Plans` has the sequence of tools of each kind of run, `at` the position in it,
`proc` the living processes of the current group, `exit` how its leader ended,
`deaf` whether a scanner gave up on a line of more than `maxLineBytes`.  `tmp` is
TmpDir as a set of files with the job that wrote them and whether they are
complete, `out` DownloadDir.  `tag` and `tries` are the loop of
`uniqueOutputPath`.  `shared` is history: runs that had a run of their own tag
beside them, or came after one that died with the process.  `percent` is what was reported last by an ffmpeg run; the
percentages of yt-dlp, which restart with every stream it fetches, are left out.

Of the tools it is assumed that the leader exits with 0 only when its output is
complete or was not begun, and that ffmpeg's clock does not run backwards within a
pass.  It may run past the length that ffprobe reports, as far as `MaxClock`; what
is reported then is clamped to 100, not to the share of the pass.  They may hang, exit at any time, leave a helper that holds the
pipes, and survive a crash of the server.

### State and actions of Presets

The five parsers are predicates on records (`ValidConvert`...) and what they
change is `Fold`; `Decode` fills in defaults, as `json.Decode` into a prepared
struct does.  A plan is a record of what the arguments say that a property looks
at.  `Rebind` changes what a host name resolves to while the job is queued.
A plan of a download records the addresses the runner checked; yt-dlp looks the name
up again, and `Rebind` may come in between.
Strings are members of small sets, format ids and addresses classes; times of an
edit are sixteenths of a second in a request and milliseconds in a plan, since
`seconds()` writes three decimals (`Seconds`, with ties to even).

### State and actions of Sessions

`sessions` is the map, `table` the rows, `bound` the stored fingerprint, `cred`
the credential the process runs under.  A login is checked (`Login`), waits for a
hashing slot (`TakeSlot`, `Shed`), ends with an error (`Fail`), is refused
(`Refuse`) or is entered into the map
(`Issue`) and then into the table (`Save`); only then has the client its token.
`Logout` and `Forget` are the two halves of a logout.  `Boot` is `Persist` with each
of its calls failing or not, `Stop` the end of the process at any point.
`Arriving` is what `docker/proxy-headers.conf` and `init-aiofiles` make of the
headers.  `issuer`, `expires`, `unbound`, `owed` and `out` are history, and so are
`tried`, the wrong passwords of an address within its window whether the limiter
counted them or not, and `untracked`, the addresses that were turned away from a
full failure map.  The limits are small numbers and so are the windows, in ticks.

Two cases are excepted from properties.  A token issued under B by a process whose
`Rebind` had failed is saved beside rows of an older credential A, and is adopted
when A comes back: `BoundToCredential` excepts such tokens (`unbound`).  The comment
in `Persist` ("adopt no session we cannot vouch for") speaks of what that process
adopts and does not foresee it.  And a stop between the unlock of `Logout` and its
`store.Delete`, or a failing `store.Delete`, leaves the row to the next process:
`LoggedOutStaysOut` speaks of logouts that were carried out.

## 3. Runs

| run | instance | shows |
|---|---|---|
| `restart` | 2 jobs, 2 workers, depth 1, time limit, hang-ups, 2 stops, 1 store fault | `TypeOK`, `OneHolder`, `RegistryExact`, `QueuedIsHeld`, `ResumeOldestFirst`, `RunningIsHeld`, `RunsAtMostOnce`, `DoneHasOutput`, `EventsConverge` (those about rows as long as the store has not failed). Two jobs for a channel of one make both overflows happen (in `Submit` and in `Resume`); two stops allow a crash during the recovery from a crash |
| `delete_races` | 2 jobs, one deletable, one expiring, 1 worker, no time limit, 1 stop, fairness | `DeletedWhileQueuedNeverRuns` and `ImplementsLifecycle` against deletions at every step, `ShutdownCompletes` without a time limit that could end the tools instead |
| `jobs_settle` | 2 jobs, 2 workers, time limit, 1 stop, fairness | `JobsSettle` |
| `feed` | 1 job, buffer 3 | `TypeOK`, `DroppedStaysGone`, and `InStep`: a job whose entry came from a list or an event of the present stream, and of which no event was lost, is shown as its row is. A job has up to four events, so three overflow the buffer; the theorems cover several jobs |
| `uploads` | 2 files, 2 jobs, one expiring, grace of one tick, any number of restarts, fairness | `InputKept`: the collection takes no input of a job that was submitted before its upload was old, the expiry of a job none that another job holds, unless that job was created between a look and an unlink; `OrphansCollected`: all that nobody refers to goes. Two jobs on one file are the sharing, two files a link and its original |
| `runner` | two runs out of three jobs: one of any kind beside a download of its tag or of another, a taken output name, a clock up to twice the length, 1 crash, fairness | `OwnResultUnlessShared`, `LeavesNothing`, `NoOrphans`, `WalksBackAfterOverrun`, `CancelReturns`. Two runs suffice for all that one does to another; `edit` and `image` have the plans of `convert` and `download` but for names |
| `presets` | all combinations of the values in `MCPresets`: defaults, both sides of each limit, all codecs; four lengths | `RunnerAgrees`: what the handler accepts the runner accepts and reads alike; `QualityInRange`, `UnderTarget`, `CutEncodable`, `HostCheckedAtRun` |
| `sessions` | 2 clients, 2 proxies, forged lists of up to two entries, 2 logins at a time for 1 slot, 2 credentials, 3 boots, 1 store fault | `BoundToCredential`, `LoggedOutStaysOut`, `SessionsSurvive`, `OvershootBounded`, `CountedAgainstClient`. One token suffices, since sessions have nothing to do with each other; the limits are one failure per address, two in all, and room for one address, so that all three are exceeded. Clients and logins are each interchangeable |

`CHECK_DEADLOCK FALSE` where the system may come to rest: once all jobs are settled
and no client asks for anything, the server rightly stands still, a run that has
returned does nothing more, and a planned job is the end of `Presets`; in
`Sessions` the clock has a bound.  The feed and the sweeper never rest.  Symmetry is used where all jobs
are alike and no liveness is checked.

Fairness (`Fairness` in `JobQueueProps`): goroutines that can run do run (the Go
scheduler); the container comes back (`restart: unless-stopped` in
`docker-compose.yml`); `http.Server.Shutdown` has a deadline of 20 s; timers fire;
a tool whose context is done is killed with its process group and `Run` returns
(`newCommand`, `WaitDelay` in `runner/exec.go`).  A tool under a live context may
run forever and no client is obliged to do anything.

In `Uploads`: time passes, the ticker keeps starting sweeps and a sweep goes on
(weak), the process stops being restarted at some time (a restart cuts a sweep off),
and `InputPaths` does not fail for ever (strong, on the successful `NameInputs`: a
failing query skips the round, and the next one asks again).  In
`Runner` only the Go side of a run is fair (`Runs`): the tools owe nothing, and
`CancelReturns` holds without them because the group is killed.

### Where docs or comments and code disagree

Each of these is a run that TLC must refute; `PROJECT.json` quotes the statement.

* `full_queue_visible`: a refused job whose client has hung up stays `queued`, in
  no channel, until the next restart (`Submit` uses the request's context for
  the status update).
* `reconnect_reconciles`: a deletion that arrives during the reload after a
  reconnection discards the reload, and none follows.  (`jobsLoading` stays set
  then, too: only the newest sequence number resets it.)
* `delete_spares_shared`: DELETE of a job unlinks its input although another job
  was made from the same upload; only the sweeper asks `InputPathShared`.
* `own_result`: scratch names carry the first two characters of the job id.  Two
  downloads whose ids begin alike use one directory, `collectDownload` takes the
  largest file in it, and one job delivers the other's file.  The run `runner`
  shows that it happens to runs that shared a tag only.

Others were met while modelling and have no run here.  In the first five a property
that passes says what the code does instead:

* "An upload that never becomes a job stays on disk" (docs/api.md:198); the sweeper
  removes it after 24 hours, which is what `OrphansCollected` shows;
* "More than maxFailures from one source address within failWindow is rejected
  outright" (manager.go:22, docs/api.md:37): the attempts already past the check go
  on, and an address that finds the failure map full is not counted at all and is held
  by the limit for all addresses only (manager.go:346 says so); `OvershootBounded`
  has both limits and both exceptions;
* "the percentage never walks back" (ffmpeg.go:163): it does when ffmpeg's clock
  passes an inexact length in the first pass, since `scale` clamps to 100 and not to
  the share of the pass; `WalksBackAfterOverrun` says that it does so in no other case;
* "The cut lands exactly where it was asked for" (docs/api.md:283): start and length
  are rounded to milliseconds one by one; `CutEncodable` allows the end a millisecond;
* logout "Drops the session server-side" and is always 200 (docs/api.md:101): if the
  process stops before `store.Delete`, or the call fails, the next process adopts the
  session; `LoggedOutStaysOut` excepts it;
* image `quality` is 1-100 in docs/api.md:276 and 0-100 in the code, where 0 keeps the
  encoder's default (presets.go:431);
* a job created from an upload between the sweeper's look at it and its unlink loses
  its input, above all one made from a link that was found old before `Chtimes`
  (retention.go:156, uploads.go:122);
* the docs say queued rows are failed at boot (docs/troubleshooting.md:179); they
  are resumed;
* a job that finishes between the lookup of a DELETE and the row's deletion leaves
  its output on disk (docs/api.md:363);
* a DELETE between the worker's `store.Get` and its registration misses the job, and
  the tool starts for a row that is gone (handlers_jobs.go:191);
* `loadJobs` compares no ranks, so a list older than an event received meanwhile
  puts the older status back (app.js:199);
* after a line of more than `maxLineBytes` `scanLines` returns without draining the
  pipe (exec.go:260); a tool that writes on may block until it is canceled;
* `checkContainerCodec` looks at neither stream when one of them is copied, so
  H.264 into WebM is accepted beside copied audio (presets.go:603);
* a cancel answered 202 while the tool has just finished ends in `done`
  (docs/api.md says `canceled`);
* after a failed `SetStatus(running)` and a crash `Resume` enqueues a job that has
  run;
* two runs of one title that draw the same tag between `uniqueOutputPath`'s `Stat`
  and the rename overwrite one another.

## 4. Proofs

All for arbitrary constants.  The bounds of the instances (stops, faults, boots,
the clock) are constants too, so a theorem holds however often the process dies or
the store fails.  What is assumed of the constants stands in named `ASSUME`s beside
their declarations, and TLC evaluates them on every instance:

* `ConstantsAssumption` of each module: sizes are numbers, `None` is no id, clients
  and proxies are different addresses, a depth or a limit is at least 1;
* `RequestsAssumption` of `Presets`: what `json.Decode` has seen to before the
  parsers look (crop sizes are integers, a literal address is one) and that absent
  is no value.  The set of requests is otherwise arbitrary;
* `NoneAssumption` of `Runner`: `None` is neither a kind of run nor a file.

Every proof has the same shape: an inductive invariant made of named parts, one
step or lemma per action, then each property as a consequence.  The invariants were
checked with TLC first, on the instances of the runs.

### The job queue

* `TypeCorrect`: `TypeOK`, including `Len(ch) <= Depth`.
* `StructureHolds`: the conjunction `Structure`, inductive relative to `TypeOK` and
  independent of store faults.  `OneHolder` alone is not inductive: that a sent id
  is not yet in the channel needs `Submitted` (what is held was sent), and that
  `QueuedIDs` duplicates nothing needs `PhaseShape` (nobody holds anything during
  boot).  `ResumeOldestFirst` needs `CreationOrder` (positions are distinct).
  Corollaries `OneHolderHolds`, `RegistryExactHolds`, `ResumeOldestFirstHolds` and
  the action property `DeletedNeverRuns`.
* `InvariantHolds`: `IInv == TypeOK /\ Structure /\ (faults = 0 => History)`.
  `History` ties rows to positions: what waits is queued or deleted, a registered
  worker's row runs exactly within the span `InRun`, a row can still be queued
  after `MarkRunning` only under a dead context and then the tool is not started
  (`ExecuteStatus`).  `LiveUntilRegistered` carries the case where a worker
  abandons a job at `Load`: while serving, only a deleted row can cause it.
  Corollaries `QueuedIsHeldHolds`, `RunningIsHeldHolds`, `RunsAtMostOnceHolds`.
* `ReportInvariant`: `ReportInv` adds to `IInv` what clients are told.  `Claims`:
  only jobs somebody set out to delete are being deleted, and a deletion is
  announced when the row is gone.  `Results`: at `setDone` the output is recorded
  and the file there, and since the row is not done before (`ExecuteStatus`) nobody
  who could overwrite it is left afterwards.  `News`: a submitter or worker that is
  about to let go has read or published the row as it is; it is the only one who can
  change it (`OneHolder`), deletions apart, which announce themselves.  Corollaries
  `DoneHasOutputHolds`, `EventsConvergeHolds`.
* `QueueImplementsLifecycle`: with `MaxFaults = 0`, `Spec => ImplementsLifecycle`;
  every action maps to one step of `JobLifecycle` or to none.

### The browser

`JobFeedProofs`: `TypeCorrect`, then `FeedInvHolds` for `FeedInv`, whose parts are
`Behind` (nothing shown or on its way is ahead of the table, and deletions are
announced only after they happened), `Buried` (a dropped job is in no list on its
way, and whatever else names it meets the tombstone) and `Fresh` (what is shown of a
job in `synced`, and what a list on its way says of one in `cover`, is current or
its correction is on its way).  That `publishStatus` may end in silence is why both
are sets of jobs: the silence takes the job out of them.
`DroppedStaysGoneHolds` follows from `Buried`; `InStepHolds` from `Fresh`, which
needs `Behind` so that the event with the present status is never refused by its
rank.

### Sessions

`SignInInvariant`.  `BoundToCredential` speaks of memory only; it is inductive with
`Bindings`, which says the same of the table and of a login between the map and the
table, since a boot loads what such a login still saves.  `LoggedOutStaysOut` needs
`NoReturn`: no login will save a token that is being logged out, which holds because
a client has its token only after `Save`.  `SessionsSurvive` needs `Kept` (table and
memory agree on what is owed).  `OvershootBounded` needs `Attempted`: the wrong
passwords tried and the attempts past the check together stay under the limit plus
the number of requests, as each attempt moves from one side of the sum to the other;
and for an address that was not turned away from a full map, what was tried is what
the limiter has counted.
`CountedAgainstClient` rests on the lemma `ClientIPIsSender`: walking the list of
addresses from the right, over any chain of our proxies and behind any forged list,
the first that is no proxy is the sender.

### Uploads

`FilesInvariant`.  `InputKept` looks back at who unlinked a file; its invariant has to
say what a sweep may assume between looking at a file and unlinking it.
`ExpiryClaim`: what `removeInput` found unshared has been taken up only by jobs
created since (`late`).  `CollectClaim`: what `InputPaths` did not name has no job but
such ones, after the cutoff it has the full age still, and no job created in time has
it or the file aimed at.  A new link does not disturb this: it takes a name nobody
listed, and a file that is not complete has an inode of its own (`OwnInode`).  Nor does
`Chtimes` before `e.Info()`: the sweep looks at the mtime of an entry when it comes to
it, so a touched inode is no longer doomed under any of its names.

### Runners

`RunsInvariant`.  `NoOrphans` follows from `Processes`.  `ScratchOwned` says that a
scratch file lies where its run will look for it and that its run has not returned;
hence the first half of `LeavesNothing`, whatever tags are shared.  What is delivered
depends on who was there: `Apart` says that two runs of one tag that live, or died,
side by side are both in `shared`, `Picked` that a run outside it picks a file of its
own, and `Delivered` that its output is its own and stays as long as no other output
has its name and type.  `OwnResultUnlessSharedHolds` and `LeavesNothingHolds` follow for every
assignment of tags; the run `own_result` shows what happens to runs in `shared`.
`WalksBackAfterOverrunHolds` needs `Reported`: where a percentage may stand at each
call of a plan, which is past the share of a first pass only after an overrun.

### Presets

`ParametersInvariant` and `RunnerAgreesHolds`, from two lemmas: `Fold` keeps a valid
record valid and changes nothing when repeated (`FoldFacts`), and a stored record
has every field, so that `Decode` takes nothing from the defaults (`DecodeFacts`,
`ReadsStored`); the runner's default retention, which differs from the server's,
therefore never shows.  `QualityInRangeHolds` needs that the tables of qualities lie
within the bounds (`TablesInBounds`), `UnderTargetHolds` that rounding in
`targetVideoKbps` is always downwards (`BudgetKept`), for all sizes and lengths
where TLC has four.  `CutEncodableHolds` needs the two roundings of `Seconds` (each is
off by half a millisecond at most).

### Only model-checked

`JobsSettle`, `ShutdownCompletes`, `OrphansCollected` and `CancelReturns`: liveness
under fairness is out of the prover's reach.  So are the counterexamples of the four
refuted statements, which are TLC's to give.

## 5. Plan

All safety properties of the runs are theorems.  What can still be proved is the
safety half of the liveness properties: that no step of a run takes it back in its
plan and that every step of a canceled run is open to it (`CancelReturns`), that an
orphan stays one until it is collected (`OrphansCollected`), and that a job's place
only moves towards a worker (`JobsSettle`).  Beyond that, an abstract specification
of sessions (a set of tokens that pass) which `Sessions` would implement as long as
the store does not fail.

Not modelled: the probe limiter (two comparisons under a mutex), the parsing of
environment variables, routing, middleware and responses, the probing of a URL for
its formats, the parsing of progress lines of yt-dlp, the cleaning of file names,
presentation and container set-up.  They keep no state that other parts race for.
