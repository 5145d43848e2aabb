------------------------------ MODULE JobQueue ------------------------------
(***************************************************************************)
(* The job queue of aiofiles: the jobs table (internal/jobs/store.go), the *)
(* buffered channel, worker pool and cancel registry of internal/jobs/     *)
(* queue.go, the HTTP handlers that submit, cancel and delete jobs, the    *)
(* row deletions of the retention sweeper, and the process life cycle of   *)
(* cmd/server/main.go: boot, SIGTERM, crash.                               *)
(*                                                                         *)
(* Granularity.  The database has one connection (db.Open), so one store   *)
(* call is one step; so is one critical section of Queue.mu, one channel   *)
(* operation and one Bus.Publish.  Between two of them any other goroutine *)
(* may run and the process may die.                                        *)
(*                                                                         *)
(* A definition marked "Slip" is a plausible mistake in the code modelled  *)
(* by the definition after it; no action uses it.  It serves to see that a *)
(* property can fail.                                                      *)
(***************************************************************************)
EXTENDS Naturals, Sequences, FiniteSets

CONSTANTS
    Job,          \* ids, each minted once by jobs.NewID
    Worker,       \* the goroutines of Queue.Start
    None,         \* no worker, no job
    Expiring,     \* jobs created with a retention, so expires_at is set
    Deleting,     \* jobs some client asks to delete
    Flaky,        \* jobs whose submitting client may hang up
    Depth,        \* capacity of Queue.ch (QUEUE_DEPTH)
    TimeLimit,    \* JOB_TIMEOUT_MINUTES > 0
    MaxStops,     \* bound: how often the process may crash or be told to stop
    MaxFaults     \* bound: how often a store call may fail on a live context

ASSUME ConstantsAssumption ==
    /\ None \notin Job /\ None \notin Worker
    /\ Expiring \subseteq Job /\ Deleting \subseteq Job /\ Flaky \subseteq Job
    /\ Depth \in Nat \ {0}
    /\ TimeLimit \in BOOLEAN
    /\ MaxStops \in Nat
    /\ MaxFaults \in Nat

VARIABLES
    up,           \* phase of the process: see Phase
    row,          \* the jobs table: status of each row, "none" before, "gone" after
    output,       \* is output_path set in the row?
    created,      \* position in ORDER BY created_at, rowid
    lastCreated,  \* the newest such position
    ch,           \* Queue.ch
    pending,      \* ids Queue.Resume has read and not yet handled
    running,      \* Queue.running: job -> worker whose cancel func is registered
    wpc,          \* where each worker stands in Start and execute
    wjob,         \* the job it executes
    wctx,         \* its context: live, canceled or timedout (the first cause wins)
    sub,          \* where the request that submits the job stands in Submit
    hungup,       \* has that request's context been canceled?
    del,          \* where a DELETE request for the job stands
    dsnap,        \* output_path as that request read it: set or empty
    swp,          \* where the retention sweeper stands with the job
    ssnap,        \* output_path as Store.Expired returned it
    file,         \* is the job's output file on disk?
    snap,         \* status read by the last publishStatus of the job
    event,        \* status carried by the last event published for the job
    starts,       \* history: how often the external tool was started for the job
    stops,        \* crashes and SIGTERMs so far
    faults        \* store calls that failed on a live context so far

metaVars   == <<output, created, lastCreated>>
dbVars     == <<row, metaVars>>
queueVars  == <<ch, pending, running>>
workerVars == <<wpc, wjob, wctx>>
subVars    == <<sub, hungup>>
delVars    == <<del, dsnap>>
sweepVars  == <<swp, ssnap>>
handlerVars == <<subVars, delVars, sweepVars>>
busVars    == <<snap, event>>
envVars    == <<up, stops>>
worldVars  == <<envVars, file, starts>>

vars == <<dbVars, queueVars, workerVars, handlerVars, busVars, worldVars, faults>>

-----------------------------------------------------------------------------
(* Value sets *)

Terminal == {"done", "failed", "canceled"}
Present  == {"queued", "running"} \union Terminal
RowState == {"none", "gone"} \union Present

\* "boot" .. "resume" is run() up to queue.Start; "draining" is between SIGTERM
\* and queue.Stop, "stopping" after the channel has been closed.
Phase == {"down", "boot", "resume", "serving", "draining", "stopping"}

\* Goroutines of requests and workers exist in these phases only.
Alive == up \in {"serving", "draining", "stopping"}

\* Worker program counters: before and inside the span in which the job is in
\* Queue.running.
Unregistered == {"load", "register"}
Registered   == {"mark", "getRun", "pubRun", "start", "exec", "runErr", "runOk",
                 "setDone", "getFin", "pubFin", "unregister"}
WorkerPC     == {"exited", "idle"} \union Unregistered \union Registered

SubmitPC == {"new", "created", "send", "full", "getFail", "pubFail", "end"}
DeletePC == {"idle", "found", "canceled", "unlinked", "deleted"}
SweepPC  == {"idle", "listed", "unlinked", "deleted"}

TypeOK ==
    /\ up \in Phase
    /\ row \in [Job -> RowState]
    /\ output \in [Job -> BOOLEAN]
    /\ created \in [Job -> Nat]
    /\ lastCreated \in Nat
    /\ ch \in Seq(Job) /\ Len(ch) <= Depth
    /\ pending \in SUBSET Job
    /\ running \in [Job -> Worker \union {None}]
    /\ wpc \in [Worker -> WorkerPC]
    /\ wjob \in [Worker -> Job \union {None}]
    /\ wctx \in [Worker -> {"live", "canceled", "timedout"}]
    /\ sub \in [Job -> SubmitPC]
    /\ hungup \in [Job -> BOOLEAN]
    /\ del \in [Job -> DeletePC]
    /\ dsnap \in [Job -> BOOLEAN]
    /\ swp \in [Job -> SweepPC]
    /\ ssnap \in [Job -> BOOLEAN]
    /\ file \in [Job -> BOOLEAN]
    /\ snap \in [Job -> RowState]
    /\ event \in [Job -> RowState]
    /\ starts \in [Job -> Nat]
    /\ stops \in 0..MaxStops
    /\ faults \in 0..MaxFaults

Init ==
    /\ up = "down"
    /\ row = [j \in Job |-> "none"]
    /\ output = [j \in Job |-> FALSE]
    /\ created = [j \in Job |-> 0]
    /\ lastCreated = 0
    /\ ch = <<>>
    /\ pending = {}
    /\ running = [j \in Job |-> None]
    /\ wpc = [w \in Worker |-> "exited"]
    /\ wjob = [w \in Worker |-> None]
    /\ wctx = [w \in Worker |-> "live"]
    /\ sub = [j \in Job |-> "new"]
    /\ hungup = [j \in Job |-> FALSE]
    /\ del = [j \in Job |-> "idle"]
    /\ dsnap = [j \in Job |-> FALSE]
    /\ swp = [j \in Job |-> "idle"]
    /\ ssnap = [j \in Job |-> FALSE]
    /\ file = [j \in Job |-> FALSE]
    /\ snap = [j \in Job |-> "none"]
    /\ event = [j \in Job |-> "none"]
    /\ starts = [j \in Job |-> 0]
    /\ stops = 0
    /\ faults = 0

-----------------------------------------------------------------------------
(* The store *)

\* Store.SetStatus and Store.Delete: an UPDATE or DELETE ... WHERE id = ? that
\* finds no row changes nothing.
SetStatus(j, s) == IF row[j] \in Present THEN [row EXCEPT ![j] = s] ELSE row

\* Every store call either reaches the database or reports an error. On a live
\* context the error is a fault of the disk or of SQLite.
StoreOk    == UNCHANGED faults
StoreFault == faults < MaxFaults /\ faults' = faults + 1

\* A call made with context c: refused outright when c is done, else a fault.
StoreError(live) == IF live THEN StoreFault ELSE StoreOk

InCh(j) == \E i \in 1..Len(ch) : ch[i] = j
\* Slip: room for one id too many.
HasRoomOffByOne == Len(ch) <= Depth

HasRoom == Len(ch) < Depth

Goto(w, pc) == wpc' = [wpc EXCEPT ![w] = pc]

-----------------------------------------------------------------------------
(* Boot: main.run up to queue.Start *)

\* Slip: the recovery of interrupted jobs is forgotten.
FailInterruptedSkipped ==
    /\ up = "down"
    /\ up' = "boot"
    /\ UNCHANGED <<dbVars, queueVars, workerVars, handlerVars, busVars, stops,
                   file, starts, faults>>

\* Store.FailInterrupted. On an error run() only logs a warning.
FailInterrupted ==
    /\ up = "down"
    /\ up' = "boot"
    /\ \/ /\ StoreOk
          /\ row' = [j \in Job |-> IF row[j] = "running" THEN "failed" ELSE row[j]]
       \/ /\ StoreFault
          /\ UNCHANGED row
    /\ UNCHANGED <<metaVars, queueVars, workerVars, handlerVars, busVars, stops,
                   file, starts>>

\* Queue.Resume, first half: Store.QueuedIDs. On an error nothing is resumed.
QueuedIDs ==
    /\ up = "boot"
    /\ up' = "resume"
    /\ \/ StoreOk /\ pending' = {j \in Job : row[j] = "queued"}
       \/ StoreFault /\ pending' = {}
    /\ UNCHANGED <<dbVars, ch, running, workerVars, handlerVars, busVars, stops,
                   file, starts>>

\* Slip: no ORDER BY.
OldestUnordered(S) == S

\* The next id of the SELECT ... ORDER BY created_at, rowid.
Oldest(S) == {j \in S : \A k \in S : created[j] <= created[k]}

\* Slip: Resume passes over an id that does not fit without failing its row.
ResumeNextSkips ==
    /\ up = "resume"
    /\ \E j \in Oldest(pending) :
        /\ pending' = pending \ {j}
        /\ ch' = IF HasRoom THEN Append(ch, j) ELSE ch
    /\ UNCHANGED <<row, metaVars, running, workerVars, handlerVars, busVars, worldVars,
                   faults>>

\* Queue.Resume, loop body. Its publishStatus reaches nobody: the server is not
\* listening yet, so the bus has no subscriber.
ResumeNext ==
    /\ up = "resume"
    /\ \E j \in Oldest(pending) :
        /\ pending' = pending \ {j}
        /\ \/ /\ HasRoom
              /\ ch' = Append(ch, j)
              /\ StoreOk
              /\ UNCHANGED row
           \/ /\ ~HasRoom
              /\ UNCHANGED ch
              /\ \/ StoreOk /\ row' = SetStatus(j, "failed")
                 \/ StoreFault /\ UNCHANGED row
    /\ UNCHANGED <<metaVars, running, workerVars, handlerVars, busVars, worldVars>>

\* queue.Start, then ListenAndServe. Browsers reconnect their event stream and
\* reload the job list, so what they show is the table.
Serve ==
    /\ up = "resume"
    /\ pending = {}
    /\ up' = "serving"
    /\ wpc' = [w \in Worker |-> "idle"]
    /\ event' = row
    /\ UNCHANGED <<dbVars, queueVars, wjob, wctx, handlerVars, snap, stops, file,
                   starts, faults>>

Boot == FailInterrupted \/ QueuedIDs \/ ResumeNext \/ Serve

-----------------------------------------------------------------------------
(* Queue.Submit, called by handleCreateJob with the request's context *)

\* Store.Create. A failed INSERT leaves no trace, so it is not an action.
SubmitCreate(j) ==
    /\ Alive
    /\ sub[j] = "new"
    /\ row' = [row EXCEPT ![j] = "queued"]
    /\ created' = [created EXCEPT ![j] = lastCreated + 1]
    /\ lastCreated' = lastCreated + 1
    /\ sub' = [sub EXCEPT ![j] = "created"]
    /\ UNCHANGED <<output, queueVars, workerVars, hungup, delVars, sweepVars,
                   busVars, worldVars, faults>>

\* bus.Publish(EventCreated)
SubmitPublish(j) ==
    /\ Alive
    /\ sub[j] = "created"
    /\ event' = [event EXCEPT ![j] = "queued"]
    /\ sub' = [sub EXCEPT ![j] = "send"]
    /\ UNCHANGED <<dbVars, queueVars, workerVars, hungup, delVars, sweepVars, snap,
                   worldVars, faults>>

\* Slip: no return after the send, so a job that was sent is failed as well.
SubmitSendFallsThrough(j) ==
    /\ Alive
    /\ sub[j] = "send"
    /\ ch' = IF up # "stopping" /\ HasRoom THEN Append(ch, j) ELSE ch
    /\ sub' = [sub EXCEPT ![j] = IF up = "stopping" THEN "end" ELSE "full"]
    /\ UNCHANGED <<dbVars, pending, running, workerVars, hungup, delVars, sweepVars,
                   busVars, worldVars, faults>>

\* The non-blocking send. Once queue.Stop has closed the channel a handler that
\* outlived http.Server.Shutdown panics here and net/http ends the request.
SubmitSend(j) ==
    /\ Alive
    /\ sub[j] = "send"
    /\ \/ /\ up # "stopping" /\ HasRoom
          /\ ch' = Append(ch, j)
          /\ sub' = [sub EXCEPT ![j] = "end"]
       \/ /\ up # "stopping" /\ ~HasRoom
          /\ sub' = [sub EXCEPT ![j] = "full"]
          /\ UNCHANGED ch
       \/ /\ up = "stopping"
          /\ sub' = [sub EXCEPT ![j] = "end"]
          /\ UNCHANGED ch
    /\ UNCHANGED <<dbVars, pending, running, workerVars, hungup, delVars, sweepVars,
                   busVars, worldVars, faults>>

\* Slip: the row of a refused job stays queued.
SubmitFailSilently(j) ==
    /\ Alive
    /\ sub[j] = "full"
    /\ sub' = [sub EXCEPT ![j] = "getFail"]
    /\ UNCHANGED <<dbVars, queueVars, workerVars, hungup, delVars, sweepVars,
                   busVars, worldVars, faults>>

\* The default branch: SetStatus(ctx, failed), whose error is discarded.
SubmitFail(j) ==
    /\ Alive
    /\ sub[j] = "full"
    /\ sub' = [sub EXCEPT ![j] = "getFail"]
    /\ \/ ~hungup[j] /\ StoreOk /\ row' = SetStatus(j, "failed")
       \/ StoreError(~hungup[j]) /\ UNCHANGED row
    /\ UNCHANGED <<metaVars, queueVars, workerVars, hungup, delVars, sweepVars,
                   busVars, worldVars>>

\* publishStatus, the Get: no row or an error ends it without an event.
SubmitGet(j) ==
    /\ Alive
    /\ sub[j] = "getFail"
    /\ \/ /\ ~hungup[j] /\ row[j] \in Present
          /\ StoreOk
          /\ snap' = [snap EXCEPT ![j] = row[j]]
          /\ sub' = [sub EXCEPT ![j] = "pubFail"]
       \/ /\ IF row[j] \in Present THEN StoreError(~hungup[j]) ELSE StoreOk
          /\ sub' = [sub EXCEPT ![j] = "end"]
          /\ UNCHANGED snap
    /\ UNCHANGED <<dbVars, queueVars, workerVars, hungup, delVars, sweepVars, event,
                   worldVars>>

\* publishStatus, the Publish
SubmitEmit(j) ==
    /\ Alive
    /\ sub[j] = "pubFail"
    /\ event' = [event EXCEPT ![j] = snap[j]]
    /\ snap' = [snap EXCEPT ![j] = "none"]
    /\ sub' = [sub EXCEPT ![j] = "end"]
    /\ UNCHANGED <<dbVars, queueVars, workerVars, hungup, delVars, sweepVars,
                   worldVars, faults>>

\* The client closes the connection while its request is in Submit: net/http
\* cancels r.Context().
HangUp(j) ==
    /\ Alive
    /\ j \in Flaky
    /\ sub[j] \in {"created", "send", "full", "getFail"}
    /\ ~hungup[j]
    /\ hungup' = [hungup EXCEPT ![j] = TRUE]
    /\ UNCHANGED <<dbVars, queueVars, workerVars, sub, delVars, sweepVars, busVars,
                   worldVars, faults>>

SubmitStep(j) == \/ SubmitPublish(j) \/ SubmitSend(j) \/ SubmitFail(j)
                 \/ SubmitGet(j) \/ SubmitEmit(j)

-----------------------------------------------------------------------------
(* Queue.Cancel, DELETE /api/jobs/{id}, and the retention sweeper *)

\* The contexts after calling the cancel func registered for job j, if any.
CancelRegistered(j) ==
    IF running[j] # None /\ wctx[running[j]] = "live"
    THEN [wctx EXCEPT ![running[j]] = "canceled"]
    ELSE wctx

\* POST /api/jobs/{id}/cancel, answered 202; the 409 changes nothing. The
\* handler's lookup may have found the row some time ago.
Cancel(j) ==
    /\ Alive
    /\ running[j] # None
    /\ wctx' = CancelRegistered(j)
    /\ UNCHANGED <<dbVars, queueVars, wpc, wjob, handlerVars, busVars, worldVars,
                   faults>>

\* handleDeleteJob: lookup
DeleteLookup(j) ==
    /\ Alive
    /\ j \in Deleting
    /\ del[j] = "idle"
    /\ row[j] \in Present
    /\ del' = [del EXCEPT ![j] = "found"]
    /\ dsnap' = [dsnap EXCEPT ![j] = output[j]]
    /\ UNCHANGED <<dbVars, queueVars, workerVars, subVars, sweepVars, busVars,
                   worldVars, faults>>

\* queue.Cancel, its ErrNotCancelable ignored
DeleteCancel(j) ==
    /\ Alive
    /\ del[j] = "found"
    /\ del' = [del EXCEPT ![j] = "canceled"]
    /\ wctx' = CancelRegistered(j)
    /\ UNCHANGED <<dbVars, queueVars, wpc, wjob, subVars, dsnap, sweepVars, busVars,
                   worldVars, faults>>

\* removeFile(job.OutputPath), the path as lookup read it
DeleteUnlink(j) ==
    /\ Alive
    /\ del[j] = "canceled"
    /\ del' = [del EXCEPT ![j] = "unlinked"]
    /\ file' = IF dsnap[j] THEN [file EXCEPT ![j] = FALSE] ELSE file
    /\ UNCHANGED <<dbVars, queueVars, workerVars, subVars, dsnap, sweepVars,
                   busVars, envVars, starts, faults>>

\* store.Delete. It fails without effect when the row is already gone, when the
\* client has hung up, or on a fault.
DeleteRow(j) ==
    /\ Alive
    /\ del[j] = "unlinked"
    /\ \/ /\ row[j] \in Present
          /\ row' = [row EXCEPT ![j] = "gone"]
          /\ del' = [del EXCEPT ![j] = "deleted"]
       \/ /\ del' = [del EXCEPT ![j] = "idle"]
          /\ UNCHANGED row
    /\ UNCHANGED <<metaVars, queueVars, workerVars, subVars, dsnap, sweepVars,
                   busVars, worldVars, faults>>

\* bus.Publish(EventDeleted)
DeletePublish(j) ==
    /\ Alive
    /\ del[j] = "deleted"
    /\ event' = [event EXCEPT ![j] = "gone"]
    /\ del' = [del EXCEPT ![j] = "idle"]
    /\ UNCHANGED <<dbVars, queueVars, workerVars, subVars, dsnap, sweepVars, snap,
                   worldVars, faults>>

DeleteStep(j) == \/ DeleteCancel(j) \/ DeleteUnlink(j) \/ DeleteRow(j)
                 \/ DeletePublish(j)

\* Sweeper.SweepOnce: Store.Expired. Which retention windows have passed is a
\* matter of time; the query does not look at the status.
SweepList(S) ==
    /\ up = "serving"
    /\ \A j \in Job : swp[j] = "idle"
    /\ S # {} /\ \A j \in S : row[j] \in Present
    /\ swp' = [j \in Job |-> IF j \in S THEN "listed" ELSE "idle"]
    /\ ssnap' = [j \in Job |-> j \in S /\ output[j]]
    /\ UNCHANGED <<dbVars, queueVars, workerVars, subVars, delVars, busVars,
                   worldVars, faults>>

\* Loop body, one job at a time: remove(j.OutputPath) ...
SweepUnlink(j) ==
    /\ Alive
    /\ swp[j] = "listed"
    /\ \A k \in Job : swp[k] \in {"idle", "listed"}
    /\ swp' = [swp EXCEPT ![j] = "unlinked"]
    /\ file' = IF ssnap[j] THEN [file EXCEPT ![j] = FALSE] ELSE file
    /\ UNCHANGED <<dbVars, queueVars, workerVars, subVars, delVars, ssnap, busVars,
                   envVars, starts, faults>>

\* ... store.Delete, which fails once SIGTERM has canceled the sweeper ...
SweepRow(j) ==
    /\ Alive
    /\ swp[j] = "unlinked"
    /\ \/ /\ up = "serving"
          /\ row[j] \in Present
          /\ StoreOk
          /\ row' = [row EXCEPT ![j] = "gone"]
          /\ swp' = [swp EXCEPT ![j] = "deleted"]
       \/ /\ IF row[j] \in Present THEN StoreError(up = "serving") ELSE StoreOk
          /\ swp' = [swp EXCEPT ![j] = "idle"]
          /\ UNCHANGED row
    /\ UNCHANGED <<metaVars, queueVars, workerVars, subVars, delVars, ssnap,
                   busVars, worldVars>>

\* ... and bus.Publish(EventDeleted).
SweepPublish(j) ==
    /\ Alive
    /\ swp[j] = "deleted"
    /\ event' = [event EXCEPT ![j] = "gone"]
    /\ swp' = [swp EXCEPT ![j] = "idle"]
    /\ UNCHANGED <<dbVars, queueVars, workerVars, subVars, delVars, ssnap, snap,
                   worldVars, faults>>

SweepStep(j) == SweepUnlink(j) \/ SweepRow(j) \/ SweepPublish(j)

-----------------------------------------------------------------------------
(* A worker: the loop of Queue.Start and Queue.execute *)

\* Slip: the id is read but not taken out of the channel.
DequeuePeeks(w) ==
    /\ Alive
    /\ wpc[w] = "idle"
    /\ ch # <<>>
    /\ wjob' = [wjob EXCEPT ![w] = Head(ch)]
    /\ wctx' = [wctx EXCEPT ![w] = IF up = "serving" THEN "live" ELSE "canceled"]
    /\ Goto(w, "load")
    /\ UNCHANGED <<dbVars, queueVars, handlerVars, busVars, worldVars, faults>>

\* case id := <-q.ch. The select may prefer it to ctx.Done after SIGTERM, and a
\* closed channel still delivers what it holds; the job's context is then born
\* canceled.
Dequeue(w) ==
    /\ Alive
    /\ wpc[w] = "idle"
    /\ ch # <<>>
    /\ ch' = Tail(ch)
    /\ wjob' = [wjob EXCEPT ![w] = Head(ch)]
    /\ wctx' = [wctx EXCEPT ![w] = IF up = "serving" THEN "live" ELSE "canceled"]
    /\ Goto(w, "load")
    /\ UNCHANGED <<dbVars, pending, running, handlerVars, busVars, worldVars,
                   faults>>

\* case <-ctx.Done(), or the channel closed and empty
WorkerExit(w) ==
    /\ up \in {"draining", "stopping"}
    /\ wpc[w] = "idle"
    /\ Goto(w, "exited")
    /\ UNCHANGED <<dbVars, queueVars, wjob, wctx, handlerVars, busVars, worldVars,
                   faults>>

\* Slip: a row that is gone is not noticed.
LoadUnchecked(w) ==
    /\ wpc[w] = "load"
    /\ Goto(w, "register")
    /\ UNCHANGED <<dbVars, queueVars, wjob, wctx, handlerVars, busVars, worldVars,
                   faults>>

\* store.Get. An error - row gone, context done, fault - abandons the job.
Load(w) ==
    /\ wpc[w] = "load"
    /\ LET found == wctx[w] = "live" /\ row[wjob[w]] \in Present IN
       \/ /\ found /\ StoreOk
          /\ Goto(w, "register")
          /\ UNCHANGED <<wjob, wctx>>
       \/ /\ StoreError(found)
          /\ Goto(w, "idle")
          /\ wjob' = [wjob EXCEPT ![w] = None]
          /\ wctx' = [wctx EXCEPT ![w] = "live"]
    /\ UNCHANGED <<dbVars, queueVars, handlerVars, busVars, worldVars>>

\* q.running[id] = cancel; from here on Cancel reaches the job and, with a
\* time limit, the timer runs.
Register(w) ==
    /\ wpc[w] = "register"
    /\ running' = [running EXCEPT ![wjob[w]] = w]
    /\ Goto(w, "mark")
    /\ UNCHANGED <<dbVars, ch, pending, wjob, wctx, handlerVars, busVars, worldVars,
                   faults>>

\* Slip: the row stays queued while the tool runs.
MarkRunningForgotten(w) ==
    /\ wpc[w] = "mark"
    /\ Goto(w, "getRun")
    /\ UNCHANGED <<dbVars, queueVars, wjob, wctx, handlerVars, busVars, worldVars,
                   faults>>

\* SetStatus(ctx, running); an error is only logged.
MarkRunning(w) ==
    /\ wpc[w] = "mark"
    /\ Goto(w, "getRun")
    /\ \/ wctx[w] = "live" /\ StoreOk /\ row' = SetStatus(wjob[w], "running")
       \/ StoreError(wctx[w] = "live") /\ UNCHANGED row
    /\ UNCHANGED <<metaVars, queueVars, wjob, wctx, handlerVars, busVars,
                   worldVars>>

\* publishStatus, the Get of a worker at pc from: on to the Publish, or past it.
PublishGet(w, from, publish, skip, live) ==
    /\ wpc[w] = from
    /\ LET found == live /\ row[wjob[w]] \in Present IN
       \/ /\ found /\ StoreOk
          /\ snap' = [snap EXCEPT ![wjob[w]] = row[wjob[w]]]
          /\ Goto(w, publish)
       \/ /\ StoreError(found)
          /\ Goto(w, skip)
          /\ UNCHANGED snap
    /\ UNCHANGED <<dbVars, queueVars, wjob, wctx, handlerVars, event, worldVars>>

\* publishStatus, the Publish
PublishEmit(w, from, next) ==
    /\ wpc[w] = from
    /\ event' = [event EXCEPT ![wjob[w]] = snap[wjob[w]]]
    /\ snap' = [snap EXCEPT ![wjob[w]] = "none"]
    /\ Goto(w, next)
    /\ UNCHANGED <<dbVars, queueVars, wjob, wctx, handlerVars, worldVars, faults>>

GetRunning(w)  == PublishGet(w, "getRun", "pubRun", "start", wctx[w] = "live")
EmitRunning(w) == PublishEmit(w, "pubRun", "start")

\* runner.Run begins. exec.Cmd.Start refuses to start under a done context.
RunnerStart(w) ==
    /\ wpc[w] = "start"
    /\ \/ /\ wctx[w] = "live"
          /\ starts' = [starts EXCEPT ![wjob[w]] = @ + 1]
          /\ Goto(w, "exec")
       \/ /\ wctx[w] # "live"
          /\ Goto(w, "runErr")
          /\ UNCHANGED starts
    /\ UNCHANGED <<dbVars, queueVars, wjob, wctx, handlerVars, busVars, envVars,
                   file, faults>>

\* runner.Run returns an error: the tool failed, or was killed with its context.
RunnerFails(w) ==
    /\ wpc[w] = "exec"
    /\ Goto(w, "runErr")
    /\ UNCHANGED <<dbVars, queueVars, wjob, wctx, handlerVars, busVars, worldVars,
                   faults>>

\* runner.Run returns a result. The context may be done by now: the tool had
\* finished. Whether the promised file is really there is up to the tool.
RunnerSucceeds(w) ==
    /\ wpc[w] = "exec"
    /\ \E made \in BOOLEAN : file' = [file EXCEPT ![wjob[w]] = made]
    /\ Goto(w, "runOk")
    /\ UNCHANGED <<dbVars, queueVars, wjob, wctx, handlerVars, busVars, envVars,
                   starts, faults>>

\* runErr # nil: a time-out is a failure, any other end of the context a cancel.
RecordError(w) ==
    /\ wpc[w] = "runErr"
    /\ Goto(w, "getFin")
    /\ LET s == IF wctx[w] = "canceled" THEN "canceled" ELSE "failed" IN
       \/ StoreOk /\ row' = SetStatus(wjob[w], s)
       \/ StoreFault /\ UNCHANGED row
    /\ UNCHANGED <<metaVars, queueVars, wjob, wctx, handlerVars, busVars,
                   worldVars>>

\* Slip: the output file is not looked for.
RecordOutputUnchecked(w) ==
    /\ wpc[w] = "runOk"
    /\ Goto(w, "setDone")
    /\ output' = [output EXCEPT ![wjob[w]] = row[wjob[w]] \in Present]
    /\ UNCHANGED <<row, created, lastCreated, queueVars, wjob, wctx, handlerVars,
                   busVars, worldVars, faults>>

\* os.Stat(res.OutputPath), then SetOutput (and SetProgress) or "output missing"
RecordOutput(w) ==
    /\ wpc[w] = "runOk"
    /\ \/ /\ file[wjob[w]]
          /\ Goto(w, "setDone")
          /\ \/ /\ StoreOk
                /\ output' = [output EXCEPT ![wjob[w]] = row[wjob[w]] \in Present]
             \/ StoreFault /\ UNCHANGED output
          /\ UNCHANGED row
       \/ /\ ~file[wjob[w]]
          /\ Goto(w, "getFin")
          /\ \/ StoreOk /\ row' = SetStatus(wjob[w], "failed")
             \/ StoreFault /\ UNCHANGED row
          /\ UNCHANGED output
    /\ UNCHANGED <<created, lastCreated, queueVars, wjob, wctx, handlerVars,
                   busVars, worldVars>>

\* SetStatus(fin, done)
RecordDone(w) ==
    /\ wpc[w] = "setDone"
    /\ Goto(w, "getFin")
    /\ \/ StoreOk /\ row' = SetStatus(wjob[w], "done")
       \/ StoreFault /\ UNCHANGED row
    /\ UNCHANGED <<metaVars, queueVars, wjob, wctx, handlerVars, busVars,
                   worldVars>>

\* Slip: the final publishStatus uses the job's own context.
GetFinalAttached(w) ==
    PublishGet(w, "getFin", "pubFin", "unregister", wctx[w] = "live")

\* The final publishStatus uses the detached context.
GetFinal(w)  == PublishGet(w, "getFin", "pubFin", "unregister", TRUE)
EmitFinal(w) == PublishEmit(w, "pubFin", "unregister")

\* Slip: the cancel func stays in the map.
UnregisterForgotten(w) ==
    /\ wpc[w] = "unregister"
    /\ wjob' = [wjob EXCEPT ![w] = None]
    /\ wctx' = [wctx EXCEPT ![w] = "live"]
    /\ Goto(w, "idle")
    /\ UNCHANGED <<dbVars, queueVars, handlerVars, busVars, worldVars, faults>>

\* The deferred delete(q.running, id)
Unregister(w) ==
    /\ wpc[w] = "unregister"
    /\ running' = [running EXCEPT ![wjob[w]] = None]
    /\ wjob' = [wjob EXCEPT ![w] = None]
    /\ wctx' = [wctx EXCEPT ![w] = "live"]
    /\ Goto(w, "idle")
    /\ UNCHANGED <<dbVars, ch, pending, handlerVars, busVars, worldVars, faults>>

\* context.WithTimeoutCause fires; after runErr nobody looks at the context.
Timeout(w) ==
    /\ TimeLimit
    /\ wpc[w] \in {"mark", "getRun", "pubRun", "start", "exec", "runErr"}
    /\ wctx[w] = "live"
    /\ wctx' = [wctx EXCEPT ![w] = "timedout"]
    /\ UNCHANGED <<dbVars, queueVars, wpc, wjob, handlerVars, busVars, worldVars,
                   faults>>

\* What a worker does by itself once it has a job; the tool's own result apart.
WorkerStep(w) ==
    \/ Load(w) \/ Register(w) \/ MarkRunning(w) \/ GetRunning(w) \/ EmitRunning(w)
    \/ RunnerStart(w) \/ RecordError(w) \/ RecordOutput(w) \/ RecordDone(w)
    \/ GetFinal(w) \/ EmitFinal(w) \/ Unregister(w)

-----------------------------------------------------------------------------
(* The end of the process *)

\* Slip: the workers run on context.Background.
SigtermDetached ==
    /\ up = "serving"
    /\ stops < MaxStops
    /\ stops' = stops + 1
    /\ up' = "draining"
    /\ UNCHANGED <<dbVars, queueVars, workerVars, handlerVars, busVars, file, starts,
                   faults>>

\* signal.NotifyContext cancels the context every worker's context derives from.
Sigterm ==
    /\ up = "serving"
    /\ stops < MaxStops
    /\ stops' = stops + 1
    /\ up' = "draining"
    /\ wctx' = [w \in Worker |->
                   IF wpc[w] # "idle" /\ wctx[w] = "live" THEN "canceled" ELSE wctx[w]]
    /\ UNCHANGED <<dbVars, queueVars, wpc, wjob, handlerVars, busVars, file, starts,
                   faults>>

\* srv.Shutdown has returned, with every handler finished or after 20 seconds;
\* queue.Stop closes the channel.
CloseQueue ==
    /\ up = "draining"
    /\ up' = "stopping"
    /\ UNCHANGED <<dbVars, queueVars, workerVars, handlerVars, busVars, stops, file,
                   starts, faults>>

\* Only the table and the files survive the process.
Down ==
    /\ up' = "down"
    /\ ch' = <<>>
    /\ pending' = {}
    /\ running' = [j \in Job |-> None]
    /\ wpc' = [w \in Worker |-> "exited"]
    /\ wjob' = [w \in Worker |-> None]
    /\ wctx' = [w \in Worker |-> "live"]
    /\ sub' = [j \in Job |-> IF sub[j] = "new" THEN "new" ELSE "end"]
    /\ hungup' = [j \in Job |-> FALSE]
    /\ del' = [j \in Job |-> "idle"]
    /\ dsnap' = [j \in Job |-> FALSE]
    /\ swp' = [j \in Job |-> "idle"]
    /\ ssnap' = [j \in Job |-> FALSE]
    /\ snap' = [j \in Job |-> "none"]
    /\ UNCHANGED <<dbVars, event, file, starts, faults>>

\* queue.Stop's wg.Wait returns and run() with it.
ProcessExit ==
    /\ up = "stopping"
    /\ \A w \in Worker : wpc[w] = "exited"
    /\ Down
    /\ UNCHANGED stops

\* SIGKILL, an OOM kill or an error return of run(). What was committed stays; a
\* power cut, which may take the last commits with it (synchronous = NORMAL), is
\* not modelled.
Crash ==
    /\ up # "down"
    /\ stops < MaxStops
    /\ stops' = stops + 1
    /\ Down

-----------------------------------------------------------------------------
(* The specification *)

JobNext(j) == \/ SubmitCreate(j) \/ SubmitStep(j) \/ HangUp(j)
              \/ Cancel(j) \/ DeleteLookup(j) \/ DeleteStep(j) \/ SweepStep(j)

WorkerNext(w) == \/ Dequeue(w) \/ WorkerExit(w) \/ WorkerStep(w)
                 \/ RunnerFails(w) \/ RunnerSucceeds(w) \/ Timeout(w)

Next ==
    \/ Boot
    \/ \E j \in Job : JobNext(j)
    \/ \E S \in SUBSET Expiring : SweepList(S)
    \/ \E w \in Worker : WorkerNext(w)
    \/ Sigterm \/ CloseQueue \/ ProcessExit \/ Crash

Spec == Init /\ [][Next]_vars

=============================================================================
