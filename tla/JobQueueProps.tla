--------------------------- MODULE JobQueueProps ----------------------------
(***************************************************************************)
(* What makes the job queue correct.  faults = 0 in a property means: as   *)
(* long as no store call has failed on a live context.                     *)
(***************************************************************************)
EXTENDS JobQueue

Held(j) == \E w \in Worker : wjob[w] = j

\* Requests that have created the row of j and not yet sent or failed it.
Submitting(j) == sub[j] \in {"created", "send", "full"}

\* The span of execute in which the row says running.
InRun == {"getRun", "pubRun", "start", "exec", "runErr", "runOk", "setDone"}

-----------------------------------------------------------------------------
(* Safety *)

\* A job id is in one place: once in the channel, or with one worker, or in
\* Resume's list, or with its submitter. Two copies would let two workers
\* execute one job (Queue.Submit, Resume and the receive in Start).
OneHolder ==
    /\ \A i, k \in 1..Len(ch) : ch[i] = ch[k] => i = k
    /\ \A w, v \in Worker : wjob[w] = wjob[v] /\ wjob[w] # None => w = v
    /\ \A j \in Job : Held(j) => ~InCh(j)
    /\ \A j \in pending : ~Held(j) /\ ~InCh(j)
    /\ \A j \in Job : sub[j] \notin {"new", "end"} => ~Held(j) /\ ~InCh(j)

\* Queue.running holds exactly the executions between registration and the
\* deferred delete, each under its own job: Cancel can neither miss a running
\* job nor hit the job a worker has moved on to.
RegistryExact ==
    \A j \in Job, w \in Worker :
        running[j] = w <=> wjob[w] = j /\ wpc[w] \in Registered

\* While the server runs, a queued row has somebody who will take care of it:
\* the channel, a worker, Resume or its submitter. The exception is a submitter
\* whose client hung up (see FullQueueIsVisible).
QueueHeld ==
    up \in {"resume", "serving"} =>
        \A j \in Job : row[j] = "queued" /\ ~hungup[j] =>
            InCh(j) \/ Held(j) \/ j \in pending \/ Submitting(j)
QueuedIsHeld == faults = 0 => QueueHeld

\* A row says running only while a worker is executing the job, from the first
\* moment after a boot's FailInterrupted on: no job is stuck in running.
RunHeld ==
    up # "down" =>
        \A j \in Job : row[j] = "running" =>
            \E w \in Worker : wjob[w] = j /\ wpc[w] \in InRun
RunningIsHeld == faults = 0 => RunHeld

\* Crashes, restarts and re-enqueueing included, the external tool of a job is
\* started at most once: execute marks the row running before runner.Run, and
\* Resume only takes queued rows.
Once == \A j \in Job : starts[j] <= 1
RunsAtMostOnce == faults = 0 => Once

\* Resume fills the channel oldest job first, so when the buffer is too small
\* it is the newest jobs that are failed (ORDER BY created_at, rowid).
ResumeOldestFirst ==
    up = "resume" =>
        /\ \A i, k \in 1..Len(ch) : i < k => created[ch[i]] < created[ch[k]]
        /\ \A i \in 1..Len(ch), j \in pending : created[ch[i]] < created[j]

\* A job reported done has its output recorded, and the file is there unless
\* somebody set out to delete it.
DoneHasOutput ==
    faults = 0 => \A j \in Job : row[j] = "done" =>
        output[j] /\ (j \in Deleting \union Expiring \/ file[j])

\* When nothing is in progress for a job, the last event published for it
\* carries the status its row has: nobody who received every event shows an
\* outdated status. (A submitter that hung up may have skipped its event.)
EventsConverge ==
    faults = 0 /\ up = "serving" =>
        \A j \in Job :
            /\ row[j] \in Present /\ ~hungup[j]
            /\ ~Held(j) /\ sub[j] \in {"new", "end"}
            => event[j] = row[j]

-----------------------------------------------------------------------------
(* The inductive invariant behind these properties, in parts *)

\* A worker has a job exactly inside execute.
WorkerShape ==
    \A w \in Worker : wjob[w] = None <=> wpc[w] \in {"idle", "exited"}

\* Nothing happens while the process is down or booting, and Resume's list
\* exists only there.
PhaseShape ==
    /\ ~Alive => /\ \A w \in Worker : wpc[w] = "exited"
                 /\ \A j \in Job : sub[j] \in {"new", "end"}
    /\ up \in {"down", "boot"} => ch = <<>>
    /\ up # "resume" => pending = {}

\* An id that has left its submitter is not handed out again.
Submitted ==
    \A j \in Job :
        /\ InCh(j) \/ Held(j) \/ j \in pending => sub[j] = "end"
        /\ sub[j] = "new" <=> row[j] = "none"

\* The order of the rows is the order of their creation.
CreationOrder ==
    \A j \in Job : sub[j] # "new" =>
        /\ created[j] <= lastCreated
        /\ \A k \in Job : sub[k] # "new" /\ created[j] = created[k] => j = k

\* While serving, a context cannot end before Cancel can find it.
LiveUntilRegistered ==
    up = "serving" =>
        \A w \in Worker : wpc[w] \in Unregistered => wctx[w] = "live"

\* Where the ids are.
Structure ==
    /\ WorkerShape
    /\ PhaseShape
    /\ Submitted
    /\ OneHolder
    /\ RegistryExact
    /\ CreationOrder
    /\ ResumeOldestFirst
    /\ LiveUntilRegistered

\* What waits has not been started.
Waiting ==
    \A j \in Job : InCh(j) \/ j \in pending \/ Submitting(j) =>
        row[j] \in {"queued", "gone"}

\* What the row and the history of a job look like at each point of execute: a
\* row can still be queued after MarkRunning, but only under a dead context, and
\* then the tool is not started.
ExecuteStatus(w, j) ==
    /\ wpc[w] \in {"load", "register", "mark"} => row[j] \in {"queued", "gone"}
    /\ wpc[w] \in {"register", "mark", "getRun", "pubRun", "start"} => starts[j] = 0
    /\ wpc[w] \in InRun => row[j] \in {"queued", "running", "gone"}
    /\ wpc[w] \in InRun /\ row[j] = "queued" =>
            wctx[w] # "live" /\ wpc[w] \in {"getRun", "pubRun", "start", "runErr"}
    /\ wpc[w] \in {"exec", "runOk", "setDone"} => starts[j] = 1
    /\ wpc[w] \in Registered \ (InRun \union {"mark"}) =>
            row[j] \in Terminal \union {"gone"}
Executing == \A w \in Worker : wjob[w] # None => ExecuteStatus(w, wjob[w])

NeverRun == \A j \in Job : row[j] \in {"none", "queued"} => starts[j] = 0

\* What has happened to the jobs, as long as the store has not failed.
History == Waiting /\ Executing /\ NeverRun /\ Once /\ RunHeld /\ QueueHeld

\* The inductive invariant: the ids are where they belong, whatever fails; and
\* rows and tool starts agree with that as long as the store has not failed.
IInv == TypeOK /\ Structure /\ (faults = 0 => History)

\* Deletions are of jobs somebody set out to delete, and are announced only once
\* the row is gone.
Claims ==
    \A j \in Job :
        /\ del[j] # "idle" => j \in Deleting
        /\ swp[j] # "idle" => j \in Expiring
        /\ del[j] = "deleted" \/ swp[j] = "deleted" => row[j] = "gone"

\* The output of j is recorded, and on disk unless somebody deletes it.
HasOutput(j) == output[j] /\ (j \in Deleting \union Expiring \/ file[j])

\* The output is recorded before the row can become done, and stays.
Results ==
    /\ \A j \in Job : row[j] = "done" => HasOutput(j)
    /\ \A w \in Worker : wpc[w] = "setDone" /\ row[wjob[w]] \in Present =>
            HasOutput(wjob[w])

\* What has been read or published for a job whose submitter or worker is about
\* to let go of it: nothing else can change the row any more but to delete it.
Announced(j) ==
    /\ sub[j] = "send" => event[j] = "queued"
    /\ sub[j] = "pubFail" => snap[j] = row[j]
    /\ ~Held(j) /\ sub[j] \in {"new", "end"} => event[j] = row[j]
    /\ \A w \in Worker : wjob[w] = j =>
        /\ wpc[w] = "pubFin" => snap[j] = row[j]
        /\ wpc[w] = "unregister" => event[j] = row[j]
News ==
    up = "serving" =>
        \A j \in Job : row[j] \in Present /\ ~hungup[j] => Announced(j)

\* IInv with what clients are told: files and events.
ReportInv == IInv /\ Claims /\ (faults = 0 => Results /\ News)

-----------------------------------------------------------------------------
(* Behaviour over time *)

\* The row of j went before any worker had loaded the job.
NeverLoaded(j) ==
    /\ row[j] = "gone" /\ starts[j] = 0
    /\ \A w \in Worker : wjob[w] = j => wpc[w] = "load"

\* The docs tell users to delete a queued job instead of canceling it: once the
\* row is gone before a worker has loaded the job, it stays that way and the tool
\* never starts, although the id is still in the channel.
DeletedWhileQueuedNeverRuns ==
    [][\A j \in Job : NeverLoaded(j) => NeverLoaded(j)']_vars

Lifecycle == INSTANCE JobLifecycle WITH status <- row

\* The queue implements the abstract job life cycle: without store faults every
\* step of every actor is a legal step of the job, or none.
ImplementsLifecycle == Lifecycle!Spec

\* Fairness. Goroutines that can run do run; the job timer fires; a tool whose
\* context is done is killed (exec.Cmd.WaitDelay) and Run returns; the container
\* is restarted. A tool with a live context may take forever, and nothing makes
\* clients send requests.
Fairness ==
    /\ WF_vars(Boot) /\ WF_vars(CloseQueue) /\ WF_vars(ProcessExit)
    /\ \A j \in Job : WF_vars(SubmitStep(j)) /\ WF_vars(DeleteStep(j))
                      /\ WF_vars(SweepStep(j))
    /\ \A w \in Worker :
        /\ WF_vars(Dequeue(w) \/ WorkerExit(w))
        /\ WF_vars(WorkerStep(w))
        /\ WF_vars(Timeout(w))
        /\ WF_vars(wctx[w] # "live" /\ (RunnerFails(w) \/ RunnerSucceeds(w)))

FairSpec == Spec /\ Fairness

\* With a time limit every job that is created settles or is deleted, across
\* crashes and restarts, unless its client hangs up on a full queue.
JobsSettle ==
    \A j \in Job :
        row[j] = "queued" ~> row[j] \in Terminal \union {"gone"} \/ hungup[j]

\* SIGTERM ends the process: workers unwind and queue.Stop returns.
ShutdownCompletes == up = "draining" ~> up = "down"

-----------------------------------------------------------------------------
(* A statement of a comment that the code does not live up to *)

\* queue.go, Submit: "The job is created even if the queue is full so the
\* failure is visible in the UI." The row of a refused job is failed, hence no
\* queued row is left that nobody will ever pick up.
FullQueueIsVisible ==
    up = "serving" =>
        \A j \in Job : row[j] = "queued" =>
            InCh(j) \/ Held(j) \/ Submitting(j)

=============================================================================
