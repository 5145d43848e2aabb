------------------------------ MODULE JobFeed ------------------------------
(***************************************************************************)
(* What a browser tab shows of the jobs: the event bus (jobs/bus.go), the  *)
(* event stream (api/events.go), the list endpoint, and the part of        *)
(* frontend/app.js that merges list responses, events and the answers to   *)
(* its own requests into one list.                                         *)
(*                                                                         *)
(* The server is reduced to what reaches the browser: the status of every  *)
(* row and the steps between changing a row and publishing the change.     *)
(* JobQueue has the rest; done, failed and canceled are one status here,   *)
(* "settled", as they have one rank in app.js.  A subscriber's channel and *)
(* the socket after it are one FIFO, buf.  Progress events touch no status *)
(* and are left out, and so is the limit of 500 rows in a list response.   *)
(*                                                                         *)
(* A definition marked "Slip" is a plausible mistake in the code modelled  *)
(* by the definition after it; no action uses it.                          *)
(***************************************************************************)
EXTENDS Naturals, Sequences

CONSTANTS
    Job,          \* job ids
    Own,          \* jobs submitted from this browser
    Deletable,    \* jobs that somebody deletes, or that expire
    Buffer        \* capacity of a subscriber's channel (64 in Bus.Subscribe)

ASSUME ConstantsAssumption ==
    Own \subseteq Job /\ Deletable \subseteq Job /\ Buffer \in Nat \ {0}

VARIABLES
    row,          \* the jobs table: "none" before the INSERT, "gone" after the DELETE
    sub,          \* how far Submit and then execute have got with the job
    wpc,          \* where the publishStatus of the job stands: idle, get, pub
    wsnap,        \* the status that publishStatus has read
    dpub,         \* deleted by another client or the sweeper, not yet published
    conn,         \* the EventSource: see Link
    buf,          \* events on their way to the browser
    everLinked,   \* has a stream ever opened?
    boot,         \* is bootstrap still awaiting its first loadJobs?
    load,         \* the newest loadJobs: idle, sent or answered; older ones are
                  \* retired by jobsSeq
    lsnap,        \* the list in its answer
    resp,         \* jobs whose create response is on its way to this browser
    del,          \* where this browser's DELETE of the job stands
    shown,        \* the status shown for each job, or "absent"
    tomb,         \* recentlyDeleted
    dropped,      \* history: jobs the browser has dropped as deleted
    cover,        \* history: jobs of which every change since the list was read
                  \* has its event still to be received
    synced,       \* history: jobs shown from such a list, or from an event of this
                  \* stream, of which no event was lost since
    promised      \* history: rows that existed when the stream reopened, to be
                  \* picked up by the reload

serverVars  == <<row, sub, wpc, wsnap, dpub>>
linkVars    == <<conn, buf, everLinked, boot>>
listVars    == <<load, lsnap>>
requestVars == <<resp, del>>
viewVars    == <<shown, tomb>>
historyVars == <<dropped, cover, synced, promised>>

vars == <<serverVars, linkVars, listVars, requestVars, viewVars, historyVars>>

-----------------------------------------------------------------------------
(* Value sets *)

Status == {"queued", "running", "settled"}
Rank == [s \in Status |-> CASE s = "queued"  -> 0
                            [] s = "running" -> 1
                            [] s = "settled" -> 2]

\* accepted: in the channel; refused: it was full; started: execute has marked the
\* row running; over: execute has ended, or nobody will ever take the job.
Phase == {"new", "created", "announced", "accepted", "refused", "started", "over"}

\* A status carried by created and status events; "deleted" by deleted events.
Event == [job : Job, what : Status \union {"deleted"}]

\* none: not connected yet; connecting: requested; subscribed: handleEvents has
\* subscribed, the headers are on their way; retry: reconnect timer set.
Link == {"none", "connecting", "subscribed", "open", "retry"}
Subscribed == conn \in {"subscribed", "open"}

\* The events that this browser will still receive.
InFlight == {buf[i] : i \in 1..Len(buf)}

Listing == [Job -> Status \union {"absent"}]
Listed == [j \in Job |-> IF row[j] \in Status THEN row[j] ELSE "absent"]
NoList == [j \in Job |-> "absent"]

TypeOK ==
    /\ row \in [Job -> Status \union {"none", "gone"}]
    /\ sub \in [Job -> Phase]
    /\ wpc \in [Job -> {"idle", "get", "pub"}]
    /\ wsnap \in [Job -> Status]
    /\ dpub \in SUBSET Job
    /\ conn \in Link
    /\ buf \in Seq(Event) /\ Len(buf) <= Buffer
    /\ everLinked \in BOOLEAN /\ boot \in BOOLEAN
    /\ load \in {"idle", "sent", "answered"}
    /\ lsnap \in Listing
    /\ resp \in SUBSET Job
    /\ del \in [Job -> {"idle", "sent", "publish", "answered"}]
    /\ shown \in Listing
    /\ tomb \in SUBSET Job
    /\ dropped \in SUBSET Job
    /\ cover \in SUBSET Job /\ synced \in SUBSET Job
    /\ promised \in SUBSET Job

\* bootstrap has fetched the presets and called loadJobs.
Init ==
    /\ row = [j \in Job |-> "none"]
    /\ sub = [j \in Job |-> "new"]
    /\ wpc = [j \in Job |-> "idle"]
    /\ wsnap = [j \in Job |-> "queued"]
    /\ dpub = {}
    /\ conn = "none" /\ buf = <<>>
    /\ everLinked = FALSE /\ boot = TRUE
    /\ load = "sent" /\ lsnap = NoList
    /\ resp = {}
    /\ del = [j \in Job |-> "idle"]
    /\ shown = NoList
    /\ tomb = {}
    /\ dropped = {} /\ cover = {} /\ synced = {} /\ promised = {}

-----------------------------------------------------------------------------
(* The bus *)

\* Slip: the send blocks instead of dropping, modelled as an unbounded buffer.
PublishUnbounded(j, what) ==
    /\ buf' = IF Subscribed THEN Append(buf, [job |-> j, what |-> what]) ELSE buf
    /\ UNCHANGED <<cover, synced>>

\* This browser is not told of a change of j.
Missed(j) == cover' = cover \ {j} /\ synced' = synced \ {j}

\* Bus.Publish: without a subscriber nothing happens, a full buffer drops.
Publish(j, what) ==
    \/ /\ Subscribed /\ Len(buf) < Buffer
       /\ buf' = Append(buf, [job |-> j, what |-> what])
       /\ synced' = synced \union {j}
       /\ UNCHANGED cover
    \/ /\ ~Subscribed
       /\ UNCHANGED <<buf, cover, synced>>
    \/ /\ Subscribed /\ Len(buf) = Buffer
       /\ Missed(j)
       /\ UNCHANGED buf

-----------------------------------------------------------------------------
(* The server *)

\* Submit: Create, then Publish(EventCreated), then the send.
Create(j) ==
    /\ sub[j] = "new"
    /\ sub' = [sub EXCEPT ![j] = "created"]
    /\ row' = [row EXCEPT ![j] = "queued"]
    /\ UNCHANGED <<wpc, wsnap, dpub, linkVars, listVars, requestVars, viewVars,
                   historyVars>>

PublishCreated(j) ==
    /\ sub[j] = "created"
    /\ sub' = [sub EXCEPT ![j] = "announced"]
    /\ Publish(j, "queued")
    /\ UNCHANGED <<row, wpc, wsnap, dpub, conn, everLinked, boot, listVars,
                   requestVars, viewVars, dropped, promised>>

\* The job is in the channel; the answer goes to this browser if it asked.
Accept(j) ==
    /\ sub[j] = "announced"
    /\ sub' = [sub EXCEPT ![j] = "accepted"]
    /\ resp' = IF j \in Own THEN resp \union {j} ELSE resp
    /\ UNCHANGED <<row, wpc, wsnap, dpub, linkVars, listVars, del, viewVars,
                   historyVars>>

\* The channel is full: SetStatus(failed), publishStatus, an error answer.  Both
\* calls get the request's context: after a hang-up the UPDATE is refused too.
Refuse(j) ==
    /\ sub[j] = "announced"
    /\ sub' = [sub EXCEPT ![j] = "refused"]
    /\ \/ row[j] = "queued" /\ row' = [row EXCEPT ![j] = "settled"]
       \/ UNCHANGED row
    /\ wpc' = [wpc EXCEPT ![j] = "get"]
    /\ UNCHANGED <<wsnap, dpub, linkVars, listVars, requestVars, viewVars,
                   historyVars>>

\* execute: SetStatus(running), or failed without a runner.  The job's context may
\* be done, or the store fail: the error is logged and the job goes on.
Start(j) ==
    /\ sub[j] = "accepted" /\ wpc[j] = "idle" /\ row[j] = "queued"
    /\ sub' = [sub EXCEPT ![j] = "started"]
    /\ \/ \E s \in {"running", "settled"} : row' = [row EXCEPT ![j] = s]
       \/ UNCHANGED row
    /\ wpc' = [wpc EXCEPT ![j] = "get"]
    /\ UNCHANGED <<wsnap, dpub, linkVars, listVars, requestVars, viewVars,
                   historyVars>>

\* The last SetStatus of execute; its context is detached, the store may still fail.
Finish(j) ==
    /\ sub[j] = "started" /\ wpc[j] = "idle" /\ row[j] \in {"queued", "running"}
    /\ sub' = [sub EXCEPT ![j] = "over"]
    /\ \/ row' = [row EXCEPT ![j] = "settled"]
       \/ UNCHANGED row
    /\ wpc' = [wpc EXCEPT ![j] = "get"]
    /\ UNCHANGED <<wsnap, dpub, linkVars, listVars, requestVars, viewVars,
                   historyVars>>

\* publishStatus: store.Get, then Publish.  It returns without a word when the row
\* is gone, the context is done or the store fails.
GetStatus(j) ==
    /\ wpc[j] = "get"
    /\ \/ /\ wpc' = [wpc EXCEPT ![j] = "idle"]
          /\ Missed(j)
          /\ UNCHANGED wsnap
       \/ /\ row[j] \in Status
          /\ wpc' = [wpc EXCEPT ![j] = "pub"]
          /\ wsnap' = [wsnap EXCEPT ![j] = row[j]]
          /\ UNCHANGED <<cover, synced>>
    /\ UNCHANGED <<row, sub, dpub, linkVars, listVars, requestVars, viewVars,
                   dropped, promised>>

PublishStatus(j) ==
    /\ wpc[j] = "pub"
    /\ wpc' = [wpc EXCEPT ![j] = "idle"]
    /\ Publish(j, wsnap[j])
    /\ wsnap' = [wsnap EXCEPT ![j] = "queued"]
    /\ UNCHANGED <<row, sub, dpub, conn, everLinked, boot, listVars, requestVars,
                   viewVars, dropped, promised>>

\* store.Delete on behalf of another client or of SweepOnce, then the event.
DeleteElsewhere(j) ==
    /\ j \in Deletable /\ row[j] \in Status
    /\ row' = [row EXCEPT ![j] = "gone"]
    /\ dpub' = dpub \union {j}
    /\ UNCHANGED <<sub, wpc, wsnap, linkVars, listVars, requestVars, viewVars,
                   historyVars>>

PublishDeleted(j) ==
    /\ j \in dpub
    /\ dpub' = dpub \ {j}
    /\ Publish(j, "deleted")
    /\ UNCHANGED <<row, sub, wpc, wsnap, conn, everLinked, boot, listVars,
                   requestVars, viewVars, dropped, promised>>

\* handleDeleteJob for this browser: 404 for a row that is gone, else
\* store.Delete, Publish(EventDeleted) and the answer.
ServeDelete(j) ==
    /\ del[j] = "sent"
    /\ \/ /\ row[j] = "gone"
          /\ del' = [del EXCEPT ![j] = "answered"]
          /\ UNCHANGED row
       \/ /\ row[j] \in Status
          /\ row' = [row EXCEPT ![j] = "gone"]
          /\ del' = [del EXCEPT ![j] = "publish"]
    /\ UNCHANGED <<sub, wpc, wsnap, dpub, linkVars, listVars, resp, viewVars,
                   historyVars>>

AnswerDelete(j) ==
    /\ del[j] = "publish"
    /\ del' = [del EXCEPT ![j] = "answered"]
    /\ Publish(j, "deleted")
    /\ UNCHANGED <<serverVars, conn, everLinked, boot, listVars, resp, viewVars,
                   dropped, promised>>

\* handleListJobs: one SELECT.
ServeList ==
    /\ load = "sent"
    /\ load' = "answered"
    /\ lsnap' = Listed
    /\ cover' = IF Subscribed THEN Job ELSE {}
    /\ UNCHANGED <<serverVars, linkVars, requestVars, viewVars, dropped, synced,
                   promised>>

\* handleEvents subscribes before it sends the first bytes.
Subscribe ==
    /\ conn = "connecting"
    /\ conn' = "subscribed"
    /\ UNCHANGED <<serverVars, buf, everLinked, boot, listVars, requestVars,
                   viewVars, historyVars>>

\* What a tab loses with its stream.
Unlink == buf' = <<>> /\ cover' = {} /\ synced' = {} /\ promised' = {}

\* The process ends and the next one has booted: FailInterrupted, and Resume puts
\* the queued jobs into the channel and fails those that do not fit, all before
\* anybody can subscribe.
Restart ==
    /\ \E fit \in SUBSET {j \in Job : row[j] = "queued"} :
          /\ row' = [j \in Job |-> IF row[j] \in {"queued", "running"} /\ j \notin fit
                                   THEN "settled" ELSE row[j]]
          /\ sub' = [j \in Job |-> CASE sub[j] = "new" -> "new"
                                     [] sub[j] # "new" /\ j \in fit -> "accepted"
                                     [] OTHER -> "over"]
    /\ wpc' = [j \in Job |-> "idle"]
    /\ wsnap' = [j \in Job |-> "queued"]
    /\ dpub' = {}
    /\ del' = [j \in Job |-> IF del[j] = "answered" THEN "answered" ELSE "idle"]
    /\ load' = IF load = "sent" THEN "idle" ELSE load
    /\ conn' = IF conn = "none" THEN "none" ELSE "retry"
    /\ Unlink
    /\ UNCHANGED <<everLinked, boot, lsnap, resp, viewVars, dropped>>

-----------------------------------------------------------------------------
(* The browser *)

\* Slip: upsertJob without the comparison of ranks.
UpsertAnyRank(j, s) ==
    shown' = IF j \in tomb THEN shown ELSE [shown EXCEPT ![j] = s]

\* upsertJob: not for a tombstone, and never back in rank.
UpsertJob(j, s) ==
    shown' = IF j \in tomb \/ (shown[j] # "absent" /\ Rank[s] < Rank[shown[j]])
             THEN shown
             ELSE [shown EXCEPT ![j] = s]

\* Slip: dropJob without a tombstone.
DropWithoutTombstone(j) ==
    /\ shown' = [shown EXCEPT ![j] = "absent"]
    /\ load' = "idle" /\ lsnap' = NoList /\ cover' = {}
    /\ dropped' = dropped \union {j}
    /\ UNCHANGED tomb

\* dropJob: tombstone, and jobsSeq++ retires a load in flight.
DropJob(j) ==
    /\ shown' = [shown EXCEPT ![j] = "absent"]
    /\ tomb' = tomb \union {j}
    /\ load' = "idle" /\ lsnap' = NoList /\ cover' = {}
    /\ dropped' = dropped \union {j}

\* The request of loadJobs; a load in flight is retired by its sequence number.
SendLoad == load' = "sent" /\ lsnap' = NoList

\* The Refresh button.
Refresh ==
    /\ SendLoad
    /\ cover' = {}
    /\ UNCHANGED <<serverVars, linkVars, requestVars, viewVars, dropped, synced,
                   promised>>

\* Nothing that names the job is on its way to the browser.
Quiet(j) ==
    /\ \A e \in InFlight : e.job # j
    /\ wpc[j] = "idle" /\ sub[j] \notin {"created", "announced"}
    /\ j \notin dpub \union resp /\ del[j] # "publish"

\* The rest of loadJobs: the answer replaces the list but for tombstones; then
\* pruneTombstones removes those older than 60 s, which nothing that was on its
\* way at the time of the delete outlives.
ApplyLoad ==
    /\ load = "answered"
    /\ shown' = [j \in Job |-> IF j \in tomb THEN "absent" ELSE lsnap[j]]
    /\ \E old \in SUBSET {j \in tomb : Quiet(j)} : tomb' = tomb \ old
    /\ load' = "idle" /\ lsnap' = NoList
    /\ synced' = cover /\ cover' = {}
    /\ UNCHANGED <<serverVars, linkVars, requestVars, dropped, promised>>

\* The request or its answer is lost.
FailLoad ==
    /\ load # "idle"
    /\ load' = "idle" /\ lsnap' = NoList /\ cover' = {}
    /\ promised' = {}
    /\ UNCHANGED <<serverVars, linkVars, requestVars, viewVars, dropped, synced>>

\* submitDownload, submitFiles, submitEdit: the answer to POST /jobs.
ReceiveCreated(j) ==
    /\ j \in resp
    /\ resp' = resp \ {j}
    /\ UpsertJob(j, "queued")
    /\ UNCHANGED <<serverVars, linkVars, listVars, del, tomb, historyVars>>

LoseCreated(j) ==
    /\ j \in resp
    /\ resp' = resp \ {j}
    /\ UNCHANGED <<serverVars, linkVars, listVars, del, viewVars, historyVars>>

\* deleteJob: one request per row at a time.
SendDelete(j) ==
    /\ j \in Deletable /\ shown[j] # "absent" /\ del[j] = "idle"
    /\ del' = [del EXCEPT ![j] = "sent"]
    /\ UNCHANGED <<serverVars, linkVars, listVars, resp, viewVars, historyVars>>

\* 200 and 404 both drop the row.
ReceiveDelete(j) ==
    /\ del[j] = "answered"
    /\ del' = [del EXCEPT ![j] = "idle"]
    /\ DropJob(j)
    /\ UNCHANGED <<serverVars, linkVars, resp, synced, promised>>

\* OfflineError; a request that has deleted the row still publishes.
FailDelete(j) ==
    /\ del[j] # "idle"
    /\ del' = [del EXCEPT ![j] = "idle"]
    /\ dpub' = IF del[j] = "publish" THEN dpub \union {j} ELSE dpub
    /\ UNCHANGED <<row, sub, wpc, wsnap, linkVars, listVars, resp, viewVars,
                   historyVars>>

\* applyEvent
ReceiveEvent ==
    /\ conn = "open" /\ buf # <<>>
    /\ buf' = Tail(buf)
    /\ LET j == Head(buf).job
           what == Head(buf).what
       IN  \/ what = "deleted" /\ DropJob(j)
           \/ /\ what # "deleted" /\ UpsertJob(j, what)
              /\ cover' = cover \ {j}
              /\ UNCHANGED <<tomb, listVars, dropped>>
    /\ UNCHANGED <<serverVars, conn, everLinked, boot, requestVars, synced,
                   promised>>

\* bootstrap goes on when its loadJobs has ended, successfully or not.
BootConnect ==
    /\ boot /\ load = "idle"
    /\ boot' = FALSE
    /\ conn' = "connecting"
    /\ Unlink
    /\ UNCHANGED <<serverVars, everLinked, listVars, requestVars, viewVars, dropped>>

\* The timer of scheduleReconnect.
Reconnect ==
    /\ conn = "retry"
    /\ conn' = "connecting"
    /\ Unlink
    /\ UNCHANGED <<serverVars, everLinked, boot, listVars, requestVars, viewVars,
                   dropped>>

\* resume: back in the foreground, the stream is replaced.
Foreground ==
    /\ conn' = "connecting"
    /\ Unlink
    /\ IF everLinked THEN UNCHANGED listVars ELSE SendLoad
    /\ UNCHANGED <<serverVars, everLinked, boot, requestVars, viewVars, dropped>>

\* es.onopen: reload, except at the first stream.
OnOpen ==
    /\ conn = "subscribed"
    /\ conn' = "open"
    /\ everLinked' = TRUE
    /\ \/ ~everLinked /\ UNCHANGED <<listVars, cover, promised>>
       \/ /\ everLinked /\ SendLoad /\ cover' = {}
          /\ promised' = {j \in Job : row[j] \in Status}
    /\ UNCHANGED <<serverVars, buf, boot, requestVars, viewVars, dropped, synced>>

\* es.onerror; what was in the buffer is lost.
OnError ==
    /\ conn \in {"connecting", "subscribed", "open"}
    /\ conn' = "retry"
    /\ Unlink
    /\ UNCHANGED <<serverVars, everLinked, boot, listVars, requestVars, viewVars,
                   dropped>>

-----------------------------------------------------------------------------
ServerStep(j) ==
    \/ Create(j) \/ PublishCreated(j) \/ Accept(j) \/ Refuse(j)
    \/ Start(j) \/ Finish(j) \/ GetStatus(j) \/ PublishStatus(j)
    \/ DeleteElsewhere(j) \/ PublishDeleted(j) \/ ServeDelete(j) \/ AnswerDelete(j)

BrowserStep(j) ==
    \/ ReceiveCreated(j) \/ LoseCreated(j)
    \/ SendDelete(j) \/ ReceiveDelete(j) \/ FailDelete(j)

LinkStep ==
    \/ Subscribe \/ OnOpen \/ ReceiveEvent \/ OnError \/ Reconnect
    \/ BootConnect \/ Foreground

ListStep == Refresh \/ ServeList \/ ApplyLoad \/ FailLoad

Next ==
    \/ \E j \in Job : ServerStep(j) \/ BrowserStep(j)
    \/ LinkStep \/ ListStep \/ Restart

Spec == Init /\ [][Next]_vars

-----------------------------------------------------------------------------
(* Properties *)

\* A job the browser has dropped because it was deleted is never shown again,
\* whatever list, event or create response is still on its way: dropJob's
\* tombstone and sequence number, and pruneTombstones.
DroppedStaysGone == \A j \in dropped : shown[j] = "absent"

\* A browser that got a job's entry from a list read during the current stream,
\* with none of its events received between the reading and the application, or
\* from an event of this stream, shows the status the row has as soon as everything
\* about the job has arrived: lists, events and create responses in any order leave
\* no outdated status behind.  Excepted is a job of which an event was lost since,
\* in a full buffer (Bus.Publish) or in publishStatus, which says nothing when its
\* context is done or the store fails; the next event about the job makes up for it.
InStep ==
    \A j \in synced : Quiet(j) /\ row[j] \in Status => shown[j] = row[j]

(***************************************************************************)
(* The inductive invariant behind both.                                    *)
(***************************************************************************)

\* s is a status the row of j has or had.
NotNewer(j, s) ==
    row[j] = "gone" \/ (row[j] \in Status /\ Rank[s] <= Rank[row[j]])

\* Where the actors of a job stand, and that nothing on its way to the browser,
\* and nothing it shows, is ahead of the table.
Behind(j) ==
    /\ row[j] = "none" <=> sub[j] = "new"
    /\ wpc[j] # "idle" => sub[j] \in {"accepted", "refused", "started", "over"}
    /\ wpc[j] = "pub" => row[j] \in {wsnap[j], "gone"}
    /\ sub[j] \in {"created", "announced"} => row[j] \in {"queued", "gone"}
    /\ j \in resp => sub[j] \notin {"new", "created", "announced"}
    /\ j \in dpub \/ j \in tomb \/ j \in dropped => row[j] = "gone"
    /\ del[j] \in {"publish", "answered"} => row[j] = "gone"
    /\ \A e \in InFlight : e.job = j =>
          IF e.what = "deleted" THEN row[j] = "gone" ELSE NotNewer(j, e.what)
    /\ wpc[j] = "pub" => NotNewer(j, wsnap[j])
    /\ lsnap[j] # "absent" => NotNewer(j, lsnap[j])
    /\ shown[j] # "absent" => NotNewer(j, shown[j])

\* No list on its way names a dropped job, and whatever else may name it meets
\* its tombstone.
Buried(j) ==
    j \in dropped =>
        /\ shown[j] = "absent" /\ lsnap[j] = "absent"
        /\ j \in tomb \/ Quiet(j)

\* The present status of the row is still on its way.
Pending(j) ==
    \/ sub[j] = "created"
    \/ wpc[j] = "get"
    \/ wpc[j] = "pub" /\ wsnap[j] = row[j]
    \/ \E e \in InFlight : e.job = j /\ e.what = row[j]

\* What is shown, and what is about to be, is either current or will be.
Fresh(j) ==
    row[j] \in Status =>
        /\ j \in synced => shown[j] = row[j] \/ Pending(j)
        /\ j \in cover => lsnap[j] = row[j] \/ Pending(j)

LinkShape ==
    /\ synced \union cover # {} => Subscribed
    /\ cover # {} => load = "answered"
    /\ load # "answered" => lsnap = NoList

FeedInv ==
    LinkShape /\ \A j \in Job : Behind(j) /\ Buried(j) /\ Fresh(j)

(* A statement of app.js that does not hold *)

\* "whatever happened while the stream was down is picked up here" (es.onopen):
\* when the reload of a reopened stream is over and did not fail, the browser
\* lists every job that existed when the stream reopened.
ReconnectReconciles ==
    load = "idle" =>
        \A j \in promised : row[j] \in Status => shown[j] # "absent"
=============================================================================
