-------------------------- MODULE JobQueueHistory ---------------------------
(***************************************************************************)
(* What happens to the jobs as long as no store call fails on a live       *)
(* context: the inductive invariant IInv and the properties it implies.    *)
(***************************************************************************)
EXTENDS JobQueueStructure

USE ConstantsAssumption
USE DEF vars, dbVars, metaVars, queueVars, workerVars, subVars, delVars, sweepVars,
        handlerVars, busVars, envVars, worldVars

(* Status and history *)

\* A step after which no store call has failed is not a fault.
LEMMA NoFault == ASSUME TypeOK, faults' = 0, StoreFault PROVE FALSE
BY DEF TypeOK, StoreFault

\* Canceling and deleting: a row can only go, a context can only end.
LEMMA RequestHistory ==
    ASSUME TypeOK, Structure, History, faults' = 0, NEW j \in Job,
           HangUp(j) \/ Cancel(j) \/ DeleteLookup(j) \/ DeleteStep(j) \/ SweepStep(j)
    PROVE  History'
<1>1. UNCHANGED <<up, ch, pending, wpc, wjob, sub, starts>>
  BY RequestFrame
<1>2. \A k \in Job : row'[k] = row[k] \/ (row[k] \in Present /\ row'[k] = "gone")
  BY DEF TypeOK, HangUp, Cancel, DeleteLookup, DeleteStep, SweepStep, DeleteCancel,
        DeleteUnlink, DeleteRow, DeletePublish, SweepUnlink, SweepRow, SweepPublish
<1>3. \A w \in Worker : wctx'[w] = wctx[w] \/ wctx'[w] = "canceled"
  BY DEF TypeOK, HangUp, Cancel, DeleteLookup, DeleteStep, SweepStep, DeleteCancel,
        DeleteUnlink, DeleteRow, DeletePublish, SweepUnlink, SweepRow, SweepPublish, CancelRegistered
<1>4. \A k \in Job : hungup[k] => hungup'[k]
  BY DEF TypeOK, HangUp, Cancel, DeleteLookup, DeleteStep, SweepStep, DeleteCancel,
        DeleteUnlink, DeleteRow, DeletePublish, SweepUnlink, SweepRow, SweepPublish
<1>5. \A k \in Job : (InCh(k)' <=> InCh(k)) /\ (Held(k)' <=> Held(k)) /\ (Submitting(k)' <=> Submitting(k))
  BY <1>1 DEF InCh, Held, Submitting
<1>6. Waiting' /\ NeverRun' /\ Once' /\ RunHeld' /\ QueueHeld'
  BY <1>1, <1>2, <1>4, <1>5 DEF History, Waiting, NeverRun, Once, RunHeld, QueueHeld
<1>7. Executing'
  <2> SUFFICES ASSUME NEW w \in Worker, wjob[w] # None PROVE ExecuteStatus(w, wjob[w])'
    BY <1>1 DEF Executing
  <2>1. wjob[w] \in Job /\ ExecuteStatus(w, wjob[w])
    BY DEF TypeOK, History, Executing
  <2>2. QED BY <1>1, <1>2, <1>3, <2>1 DEF ExecuteStatus, InRun, Registered
<1>8. QED BY <1>6, <1>7 DEF History

\* A boot fails what was running and takes in what was queued.
LEMMA BootHistory ==
    ASSUME TypeOK, Structure, History, faults' = 0, Boot
    PROVE  History'
<1>0. ~StoreFault
  BY NoFault
<1>1. /\ \A w \in Worker : wpc[w] = "exited" /\ wjob[w] = None
      /\ \A k \in Job : ~Held(k) /\ ~Submitting(k)
      /\ UNCHANGED <<sub, hungup, starts, wjob>>
  <2>1. ~Alive /\ UNCHANGED <<sub, hungup, starts, wjob>>
    BY DEF Boot, FailInterrupted, QueuedIDs, ResumeNext, Serve, Alive
  <2>2. QED BY <2>1 DEF Structure, PhaseShape, WorkerShape, Held, Submitting
<1>2. /\ \A k \in Job : ~Held(k)' /\ ~Submitting(k)'
      /\ Executing' /\ Once'
  BY <1>1 DEF Held, Submitting, Executing, History, Once
<1>3. CASE FailInterrupted
  <2>1. ch' = <<>> /\ pending' = {} /\ up' = "boot" /\ row' = [j \in Job |-> IF row[j] = "running" THEN "failed" ELSE row[j]]
    BY <1>0, <1>3 DEF FailInterrupted, Structure, PhaseShape
  <2>2. \A k \in Job : ~InCh(k)'
    BY <2>1 DEF InCh
  <2>3. QED BY <1>1, <1>2, <2>1, <2>2 DEF History, Waiting, NeverRun, RunHeld, QueueHeld
<1>4. CASE QueuedIDs
  <2>1. /\ ch' = <<>> /\ up = "boot" /\ up' = "resume" /\ row' = row
        /\ pending' = {j \in Job : row[j] = "queued"}
    BY <1>0, <1>4 DEF QueuedIDs, Structure, PhaseShape
  <2>2. \A k \in Job : ~InCh(k)'
    BY <2>1 DEF InCh
  <2>3. QED BY <1>1, <1>2, <2>1, <2>2 DEF History, Waiting, NeverRun, RunHeld, QueueHeld, InRun
<1>5. CASE ResumeNext
  <2>1. PICK j \in pending :
          /\ pending' = pending \ {j} /\ up = "resume" /\ up' = "resume"
          /\ \/ ch' = Append(ch, j) /\ row' = row
             \/ ch' = ch /\ row' = SetStatus(j, "failed")
    BY <1>0, <1>5 DEF ResumeNext, Oldest
  <2>2. j \in Job /\ row[j] \in {"queued", "gone"} /\ ~InCh(j)
    BY <2>1 DEF TypeOK, History, Waiting, Structure, OneHolder
  <2>3. CASE ch' = Append(ch, j) /\ row' = row
    <3>1. \A k \in Job : InCh(k)' <=> InCh(k) \/ k = j
      BY <2>2, <2>3, SendFacts DEF TypeOK
    <3>2. QED BY <1>1, <1>2, <2>1, <2>2, <2>3, <3>1 DEF History, Waiting, NeverRun, RunHeld, QueueHeld, InRun
  <2>4. CASE ch' = ch /\ row' = SetStatus(j, "failed")
    <3>1. \A k \in Job : InCh(k)' <=> InCh(k)
      BY <2>4 DEF InCh
    <3>2. /\ \A k \in Job \ {j} : row'[k] = row[k]
          /\ row'[j] \in {"failed", "gone"}
      BY <2>2, <2>4 DEF SetStatus, TypeOK, Present
    <3>3. QED BY <1>1, <1>2, <2>1, <2>2, <2>4, <3>1, <3>2 DEF History, Waiting, NeverRun, RunHeld, QueueHeld, InRun
  <2>5. QED BY <2>1, <2>3, <2>4
<1>6. CASE Serve
  <2>1. /\ UNCHANGED <<row, ch, pending>> /\ up = "resume" /\ up' = "serving" /\ pending = {}
    BY <1>6 DEF Serve
  <2>2. \A k \in Job : InCh(k)' <=> InCh(k)
    BY <2>1 DEF InCh
  <2>3. QED BY <1>1, <1>2, <2>1, <2>2 DEF History, Waiting, NeverRun, RunHeld, QueueHeld, InRun
<1>7. QED BY <1>3, <1>4, <1>5, <1>6 DEF Boot

\* Submit: the row waits until it is sent, or fails with the queue full.
LEMMA SubmitHistory ==
    ASSUME TypeOK, Structure, History, faults' = 0, NEW j \in Job, SubmitCreate(j) \/ SubmitStep(j)
    PROVE  History'
<1>0. ~StoreFault
  BY NoFault
<1>1. /\ UNCHANGED <<up, pending, workerVars, hungup, starts>>
      /\ pending = {} /\ ~Held(j) /\ ~InCh(j) /\ up # "resume"
      /\ \A k \in Job \ {j} : sub'[k] = sub[k] /\ row'[k] = row[k]
      /\ \A k \in Job : Held(k)' <=> Held(k)
  <2>1. /\ UNCHANGED <<up, pending, workerVars, hungup, starts>>
        /\ Alive /\ sub[j] # "end"
        /\ \A k \in Job \ {j} : sub'[k] = sub[k] /\ row'[k] = row[k]
    BY DEF SubmitCreate, SubmitStep, SubmitPublish, SubmitSend, SubmitFail, SubmitGet,
       SubmitEmit, TypeOK, SetStatus
  <2>2. QED BY <2>1 DEF Alive, Structure, PhaseShape, Submitted, Held
<1>2. Executing'
  <2> SUFFICES ASSUME NEW w \in Worker, wjob[w] # None PROVE ExecuteStatus(w, wjob[w])'
    BY <1>1 DEF Executing
  <2>1. wjob[w] \in Job \ {j} /\ ExecuteStatus(w, wjob[w])
    BY <1>1 DEF TypeOK, History, Executing, Held
  <2>2. QED BY <1>1, <2>1 DEF ExecuteStatus
<1>3. CASE SubmitCreate(j)
  <2>1. /\ ch' = ch /\ row'[j] = "queued" /\ sub'[j] = "created" /\ starts[j] = 0 /\ row[j] = "none"
    BY <1>3 DEF SubmitCreate, TypeOK, Structure, Submitted, History, NeverRun
  <2>2. \A k \in Job : InCh(k)' <=> InCh(k)
    BY <2>1 DEF InCh
  <2>3. QED BY <1>1, <1>2, <2>1, <2>2 DEF History, Waiting, NeverRun, Once, RunHeld, QueueHeld, Submitting
<1>4. CASE SubmitPublish(j)
  <2>1. /\ ch' = ch /\ row' = row /\ sub[j] = "created" /\ sub'[j] = "send"
    BY <1>4 DEF SubmitPublish, TypeOK
  <2>2. \A k \in Job : InCh(k)' <=> InCh(k)
    BY <2>1 DEF InCh
  <2>3. QED BY <1>1, <1>2, <2>1, <2>2 DEF History, Waiting, NeverRun, Once, RunHeld, QueueHeld, Submitting
<1>5. CASE SubmitSend(j)
  <2>1. /\ row' = row /\ sub[j] = "send"
        /\ \/ ch' = Append(ch, j) /\ sub'[j] = "end"
           \/ ch' = ch /\ sub'[j] = "full"
           \/ ch' = ch /\ sub'[j] = "end" /\ up = "stopping"
    BY <1>5 DEF SubmitSend, TypeOK
  <2>2. \A k \in Job : InCh(k)' <=> InCh(k) \/ (ch' # ch /\ k = j)
    BY <1>1, <2>1, SendFacts DEF InCh, TypeOK
  <2>3. row[j] \in {"queued", "gone"}
    BY <2>1 DEF History, Waiting, Submitting
  <2>4. Waiting' /\ QueueHeld'
    BY <1>1, <2>1, <2>2, <2>3 DEF History, Waiting, QueueHeld, Submitting
  <2>5. QED BY <1>1, <1>2, <2>1, <2>4 DEF History, NeverRun, Once, RunHeld
<1>6. CASE SubmitFail(j)
  <2>1. /\ ch' = ch /\ sub[j] = "full" /\ sub'[j] = "getFail"
        /\ \/ row' = SetStatus(j, "failed")
           \/ hungup[j] /\ row' = row
    BY <1>0, <1>6 DEF SubmitFail, StoreError, TypeOK
  <2>2. \A k \in Job : InCh(k)' <=> InCh(k)
    BY <2>1 DEF InCh
  <2>3. row[j] \in {"queued", "gone"} /\ (row'[j] \in {"failed", "gone"} \/ (hungup[j] /\ row' = row))
    BY <2>1 DEF History, Waiting, Submitting, SetStatus, Present, TypeOK
  <2>4. QED BY <1>1, <1>2, <2>1, <2>2, <2>3 DEF History, Waiting, NeverRun, Once, RunHeld, QueueHeld, Submitting
<1>7. CASE SubmitGet(j) \/ SubmitEmit(j)
  <2>1. ch' = ch /\ row' = row /\ sub[j] \in {"getFail", "pubFail"} /\ sub'[j] \in {"pubFail", "end"}
    BY <1>7 DEF SubmitGet, SubmitEmit, TypeOK
  <2>2. \A k \in Job : InCh(k)' <=> InCh(k)
    BY <2>1 DEF InCh
  <2>3. QED BY <1>1, <1>2, <2>1, <2>2 DEF History, Waiting, NeverRun, Once, RunHeld, QueueHeld, Submitting
<1>8. QED BY <1>3, <1>4, <1>5, <1>6, <1>7 DEF SubmitStep

\* What a step of a worker on its job must not disturb.
LEMMA OtherWorkers ==
    ASSUME TypeOK, Structure, History, NEW w \in Worker, wjob[w] \in Job,
           wjob' = wjob,
           \A v \in Worker \ {w} : wpc'[v] = wpc[v] /\ wctx'[v] = wctx[v],
           \A k \in Job \ {wjob[w]} : row'[k] = row[k] /\ starts'[k] = starts[k]
    PROVE  \A v \in Worker \ {w} : wjob'[v] # None => ExecuteStatus(v, wjob[v])'
<1> SUFFICES ASSUME NEW v \in Worker \ {w}, wjob[v] # None PROVE ExecuteStatus(v, wjob[v])'
  OBVIOUS
<1>1. wjob[v] \in Job \ {wjob[w]} /\ ExecuteStatus(v, wjob[v])
  BY DEF TypeOK, Structure, OneHolder, History, Executing
<1>2. QED BY <1>1 DEF ExecuteStatus

\* A registered worker: the row is running before the tool is started, and
\* settled before the worker lets go.
LEMMA InnerHistory ==
    ASSUME TypeOK, Structure, History, faults' = 0, NEW w \in Worker, Inner(w)
    PROVE  History'
<1>0. ~StoreFault
  BY NoFault
<1> PICK j : j = wjob[w]
  OBVIOUS
<1>1. /\ UNCHANGED <<up, ch, pending, running, wjob, sub, hungup>>
      /\ wpc[w] \in Registered /\ wpc'[w] \in Registered
      /\ wpc' = [wpc EXCEPT ![w] = wpc'[w]]
      /\ wpc \in [Worker -> WorkerPC]
      /\ j \in Job /\ wjob[w] = j /\ ExecuteStatus(w, j) /\ up # "down"
  BY InnerFrame DEF TypeOK, Structure, WorkerShape, Registered, History, Executing, PhaseShape, Alive
<1>2. /\ \A v \in Worker \ {w} : wpc'[v] = wpc[v] /\ wctx'[v] = wctx[v]
      /\ \A k \in Job \ {j} : row'[k] = row[k] /\ starts'[k] = starts[k]
  BY <1>1 DEF TypeOK, Inner, MarkRunning, GetRunning, EmitRunning, RunnerStart,
      RunnerFails, RunnerSucceeds, RecordError, RecordOutput, RecordDone, GetFinal,
      EmitFinal, PublishGet, PublishEmit, Timeout, SetStatus, Goto
<1>3. /\ row'[j] \in RowState /\ starts'[j] \in Nat
      /\ ExecuteStatus(w, j)'
      /\ row'[j] = "none" => row[j] = "none"
      /\ row'[j] \in {"none", "queued"} => starts'[j] = 0
      /\ starts'[j] <= 1
      /\ row'[j] = "running" => wpc'[w] \in InRun
  <2>1. row[j] \in RowState /\ starts[j] \in Nat /\ starts[j] <= 1
        /\ (row[j] \in {"none", "queued"} => starts[j] = 0)
        /\ (row[j] = "running" => wpc[w] \in InRun)
    <3>1. row[j] \in RowState /\ starts[j] \in Nat
      BY <1>1 DEF TypeOK
    <3>2. starts[j] <= 1 /\ (row[j] \in {"none", "queued"} => starts[j] = 0)
      BY <1>1 DEF History, Once, NeverRun
    <3>3. row[j] = "running" => wpc[w] \in InRun
      BY <1>1 DEF History, RunHeld, Structure, OneHolder
    <3>4. QED BY <3>1, <3>2, <3>3
  <2> USE DEF ExecuteStatus, InRun, Registered, Terminal, Goto, SetStatus, TypeOK
  <2>2. CASE MarkRunning(w)
    BY <1>0, <1>1, <2>1, <2>2 DEF MarkRunning, StoreError, Present, RowState
  <2>3. CASE GetRunning(w) \/ EmitRunning(w) \/ GetFinal(w) \/ EmitFinal(w)
    BY <1>1, <2>1, <2>3 DEF GetRunning, EmitRunning, GetFinal, EmitFinal, PublishGet, PublishEmit
  <2>4. CASE RunnerStart(w)
    BY <1>1, <2>1, <2>4 DEF RunnerStart
  <2>5. CASE RunnerFails(w) \/ RunnerSucceeds(w) \/ Timeout(w)
    BY <1>1, <2>1, <2>5 DEF RunnerFails, RunnerSucceeds, Timeout
  <2>6. CASE RecordError(w)
    BY <1>0, <1>1, <2>1, <2>6 DEF RecordError, Present, RowState
  <2>7. CASE RecordOutput(w)
    BY <1>0, <1>1, <2>1, <2>7 DEF RecordOutput, Present, RowState
  <2>8. CASE RecordDone(w)
    BY <1>0, <1>1, <2>1, <2>8 DEF RecordDone, Present, RowState
  <2>9. QED BY <2>2, <2>3, <2>4, <2>5, <2>6, <2>7, <2>8 DEF Inner
<1>4. \A k \in Job : (InCh(k)' <=> InCh(k)) /\ (Held(k)' <=> Held(k)) /\ (Submitting(k)' <=> Submitting(k))
  BY <1>1 DEF InCh, Held, Submitting
<1>5. ~InCh(j) /\ j \notin pending /\ ~Submitting(j) /\ Held(j)
  BY <1>1 DEF Structure, OneHolder, Submitted, Held, Submitting
<1>6. Waiting' /\ NeverRun' /\ Once' /\ QueueHeld'
  BY <1>1, <1>2, <1>3, <1>4, <1>5 DEF History, Waiting, NeverRun, Once, QueueHeld
<1>7. Executing'
  <2>1. \A v \in Worker \ {w} : wjob'[v] # None => ExecuteStatus(v, wjob[v])'
    BY <1>1, <1>2, OtherWorkers
  <2>2. ExecuteStatus(w, wjob[w])'
    BY <1>1, <1>3 DEF ExecuteStatus
  <2>3. QED BY <2>1, <2>2 DEF Executing
<1>8. RunHeld'
  BY <1>1, <1>2, <1>3 DEF History, RunHeld
<1>9. QED BY <1>6, <1>7, <1>8 DEF History

\* Receive, load, register, unregister: the row is handed over, never dropped.
LEMMA WorkerHistory ==
    ASSUME TypeOK, Structure, History, faults' = 0, NEW w \in Worker,
           Dequeue(w) \/ WorkerExit(w) \/ Load(w) \/ Register(w) \/ Unregister(w)
    PROVE  History'
<1>0. ~StoreFault
  BY NoFault
<1>1. /\ UNCHANGED <<up, row, pending, sub, hungup, starts>>
      /\ \A v \in Worker \ {w} : wpc'[v] = wpc[v] /\ wctx'[v] = wctx[v] /\ wjob'[v] = wjob[v]
      /\ wpc[w] \in {"idle", "load", "register", "unregister"}
      /\ up # "resume"
  <2>1. /\ UNCHANGED <<up, row, pending, sub, hungup, starts>>
        /\ \A v \in Worker \ {w} : wpc'[v] = wpc[v] /\ wctx'[v] = wctx[v] /\ wjob'[v] = wjob[v]
        /\ wpc[w] \in {"idle", "load", "register", "unregister"}
    BY DEF Dequeue, WorkerExit, Load, Register, Unregister, Goto, TypeOK
  <2>2. QED BY <2>1 DEF Structure, PhaseShape, Alive
<1>2. NeverRun' /\ Once'
  BY <1>1 DEF History, NeverRun, Once
<1>3. RunHeld'
  <2> SUFFICES ASSUME up # "down", NEW j \in Job, row[j] = "running"
               PROVE  \E v \in Worker : wjob'[v] = j /\ wpc'[v] \in InRun
    BY <1>1 DEF RunHeld
  <2>1. PICK v \in Worker : wjob[v] = j /\ wpc[v] \in InRun
    BY DEF History, RunHeld
  <2>2. v # w
    BY <1>1, <2>1 DEF InRun
  <2>3. QED BY <1>1, <2>1, <2>2
<1>4. \A v \in Worker \ {w} : wjob'[v] # None => ExecuteStatus(v, wjob[v])'
  BY <1>1 DEF History, Executing, ExecuteStatus
<1>5. \A k \in Job : Submitting(k)' <=> Submitting(k)
  BY <1>1 DEF Submitting
<1>6. CASE Dequeue(w)
  <2>1. PICK h : h = Head(ch)
    OBVIOUS
  <2>2. /\ h \in Job /\ InCh(h)
        /\ \A k \in Job : (InCh(k)' => InCh(k)) /\ (InCh(k) => InCh(k)' \/ k = h)
        /\ wjob'[w] = h /\ wpc'[w] = "load" /\ wjob[w] = None
    BY <1>6, <2>1, ReceiveFacts DEF Dequeue, TypeOK, Goto, Structure, WorkerShape
  <2>3. row[h] \in {"queued", "gone"}
    BY <2>2 DEF History, Waiting
  <2>4. ExecuteStatus(w, wjob[w])'
    BY <1>1, <2>2, <2>3 DEF ExecuteStatus, InRun, Registered
  <2>5. \A k \in Job : Held(k) \/ k = h => Held(k)'
    BY <1>1, <2>2 DEF Held
  <2>6. QED
    BY <1>1, <1>2, <1>3, <1>4, <1>5, <2>2, <2>4, <2>5 DEF History, Waiting, Executing, QueueHeld
<1>7. CASE WorkerExit(w) \/ Register(w) \/ (Load(w) /\ wjob' = wjob)
  <2>1. /\ UNCHANGED <<ch, wjob, wctx>>
        /\ \/ wpc[w] = "idle" /\ wpc'[w] = "exited"
           \/ wpc[w] = "load" /\ wpc'[w] = "register" /\ row[wjob[w]] \in Present
           \/ wpc[w] = "register" /\ wpc'[w] = "mark"
    BY <1>7 DEF WorkerExit, Register, Load, Goto, TypeOK, Structure, WorkerShape
  <2>2. wjob[w] # None => ExecuteStatus(w, wjob[w])'
    BY <1>1, <2>1 DEF History, Executing, ExecuteStatus, NeverRun, Structure, WorkerShape, TypeOK, InRun, Registered, Present, Terminal
  <2>3. \A k \in Job : (InCh(k)' <=> InCh(k)) /\ (Held(k)' <=> Held(k))
    BY <2>1 DEF InCh, Held
  <2>4. QED
    BY <1>1, <1>2, <1>3, <1>4, <1>5, <2>1, <2>2, <2>3 DEF History, Waiting, Executing, QueueHeld
<1>8. CASE (Load(w) /\ wjob' # wjob) \/ Unregister(w)
  <2>1. /\ ch' = ch /\ wjob[w] \in Job /\ wjob'[w] = None
        /\ \/ wpc[w] = "load" /\ (wctx[w] # "live" \/ row[wjob[w]] \notin Present)
           \/ wpc[w] = "unregister"
    BY <1>0, <1>8 DEF Unregister, Load, StoreError, Goto, TypeOK, Structure, WorkerShape
  <2>2. up = "serving" => row[wjob[w]] # "queued"
    BY <2>1 DEF Structure, LiveUntilRegistered, Unregistered, Registered, Present, InRun,
       History, Executing, ExecuteStatus, Terminal
  <2>3. \A k \in Job : (InCh(k)' <=> InCh(k)) /\ (Held(k) => Held(k)' \/ k = wjob[w])
    BY <1>1, <2>1 DEF InCh, Held
  <2>4. QED
    BY <1>1, <1>2, <1>3, <1>4, <1>5, <2>1, <2>2, <2>3 DEF History, Waiting, Executing, QueueHeld
<1>9. QED BY <1>6, <1>7, <1>8

\* SIGTERM ends contexts only.
LEMMA StopHistory ==
    ASSUME TypeOK, Structure, History, Sigterm \/ CloseQueue
    PROVE  History'
<1>1. /\ UNCHANGED <<row, ch, pending, wpc, wjob, sub, starts>>
      /\ up # "down" /\ up' \in {"draining", "stopping"}
      /\ \A w \in Worker : wctx'[w] = wctx[w] \/ wctx'[w] = "canceled"
  BY DEF Sigterm, CloseQueue
<1>2. \A k \in Job : (InCh(k)' <=> InCh(k)) /\ (Submitting(k)' <=> Submitting(k))
  BY <1>1 DEF InCh, Submitting
<1>3. Executing'
  BY <1>1 DEF History, Executing, ExecuteStatus
<1>4. QED BY <1>1, <1>2, <1>3 DEF History, Waiting, NeverRun, Once, RunHeld, QueueHeld

\* The end of the process asks nothing of a row that is running or queued.
LEMMA DownHistory == ASSUME TypeOK, History, Down PROVE History'
<1>1. \A k \in Job : ~InCh(k)' /\ ~Submitting(k)'
  BY DEF Down, InCh, Submitting
<1>2. QED
  BY <1>1 DEF Down, History, Waiting, Executing, NeverRun, Once, RunHeld, QueueHeld

\* Variables History does not mention.
LEMMA HistoryFrame ==
    ASSUME History,
           UNCHANGED <<up, row, ch, pending, wpc, wjob, wctx, sub, hungup, starts>>
    PROVE  History'
BY DEF History, Waiting, Executing, ExecuteStatus, NeverRun, Once, RunHeld, QueueHeld,
   InCh, Held, Submitting

\* No store fault so far if there is none after the step.
LEMMA FaultsOnlyGrow ==
    ASSUME TypeOK, [Next]_vars, faults' = 0
    PROVE  faults = 0
<1>1. faults' = faults \/ StoreFault
  <2>1. CASE Boot
    BY <2>1 DEF Boot, FailInterrupted, QueuedIDs, ResumeNext, Serve, StoreOk
  <2>2. ASSUME NEW j \in Job, JobNext(j) PROVE faults' = faults \/ StoreFault
    BY <2>2 DEF JobNext, SubmitCreate, SubmitStep, SubmitPublish, SubmitSend, SubmitFail,
      SubmitGet, SubmitEmit, HangUp, Cancel, DeleteLookup, DeleteStep, DeleteCancel,
      DeleteUnlink, DeleteRow, DeletePublish, SweepStep, SweepUnlink, SweepRow,
      SweepPublish, StoreOk, StoreError
  <2>3. ASSUME NEW S \in SUBSET Expiring, SweepList(S) PROVE faults' = faults
    BY <2>3 DEF SweepList
  <2>4. ASSUME NEW w \in Worker, WorkerNext(w) PROVE faults' = faults \/ StoreFault
    BY <2>4 DEF WorkerNext, WorkerStep, Dequeue, WorkerExit, Load, Register, Unregister,
      MarkRunning, GetRunning, EmitRunning, RunnerStart, RunnerFails, RunnerSucceeds,
      RecordError, RecordOutput, RecordDone, GetFinal, EmitFinal, PublishGet,
      PublishEmit, Timeout, StoreOk, StoreError
  <2>5. CASE Sigterm \/ CloseQueue \/ ProcessExit \/ Crash \/ UNCHANGED vars
    BY <2>5 DEF Sigterm, CloseQueue, ProcessExit, Crash, Down
  <2>6. QED BY <2>1, <2>2, <2>3, <2>4, <2>5 DEF Next
<1>2. QED BY <1>1, NoFault

\* History survives every step that is not a store fault.
LEMMA HistoryStep ==
    ASSUME TypeOK, Structure, faults = 0 => History, [Next]_vars, faults' = 0
    PROVE  History'
<1>1. faults = 0
  BY FaultsOnlyGrow
<1>2. CASE Boot
  BY <1>1, <1>2, BootHistory
<1>3. ASSUME NEW j \in Job, JobNext(j) PROVE History'
  BY <1>1, <1>3, SubmitHistory, RequestHistory DEF JobNext
<1>4. ASSUME NEW S \in SUBSET Expiring, SweepList(S) PROVE History'
  BY <1>1, <1>4, HistoryFrame DEF SweepList
<1>5. ASSUME NEW w \in Worker, WorkerNext(w) PROVE History'
  BY <1>1, <1>5, WorkerHistory, InnerHistory DEF WorkerNext, WorkerStep, Inner
<1>6. CASE Sigterm \/ CloseQueue
  BY <1>1, <1>6, StopHistory
<1>7. CASE ProcessExit \/ Crash
  BY <1>1, <1>7, DownHistory DEF ProcessExit, Crash
<1>8. CASE UNCHANGED vars
  BY <1>1, <1>8, HistoryFrame
<1>9. QED BY <1>2, <1>3, <1>4, <1>5, <1>6, <1>7, <1>8 DEF Next

\* IInv holds initially.
LEMMA IInvInit == Init => IInv
<1>1. Init => History
  BY DEF Init, History, Waiting, Executing, NeverRun, Once, RunHeld, QueueHeld, InCh,
     Submitting
<1>2. QED BY <1>1, TypeInit, StructureInit DEF IInv

\* IInv survives every step.
LEMMA IInvStep == IInv /\ [Next]_vars => IInv'
<1> SUFFICES ASSUME IInv, [Next]_vars PROVE IInv'
  OBVIOUS
<1>1. TypeOK' /\ Structure'
  BY TypeStep, StructureStep DEF IInv
<1>2. faults' = 0 => History'
  BY HistoryStep DEF IInv
<1>3. QED BY <1>1, <1>2 DEF IInv

\* The inductive invariant holds in every reachable state.
THEOREM InvariantHolds == Spec => []IInv
<1>1. Init => IInv
  BY IInvInit
<1>2. IInv /\ [Next]_vars => IInv'
  BY IInvStep
<1>3. QED BY <1>1, <1>2, PTL DEF Spec

\* While the server runs no queued row is forgotten: it is in the channel, with a
\* worker, with Resume or with its submitter, unless the client hung up.
THEOREM QueuedIsHeldHolds == Spec => []QueuedIsHeld
<1>1. IInv => QueuedIsHeld
  BY DEF IInv, History, QueuedIsHeld
<1>2. QED BY <1>1, InvariantHolds, PTL

\* From boot on no row is stuck in running: a worker is executing the job.
THEOREM RunningIsHeldHolds == Spec => []RunningIsHeld
<1>1. IInv => RunningIsHeld
  BY DEF IInv, History, RunningIsHeld
<1>2. QED BY <1>1, InvariantHolds, PTL

\* The external tool of a job is started at most once, over any number of crashes
\* and restarts.
THEOREM RunsAtMostOnceHolds == Spec => []RunsAtMostOnce
<1>1. IInv => RunsAtMostOnce
  BY DEF IInv, History, RunsAtMostOnce
<1>2. QED BY <1>1, InvariantHolds, PTL

(* What clients are told: files and events *)

\* A row that is gone does not come back: an id is minted once.
LEMMA GoneStays ==
    ASSUME TypeOK, Structure, [Next]_vars, NEW j \in Job, row[j] = "gone"
    PROVE  row'[j] = "gone"
<1>0. sub[j] # "new"
  BY DEF Structure, Submitted
<1>1. CASE Boot
  BY <1>1 DEF Boot, FailInterrupted, QueuedIDs, ResumeNext, Serve, SetStatus, Present,
     Terminal, TypeOK, Oldest
<1>2. ASSUME NEW k \in Job, JobNext(k) PROVE row'[j] = "gone"
  BY <1>0, <1>2 DEF JobNext, SubmitCreate, SubmitStep, SubmitPublish, SubmitSend, SubmitFail,
     SubmitGet, SubmitEmit, HangUp, Cancel, DeleteLookup, DeleteStep, DeleteCancel,
     DeleteUnlink, DeleteRow, DeletePublish, SweepStep, SweepUnlink, SweepRow,
     SweepPublish, SetStatus, Present, Terminal, TypeOK
<1>3. ASSUME NEW S \in SUBSET Expiring, SweepList(S) PROVE row'[j] = "gone"
  BY <1>3 DEF SweepList
<1>4. ASSUME NEW w \in Worker, WorkerNext(w) PROVE row'[j] = "gone"
  BY <1>4 DEF WorkerNext, WorkerStep, Dequeue, WorkerExit, Load, Register, Unregister,
     MarkRunning, GetRunning, EmitRunning, RunnerStart, RunnerFails, RunnerSucceeds,
     RecordError, RecordOutput, RecordDone, GetFinal, EmitFinal, PublishGet,
     PublishEmit, Timeout, SetStatus, Present, Terminal, TypeOK
<1>5. CASE Sigterm \/ CloseQueue \/ ProcessExit \/ Crash \/ UNCHANGED vars
  BY <1>5 DEF Sigterm, CloseQueue, ProcessExit, Crash, Down
<1>6. QED BY <1>1, <1>2, <1>3, <1>4, <1>5 DEF Next

\* Only the two deleters move their program counters, and each stores "deleted"
\* in the step that removes the row.
LEMMA ClaimsStep ==
    ASSUME TypeOK, Structure, Claims, [Next]_vars
    PROVE  Claims'
<1>1. \A j \in Job : row[j] = "gone" => row'[j] = "gone"
  BY GoneStays
<1>2. ASSUME UNCHANGED <<del, swp>> PROVE Claims'
  BY <1>1, <1>2 DEF Claims
<1>3. CASE Boot
  BY <1>2, <1>3 DEF Boot, FailInterrupted, QueuedIDs, ResumeNext, Serve
<1>4. ASSUME NEW j \in Job, JobNext(j) PROVE Claims'
  <2>1. CASE SubmitCreate(j) \/ SubmitStep(j) \/ HangUp(j) \/ Cancel(j)
    BY <1>2, <2>1 DEF SubmitCreate, SubmitStep, SubmitPublish, SubmitSend, SubmitFail,
       SubmitGet, SubmitEmit, HangUp, Cancel
  <2>2. CASE DeleteLookup(j) \/ DeleteStep(j)
    <3>1. /\ swp' = swp
          /\ \A k \in Job \ {j} : del'[k] = del[k]
          /\ del[j] # "idle" \/ j \in Deleting
          /\ del'[j] = "deleted" => row'[j] = "gone"
      BY <2>2 DEF DeleteLookup, DeleteStep, DeleteCancel, DeleteUnlink, DeleteRow,
         DeletePublish, TypeOK
    <3>2. QED BY <1>1, <3>1 DEF Claims
  <2>3. CASE SweepStep(j)
    <3>1. /\ del' = del
          /\ \A k \in Job \ {j} : swp'[k] = swp[k]
          /\ swp[j] # "idle"
          /\ swp'[j] = "deleted" => row'[j] = "gone"
      BY <2>3 DEF SweepStep, SweepUnlink, SweepRow, SweepPublish, TypeOK
    <3>2. QED BY <1>1, <3>1 DEF Claims
  <2>4. QED BY <1>4, <2>1, <2>2, <2>3 DEF JobNext
<1>5. ASSUME NEW S \in SUBSET Expiring, SweepList(S) PROVE Claims'
  BY <1>1, <1>5 DEF SweepList, Claims
<1>6. ASSUME NEW w \in Worker, WorkerNext(w) PROVE Claims'
  BY <1>2, <1>6 DEF WorkerNext, WorkerStep, Dequeue, WorkerExit, Load, Register, Unregister,
     MarkRunning, GetRunning, EmitRunning, RunnerStart, RunnerFails, RunnerSucceeds,
     RecordError, RecordOutput, RecordDone, GetFinal, EmitFinal, PublishGet,
     PublishEmit, Timeout
<1>7. CASE Sigterm \/ CloseQueue \/ UNCHANGED vars
  BY <1>2, <1>7 DEF Sigterm, CloseQueue
<1>8. CASE ProcessExit \/ Crash
  BY <1>8 DEF ProcessExit, Crash, Down, Claims
<1>9. QED BY <1>3, <1>4, <1>5, <1>6, <1>7, <1>8 DEF Next

\* A step that makes no row done, sends no worker to setDone, and removes only
\* files of jobs that are being deleted.
LEMMA ResultsFrame ==
    ASSUME TypeOK, Structure, Results, output' = output,
           \A k \in Job : file'[k] = file[k] \/ k \in Deleting \union Expiring,
           \A k \in Job : row'[k] = "done" => row[k] = "done",
           \A w \in Worker : wpc'[w] = "setDone" =>
               wpc[w] = "setDone" /\ wjob'[w] = wjob[w],
           \A k \in Job : Held(k) /\ row'[k] \in Present => row[k] \in Present
    PROVE  Results'
<1>1. \A k \in Job : HasOutput(k) => HasOutput(k)'
  BY DEF HasOutput
<1>2. ASSUME NEW w \in Worker, wpc'[w] = "setDone", row'[wjob'[w]] \in Present
      PROVE  HasOutput(wjob[w])' /\ wjob'[w] = wjob[w]
  <2>1. wpc[w] = "setDone" /\ wjob'[w] = wjob[w] /\ wjob[w] \in Job /\ Held(wjob[w])
    BY <1>2 DEF Structure, WorkerShape, TypeOK, Held
  <2>2. row[wjob[w]] \in Present
    BY <1>2, <2>1
  <2>3. HasOutput(wjob[w])
    BY <2>1, <2>2 DEF Results
  <2>4. QED BY <1>1, <2>1, <2>3 DEF HasOutput
<1>3. \A k \in Job : row'[k] = "done" => HasOutput(k)'
  BY <1>1 DEF Results
<1>4. QED BY <1>2, <1>3 DEF Results, HasOutput

\* The steps of a worker that bring a result in: the file, then output_path, then
\* the status.
LEMMA ResultSteps ==
    ASSUME TypeOK, Structure, History, Results, faults' = 0, NEW w \in Worker,
           RunnerSucceeds(w) \/ RecordOutput(w) \/ RecordDone(w)
    PROVE  Results'
<1>0. ~StoreFault
  BY NoFault
<1> PICK j : j = wjob[w]
  OBVIOUS
<1>1. /\ j \in Job /\ wjob[w] = j /\ wjob' = wjob /\ row[j] # "done"
      /\ wpc[w] \in {"exec", "runOk", "setDone"}
      /\ \A v \in Worker \ {w} : wpc'[v] = wpc[v]
  <2>1. wpc[w] \in {"exec", "runOk", "setDone"} /\ wjob' = wjob /\ \A v \in Worker \ {w} : wpc'[v] = wpc[v]
    BY DEF RunnerSucceeds, RecordOutput, RecordDone, Goto, TypeOK
  <2>2. j \in Job /\ ExecuteStatus(w, j)
    BY <2>1 DEF Structure, WorkerShape, TypeOK, History, Executing
  <2>3. QED BY <2>1, <2>2 DEF ExecuteStatus, InRun
<1>2. \A k \in Job \ {j} : row'[k] = row[k] /\ output'[k] = output[k] /\ file'[k] = file[k]
  BY <1>1 DEF RunnerSucceeds, RecordOutput, RecordDone, SetStatus, TypeOK
<1>3. \A v \in Worker \ {w} : wjob[v] # j /\ (wpc[v] = "setDone" => wjob[v] \in Job)
  <2>1. \A v \in Worker \ {w} : wjob[v] # j
    BY <1>1 DEF Structure, OneHolder
  <2>2. \A v \in Worker : wpc[v] = "setDone" => wjob[v] \in Job
    BY DEF Structure, WorkerShape, TypeOK
  <2>3. QED BY <2>1, <2>2
<1>4. /\ row'[j] = "done" => HasOutput(j)'
      /\ wpc'[w] = "setDone" /\ row'[j] \in Present => HasOutput(j)'
  <2>1. CASE RunnerSucceeds(w)
    BY <1>1, <2>1 DEF RunnerSucceeds, Goto, TypeOK
  <2>2. CASE RecordOutput(w)
    <3>1. \/ /\ wpc'[w] = "setDone" /\ file[j] /\ row' = row /\ file' = file
             /\ output'[j] = (row[j] \in Present)
          \/ wpc'[w] = "getFin" /\ row'[j] # "done"
      BY <1>0, <1>1, <2>2 DEF RecordOutput, Goto, TypeOK, SetStatus
    <3>2. QED BY <1>1, <3>1 DEF HasOutput
  <2>3. CASE RecordDone(w)
    <3>1. /\ wpc[w] = "setDone" /\ wpc'[w] = "getFin" /\ UNCHANGED <<output, file>>
          /\ row'[j] = "done" => row[j] \in Present
      BY <1>0, <1>1, <2>3 DEF RecordDone, Goto, TypeOK, SetStatus
    <3>2. QED BY <1>1, <3>1 DEF Results, HasOutput
  <2>4. QED BY <2>1, <2>2, <2>3
<1>5. \A k \in Job \ {j} : HasOutput(k) => HasOutput(k)'
  BY <1>2 DEF HasOutput
<1>6. \A k \in Job : row'[k] = "done" => HasOutput(k)'
  BY <1>2, <1>4, <1>5 DEF Results
<1>7. ASSUME NEW v \in Worker, wpc'[v] = "setDone", row'[wjob[v]] \in Present
      PROVE  HasOutput(wjob[v])'
  <2>1. CASE v = w
    BY <1>1, <1>4, <1>7, <2>1
  <2>2. CASE v # w
    <3>1. wjob[v] \in Job \ {j} /\ wpc[v] = "setDone" /\ row[wjob[v]] \in Present
      BY <1>1, <1>2, <1>3, <1>7, <2>2
    <3>2. HasOutput(wjob[v])
      BY <3>1 DEF Results
    <3>3. QED BY <1>1, <1>5, <3>1, <3>2 DEF HasOutput
  <2>3. QED BY <2>1, <2>2
<1>8. QED BY <1>1, <1>6, <1>7 DEF Results, HasOutput

\* A row is done only with its output recorded, whatever step is taken.
LEMMA ResultsStep ==
    ASSUME TypeOK, Structure, History, Claims, Results, [Next]_vars, faults' = 0
    PROVE  Results'
<1>1. \A k \in Job : Held(k) /\ row'[k] \in Present => row[k] \in Present
  <2> SUFFICES ASSUME NEW k \in Job, Held(k), row'[k] \in Present PROVE row[k] \in Present
    OBVIOUS
  <2>1. row[k] # "none" /\ row[k] \in RowState
    BY DEF Structure, Submitted, TypeOK
  <2>2. row[k] # "gone"
    BY GoneStays DEF Present, Terminal
  <2>3. QED BY <2>1, <2>2 DEF RowState
<1>2. CASE Boot
  <2>1. ~Alive
    BY <1>2 DEF Boot, FailInterrupted, QueuedIDs, ResumeNext, Serve, Alive
  <2>2. /\ output' = output /\ file' = file
        /\ \A k \in Job : row'[k] = "done" => row[k] = "done"
        /\ \A w \in Worker : wpc'[w] # "setDone"
    BY <1>2, <2>1 DEF Boot, FailInterrupted, QueuedIDs, ResumeNext, Serve, SetStatus,
       TypeOK, Oldest, Structure, PhaseShape
  <2>3. QED BY <1>1, <2>2, ResultsFrame
<1>3. ASSUME NEW j \in Job, JobNext(j) PROVE Results'
  <2>1. /\ UNCHANGED <<wpc, wjob, output>>
        /\ \A k \in Job : row'[k] = "done" => row[k] = "done"
    BY <1>3 DEF JobNext, SubmitCreate, SubmitStep, SubmitPublish, SubmitSend, SubmitFail,
       SubmitGet, SubmitEmit, HangUp, Cancel, DeleteLookup, DeleteStep, DeleteCancel,
       DeleteUnlink, DeleteRow, DeletePublish, SweepStep, SweepUnlink, SweepRow,
       SweepPublish, SetStatus, TypeOK
  <2>2. \A k \in Job : file'[k] = file[k] \/ del[k] # "idle" \/ swp[k] # "idle"
    BY <1>3 DEF JobNext, SubmitCreate, SubmitStep, SubmitPublish, SubmitSend, SubmitFail,
       SubmitGet, SubmitEmit, HangUp, Cancel, DeleteLookup, DeleteStep, DeleteCancel,
       DeleteUnlink, DeleteRow, DeletePublish, SweepStep, SweepUnlink, SweepRow,
       SweepPublish, TypeOK
  <2>3. \A k \in Job : file'[k] = file[k] \/ k \in Deleting \union Expiring
    BY <2>2 DEF Claims
  <2>4. QED BY <1>1, <2>1, <2>3, ResultsFrame
<1>4. ASSUME NEW S \in SUBSET Expiring, SweepList(S) PROVE Results'
  <2>1. UNCHANGED <<wpc, wjob, row, output, file>>
    BY <1>4 DEF SweepList
  <2>2. QED BY <1>1, <2>1, ResultsFrame
<1>5. ASSUME NEW w \in Worker, WorkerNext(w) PROVE Results'
  <2>1. CASE RunnerSucceeds(w) \/ RecordOutput(w) \/ RecordDone(w)
    BY <2>1, ResultSteps
  <2>2. CASE ~(RunnerSucceeds(w) \/ RecordOutput(w) \/ RecordDone(w))
    <3>1. /\ output' = output /\ file' = file
          /\ \A k \in Job : row'[k] = "done" => row[k] = "done"
      BY <1>5, <2>2 DEF WorkerNext, WorkerStep, Dequeue, WorkerExit, Load, Register,
         Unregister, MarkRunning, GetRunning, EmitRunning, RunnerStart, RunnerFails,
         RecordError, GetFinal, EmitFinal, PublishGet, PublishEmit, Timeout, SetStatus, TypeOK
    <3>2. \A v \in Worker : wpc'[v] = "setDone" => wpc[v] = "setDone" /\ wjob'[v] = wjob[v]
      BY <1>5, <2>2 DEF WorkerNext, WorkerStep, Dequeue, WorkerExit, Load, Register,
         Unregister, MarkRunning, GetRunning, EmitRunning, RunnerStart, RunnerFails,
         RecordError, GetFinal, EmitFinal, PublishGet, PublishEmit, Timeout, Goto, TypeOK
    <3>3. QED BY <1>1, <3>1, <3>2, ResultsFrame
  <2>3. QED BY <2>1, <2>2
<1>6. CASE Sigterm \/ CloseQueue \/ ProcessExit \/ Crash \/ UNCHANGED vars
  <2>1. /\ UNCHANGED <<row, output, file>>
        /\ \A w \in Worker : wpc'[w] = "setDone" => wpc[w] = "setDone" /\ wjob'[w] = wjob[w]
    BY <1>6 DEF Sigterm, CloseQueue, ProcessExit, Crash, Down
  <2>2. QED BY <1>1, <2>1, ResultsFrame
<1>7. QED BY <1>2, <1>3, <1>4, <1>5, <1>6 DEF Next

\* A step that does not touch job k.
LEMMA AnnouncedFrame ==
    ASSUME NEW k \in Job, Announced(k),
           row'[k] = row[k], event'[k] = event[k], snap'[k] = snap[k], sub'[k] = sub[k],
           \A w \in Worker : (wjob'[w] = k <=> wjob[w] = k) /\ (wjob[w] = k => wpc'[w] = wpc[w])
    PROVE  Announced(k)'
<1>1. Held(k)' <=> Held(k)
  BY DEF Held
<1>2. QED BY <1>1 DEF Announced

\* Submit publishes what it wrote before it lets go of the job.
LEMMA SubmitNews ==
    ASSUME TypeOK, Structure, History, News, faults' = 0, up' = "serving",
           NEW j \in Job, SubmitCreate(j) \/ SubmitStep(j)
    PROVE  News'
<1>0. ~StoreFault
  BY NoFault
<1>1. /\ UNCHANGED <<up, wpc, wjob, hungup>>
      /\ \A k \in Job \ {j} : /\ sub'[k] = sub[k] /\ row'[k] = row[k]
                              /\ event'[k] = event[k] /\ snap'[k] = snap[k]
      /\ sub[j] # "end"
  BY DEF SubmitCreate, SubmitStep, SubmitPublish, SubmitSend, SubmitFail, SubmitGet,
     SubmitEmit, TypeOK, SetStatus
<1>2. ~Held(j) /\ ~Held(j)' /\ \A w \in Worker : wjob'[w] # j
  BY <1>1 DEF Structure, Submitted, Held
<1>3. ASSUME row'[j] \in Present, ~hungup[j] PROVE Announced(j)'
  <2>1. row[j] \in Present => Announced(j)
    BY <1>1, <1>3 DEF News
  <2>2. CASE SubmitCreate(j)
    BY <1>2, <2>2 DEF SubmitCreate, Announced, TypeOK
  <2>3. CASE SubmitPublish(j)
    BY <1>2, <2>3 DEF SubmitPublish, Announced, TypeOK
  <2>4. CASE SubmitSend(j)
    <3>1. /\ sub[j] = "send" /\ sub'[j] \in {"end", "full"} /\ UNCHANGED <<row, event>>
      BY <2>4 DEF SubmitSend, TypeOK
    <3>2. row[j] = "queued" /\ event[j] = "queued"
      BY <1>3, <2>1, <3>1 DEF Announced, History, Waiting, Submitting, Present, Terminal
    <3>3. QED BY <1>2, <3>1, <3>2 DEF Announced
  <2>5. CASE SubmitFail(j)
    BY <1>2, <2>5 DEF SubmitFail, Announced, TypeOK
  <2>6. CASE SubmitGet(j)
    <3>1. sub'[j] = "pubFail" /\ snap'[j] = row[j] /\ row' = row
      BY <1>0, <1>3, <2>6 DEF SubmitGet, StoreError, TypeOK
    <3>2. QED BY <1>2, <3>1 DEF Announced
  <2>7. CASE SubmitEmit(j)
    <3>1. sub[j] = "pubFail" /\ sub'[j] = "end" /\ event'[j] = snap[j] /\ row' = row
      BY <2>7 DEF SubmitEmit, TypeOK
    <3>2. QED BY <1>2, <1>3, <2>1, <3>1 DEF Announced
  <2>8. QED BY <2>2, <2>3, <2>4, <2>5, <2>6, <2>7 DEF SubmitStep
<1>4. ASSUME NEW k \in Job \ {j}, row'[k] \in Present, ~hungup[k] PROVE Announced(k)'
  <2>1. Announced(k)
    BY <1>1, <1>4 DEF News
  <2>2. QED BY <1>1, <2>1, AnnouncedFrame
<1>5. QED BY <1>1, <1>3, <1>4 DEF News

\* A deletion is announced when the row is gone; a hang-up excuses the submitter.
LEMMA RequestNews ==
    ASSUME TypeOK, Structure, Claims, News, up' = "serving", NEW j \in Job,
           HangUp(j) \/ Cancel(j) \/ DeleteLookup(j) \/ DeleteStep(j) \/ SweepStep(j)
    PROVE  News'
<1>1. UNCHANGED <<up, wpc, wjob, sub, snap>>
  BY DEF HangUp, Cancel, DeleteLookup, DeleteStep, SweepStep, DeleteCancel,
     DeleteUnlink, DeleteRow, DeletePublish, SweepUnlink, SweepRow, SweepPublish
<1>2. \A k \in Job : /\ row'[k] = row[k] \/ row'[k] = "gone"
                     /\ hungup[k] => hungup'[k]
  BY DEF TypeOK, HangUp, Cancel, DeleteLookup, DeleteStep, SweepStep, DeleteCancel,
     DeleteUnlink, DeleteRow, DeletePublish, SweepUnlink, SweepRow, SweepPublish
<1>3. \A k \in Job : event'[k] = event[k] \/ del[k] = "deleted" \/ swp[k] = "deleted"
  BY DEF TypeOK, HangUp, Cancel, DeleteLookup, DeleteStep, SweepStep, DeleteCancel,
     DeleteUnlink, DeleteRow, DeletePublish, SweepUnlink, SweepRow, SweepPublish
<1>4. ASSUME NEW k \in Job, row'[k] \in Present, ~hungup'[k] PROVE Announced(k)'
  <2>1. row'[k] = row[k] /\ row[k] # "gone" /\ ~hungup[k]
    BY <1>2, <1>4 DEF Present, Terminal
  <2>2. event'[k] = event[k]
    BY <1>3, <2>1 DEF Claims
  <2>3. Announced(k)
    BY <1>1, <1>4, <2>1 DEF News
  <2>4. QED BY <1>1, <2>1, <2>2, <2>3, AnnouncedFrame
<1>5. QED BY <1>4 DEF News

\* A worker publishes the settled status before it lets go of the job.
LEMMA WorkerNews ==
    ASSUME TypeOK, Structure, History, News, faults' = 0, up' = "serving",
           NEW w \in Worker, WorkerNext(w)
    PROVE  News'
<1>0. ~StoreFault
  BY NoFault
<1>1. /\ UNCHANGED <<up, hungup, sub>>
      /\ \A v \in Worker \ {w} : wpc'[v] = wpc[v] /\ wjob'[v] = wjob[v]
  BY DEF WorkerNext, WorkerStep, Dequeue, WorkerExit, Load, Register,
     Unregister, MarkRunning, GetRunning, EmitRunning, RunnerStart, RunnerFails,
     RunnerSucceeds, RecordError, RecordOutput, RecordDone, GetFinal, EmitFinal,
     PublishGet, PublishEmit, Timeout, Goto, TypeOK
<1>2. ASSUME NEW k \in Job, k # wjob[w], k # wjob'[w], row'[k] \in Present, ~hungup[k]
      PROVE  Announced(k)'
  <2>1. row'[k] = row[k] /\ event'[k] = event[k] /\ snap'[k] = snap[k]
    BY <1>2 DEF WorkerNext, WorkerStep, Dequeue, WorkerExit, Load, Register,
       Unregister, MarkRunning, GetRunning, EmitRunning, RunnerStart, RunnerFails,
       RunnerSucceeds, RecordError, RecordOutput, RecordDone, GetFinal, EmitFinal,
       PublishGet, PublishEmit, Timeout, SetStatus, TypeOK
  <2>2. Announced(k)
    BY <1>1, <1>2, <2>1 DEF News
  <2>3. QED BY <1>1, <1>2, <2>1, <2>2, AnnouncedFrame
<1>3. ASSUME NEW k \in Job, k = wjob[w] \/ k = wjob'[w], row'[k] \in Present, ~hungup[k]
      PROVE  Announced(k)'
  <2>1. CASE Dequeue(w)
    <3>1. k = wjob'[w] /\ wpc'[w] = "load" /\ InCh(k)
      BY <1>3, <2>1, ReceiveFacts DEF Dequeue, Goto, Structure, WorkerShape, TypeOK
    <3>2. sub[k] = "end" /\ Held(k)' /\ \A v \in Worker \ {w} : wjob'[v] # k
      BY <1>1, <3>1 DEF Structure, Submitted, OneHolder, Held
    <3>3. QED BY <1>1, <3>1, <3>2 DEF Announced
  <2>2. CASE ~Dequeue(w)
    <3>0. wjob'[w] \in {wjob[w], None}
      BY <2>2 DEF WorkerNext, WorkerStep, WorkerExit, Load, Register,
         Unregister, MarkRunning, GetRunning, EmitRunning, RunnerStart, RunnerFails,
         RunnerSucceeds, RecordError, RecordOutput, RecordDone, GetFinal, EmitFinal,
         PublishGet, PublishEmit, Timeout, TypeOK
    <3>1. k = wjob[w]
      BY <1>3, <3>0
    <3>2. /\ sub[k] = "end" /\ \A v \in Worker \ {w} : wjob[v] # k
      BY <3>1 DEF Structure, Submitted, OneHolder, Held
    <3>3. row[k] \in Present => Announced(k)
      BY <1>1, <1>3 DEF News
    <3>4. CASE GetFinal(w)
      <4>1. wpc'[w] = "pubFin" /\ snap'[k] = row[k] /\ row' = row /\ wjob' = wjob
        BY <1>0, <1>3, <3>1, <3>4 DEF GetFinal, PublishGet, StoreError, Goto, TypeOK
      <4>2. QED BY <1>1, <3>1, <3>2, <4>1 DEF Announced, Held
    <3>5. CASE EmitFinal(w)
      <4>1. /\ wpc[w] = "pubFin" /\ wpc'[w] = "unregister"
            /\ event'[k] = snap[k] /\ row' = row /\ wjob' = wjob
        BY <3>1, <3>5 DEF EmitFinal, PublishEmit, Goto, TypeOK
      <4>2. snap[k] = row[k]
        BY <1>3, <3>1, <3>3, <4>1 DEF Announced
      <4>3. QED BY <1>1, <3>1, <3>2, <4>1, <4>2 DEF Announced, Held
    <3>6. CASE Unregister(w)
      <4>1. /\ wpc[w] = "unregister" /\ UNCHANGED <<row, event>> /\ wjob'[w] = None
        BY <3>6 DEF Unregister, TypeOK
      <4>2. event[k] = row[k]
        BY <1>3, <3>1, <3>3, <4>1 DEF Announced
      <4>3. QED BY <1>1, <3>1, <3>2, <4>1, <4>2 DEF Announced, Held
    <3>7. CASE Load(w)
      <4>1. wpc[w] = "load" /\ row' = row /\ wctx[w] = "live"
        BY <1>1, <3>7 DEF Load, Structure, LiveUntilRegistered, Unregistered
      <4>2. wpc'[w] = "register" /\ wjob' = wjob
        BY <1>0, <1>3, <3>1, <3>7, <4>1 DEF Load, StoreError, Goto, TypeOK
      <4>3. QED BY <1>1, <3>1, <3>2, <4>2 DEF Announced, Held
    <3>8. CASE Timeout(w)
      <4>1. wpc[w] \notin {"pubFin", "unregister"} /\ UNCHANGED <<wpc, wjob>>
        BY <3>8 DEF Timeout
      <4>2. QED BY <1>1, <3>1, <3>2, <4>1 DEF Announced, Held
    <3>9. CASE WorkerExit(w)
      BY <1>1, <3>9 DEF WorkerExit
    <3>10. CASE Register(w) \/ MarkRunning(w) \/ GetRunning(w) \/ EmitRunning(w)
                \/ RunnerStart(w) \/ RecordError(w) \/ RecordOutput(w) \/ RecordDone(w)
                \/ RunnerFails(w) \/ RunnerSucceeds(w)
      <4>1. wpc'[w] \notin {"pubFin", "unregister"} /\ wjob' = wjob
        BY <3>10 DEF Register, MarkRunning, GetRunning, EmitRunning, RunnerStart, RecordError,
           RecordOutput, RecordDone, RunnerFails, RunnerSucceeds, PublishGet, PublishEmit,
           Goto, TypeOK
      <4>2. QED BY <1>1, <3>1, <3>2, <4>1 DEF Announced, Held
    <3>11. QED BY <2>2, <3>4, <3>5, <3>6, <3>7, <3>8, <3>9, <3>10 DEF WorkerNext, WorkerStep
  <2>3. QED BY <2>1, <2>2
<1>4. QED BY <1>1, <1>2, <1>3 DEF News

\* News survives every step that is not a store fault.
LEMMA NewsStep ==
    ASSUME TypeOK, Structure, History, Claims, News, [Next]_vars, faults' = 0
    PROVE  News'
<1> SUFFICES ASSUME up' = "serving" PROVE News'
  BY DEF News
<1>1. CASE Boot
  <2>1. Serve
    BY <1>1 DEF Boot, FailInterrupted, QueuedIDs, ResumeNext
  <2>2. ~Alive /\ event' = row /\ UNCHANGED <<row, sub, wjob>>
    BY <2>1 DEF Serve, Alive
  <2>3. /\ \A j \in Job : sub'[j] \in {"new", "end"}
        /\ \A w \in Worker : wjob'[w] = None
    BY <2>2 DEF Structure, PhaseShape, WorkerShape
  <2>4. QED BY <2>2, <2>3 DEF News, Announced
<1>2. ASSUME NEW j \in Job, JobNext(j) PROVE News'
  BY <1>2, SubmitNews, RequestNews DEF JobNext
<1>3. CASE (\E S \in SUBSET Expiring : SweepList(S)) \/ UNCHANGED vars
  <2>1. UNCHANGED <<up, row, event, snap, sub, hungup, wpc, wjob>>
    BY <1>3 DEF SweepList
  <2>2. QED BY <2>1 DEF News, Announced, Held
<1>4. ASSUME NEW w \in Worker, WorkerNext(w) PROVE News'
  BY <1>4, WorkerNews
<1>5. ~(Sigterm \/ CloseQueue \/ ProcessExit \/ Crash)
  BY DEF Sigterm, CloseQueue, ProcessExit, Crash, Down
<1>6. QED BY <1>1, <1>2, <1>3, <1>4, <1>5 DEF Next

\* Files and events: the inductive invariant on top of IInv.
THEOREM ReportInvariant == Spec => []ReportInv
<1>1. Init => ReportInv
  <2> SUFFICES ASSUME Init PROVE ReportInv
    OBVIOUS
  <2>1. Claims /\ Results /\ News
    BY DEF Init, Claims, Results, News
  <2>2. QED BY <2>1, IInvInit DEF ReportInv
<1>2. ReportInv /\ [Next]_vars => ReportInv'
  <2> SUFFICES ASSUME ReportInv, [Next]_vars PROVE ReportInv'
    OBVIOUS
  <2>1. IInv' /\ Claims'
    BY IInvStep, ClaimsStep DEF ReportInv, IInv
  <2>2. faults' = 0 => Results' /\ News'
    BY FaultsOnlyGrow, ResultsStep, NewsStep DEF ReportInv, IInv
  <2>3. QED BY <2>1, <2>2 DEF ReportInv
<1>3. QED BY <1>1, <1>2, PTL DEF Spec

\* A job reported done has its output recorded, and the file is on disk unless
\* somebody set out to delete the job, over crashes and restarts.
THEOREM DoneHasOutputHolds == Spec => []DoneHasOutput
<1>1. ReportInv => DoneHasOutput
  BY DEF ReportInv, Results, HasOutput, DoneHasOutput
<1>2. QED BY <1>1, ReportInvariant, PTL

\* When submitter and worker have let go of a job, the last event published for it
\* carries the status its row has.
THEOREM EventsConvergeHolds == Spec => []EventsConverge
<1>1. ReportInv => EventsConverge
  BY DEF ReportInv, News, Announced, EventsConverge
<1>2. QED BY <1>1, ReportInvariant, PTL
=============================================================================
