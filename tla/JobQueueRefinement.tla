------------------------- MODULE JobQueueRefinement -------------------------
(***************************************************************************)
(* The queue implements the abstract life cycle of a job (JobLifecycle),   *)
(* for every number of jobs, workers, crashes and restarts, provided no    *)
(* store call fails on a live context.                                     *)
(***************************************************************************)
EXTENDS JobQueueHistory

USE ConstantsAssumption
USE DEF vars, dbVars, metaVars, queueVars, workerVars, subVars, delVars, sweepVars,
        handlerVars, busVars, envVars, worldVars

\* A step of job j in the abstract life cycle, or none.
JobStep(j) ==
    \/ Lifecycle!Create(j) \/ Lifecycle!Begin(j) \/ Lifecycle!Settle(j)
    \/ Lifecycle!Delete(j) \/ Lifecycle!StartTool(j)
    \/ UNCHANGED <<row, starts>>

\* Changing the status of a row that is queued, running or deleted settles the
\* job, or finds no row.
LEMMA SettleRow ==
    ASSUME TypeOK, NEW j \in Job, row[j] \in {"queued", "running", "gone"},
           NEW s \in {"failed", "canceled"}, row' = SetStatus(j, s), starts' = starts
    PROVE  JobStep(j)
<1>1. CASE row[j] = "gone"
  BY <1>1 DEF SetStatus, Present, Terminal, JobStep
<1>2. CASE row[j] \in {"queued", "running"}
  <2>1. row' = [row EXCEPT ![j] = s]
    BY <1>2 DEF SetStatus, Present
  <2>2. Lifecycle!Settle(j)
    BY <1>2, <2>1 DEF Lifecycle!Settle, Lifecycle!Become
  <2>3. QED BY <2>2 DEF JobStep
<1>3. QED BY <1>1, <1>2

\* Deleting a row is Delete.
LEMMA DeleteIsDelete ==
    ASSUME NEW j \in Job, row[j] \in Present, row' = [row EXCEPT ![j] = "gone"],
           starts' = starts
    PROVE  JobStep(j)
BY DEF JobStep, Lifecycle!Delete, Lifecycle!Become, Lifecycle!Settled, Present, Terminal

\* Requests: Create, Settle (queue full), Delete, or nothing.
LEMMA RequestRefines ==
    ASSUME TypeOK, Structure, History, faults' = 0, NEW j \in Job, JobNext(j)
    PROVE  JobStep(j)
<1>0. ~StoreFault
  BY NoFault
<1>1. CASE SubmitCreate(j)
  <2>1. row[j] = "none" /\ row' = [row EXCEPT ![j] = "queued"] /\ starts' = starts
    BY <1>1 DEF SubmitCreate, Structure, Submitted
  <2>2. QED BY <2>1 DEF JobStep, Lifecycle!Create, Lifecycle!Become
<1>2. CASE SubmitFail(j)
  <2>1. /\ row' = SetStatus(j, "failed") \/ row' = row
        /\ starts' = starts /\ sub[j] = "full"
    BY <1>2 DEF SubmitFail
  <2>2. row[j] \in {"queued", "running", "gone"}
    BY <2>1 DEF History, Waiting, Submitting
  <2>3. QED BY <2>1, <2>2, SettleRow DEF JobStep
<1>3. CASE DeleteRow(j)
  BY <1>3, DeleteIsDelete DEF DeleteRow, JobStep
<1>4. CASE SweepRow(j)
  BY <1>4, DeleteIsDelete DEF SweepRow, JobStep
<1>5. CASE \/ SubmitPublish(j) \/ SubmitSend(j) \/ SubmitGet(j) \/ SubmitEmit(j)
           \/ HangUp(j) \/ Cancel(j) \/ DeleteLookup(j) \/ DeleteCancel(j)
           \/ DeleteUnlink(j) \/ DeletePublish(j) \/ SweepUnlink(j) \/ SweepPublish(j)
  BY <1>5 DEF JobStep, SubmitPublish, SubmitSend, SubmitGet, SubmitEmit, HangUp, Cancel,
     DeleteLookup, DeleteCancel, DeleteUnlink, DeletePublish, SweepUnlink, SweepPublish
<1>6. QED
  BY <1>1, <1>2, <1>3, <1>4, <1>5 DEF JobNext, SubmitStep, DeleteStep, SweepStep

\* A worker's steps on its job: Begin, StartTool, Settle, or nothing.
LEMMA WorkerRefines ==
    ASSUME TypeOK, Structure, History, faults' = 0, NEW w \in Worker, WorkerNext(w)
    PROVE  UNCHANGED <<row, starts>> \/ \E j \in Job : JobStep(j)
<1>0. ~StoreFault
  BY NoFault
<1>1. CASE \/ Dequeue(w) \/ WorkerExit(w) \/ Load(w) \/ Register(w) \/ GetRunning(w)
           \/ EmitRunning(w) \/ GetFinal(w) \/ EmitFinal(w) \/ Unregister(w)
           \/ RunnerFails(w) \/ RunnerSucceeds(w) \/ Timeout(w)
  BY <1>1 DEF Dequeue, WorkerExit, Load, Register, GetRunning, EmitRunning, GetFinal,
     EmitFinal, PublishGet, PublishEmit, Unregister, RunnerFails, RunnerSucceeds, Timeout
<1>2. CASE \/ MarkRunning(w) \/ RunnerStart(w) \/ RecordError(w) \/ RecordOutput(w)
           \/ RecordDone(w)
  <2> PICK j : j = wjob[w]
    OBVIOUS
  <2>1. /\ j \in Job /\ wjob[w] = j /\ ExecuteStatus(w, j)
        /\ row \in [Job -> RowState] /\ starts \in [Job -> Nat]
    <3>1. wpc[w] \in {"mark", "start", "runErr", "runOk", "setDone"}
      BY <1>2 DEF MarkRunning, RunnerStart, RecordError, RecordOutput, RecordDone
    <3>2. QED BY <3>1 DEF TypeOK, Structure, WorkerShape, History, Executing
  <2>2. CASE MarkRunning(w)
    <3>1. /\ row' = SetStatus(j, "running") \/ row' = row
          /\ starts' = starts /\ row[j] \in {"queued", "gone"}
      BY <2>1, <2>2 DEF MarkRunning, ExecuteStatus
    <3>2. Lifecycle!Begin(j) \/ UNCHANGED <<row, starts>>
      BY <3>1 DEF SetStatus, Present, Terminal, Lifecycle!Begin, Lifecycle!Become
    <3>3. QED BY <2>1, <3>2 DEF JobStep
  <2>3. CASE RunnerStart(w)
    <3>1. CASE starts' = starts
      BY <2>3, <3>1 DEF RunnerStart
    <3>2. CASE starts' # starts
      <4>1. /\ wpc[w] = "start" /\ wctx[w] = "live" /\ row' = row
            /\ starts' = [starts EXCEPT ![j] = starts[j] + 1]
        BY <2>1, <2>3, <3>2 DEF RunnerStart
      <4>2. starts[j] = 0 /\ row[j] \in {"running", "gone"}
        BY <2>1, <4>1 DEF ExecuteStatus, InRun
      <4>3. starts' = [starts EXCEPT ![j] = 1]
        BY <4>1, <4>2
      <4>4. QED BY <2>1, <4>1, <4>2, <4>3 DEF JobStep, Lifecycle!StartTool
    <3>3. QED BY <3>1, <3>2
  <2>4. CASE RecordError(w) \/ RecordOutput(w)
    <3>1. /\ row' = row \/ \E s \in {"failed", "canceled"} : row' = SetStatus(j, s)
          /\ starts' = starts /\ wpc[w] \in {"runErr", "runOk"}
      BY <2>1, <2>4 DEF RecordError, RecordOutput
    <3>2. row[j] \in {"queued", "running", "gone"}
      BY <2>1, <3>1 DEF ExecuteStatus, InRun
    <3>3. QED BY <2>1, <3>1, <3>2, SettleRow
  <2>5. CASE RecordDone(w)
    <3>1. row' \in {row, SetStatus(j, "done")} /\ starts' = starts /\ wpc[w] = "setDone"
      BY <2>1, <2>5 DEF RecordDone
    <3>2. row[j] \in {"running", "gone"} /\ starts[j] = 1
      BY <2>1, <3>1 DEF ExecuteStatus, InRun
    <3>3. Lifecycle!Settle(j) \/ UNCHANGED <<row, starts>>
      BY <3>1, <3>2 DEF SetStatus, Present, Terminal, Lifecycle!Settle, Lifecycle!Become
    <3>4. QED BY <2>1, <3>3 DEF JobStep
  <2>6. QED BY <1>2, <2>2, <2>3, <2>4, <2>5
<1>3. QED BY <1>1, <1>2 DEF WorkerNext, WorkerStep

\* A boot: Interrupt, then Settle for each job that does not fit.
LEMMA BootRefines ==
    ASSUME TypeOK, Structure, History, faults' = 0, Boot
    PROVE  Lifecycle!Interrupt \/ UNCHANGED <<row, starts>> \/ \E j \in Job : JobStep(j)
<1>0. ~StoreFault
  BY NoFault
<1>1. CASE FailInterrupted
  BY <1>0, <1>1 DEF FailInterrupted, Lifecycle!Interrupt
<1>2. CASE QueuedIDs \/ Serve
  BY <1>2 DEF QueuedIDs, Serve
<1>3. CASE ResumeNext
  <2>1. PICK j \in pending : row' \in {row, SetStatus(j, "failed")} /\ starts' = starts
    BY <1>3 DEF ResumeNext, Oldest
  <2>2. j \in Job /\ row[j] \in {"queued", "running", "gone"}
    BY DEF TypeOK, History, Waiting
  <2>3. QED BY <2>1, <2>2, SettleRow
<1>4. QED BY <1>1, <1>2, <1>3 DEF Boot

\* Every step is a step of the life cycle, or leaves it alone.
LEMMA StepRefines ==
    ASSUME TypeOK, Structure, History, faults' = 0, [Next]_vars
    PROVE  [Lifecycle!Next]_<<row, starts>>
<1>1. CASE Boot
  BY <1>1, BootRefines DEF JobStep, Lifecycle!Next
<1>2. ASSUME NEW j \in Job, JobNext(j) PROVE [Lifecycle!Next]_<<row, starts>>
  BY <1>2, RequestRefines DEF JobStep, Lifecycle!Next
<1>3. ASSUME NEW S \in SUBSET Expiring, SweepList(S) PROVE UNCHANGED <<row, starts>>
  BY <1>3 DEF SweepList
<1>4. ASSUME NEW w \in Worker, WorkerNext(w) PROVE [Lifecycle!Next]_<<row, starts>>
  BY <1>4, WorkerRefines DEF JobStep, Lifecycle!Next
<1>5. CASE Sigterm \/ CloseQueue \/ ProcessExit \/ Crash \/ UNCHANGED vars
  BY <1>5 DEF Sigterm, CloseQueue, ProcessExit, Crash, Down
<1>6. QED BY <1>1, <1>2, <1>3, <1>4, <1>5 DEF Next

\* With a reliable store every behaviour of the queue, its requests, its workers
\* and its crashes is a behaviour of JobLifecycle: a job settles once, is marked
\* running before its tool starts, and is done only after the tool has run.
THEOREM QueueImplementsLifecycle ==
    ASSUME MaxFaults = 0
    PROVE  Spec => ImplementsLifecycle
<1>1. Init => Lifecycle!Init
  BY DEF Init, Lifecycle!Init
<1>2. IInv /\ IInv' /\ [Next]_vars => [Lifecycle!Next]_<<row, starts>>
  <2> SUFFICES ASSUME IInv, IInv', [Next]_vars PROVE [Lifecycle!Next]_<<row, starts>>
    OBVIOUS
  <2>1. faults = 0 /\ faults' = 0
    BY DEF IInv, TypeOK
  <2>2. QED BY <2>1, StepRefines DEF IInv
<1>3. Spec => []IInv
  BY InvariantHolds
<1>4. QED BY <1>1, <1>2, <1>3, PTL DEF Spec, ImplementsLifecycle, Lifecycle!Spec
=============================================================================
