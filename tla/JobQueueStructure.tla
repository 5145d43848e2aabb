------------------------- MODULE JobQueueStructure --------------------------
(***************************************************************************)
(* What holds of the job queue whatever the store does, for every number   *)
(* of jobs and workers, every queue depth and every number of crashes: the *)
(* types, and where the job ids are.  Every id is in one place, the cancel *)
(* registry is exact, and Resume works oldest job first.                   *)
(***************************************************************************)
EXTENDS JobQueueProps, TLAPS

USE ConstantsAssumption
USE DEF vars, dbVars, metaVars, queueVars, workerVars, subVars, delVars, sweepVars,
        handlerVars, busVars, envVars, worldVars

(* Types *)

\* An UPDATE of a status keeps the table a table of statuses.
LEMMA SetStatusType ==
    ASSUME row \in [Job -> RowState], NEW j, NEW s \in RowState
    PROVE  SetStatus(j, s) \in [Job -> RowState]
BY DEF SetStatus

\* The statuses the actions write.
LEMMA StatusNames ==
    {"none", "gone", "queued", "running", "done", "failed", "canceled"} \subseteq RowState
BY DEF RowState, Present, Terminal

\* A send that found room keeps the channel within its capacity.
LEMMA SendFits ==
    ASSUME ch \in Seq(Job), Len(ch) <= Depth, HasRoom, NEW j \in Job
    PROVE  Append(ch, j) \in Seq(Job) /\ Len(Append(ch, j)) <= Depth
<1>1. Append(ch, j) \in Seq(Job) /\ Len(Append(ch, j)) = Len(ch) + 1 /\ Len(ch) \in Nat
  OBVIOUS
<1>2. QED BY <1>1 DEF HasRoom

\* Every step of every actor keeps the types and the capacity of the channel.
LEMMA TypeStep == TypeOK /\ [Next]_vars => TypeOK'
<1> SUFFICES ASSUME TypeOK, [Next]_vars PROVE TypeOK'
  OBVIOUS
<1>a. /\ StoreOk => faults' \in 0..MaxFaults
      /\ StoreFault => faults' \in 0..MaxFaults
  BY DEF StoreOk, StoreFault, TypeOK
<1>t. /\ row \in [Job -> RowState]
      /\ ch \in Seq(Job) /\ Len(ch) <= Depth
      /\ del \in [Job -> DeletePC]
      /\ output \in [Job -> BOOLEAN]
      /\ starts \in [Job -> Nat]
      /\ pending \subseteq Job
      /\ \A w \in Worker : wjob[w] \in Job \union {None}
  BY DEF TypeOK
<1>u. /\ sub \in [Job -> SubmitPC] /\ swp \in [Job -> SweepPC] /\ snap \in [Job -> RowState]
      /\ wpc \in [Worker -> WorkerPC]
  BY DEF TypeOK
<1> USE StatusNames
<1>1. CASE Boot
  <2>1. CASE FailInterrupted
    <3>1. up' \in Phase
      BY <2>1, <1>t DEF FailInterrupted, Phase
    <3>2. row' \in [Job -> RowState]
      BY <2>1, <1>t, SetStatusType DEF FailInterrupted
    <3>3. faults' \in 0..MaxFaults
      BY <2>1, <1>t, <1>a DEF FailInterrupted, StoreError
    <3>4. QED BY <2>1, <3>1, <3>2, <3>3 DEF FailInterrupted, TypeOK
  <2>2. CASE QueuedIDs
    BY <2>2 DEF QueuedIDs, TypeOK, Phase, StoreOk, StoreFault
  <2>3. CASE ResumeNext
    <3>1. PICK j \in pending : \/ HasRoom /\ ch' = Append(ch, j) /\ row' = row
                               \/ ch' = ch /\ row' \in {row, SetStatus(j, "failed")}
      BY <2>3 DEF ResumeNext, Oldest
    <3>2. ch' \in Seq(Job) /\ Len(ch') <= Depth
      BY <3>1, <1>t, SendFits
    <3>3. row' \in [Job -> RowState]
      BY <3>1, <1>t, SetStatusType
    <3>4. QED BY <2>3, <3>2, <3>3, <1>a, <1>t DEF ResumeNext, TypeOK
  <2>4. CASE Serve
    BY <2>4 DEF Serve, TypeOK, WorkerPC, Phase
  <2>5. QED BY <1>1, <2>1, <2>2, <2>3, <2>4 DEF Boot
<1>2. ASSUME NEW j \in Job, JobNext(j) PROVE TypeOK'
  <2>1. CASE SubmitCreate(j)
    BY <2>1 DEF SubmitCreate, TypeOK, SubmitPC
  <2>2. CASE SubmitPublish(j)
    BY <2>2 DEF SubmitPublish, TypeOK, SubmitPC
  <2>3. CASE SubmitSend(j)
    <3>1. (HasRoom /\ ch' = Append(ch, j)) \/ ch' = ch
      BY <2>3 DEF SubmitSend
    <3>2. ch' \in Seq(Job) /\ Len(ch') <= Depth
      BY <3>1, <1>t, SendFits
    <3>3. sub' \in [Job -> SubmitPC]
      <4>1. sub' = [sub EXCEPT ![j] = "end"] \/ sub' = [sub EXCEPT ![j] = "full"]
        BY <2>3 DEF SubmitSend
      <4>2. QED BY <4>1, <1>u DEF SubmitPC
    <3>4. QED BY <2>3, <3>2, <3>3 DEF SubmitSend, TypeOK
  <2>4. CASE SubmitFail(j)
    <3>1. row' \in [Job -> RowState]
      BY <2>4, <1>t, SetStatusType DEF SubmitFail
    <3>2. faults' \in 0..MaxFaults
      BY <2>4, <1>t, <1>a DEF SubmitFail, StoreError
    <3>3. sub' \in [Job -> SubmitPC]
      BY <2>4, <1>t DEF SubmitFail, TypeOK, SubmitPC
    <3>4. QED BY <2>4, <3>1, <3>2, <3>3 DEF SubmitFail, TypeOK
  <2>5. CASE SubmitGet(j)
    <3>1. snap' \in [Job -> RowState]
      <4>1. snap' = snap \/ snap' = [snap EXCEPT ![j] = row[j]]
        BY <2>5 DEF SubmitGet
      <4>2. QED BY <4>1, <1>t, <1>u
    <3>2. faults' \in 0..MaxFaults
      BY <2>5, <1>t, <1>a DEF SubmitGet, StoreError
    <3>3. sub' \in [Job -> SubmitPC]
      <4>1. sub' = [sub EXCEPT ![j] = "pubFail"] \/ sub' = [sub EXCEPT ![j] = "end"]
        BY <2>5 DEF SubmitGet
      <4>2. QED BY <4>1, <1>u DEF SubmitPC
    <3>4. QED BY <2>5, <3>1, <3>2, <3>3 DEF SubmitGet, TypeOK
  <2>6. CASE SubmitEmit(j)
    BY <2>6 DEF SubmitEmit, TypeOK, SubmitPC
  <2>7. CASE HangUp(j)
    BY <2>7 DEF HangUp, TypeOK
  <2>8. CASE Cancel(j)
    BY <2>8 DEF Cancel, CancelRegistered, TypeOK
  <2>9. CASE DeleteLookup(j)
    BY <2>9 DEF DeleteLookup, TypeOK, DeletePC
  <2>10. CASE DeleteCancel(j)
    BY <2>10 DEF DeleteCancel, CancelRegistered, TypeOK, DeletePC
  <2>11. CASE DeleteUnlink(j)
    BY <2>11 DEF DeleteUnlink, TypeOK, DeletePC
  <2>12. CASE DeleteRow(j)
    <3>1. row' \in [Job -> RowState]
      <4>1. row' = row \/ row' = [row EXCEPT ![j] = "gone"]
        BY <2>12 DEF DeleteRow
      <4>2. QED BY <4>1, <1>t
    <3>2. del' \in [Job -> DeletePC]
      BY <2>12, <1>t DEF DeleteRow, DeletePC
    <3>3. QED BY <2>12, <3>1, <3>2 DEF DeleteRow, TypeOK
  <2>13. CASE DeletePublish(j)
    BY <2>13 DEF DeletePublish, TypeOK, DeletePC
  <2>14. CASE SweepUnlink(j)
    BY <2>14 DEF SweepUnlink, TypeOK, SweepPC
  <2>15. CASE SweepRow(j)
    <3>1. row' \in [Job -> RowState]
      <4>1. row' = row \/ row' = [row EXCEPT ![j] = "gone"]
        BY <2>15 DEF SweepRow
      <4>2. QED BY <4>1, <1>t
    <3>2. faults' \in 0..MaxFaults
      BY <2>15, <1>t, <1>a DEF SweepRow, StoreError
    <3>3. swp' \in [Job -> SweepPC]
      <4>1. swp' = [swp EXCEPT ![j] = "deleted"] \/ swp' = [swp EXCEPT ![j] = "idle"]
        BY <2>15 DEF SweepRow
      <4>2. QED BY <4>1, <1>u DEF SweepPC
    <3>4. QED BY <2>15, <3>1, <3>2, <3>3 DEF SweepRow, TypeOK
  <2>16. CASE SweepPublish(j)
    BY <2>16 DEF SweepPublish, TypeOK, SweepPC
  <2>17. QED BY <1>2, <2>1, <2>2, <2>3, <2>4, <2>5, <2>6, <2>7, <2>8, <2>9, <2>10, <2>11, <2>12, <2>13, <2>14, <2>15, <2>16
       DEF JobNext, SubmitStep, DeleteStep, SweepStep
<1>3. ASSUME NEW S \in SUBSET Expiring, SweepList(S) PROVE TypeOK'
  BY <1>3 DEF SweepList, TypeOK, SweepPC
<1>4. ASSUME NEW w \in Worker, WorkerNext(w) PROVE TypeOK'
  <2>1. CASE Dequeue(w)
    <3>1. ch' \in Seq(Job) /\ Len(ch') <= Depth /\ Head(ch) \in Job
      BY <2>1, <1>t DEF Dequeue
    <3>2. QED BY <2>1, <3>1 DEF Dequeue, TypeOK, Goto, WorkerPC, Unregistered
  <2>2. CASE WorkerExit(w)
    BY <2>2 DEF WorkerExit, TypeOK, Goto, WorkerPC, Unregistered, Registered
  <2>3. CASE Load(w)
    <3>1. faults' \in 0..MaxFaults
      BY <2>3, <1>t, <1>a DEF Load, StoreError
    <3>2. wjob' \in [Worker -> Job \union {None}]
      BY <2>3, <1>t DEF Load, TypeOK
    <3>3. wctx' \in [Worker -> {"live", "canceled", "timedout"}]
      BY <2>3, <1>t DEF Load, TypeOK
    <3>4. wpc' \in [Worker -> WorkerPC]
      <4>1. wpc' = [wpc EXCEPT ![w] = "register"] \/ wpc' = [wpc EXCEPT ![w] = "idle"]
        BY <2>3 DEF Load, Goto
      <4>2. QED BY <4>1, <1>u DEF WorkerPC, Unregistered
    <3>5. QED BY <2>3, <3>1, <3>2, <3>3, <3>4 DEF Load, TypeOK
  <2>4. CASE Register(w)
    BY <2>4 DEF Register, TypeOK, Goto, WorkerPC, Unregistered, Registered
  <2>5. CASE MarkRunning(w)
    <3>1. row' \in [Job -> RowState]
      BY <2>5, <1>t, SetStatusType DEF MarkRunning
    <3>2. faults' \in 0..MaxFaults
      BY <2>5, <1>t, <1>a DEF MarkRunning, StoreError
    <3>3. wpc' \in [Worker -> WorkerPC]
      BY <2>5, <1>t DEF MarkRunning, TypeOK, Goto, WorkerPC, Unregistered, Registered
    <3>4. QED BY <2>5, <3>1, <3>2, <3>3 DEF MarkRunning, TypeOK
  <2>6. CASE GetRunning(w)
    <3>1. snap' \in [Job -> RowState]
      BY <2>6, <1>t DEF GetRunning, PublishGet, TypeOK
    <3>2. faults' \in 0..MaxFaults
      BY <2>6, <1>t, <1>a DEF GetRunning, PublishGet, StoreError
    <3>3. wpc' \in [Worker -> WorkerPC]
      BY <2>6, <1>t DEF GetRunning, PublishGet, TypeOK, Goto, WorkerPC, Unregistered, Registered
    <3>4. QED BY <2>6, <3>1, <3>2, <3>3 DEF GetRunning, PublishGet, TypeOK
  <2>7. CASE EmitRunning(w)
    BY <2>7 DEF EmitRunning, PublishEmit, TypeOK, Goto, WorkerPC, Unregistered, Registered
  <2>8. CASE RunnerStart(w)
    <3>1. starts' \in [Job -> Nat]
      BY <2>8, <1>t DEF RunnerStart
    <3>2. wpc' \in [Worker -> WorkerPC]
      BY <2>8, <1>t DEF RunnerStart, TypeOK, Goto, WorkerPC, Unregistered, Registered
    <3>3. QED BY <2>8, <3>1, <3>2 DEF RunnerStart, TypeOK
  <2>9. CASE RecordError(w)
    <3>1. row' \in [Job -> RowState]
      BY <2>9, <1>t, SetStatusType DEF RecordError
    <3>2. faults' \in 0..MaxFaults
      BY <2>9, <1>t, <1>a DEF RecordError, StoreError
    <3>3. wpc' \in [Worker -> WorkerPC]
      BY <2>9, <1>t DEF RecordError, TypeOK, Goto, WorkerPC, Unregistered, Registered
    <3>4. QED BY <2>9, <3>1, <3>2, <3>3 DEF RecordError, TypeOK
  <2>10. CASE RecordOutput(w)
    <3>1. row' \in [Job -> RowState]
      BY <2>10, <1>t, SetStatusType DEF RecordOutput
    <3>2. faults' \in 0..MaxFaults
      BY <2>10, <1>t, <1>a DEF RecordOutput, StoreError
    <3>3. wpc' \in [Worker -> WorkerPC]
      BY <2>10, <1>t DEF RecordOutput, TypeOK, Goto, WorkerPC, Unregistered, Registered
    <3>4. output' \in [Job -> BOOLEAN]
      <4> DEFINE b == row[wjob[w]] \in Present
      <4>1. output' = [output EXCEPT ![wjob[w]] = b] \/ output' = output
        BY <2>10 DEF RecordOutput
      <4>2. b \in BOOLEAN
        OBVIOUS
      <4> HIDE DEF b
      <4>3. QED BY <4>1, <4>2, <1>t
    <3>5. QED BY <2>10, <3>1, <3>2, <3>3, <3>4 DEF RecordOutput, TypeOK
  <2>11. CASE RecordDone(w)
    <3>1. row' \in [Job -> RowState]
      BY <2>11, <1>t, SetStatusType DEF RecordDone
    <3>2. faults' \in 0..MaxFaults
      BY <2>11, <1>t, <1>a DEF RecordDone, StoreError
    <3>3. wpc' \in [Worker -> WorkerPC]
      BY <2>11, <1>t DEF RecordDone, TypeOK, Goto, WorkerPC, Unregistered, Registered
    <3>4. QED BY <2>11, <3>1, <3>2, <3>3 DEF RecordDone, TypeOK
  <2>12. CASE GetFinal(w)
    <3>1. snap' \in [Job -> RowState]
      BY <2>12, <1>t DEF GetFinal, PublishGet, TypeOK
    <3>2. faults' \in 0..MaxFaults
      BY <2>12, <1>t, <1>a DEF GetFinal, PublishGet, StoreError
    <3>3. wpc' \in [Worker -> WorkerPC]
      BY <2>12, <1>t DEF GetFinal, PublishGet, TypeOK, Goto, WorkerPC, Unregistered, Registered
    <3>4. QED BY <2>12, <3>1, <3>2, <3>3 DEF GetFinal, PublishGet, TypeOK
  <2>13. CASE EmitFinal(w)
    BY <2>13 DEF EmitFinal, PublishEmit, TypeOK, Goto, WorkerPC, Unregistered, Registered
  <2>14. CASE Unregister(w)
    BY <2>14 DEF Unregister, TypeOK, Goto, WorkerPC, Unregistered, Registered
  <2>15. CASE RunnerFails(w)
    BY <2>15 DEF RunnerFails, TypeOK, Goto, WorkerPC, Unregistered, Registered
  <2>16. CASE RunnerSucceeds(w)
    <3>1. file' \in [Job -> BOOLEAN]
      BY <2>16, <1>t DEF RunnerSucceeds, TypeOK
    <3>2. wpc' \in [Worker -> WorkerPC]
      BY <2>16, <1>t DEF RunnerSucceeds, TypeOK, Goto, WorkerPC, Unregistered, Registered
    <3>3. QED BY <2>16, <3>1, <3>2 DEF RunnerSucceeds, TypeOK
  <2>17. CASE Timeout(w)
    BY <2>17 DEF Timeout, TypeOK
  <2>18. QED BY <1>4, <2>1, <2>2, <2>3, <2>4, <2>5, <2>6, <2>7, <2>8, <2>9, <2>10, <2>11, <2>12, <2>13, <2>14, <2>15, <2>16, <2>17
       DEF WorkerNext, WorkerStep
<1>5. CASE Sigterm
  BY <1>5 DEF Sigterm, TypeOK, Phase
<1>6. CASE CloseQueue
  BY <1>6 DEF CloseQueue, TypeOK, Phase
<1>7. CASE ProcessExit
  BY <1>7 DEF ProcessExit, Down, TypeOK, Phase, WorkerPC, SubmitPC, DeletePC, SweepPC
<1>8. CASE Crash
  BY <1>8 DEF Crash, Down, TypeOK, Phase, WorkerPC, SubmitPC, DeletePC, SweepPC
<1>9. CASE UNCHANGED vars
  BY <1>9 DEF TypeOK
<1>10. QED
  BY <1>1, <1>2, <1>3, <1>4, <1>5, <1>6, <1>7, <1>8, <1>9 DEF Next

\* TypeOK holds initially.
LEMMA TypeInit == Init => TypeOK
BY DEF Init, TypeOK, Phase, RowState, WorkerPC, SubmitPC, DeletePC, SweepPC

\* In every reachable state the variables have their types and Queue.ch holds at
\* most Depth ids, whatever order Submit, Resume and the workers run in.
THEOREM TypeCorrect == Spec => []TypeOK
<1>1. Init => TypeOK
  BY TypeInit
<1>2. TypeOK /\ [Next]_vars => TypeOK'
  BY TypeStep
<1>3. QED BY <1>1, <1>2, PTL DEF Spec

(* The channel *)

\* A send adds the id at the end and nothing else.
LEMMA SendFacts ==
    ASSUME ch \in Seq(Job), NEW x \in Job, ch' = Append(ch, x)
    PROVE  /\ Len(ch') = Len(ch) + 1
           /\ \A i \in 1..Len(ch) : ch'[i] = ch[i]
           /\ ch'[Len(ch) + 1] = x
           /\ \A j \in Job : InCh(j)' <=> InCh(j) \/ j = x
<1>1. /\ Len(ch') = Len(ch) + 1
      /\ \A i \in 1..Len(ch) : ch'[i] = ch[i]
      /\ ch'[Len(ch) + 1] = x
  OBVIOUS
<1>2. 1..Len(ch') = (1..Len(ch)) \union {Len(ch) + 1}
  BY <1>1
<1>3. QED BY <1>1, <1>2 DEF InCh

\* A receive takes the head and shifts the others.
LEMMA ReceiveFacts ==
    ASSUME ch \in Seq(Job), ch # <<>>, ch' = Tail(ch)
    PROVE  /\ Head(ch) \in Job /\ InCh(Head(ch))
           /\ Len(ch') = Len(ch) - 1
           /\ \A i \in 1..Len(ch') : i + 1 \in 1..Len(ch) /\ ch'[i] = ch[i + 1]
           /\ \A j \in Job : InCh(j) => InCh(j)' \/ j = Head(ch)
           /\ \A j \in Job : InCh(j)' => InCh(j)
<1>1. /\ Len(ch) \in Nat /\ Len(ch) # 0
      /\ Head(ch) = ch[1] /\ Head(ch) \in Job
      /\ Len(ch') = Len(ch) - 1
      /\ \A i \in 1..Len(ch') : i + 1 \in 1..Len(ch) /\ ch'[i] = ch[i + 1]
  OBVIOUS
<1>2. InCh(Head(ch))
  BY <1>1 DEF InCh
<1>3. ASSUME NEW j \in Job, InCh(j) PROVE InCh(j)' \/ j = Head(ch)
  <2>1. PICK i \in 1..Len(ch) : ch[i] = j
    BY <1>3 DEF InCh
  <2>2. CASE i = 1
    BY <1>1, <2>1, <2>2
  <2>3. CASE i # 1
    <3>1. i - 1 \in 1..Len(ch') /\ ch'[i - 1] = ch[(i - 1) + 1]
      BY <1>1, <2>1, <2>3
    <3>2. QED BY <2>1, <3>1 DEF InCh
  <2>4. QED BY <2>2, <2>3
<1>4. ASSUME NEW j \in Job, InCh(j)' PROVE InCh(j)
  BY <1>1, <1>4 DEF InCh
<1>5. QED BY <1>1, <1>2, <1>3, <1>4

\* An empty channel holds no id.
LEMMA EmptyCh == ch = <<>> => \A j \in Job : ~InCh(j)
BY DEF InCh

(* Frames *)

\* Hang-ups, cancels and deletions leave the queue and the positions alone.
LEMMA RequestFrame ==
    ASSUME NEW j \in Job,
           HangUp(j) \/ Cancel(j) \/ DeleteLookup(j) \/ DeleteStep(j) \/ SweepStep(j)
    PROVE  UNCHANGED <<up, created, lastCreated, ch, pending, running, wpc, wjob, sub, starts>>
<1>1. CASE HangUp(j) \/ Cancel(j) \/ DeleteLookup(j)
  BY <1>1 DEF HangUp, Cancel, DeleteLookup
<1>2. CASE DeleteStep(j)
  BY <1>2 DEF DeleteStep, DeleteCancel, DeleteUnlink, DeleteRow, DeletePublish
<1>3. CASE SweepStep(j)
  BY <1>3 DEF SweepStep, SweepUnlink, SweepRow, SweepPublish
<1>4. QED BY <1>1, <1>2, <1>3

\* The steps of execute between registration and the deferred delete.
Inner(w) == \/ MarkRunning(w) \/ GetRunning(w) \/ EmitRunning(w) \/ RunnerStart(w)
            \/ RunnerFails(w) \/ RunnerSucceeds(w) \/ RecordError(w) \/ RecordOutput(w)
            \/ RecordDone(w) \/ GetFinal(w) \/ EmitFinal(w) \/ Timeout(w)

\* Such a step moves the worker within the registered span and touches neither
\* the channel nor the registry.
LEMMA InnerFrame ==
    ASSUME NEW w \in Worker, Inner(w), wpc \in [Worker -> WorkerPC]
    PROVE  /\ UNCHANGED <<up, created, lastCreated, ch, pending, running, wjob, sub, hungup>>
           /\ wpc[w] \in Registered /\ wpc'[w] \in Registered
           /\ wpc' = [wpc EXCEPT ![w] = wpc'[w]]
<1> USE DEF Registered, Goto
<1>1. CASE MarkRunning(w) \/ RunnerStart(w) \/ RunnerFails(w) \/ RunnerSucceeds(w)
  BY <1>1 DEF MarkRunning, RunnerStart, RunnerFails, RunnerSucceeds
<1>2. CASE GetRunning(w) \/ EmitRunning(w) \/ GetFinal(w) \/ EmitFinal(w)
  BY <1>2 DEF GetRunning, EmitRunning, GetFinal, EmitFinal, PublishGet, PublishEmit
<1>3. CASE RecordError(w) \/ RecordOutput(w) \/ RecordDone(w)
  BY <1>3 DEF RecordError, RecordOutput, RecordDone
<1>4. CASE Timeout(w)
  BY <1>4 DEF Timeout
<1>5. QED BY <1>1, <1>2, <1>3, <1>4 DEF Inner

(* Positions: who holds an id, who is registered *)

\* Structure survives the requests that cancel and delete, and the sweeper.
LEMMA RequestStructure ==
    ASSUME TypeOK, Structure, NEW j \in Job,
           HangUp(j) \/ Cancel(j) \/ DeleteLookup(j) \/ DeleteStep(j) \/ SweepStep(j)
    PROVE  Structure'
<1>1. UNCHANGED <<up, created, lastCreated, ch, pending, running, wpc, wjob, sub>>
  BY RequestFrame
<1>2. WorkerShape' /\ PhaseShape' /\ OneHolder' /\ RegistryExact' /\ CreationOrder'
      /\ ResumeOldestFirst'
  BY <1>1 DEF Structure, WorkerShape, PhaseShape, OneHolder, RegistryExact,
       CreationOrder, ResumeOldestFirst, Held, InCh, Alive
<1>3. Submitted'
  <2>1. \A k \in Job : row'[k] = row[k] \/ (row[k] \in Present /\ row'[k] = "gone")
    BY DEF TypeOK, HangUp, Cancel, DeleteLookup, DeleteStep, SweepStep, DeleteCancel,
        DeleteUnlink, DeleteRow, DeletePublish, SweepUnlink, SweepRow, SweepPublish
  <2>2. QED BY <1>1, <2>1 DEF Structure, Submitted, Held, InCh, Present, Terminal
<1>4. LiveUntilRegistered'
  <2>1. CASE Cancel(j) \/ DeleteCancel(j)
    <3>1. wctx' = CancelRegistered(j)
      BY <2>1 DEF Cancel, DeleteCancel
    <3>2. \A w \in Worker : wpc[w] \in Unregistered => running[j] # w
      BY DEF Structure, RegistryExact, Unregistered, Registered
    <3>3. QED BY <1>1, <3>1, <3>2 DEF Structure, LiveUntilRegistered, CancelRegistered, TypeOK
  <2>2. CASE wctx' = wctx
    BY <1>1, <2>2 DEF Structure, LiveUntilRegistered
  <2>3. QED
    BY <2>1, <2>2 DEF HangUp, DeleteLookup, DeleteStep, SweepStep, DeleteUnlink, DeleteRow,
        DeletePublish, SweepUnlink, SweepRow, SweepPublish
<1>5. QED BY <1>2, <1>3, <1>4 DEF Structure

\* Structure survives the steps of a registered worker.
LEMMA InnerStructure ==
    ASSUME TypeOK, Structure, NEW w \in Worker, Inner(w)
    PROVE  Structure'
<1>1. /\ UNCHANGED <<up, created, lastCreated, ch, pending, running, wjob, sub, hungup>>
      /\ wpc[w] \in Registered /\ wpc'[w] \in Registered
      /\ wpc' = [wpc EXCEPT ![w] = wpc'[w]]
      /\ wpc \in [Worker -> WorkerPC]
  BY InnerFrame DEF TypeOK
<1>2. OneHolder' /\ CreationOrder' /\ ResumeOldestFirst'
  BY <1>1 DEF Structure, OneHolder, CreationOrder, ResumeOldestFirst, Held, InCh
<1>3. WorkerShape' /\ PhaseShape' /\ RegistryExact'
  BY <1>1 DEF Structure, WorkerShape, PhaseShape, RegistryExact, Alive, Registered
<1>4. Submitted'
  <2>1. wjob[w] \in Job
    BY <1>1 DEF Structure, WorkerShape, Registered, TypeOK
  <2>2. \A k \in Job : row'[k] = row[k] \/ (row[k] \in Present /\ row'[k] \in Present)
    BY <2>1 DEF TypeOK, Inner, MarkRunning, GetRunning, EmitRunning, RunnerStart,
      RunnerFails, RunnerSucceeds, RecordError, RecordOutput, RecordDone, GetFinal,
      EmitFinal, PublishGet, PublishEmit, Timeout, SetStatus, Present, Terminal
  <2>3. QED BY <1>1, <2>2 DEF Structure, Submitted, Held, InCh, Present, Terminal
<1>5. LiveUntilRegistered'
  <2>1. \A v \in Worker : v # w => wctx'[v] = wctx[v]
    BY DEF TypeOK, Inner, MarkRunning, GetRunning, EmitRunning, RunnerStart,
      RunnerFails, RunnerSucceeds, RecordError, RecordOutput, RecordDone, GetFinal,
      EmitFinal, PublishGet, PublishEmit, Timeout
  <2>2. QED BY <1>1, <2>1 DEF Structure, LiveUntilRegistered, Registered, Unregistered
<1>6. QED BY <1>2, <1>3, <1>4, <1>5 DEF Structure

\* Structure survives every step of a boot: Resume appends the oldest id last.
LEMMA BootStructure == ASSUME TypeOK, Structure, Boot PROVE Structure'
<1>1. CASE FailInterrupted
  <2>1. UNCHANGED <<created, lastCreated, queueVars, workerVars, subVars>>
        /\ up = "down" /\ up' = "boot"
    BY <1>1 DEF FailInterrupted
  <2>2. \A k \in Job : row'[k] = row[k] \/ (row[k] = "running" /\ row'[k] = "failed")
    BY <1>1 DEF FailInterrupted, TypeOK
  <2>3. Submitted'
    BY <2>1, <2>2 DEF Structure, Submitted, Held, InCh
  <2>4. QED
    BY <2>1, <2>3 DEF Structure, WorkerShape, PhaseShape, OneHolder, RegistryExact,
       CreationOrder, ResumeOldestFirst, LiveUntilRegistered, Held, InCh, Alive
<1>2. CASE QueuedIDs
  <2>1. UNCHANGED <<row, created, lastCreated, ch, running, workerVars, subVars>>
        /\ up = "boot" /\ up' = "resume" /\ ch = <<>>
    BY <1>2 DEF QueuedIDs, Structure, PhaseShape
  <2>2. /\ \A w \in Worker : wpc[w] = "exited" /\ wjob[w] = None
        /\ \A k \in Job : ~Held(k) /\ ~InCh(k) /\ sub[k] \in {"new", "end"}
    BY <2>1, EmptyCh DEF Structure, PhaseShape, WorkerShape, Alive, Held
  <2>3. \A k \in pending' : k \in Job /\ row[k] = "queued"
    BY <1>2 DEF QueuedIDs
  <2>4. Submitted' /\ OneHolder'
    BY <2>1, <2>2, <2>3 DEF Structure, Submitted, OneHolder, Held, InCh
  <2>5. QED
    BY <2>1, <2>2, <2>4 DEF Structure, WorkerShape, PhaseShape, RegistryExact,
       CreationOrder, ResumeOldestFirst, LiveUntilRegistered, Alive
<1>3. CASE ResumeNext
  <2>1. PICK j \in Job :
          /\ j \in pending /\ \A k \in pending : created[j] <= created[k]
          /\ pending' = pending \ {j}
          /\ ch' = Append(ch, j) \/ ch' = ch
          /\ row' = row \/ row' = SetStatus(j, "failed")
    BY <1>3 DEF ResumeNext, Oldest, TypeOK
  <2>2. UNCHANGED <<up, created, lastCreated, running, workerVars, subVars>> /\ up = "resume"
    BY <1>3 DEF ResumeNext
  <2>3. /\ \A w \in Worker : wpc[w] = "exited" /\ wjob[w] = None
        /\ \A k \in Job : ~Held(k) /\ sub[k] \in {"new", "end"}
        /\ ~InCh(j) /\ sub[j] = "end"
    BY <2>1, <2>2 DEF Structure, PhaseShape, WorkerShape, Alive, Held, OneHolder, Submitted
  <2>4. \A k \in Job : (InCh(k)' => InCh(k) \/ k = j)
    BY <2>1, SendFacts DEF InCh, TypeOK
  <2>5. \A k \in Job : row'[k] = row[k] \/ (row[k] \in Present /\ row'[k] = "failed")
    BY <2>1 DEF SetStatus, TypeOK
  <2>6. Submitted'
    BY <2>1, <2>2, <2>3, <2>4, <2>5 DEF Structure, Submitted, Held, Present, Terminal
  <2>7. OneHolder' /\ ResumeOldestFirst'
    <3>1. CASE ch' = ch
      BY <2>1, <2>2, <3>1 DEF Structure, OneHolder, ResumeOldestFirst, Held, InCh
    <3>2. CASE ch' = Append(ch, j)
      <4>1. /\ Len(ch) \in Nat /\ Len(ch') = Len(ch) + 1
            /\ \A i \in 1..Len(ch) : ch'[i] = ch[i] /\ ch[i] # j
            /\ ch'[Len(ch) + 1] = j
        BY <2>3, <3>2, SendFacts DEF TypeOK, InCh
      <4>2. \A i, k \in 1..Len(ch') : ch'[i] = ch'[k] => i = k
        BY <4>1 DEF Structure, OneHolder
      <4>3. \A k \in pending' : k \in Job /\ ~InCh(k)' /\ created[j] < created[k]
        <5> SUFFICES ASSUME NEW k \in pending' PROVE k \in Job /\ ~InCh(k)' /\ created[j] < created[k]
          OBVIOUS
        <5>1. k \in Job /\ k # j /\ k \in pending /\ created[j] <= created[k] /\ ~InCh(k) /\ sub[k] = "end"
          BY <2>1 DEF TypeOK, Structure, OneHolder, Submitted
        <5>2. created[j] # created[k] /\ created[j] \in Nat /\ created[k] \in Nat
          BY <2>3, <5>1 DEF Structure, CreationOrder, TypeOK
        <5>3. QED BY <2>4, <5>1, <5>2
      <4>4. OneHolder'
        BY <2>2, <2>3, <4>2, <4>3 DEF OneHolder, Held
      <4>5. \A i \in 1..Len(ch) : created[ch[i]] < created[j]
        BY <2>1, <2>2 DEF Structure, ResumeOldestFirst
      <4>6. \A i, k \in 1..Len(ch') : i < k => created[ch'[i]] < created[ch'[k]]
        BY <2>2, <4>1, <4>5 DEF Structure, ResumeOldestFirst
      <4>7. \A i \in 1..Len(ch'), k \in pending' : created[ch'[i]] < created[k]
        BY <2>1, <2>2, <4>1, <4>3 DEF Structure, ResumeOldestFirst
      <4>8. QED BY <2>2, <4>4, <4>6, <4>7 DEF ResumeOldestFirst
    <3>3. QED BY <2>1, <3>1, <3>2
  <2>8. QED
    BY <2>2, <2>3, <2>6, <2>7 DEF Structure, WorkerShape, PhaseShape, RegistryExact,
       CreationOrder, LiveUntilRegistered, Alive
<1>4. CASE Serve
  <2>1. /\ UNCHANGED <<row, created, lastCreated, queueVars, wjob, wctx, subVars>>
        /\ up = "resume" /\ up' = "serving" /\ pending = {}
        /\ \A w \in Worker : wpc[w] = "exited" /\ wpc'[w] = "idle"
    BY <1>4 DEF Serve, Structure, PhaseShape, Alive
  <2>2. QED
    BY <2>1 DEF Structure, WorkerShape, PhaseShape, Submitted, OneHolder, RegistryExact,
       CreationOrder, ResumeOldestFirst, LiveUntilRegistered, Held, InCh, Alive,
       Registered, Unregistered
<1>5. QED BY <1>1, <1>2, <1>3, <1>4 DEF Boot

\* Structure survives Submit: the id goes to the channel or stays behind.
LEMMA SubmitStructure ==
    ASSUME TypeOK, Structure, NEW j \in Job, SubmitCreate(j) \/ SubmitStep(j)
    PROVE  Structure'
<1>1. /\ UNCHANGED <<up, pending, running, workerVars, hungup>>
      /\ Alive /\ Alive'
      /\ sub[j] # "end" /\ sub'[j] # "new"
      /\ sub' = [sub EXCEPT ![j] = sub'[j]]
      /\ pending = {} /\ ~Held(j) /\ ~InCh(j)
  <2>1. /\ UNCHANGED <<up, pending, running, workerVars, hungup>>
        /\ Alive
        /\ sub[j] # "end" /\ sub'[j] # "new"
        /\ sub' = [sub EXCEPT ![j] = sub'[j]]
    BY DEF SubmitCreate, SubmitStep, SubmitPublish, SubmitSend, SubmitFail, SubmitGet,
       SubmitEmit, TypeOK
  <2>2. QED BY <2>1 DEF Alive, Structure, PhaseShape, Submitted
<1>t. ch \in Seq(Job) /\ sub \in [Job -> SubmitPC]
  BY DEF TypeOK
<1>2. CASE ch' = ch
  <2>1. \A k \in Job \ {j} : row'[k] = row[k]
    BY DEF SubmitCreate, SubmitStep, SubmitPublish, SubmitSend, SubmitFail, SubmitGet,
       SubmitEmit, TypeOK, SetStatus
  <2>2. row'[j] # "none"
    BY DEF SubmitCreate, SubmitStep, SubmitPublish, SubmitSend, SubmitFail, SubmitGet,
       SubmitEmit, TypeOK, SetStatus, Structure, Submitted
  <2>3. Submitted'
    BY <1>1, <1>2, <2>1, <2>2 DEF Structure, Submitted, Held, InCh, TypeOK
  <2>4. CreationOrder'
    <3>1. CASE SubmitCreate(j)
      BY <1>1, <3>1 DEF SubmitCreate, Structure, CreationOrder, TypeOK
    <3>2. CASE SubmitStep(j)
      <4>1. UNCHANGED <<created, lastCreated>> /\ sub[j] # "new"
        BY <3>2 DEF SubmitStep, SubmitPublish, SubmitSend, SubmitFail, SubmitGet, SubmitEmit
      <4>2. QED BY <1>1, <4>1 DEF Structure, CreationOrder, TypeOK
    <3>3. QED BY <3>1, <3>2
  <2>5. OneHolder'
    BY <1>1, <1>2, <1>t DEF Structure, OneHolder, Held, InCh
  <2>6. QED
    BY <1>1, <1>2, <2>3, <2>4, <2>5 DEF Structure, WorkerShape, PhaseShape,
       RegistryExact, ResumeOldestFirst, LiveUntilRegistered, Alive
<1>3. CASE ch' # ch
  <2>1. /\ ch' = Append(ch, j) /\ sub[j] = "send" /\ sub'[j] = "end"
        /\ UNCHANGED <<row, created, lastCreated>>
    BY <1>3 DEF SubmitCreate, SubmitStep, SubmitPublish, SubmitSend, SubmitFail, SubmitGet,
       SubmitEmit, TypeOK
  <2>2. /\ Len(ch) \in Nat /\ Len(ch') = Len(ch) + 1
        /\ \A i \in 1..Len(ch) : ch'[i] = ch[i] /\ ch[i] # j
        /\ ch'[Len(ch) + 1] = j
        /\ \A k \in Job : InCh(k)' <=> InCh(k) \/ k = j
    <3>1. /\ Len(ch') = Len(ch) + 1
          /\ \A i \in 1..Len(ch) : ch'[i] = ch[i]
          /\ ch'[Len(ch) + 1] = j
          /\ \A k \in Job : InCh(k)' <=> InCh(k) \/ k = j
      BY <1>t, <2>1, SendFacts
    <3>2. Len(ch) \in Nat
      BY <1>t
    <3>3. \A i \in 1..Len(ch) : ch[i] # j
      BY <1>1 DEF InCh
    <3>4. QED BY <3>1, <3>2, <3>3
  <2>3. \A i, k \in 1..Len(ch') : ch'[i] = ch'[k] => i = k
    BY <2>2 DEF Structure, OneHolder
  <2>4. Submitted' /\ OneHolder' /\ CreationOrder'
    BY <1>1, <1>t, <2>1, <2>2, <2>3 DEF Structure, Submitted, OneHolder, CreationOrder, Held
  <2>5. QED
    BY <1>1, <2>1, <2>4 DEF Structure, WorkerShape, PhaseShape, RegistryExact,
       ResumeOldestFirst, LiveUntilRegistered, Alive, TypeOK
<1>4. QED BY <1>2, <1>3

\* The parts of Structure that do not look at the workers' program counters.
LEMMA PositionsFrame ==
    ASSUME Structure, UNCHANGED <<up, row, created, lastCreated, ch, pending, wjob, sub>>
    PROVE  Submitted' /\ OneHolder' /\ CreationOrder' /\ ResumeOldestFirst'
BY DEF Structure, Submitted, OneHolder, CreationOrder, ResumeOldestFirst, Held, InCh

\* Structure survives the receive, the load, the registration and its end.
LEMMA WorkerStructure ==
    ASSUME TypeOK, Structure, NEW w \in Worker,
           Dequeue(w) \/ WorkerExit(w) \/ Load(w) \/ Register(w) \/ Unregister(w)
    PROVE  Structure'
<1>1. CASE Dequeue(w)
  <2>0. PICK h : h = Head(ch)
    OBVIOUS
  <2>1. /\ UNCHANGED <<up, row, created, lastCreated, pending, running, sub>>
        /\ Alive /\ Alive' /\ pending = {}
        /\ wpc[w] = "idle" /\ wjob[w] = None
        /\ wpc' = [wpc EXCEPT ![w] = "load"]
        /\ wjob' = [wjob EXCEPT ![w] = h]
        /\ wctx' = [wctx EXCEPT ![w] = IF up = "serving" THEN "live" ELSE "canceled"]
    BY <1>1, <2>0 DEF Dequeue, Goto, Alive, Structure, PhaseShape, WorkerShape
  <2>2. /\ h \in Job /\ InCh(h)
        /\ \A k \in Job : InCh(k)' => InCh(k)
        /\ Len(ch) \in Nat /\ Len(ch') = Len(ch) - 1 /\ h = ch[1]
        /\ \A i \in 1..Len(ch') : i + 1 \in 1..Len(ch) /\ ch'[i] = ch[i + 1]
    BY <1>1, <2>0, ReceiveFacts DEF Dequeue, TypeOK
  <2>3. /\ \A i, k \in 1..Len(ch') : ch'[i] = ch'[k] => i = k
        /\ ~InCh(h)'
    <3>1. \A i, k \in 1..Len(ch) : ch[i] = ch[k] => i = k
      BY DEF Structure, OneHolder
    <3>2. \A i, k \in 1..Len(ch') : ch'[i] = ch'[k] => i = k
      <4> SUFFICES ASSUME NEW i \in 1..Len(ch'), NEW k \in 1..Len(ch'), ch'[i] = ch'[k]
                   PROVE  i = k
        OBVIOUS
      <4>1. i + 1 = k + 1
        BY <2>2, <3>1
      <4>2. QED BY <4>1
    <3>3. \A i \in 1..Len(ch') : ch'[i] # h
      <4> SUFFICES ASSUME NEW i \in 1..Len(ch'), ch'[i] = h PROVE FALSE
        OBVIOUS
      <4>1. 1 \in 1..Len(ch) /\ i + 1 \in 1..Len(ch) /\ ch[i + 1] = ch[1]
        BY <2>2
      <4>2. i + 1 = 1
        BY <3>1, <4>1
      <4>3. QED BY <4>2
    <3>4. QED BY <3>2, <3>3 DEF InCh
  <2>4. /\ \A k \in Job : Held(k)' => Held(k) \/ k = h
        /\ ~Held(h) /\ sub[h] = "end"
    BY <2>1, <2>2 DEF Held, TypeOK, Structure, OneHolder, Submitted
  <2>5. Submitted' /\ OneHolder'
    <3>1. \A v, u \in Worker : wjob'[v] = wjob'[u] /\ wjob'[v] # None => v = u
      BY <2>1, <2>4 DEF Structure, OneHolder, Held, TypeOK
    <3>2. \A k \in Job : Held(k)' => ~InCh(k)'
      BY <2>2, <2>3, <2>4 DEF Structure, OneHolder
    <3>3. QED
      BY <2>1, <2>2, <2>3, <2>4, <3>1, <3>2 DEF Structure, OneHolder, Submitted
  <2>6. WorkerShape' /\ RegistryExact'
    BY <2>1, <2>2 DEF Structure, WorkerShape, RegistryExact, Registered, TypeOK
  <2>7. PhaseShape' /\ LiveUntilRegistered' /\ CreationOrder' /\ ResumeOldestFirst'
    BY <2>1 DEF Structure, PhaseShape, LiveUntilRegistered, CreationOrder,
       ResumeOldestFirst, Alive, TypeOK
  <2>8. QED BY <2>5, <2>6, <2>7 DEF Structure
<1>2. CASE WorkerExit(w)
  <2>1. /\ UNCHANGED <<up, row, created, lastCreated, queueVars, wjob, wctx, sub>>
        /\ wpc[w] = "idle" /\ wpc' = [wpc EXCEPT ![w] = "exited"] /\ up # "serving"
    BY <1>2 DEF WorkerExit, Goto
  <2>2. QED
    BY <2>1, PositionsFrame DEF Structure, WorkerShape, PhaseShape, RegistryExact,
       LiveUntilRegistered, Alive, Registered, TypeOK
<1>3. CASE Load(w) /\ wjob' = wjob
  <2>1. /\ UNCHANGED <<up, row, created, lastCreated, queueVars, wjob, wctx, sub>>
        /\ wpc[w] = "load" /\ wpc' = [wpc EXCEPT ![w] = "register"]
        /\ wjob[w] \in Job
    BY <1>3 DEF Load, Goto, Structure, WorkerShape, TypeOK
  <2>2. QED
    BY <2>1, PositionsFrame DEF Structure, WorkerShape, PhaseShape, RegistryExact,
       LiveUntilRegistered, Alive, Registered, Unregistered, TypeOK
<1>4. CASE (Load(w) /\ wjob' # wjob) \/ Unregister(w)
  <2>1. /\ UNCHANGED <<up, row, created, lastCreated, ch, pending, sub>>
        /\ wpc[w] \in {"load", "unregister"} /\ wpc' = [wpc EXCEPT ![w] = "idle"]
        /\ wjob[w] \in Job /\ wjob' = [wjob EXCEPT ![w] = None]
        /\ wctx' = [wctx EXCEPT ![w] = "live"]
        /\ running' = IF wpc[w] = "load" THEN running
                      ELSE [running EXCEPT ![wjob[w]] = None]
        /\ Alive
    BY <1>4 DEF Load, Unregister, Goto, Structure, WorkerShape, PhaseShape, TypeOK
  <2>2. \A k \in Job : Held(k)' => Held(k)
    BY <2>1 DEF Held, TypeOK
  <2>3. Submitted' /\ OneHolder'
    <3>1. \A k \in Job : InCh(k)' <=> InCh(k)
      BY <2>1 DEF InCh
    <3>2. Submitted'
      BY <2>1, <2>2, <3>1 DEF Structure, Submitted
    <3>3. \A v \in Worker : wjob'[v] # None => wjob'[v] = wjob[v]
      BY <2>1 DEF TypeOK
    <3>4. \A v, u \in Worker : wjob'[v] = wjob'[u] /\ wjob'[v] # None => v = u
      BY <3>3 DEF Structure, OneHolder
    <3>5. OneHolder'
      <4>1. ch' = ch /\ pending' = pending /\ sub' = sub /\ pending \subseteq Job
        BY <2>1 DEF TypeOK
      <4>2. QED BY <2>2, <3>1, <3>4, <4>1 DEF Structure, OneHolder
    <3>6. QED BY <3>2, <3>5
  <2>4. WorkerShape' /\ RegistryExact'
    BY <2>1 DEF Structure, WorkerShape, RegistryExact, OneHolder, Registered, TypeOK
  <2>5. PhaseShape' /\ LiveUntilRegistered' /\ CreationOrder' /\ ResumeOldestFirst'
    BY <2>1 DEF Structure, PhaseShape, LiveUntilRegistered, CreationOrder,
       ResumeOldestFirst, Alive, Unregistered, TypeOK
  <2>6. QED BY <2>3, <2>4, <2>5 DEF Structure
<1>5. CASE Register(w)
  <2>1. /\ UNCHANGED <<up, row, created, lastCreated, ch, pending, wjob, wctx, sub>>
        /\ wpc[w] = "register" /\ wpc' = [wpc EXCEPT ![w] = "mark"]
        /\ wjob[w] \in Job /\ running' = [running EXCEPT ![wjob[w]] = w]
    BY <1>5 DEF Register, Goto, Structure, WorkerShape, TypeOK
  <2>2. WorkerShape' /\ RegistryExact'
    BY <2>1 DEF Structure, WorkerShape, RegistryExact, OneHolder, Registered, TypeOK
  <2>3. QED
    BY <2>1, <2>2, PositionsFrame DEF Structure, PhaseShape, LiveUntilRegistered, Alive,
       Unregistered, TypeOK
<1>6. QED BY <1>1, <1>2, <1>3, <1>4, <1>5

\* Structure survives the end of the process: all positions are lost together.
LEMMA DownStructure == ASSUME TypeOK, Structure, Down PROVE Structure'
<1>1. ch' = <<>> /\ \A j \in Job : ~InCh(j)' /\ ~Held(j)'
  BY DEF Down, InCh, Held
<1>2. QED
  BY <1>1 DEF Down, Structure, WorkerShape, PhaseShape, Submitted, OneHolder,
     RegistryExact, CreationOrder, ResumeOldestFirst, LiveUntilRegistered, Alive,
     Registered, TypeOK

\* Structure survives SIGTERM and the closing of the channel.
LEMMA StopStructure == ASSUME TypeOK, Structure, Sigterm \/ CloseQueue PROVE Structure'
<1>1. /\ UNCHANGED <<row, created, lastCreated, queueVars, wpc, wjob, sub>>
      /\ up \in {"serving", "draining"} /\ up' \in {"draining", "stopping"}
  BY DEF Sigterm, CloseQueue
<1>2. QED
  BY <1>1 DEF Structure, WorkerShape, PhaseShape, Submitted, OneHolder, RegistryExact,
     CreationOrder, ResumeOldestFirst, LiveUntilRegistered, Held, InCh, Alive

\* Structure survives every step, store faults included.
LEMMA StructureStep == TypeOK /\ Structure /\ [Next]_vars => Structure'
<1> SUFFICES ASSUME TypeOK, Structure, [Next]_vars PROVE Structure'
  OBVIOUS
<1>1. CASE Boot
  BY <1>1, BootStructure
<1>2. ASSUME NEW j \in Job, JobNext(j) PROVE Structure'
  BY <1>2, SubmitStructure, RequestStructure DEF JobNext
<1>3. ASSUME NEW S \in SUBSET Expiring, SweepList(S) PROVE Structure'
  BY <1>3, PositionsFrame DEF SweepList, Structure, WorkerShape, PhaseShape,
     RegistryExact, LiveUntilRegistered, Alive
<1>4. ASSUME NEW w \in Worker, WorkerNext(w) PROVE Structure'
  BY <1>4, WorkerStructure, InnerStructure DEF WorkerNext, WorkerStep, Inner
<1>5. CASE Sigterm \/ CloseQueue
  BY <1>5, StopStructure
<1>6. CASE ProcessExit \/ Crash
  BY <1>6, DownStructure DEF ProcessExit, Crash
<1>7. CASE UNCHANGED vars
  BY <1>7, PositionsFrame DEF Structure, WorkerShape, PhaseShape, RegistryExact,
     LiveUntilRegistered, Alive
<1>8. QED BY <1>1, <1>2, <1>3, <1>4, <1>5, <1>6, <1>7 DEF Next

\* Structure holds initially.
LEMMA StructureInit == Init => Structure
BY DEF Init, Structure, WorkerShape, PhaseShape, Submitted, OneHolder, RegistryExact,
   CreationOrder, ResumeOldestFirst, LiveUntilRegistered, Held, InCh, Alive, Registered

\* The ids are where they belong in every reachable state.
THEOREM StructureHolds == Spec => [](TypeOK /\ Structure)
<1>1. Init => TypeOK /\ Structure
  BY TypeInit, StructureInit
<1>2. TypeOK /\ Structure /\ [Next]_vars => (TypeOK /\ Structure)'
  BY TypeStep, StructureStep
<1>3. QED BY <1>1, <1>2, PTL DEF Spec

\* No job id is ever in two places, so no two workers execute one job: not after
\* a crash, a restart, an overflow or a store fault.
THEOREM OneHolderHolds == Spec => []OneHolder
<1>1. TypeOK /\ Structure => OneHolder
  BY DEF Structure
<1>2. QED BY <1>1, StructureHolds, PTL

\* Queue.running is exact: Cancel reaches a job if and only if a worker is between
\* its registration and the deferred delete, and it reaches that worker.
THEOREM RegistryExactHolds == Spec => []RegistryExact
<1>1. TypeOK /\ Structure => RegistryExact
  BY DEF Structure
<1>2. QED BY <1>1, StructureHolds, PTL

\* Resume fills the channel in the order the jobs were created.
THEOREM ResumeOldestFirstHolds == Spec => []ResumeOldestFirst
<1>1. TypeOK /\ Structure => ResumeOldestFirst
  BY DEF Structure
<1>2. QED BY <1>1, StructureHolds, PTL

\* No step brings back a deleted row, and none but Load looks at the row of a job
\* that has not been loaded.
LEMMA NeverLoadedStep ==
    ASSUME TypeOK, Structure, [Next]_vars, NEW j \in Job, NeverLoaded(j)
    PROVE  NeverLoaded(j)'
<1> USE DEF NeverLoaded
<1>t. row \in [Job -> RowState] /\ starts \in [Job -> Nat] /\ wpc \in [Worker -> WorkerPC]
      /\ wjob \in [Worker -> Job \union {None}] /\ row[j] \notin Present
  BY DEF TypeOK, Present, Terminal
<1>1. CASE Boot
  <2>1. UNCHANGED <<starts, wjob>> /\ \A w \in Worker : wjob[w] # j
    BY <1>1 DEF Boot, FailInterrupted, QueuedIDs, ResumeNext, Serve, Structure, PhaseShape,
       WorkerShape, Alive
  <2>2. row'[j] = "gone"
    BY <1>1, <1>t DEF Boot, FailInterrupted, QueuedIDs, ResumeNext, Serve, SetStatus
  <2>3. QED BY <2>1, <2>2
<1>2. ASSUME NEW k \in Job, JobNext(k) PROVE NeverLoaded(j)'
  <2>1. CASE SubmitCreate(k) \/ SubmitStep(k)
    <3>1. UNCHANGED <<starts, wpc, wjob>>
      BY <2>1 DEF SubmitCreate, SubmitStep, SubmitPublish, SubmitSend, SubmitFail,
         SubmitGet, SubmitEmit
    <3>2. row'[j] = "gone"
      BY <2>1, <1>t DEF SubmitCreate, SubmitStep, SubmitPublish, SubmitSend, SubmitFail,
         SubmitGet, SubmitEmit, SetStatus, Structure, Submitted
    <3>3. QED BY <3>1, <3>2
  <2>2. CASE HangUp(k) \/ Cancel(k) \/ DeleteLookup(k) \/ DeleteStep(k) \/ SweepStep(k)
    <3>1. UNCHANGED <<starts, wpc, wjob>>
      BY <2>2, RequestFrame
    <3>2. row'[j] = "gone"
      BY <2>2, <1>t DEF HangUp, Cancel, DeleteLookup, DeleteStep, SweepStep, DeleteCancel,
         DeleteUnlink, DeleteRow, DeletePublish, SweepUnlink, SweepRow, SweepPublish
    <3>3. QED BY <3>1, <3>2
  <2>3. QED BY <1>2, <2>1, <2>2 DEF JobNext
<1>3. ASSUME NEW S \in SUBSET Expiring, SweepList(S) PROVE NeverLoaded(j)'
  BY <1>3 DEF SweepList
<1>4. ASSUME NEW w \in Worker, WorkerNext(w) PROVE NeverLoaded(j)'
  <2>1. CASE Inner(w)
    <3>1. /\ wjob' = wjob /\ wjob[w] \in Job /\ wjob[w] # j
          /\ wpc' = [wpc EXCEPT ![w] = wpc'[w]]
      BY <2>1, <1>t, InnerFrame DEF Structure, WorkerShape, Registered
    <3>2. \A k \in Job \ {wjob[w]} : row'[k] = row[k] /\ starts'[k] = starts[k]
      BY <2>1, <3>1, <1>t DEF Inner, MarkRunning, GetRunning, EmitRunning, RunnerStart,
         RunnerFails, RunnerSucceeds, RecordError, RecordOutput, RecordDone, GetFinal,
         EmitFinal, PublishGet, PublishEmit, Timeout, SetStatus
    <3>3. \A v \in Worker : wjob[v] = j => wpc'[v] = wpc[v]
      BY <3>1, <1>t
    <3>4. QED BY <3>1, <3>2, <3>3
  <2>2. CASE Dequeue(w)
    BY <2>2, <1>t DEF Dequeue, Goto
  <2>3. CASE Load(w)
    <3>1. CASE wjob[w] = j
      BY <2>3, <3>1, <1>t DEF Load, Goto
    <3>2. CASE wjob[w] # j
      BY <2>3, <3>2, <1>t DEF Load, Goto
    <3>3. QED BY <3>1, <3>2
  <2>4. CASE WorkerExit(w) \/ Register(w) \/ Unregister(w)
    <3>1. wjob[w] # j
      BY <2>4 DEF WorkerExit, Register, Unregister
    <3>2. QED BY <2>4, <3>1, <1>t DEF WorkerExit, Register, Unregister, Goto
  <2>5. QED BY <1>4, <2>1, <2>2, <2>3, <2>4 DEF WorkerNext, WorkerStep, Inner
<1>5. CASE Sigterm \/ CloseQueue \/ UNCHANGED vars
  BY <1>5 DEF Sigterm, CloseQueue
<1>6. CASE ProcessExit \/ Crash
  BY <1>6 DEF ProcessExit, Crash, Down
<1>7. QED BY <1>1, <1>2, <1>3, <1>4, <1>5, <1>6 DEF Next

\* A job deleted before a worker has loaded it never runs: the id that is still in
\* the channel is dropped by store.Get, after any interleaving, crash or fault.
THEOREM DeletedNeverRuns == Spec => DeletedWhileQueuedNeverRuns
<1>1. TypeOK /\ Structure /\ [Next]_vars =>
          [\A j \in Job : NeverLoaded(j) => NeverLoaded(j)']_vars
  BY NeverLoadedStep
<1>2. QED BY <1>1, StructureHolds, PTL DEF Spec, DeletedWhileQueuedNeverRuns
=============================================================================
