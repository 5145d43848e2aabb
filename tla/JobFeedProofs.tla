--------------------------- MODULE JobFeedProofs ----------------------------
(***************************************************************************)
(* The browser's list, for every set of jobs and every buffer capacity:    *)
(* type correctness, DroppedStaysGone and InStep.                          *)
(***************************************************************************)
EXTENDS JobFeed, TLAPS

USE ConstantsAssumption
USE DEF vars, serverVars, linkVars, listVars, requestVars, viewVars, historyVars

-----------------------------------------------------------------------------
(* Lemmas about the helpers *)

\* The ranks of STATUS_RANK.
LEMMA RankValues ==
    /\ Rank["queued"] = 0 /\ Rank["running"] = 1 /\ Rank["settled"] = 2
    /\ Status = {"queued", "running", "settled"}
BY DEF Rank, Status

\* Publish adds at most its own event; a job stays, or becomes, covered and synced
\* only if its event is in the buffer.
LEMMA PublishEffect ==
    ASSUME TypeOK, NEW j \in Job, NEW what \in Status \union {"deleted"},
           Publish(j, what)
    PROVE  /\ buf' \in Seq(Event) /\ Len(buf') <= Buffer
           /\ cover' \subseteq cover /\ synced' \subseteq synced \union {j}
           /\ InFlight \subseteq InFlight'
           /\ InFlight' \subseteq InFlight \union {[job |-> j, what |-> what]}
           /\ ~Subscribed => synced' = synced
           /\ j \in cover' \union synced' /\ Subscribed =>
                [job |-> j, what |-> what] \in InFlight'
<1> DEFINE e == [job |-> j, what |-> what]
<1>1. e \in Event
  BY DEF Event
<1>2. buf \in Seq(Event) /\ Len(buf) <= Buffer /\ Len(buf) \in Nat
  BY DEF TypeOK
<1>3. CASE Subscribed /\ Len(buf) < Buffer /\ buf' = Append(buf, e)
           /\ synced' = synced \union {j} /\ UNCHANGED cover
  <2>1. /\ buf' \in Seq(Event) /\ Len(buf') = Len(buf) + 1
        /\ \A i \in 1..Len(buf) : buf'[i] = buf[i]
        /\ buf'[Len(buf) + 1] = e
    BY <1>1, <1>2, <1>3
  <2>2. InFlight \subseteq InFlight' /\ e \in InFlight'
    BY <1>2, <2>1 DEF InFlight
  <2>3. InFlight' \subseteq InFlight \union {e}
    BY <1>2, <2>1 DEF InFlight
  <2>4. QED BY <1>2, <1>3, <2>1, <2>2, <2>3
<1>4. CASE /\ buf' = buf
           /\ \/ ~Subscribed /\ cover' = cover /\ synced' = synced
              \/ Subscribed /\ cover' = cover \ {j} /\ synced' = synced \ {j}
  <2>1. InFlight' = InFlight
    BY <1>4 DEF InFlight
  <2>2. QED BY <1>2, <1>4, <2>1
<1>5. QED BY <1>3, <1>4 DEF Publish, Missed

\* Receiving takes the oldest event out of the buffer and nothing else.
LEMMA ReceiveEffect ==
    ASSUME TypeOK, buf # <<>>, buf' = Tail(buf)
    PROVE  /\ buf' \in Seq(Event) /\ Len(buf') <= Buffer
           /\ Head(buf) \in Event /\ Head(buf) \in InFlight
           /\ InFlight' \subseteq InFlight
           /\ InFlight \subseteq InFlight' \union {Head(buf)}
<1>1. buf \in Seq(Event) /\ Len(buf) <= Buffer /\ Len(buf) \in Nat /\ Len(buf) >= 1
  BY DEF TypeOK
<1>2. /\ buf' \in Seq(Event) /\ Len(buf') = Len(buf) - 1
      /\ Head(buf) = buf[1] /\ Head(buf) \in Event
      /\ \A i \in 1..Len(buf') : buf'[i] = buf[i + 1]
  BY <1>1
<1>3. Head(buf) \in InFlight
  BY <1>1, <1>2 DEF InFlight
<1>4. InFlight' \subseteq InFlight
  BY <1>1, <1>2 DEF InFlight
<1>5. InFlight \subseteq InFlight' \union {Head(buf)}
  <2> SUFFICES ASSUME NEW i \in 1..Len(buf), i # 1
               PROVE  buf[i] \in InFlight'
    BY <1>2 DEF InFlight
  <2>1. i - 1 \in 1..Len(buf') /\ buf'[i - 1] = buf[i]
    BY <1>1, <1>2
  <2>2. QED BY <2>1 DEF InFlight
<1>6. QED BY <1>1, <1>2, <1>3, <1>4, <1>5

\* An empty buffer holds nothing.
LEMMA UnlinkEffect ==
    ASSUME Unlink
    PROVE  /\ buf' = <<>> /\ buf' \in Seq(Event) /\ Len(buf') <= Buffer
           /\ InFlight' = {} /\ cover' = {} /\ synced' = {} /\ promised' = {}
<1>1. buf' = <<>> /\ cover' = {} /\ synced' = {} /\ promised' = {}
  BY DEF Unlink
<1>2. InFlight' = {}
  BY <1>1 DEF InFlight
<1>3. QED BY <1>1, <1>2

\* A list shows a status or nothing.
LEMMA ListTypes ==
    ASSUME TypeOK
    PROVE  NoList \in Listing /\ Listed \in Listing
BY DEF TypeOK, NoList, Listed, Listing, Status

\* upsertJob changes at most the entry of its job, to the given status.
LEMMA UpsertEffect ==
    ASSUME TypeOK, NEW j \in Job, NEW s \in Status, UpsertJob(j, s)
    PROVE  /\ shown' \in Listing
           /\ \A k \in Job : k # j => shown'[k] = shown[k]
           /\ shown'[j] = shown[j] \/ (shown'[j] = s /\ j \notin tomb)
           /\ shown[j] # "absent" => shown'[j] # "absent"
           /\ j \notin tomb => shown'[j] \in Status /\ Rank[shown'[j]] >= Rank[s]
           /\ shown[j] # "absent" => Rank[shown'[j]] >= Rank[shown[j]]
BY RankValues DEF TypeOK, Listing, UpsertJob

-----------------------------------------------------------------------------
(* Type correctness *)

\* Every step keeps the types, and no subscriber's buffer exceeds its capacity.
LEMMA TypeStep == TypeOK /\ [Next]_vars => TypeOK'
<1> SUFFICES ASSUME TypeOK, [Next]_vars PROVE TypeOK'
  OBVIOUS
<1>t. NoList \in Listing /\ Listed \in Listing
  BY ListTypes
<1>s. {"queued", "running", "settled"} = Status
  BY RankValues
<1>1. ASSUME NEW j \in Job, ServerStep(j) PROVE TypeOK'
  <2>1. CASE Create(j)
    BY <2>1, <1>s DEF Create, TypeOK, Phase
  <2>2. CASE PublishCreated(j)
    <3>1. Publish(j, "queued") /\ "queued" \in Status \union {"deleted"}
      BY <2>2, <1>s DEF PublishCreated
    <3>2. /\ buf' \in Seq(Event) /\ Len(buf') <= Buffer
          /\ cover' \subseteq Job /\ synced' \subseteq Job
      BY <3>1, PublishEffect DEF TypeOK
    <3>3. sub' \in [Job -> Phase]
      BY <2>2 DEF PublishCreated, TypeOK, Phase
    <3>4. QED BY <2>2, <3>2, <3>3 DEF PublishCreated, TypeOK
  <2>3. CASE Accept(j)
    BY <2>3 DEF Accept, TypeOK, Phase
  <2>4. CASE Refuse(j)
    BY <2>4, <1>s DEF Refuse, TypeOK, Phase
  <2>5. CASE Start(j)
    <3>1. row' \in [Job -> Status \union {"none", "gone"}]
      BY <2>5, <1>s DEF Start, TypeOK
    <3>2. QED BY <2>5, <3>1 DEF Start, TypeOK, Phase
  <2>5a. CASE Finish(j)
    BY <2>5a, <1>s DEF Finish, TypeOK, Phase
  <2>6. CASE GetStatus(j)
    <3>1. cover' \subseteq Job /\ synced' \subseteq Job
      BY <2>6 DEF GetStatus, Missed, TypeOK
    <3>2. wpc' \in [Job -> {"idle", "get", "pub"}] /\ wsnap' \in [Job -> Status]
      BY <2>6 DEF GetStatus, TypeOK
    <3>3. QED BY <2>6, <3>1, <3>2 DEF GetStatus, TypeOK
  <2>7. CASE PublishStatus(j)
    <3>1. Publish(j, wsnap[j]) /\ wsnap[j] \in Status \union {"deleted"}
      BY <2>7 DEF PublishStatus, TypeOK
    <3>2. /\ buf' \in Seq(Event) /\ Len(buf') <= Buffer
          /\ cover' \subseteq Job /\ synced' \subseteq Job
      <4>1. cover \subseteq Job /\ synced \subseteq Job
        BY DEF TypeOK
      <4> DEFINE w == wsnap[j]
      <4>2. Publish(j, w) /\ w \in Status \union {"deleted"}
        BY <3>1
      <4> HIDE DEF w
      <4>3. /\ buf' \in Seq(Event) /\ Len(buf') <= Buffer
            /\ cover' \subseteq cover /\ synced' \subseteq synced \union {j}
        BY <4>2, PublishEffect
      <4>4. QED BY <4>1, <4>3
    <3>3. wpc' \in [Job -> {"idle", "get", "pub"}] /\ wsnap' \in [Job -> Status]
      BY <2>7, <1>s DEF PublishStatus, TypeOK
    <3>4. QED BY <2>7, <3>2, <3>3 DEF PublishStatus, TypeOK
  <2>8. CASE DeleteElsewhere(j)
    BY <2>8 DEF DeleteElsewhere, TypeOK
  <2>9. CASE PublishDeleted(j)
    <3>1. Publish(j, "deleted")
      BY <2>9 DEF PublishDeleted
    <3>2. /\ buf' \in Seq(Event) /\ Len(buf') <= Buffer
          /\ cover' \subseteq Job /\ synced' \subseteq Job
      BY <3>1, PublishEffect DEF TypeOK
    <3>3. dpub' \subseteq Job
      BY <2>9 DEF PublishDeleted, TypeOK
    <3>4. QED BY <2>9, <3>2, <3>3 DEF PublishDeleted, TypeOK
  <2>10. CASE ServeDelete(j)
    BY <2>10 DEF ServeDelete, TypeOK
  <2>11. CASE AnswerDelete(j)
    <3>1. Publish(j, "deleted")
      BY <2>11 DEF AnswerDelete
    <3>2. /\ buf' \in Seq(Event) /\ Len(buf') <= Buffer
          /\ cover' \subseteq Job /\ synced' \subseteq Job
      BY <3>1, PublishEffect DEF TypeOK
    <3>3. del' \in [Job -> {"idle", "sent", "publish", "answered"}]
      BY <2>11 DEF AnswerDelete, TypeOK
    <3>4. QED BY <2>11, <3>2, <3>3 DEF AnswerDelete, TypeOK
  <2>12. QED BY <1>1, <2>1, <2>2, <2>3, <2>4, <2>5, <2>5a, <2>6, <2>7, <2>8, <2>9,
                <2>10, <2>11 DEF ServerStep
<1>2. ASSUME NEW j \in Job, BrowserStep(j) PROVE TypeOK'
  <2>1. CASE ReceiveCreated(j)
    <3>1. shown' \in Listing
      BY <2>1, <1>s, UpsertEffect DEF ReceiveCreated
    <3>2. QED BY <2>1, <3>1 DEF ReceiveCreated, TypeOK
  <2>2. CASE LoseCreated(j)
    BY <2>2 DEF LoseCreated, TypeOK
  <2>3. CASE SendDelete(j)
    BY <2>3 DEF SendDelete, TypeOK
  <2>4. CASE ReceiveDelete(j)
    BY <2>4, <1>t DEF ReceiveDelete, DropJob, TypeOK, Listing
  <2>5. CASE FailDelete(j)
    BY <2>5 DEF FailDelete, TypeOK
  <2>6. QED BY <1>2, <2>1, <2>2, <2>3, <2>4, <2>5 DEF BrowserStep
<1>3. CASE LinkStep
  <2>1. CASE Subscribe
    BY <2>1 DEF Subscribe, TypeOK, Link
  <2>2. CASE OnOpen
    <3>1. lsnap' \in Listing /\ load' \in {"idle", "sent", "answered"}
      BY <2>2, <1>t DEF OnOpen, SendLoad, TypeOK
    <3>2. cover' \subseteq Job
      BY <2>2 DEF OnOpen, TypeOK
    <3>3. promised' \in SUBSET Job
      BY <2>2 DEF OnOpen, TypeOK
    <3>4. QED BY <2>2, <3>1, <3>2, <3>3 DEF OnOpen, TypeOK, Link
  <2>3. CASE ReceiveEvent
    <3>1. /\ buf' \in Seq(Event) /\ Len(buf') <= Buffer
          /\ Head(buf) \in Event
      BY <2>3, ReceiveEffect DEF ReceiveEvent
    <3> DEFINE j == Head(buf).job
               what == Head(buf).what
    <3>2. j \in Job /\ what \in Status \union {"deleted"}
      BY <3>1 DEF Event
    <3>3. CASE what = "deleted" /\ DropJob(j)
      <4>1. shown' \in Listing /\ lsnap' \in Listing /\ tomb' \subseteq Job /\ dropped' \subseteq Job
        BY <3>2, <3>3, <1>t DEF DropJob, TypeOK, Listing, NoList
      <4>2. QED BY <2>3, <3>1, <3>3, <4>1, <1>t DEF ReceiveEvent, DropJob, TypeOK
    <3>4. CASE /\ what # "deleted" /\ UpsertJob(j, what)
               /\ cover' = cover \ {j}
               /\ UNCHANGED <<tomb, listVars, dropped>>
      <4>1. shown' \in Listing
        BY <3>2, <3>4, UpsertEffect
      <4>2. cover' \subseteq Job
        BY <3>4 DEF TypeOK
      <4>3. QED BY <2>3, <3>1, <3>4, <4>1, <4>2 DEF ReceiveEvent, TypeOK
    <3>5. QED BY <2>3, <3>3, <3>4 DEF ReceiveEvent
  <2>4. CASE OnError
    BY <2>4, UnlinkEffect DEF OnError, TypeOK, Link
  <2>5. CASE Reconnect
    BY <2>5, UnlinkEffect DEF Reconnect, TypeOK, Link
  <2>6. CASE BootConnect
    BY <2>6, UnlinkEffect DEF BootConnect, TypeOK, Link
  <2>7. CASE Foreground
    BY <2>7, <1>t, UnlinkEffect DEF Foreground, SendLoad, TypeOK, Link
  <2>8. QED BY <1>3, <2>1, <2>2, <2>3, <2>4, <2>5, <2>6, <2>7 DEF LinkStep
<1>4. CASE ListStep
  <2>1. CASE Refresh
    BY <2>1, <1>t DEF Refresh, SendLoad, TypeOK
  <2>2. CASE ServeList
    <3>1. cover' \subseteq Job
      BY <2>2 DEF ServeList
    <3>2. QED BY <2>2, <3>1, <1>t DEF ServeList, TypeOK
  <2>3. CASE ApplyLoad
    <3>1. shown' \in Listing /\ tomb' \subseteq Job
      BY <2>3 DEF ApplyLoad, TypeOK, Listing
    <3>2. cover' \subseteq Job /\ synced' \subseteq Job
      BY <2>3 DEF ApplyLoad, TypeOK
    <3>3. QED BY <2>3, <3>1, <3>2, <1>t DEF ApplyLoad, TypeOK
  <2>4. CASE FailLoad
    BY <2>4, <1>t DEF FailLoad, TypeOK
  <2>5. QED BY <1>4, <2>1, <2>2, <2>3, <2>4 DEF ListStep
<1>5. CASE Restart
  <2>1. /\ row' \in [Job -> Status \union {"none", "gone"}]
        /\ sub' \in [Job -> Phase]
        /\ wpc' \in [Job -> {"idle", "get", "pub"}]
        /\ wsnap' \in [Job -> Status]
        /\ del' \in [Job -> {"idle", "sent", "publish", "answered"}]
    BY <1>5, <1>s DEF Restart, TypeOK, Phase
  <2>2. conn' \in Link /\ load' \in {"idle", "sent", "answered"} /\ dpub' = {}
    BY <1>5 DEF Restart, TypeOK, Link
  <2>3. QED BY <1>5, <2>1, <2>2, UnlinkEffect DEF Restart, TypeOK
<1>6. CASE UNCHANGED vars
  BY <1>6 DEF TypeOK
<1>7. QED BY <1>1, <1>2, <1>3, <1>4, <1>5, <1>6 DEF Next

\* The types of JobFeed hold in every state; with them, that Bus.Publish never
\* fills a subscriber's channel beyond its capacity.
THEOREM TypeCorrect == Spec => []TypeOK
<1>1. Init => TypeOK
  <2> SUFFICES ASSUME Init PROVE TypeOK
    OBVIOUS
  <2>1. /\ row \in [Job -> Status \union {"none", "gone"}]
        /\ sub \in [Job -> Phase]
        /\ wpc \in [Job -> {"idle", "get", "pub"}]
        /\ wsnap \in [Job -> Status]
        /\ del \in [Job -> {"idle", "sent", "publish", "answered"}]
    BY RankValues DEF Init, Phase
  <2>2. buf \in Seq(Event) /\ Len(buf) <= Buffer /\ conn \in Link
    BY DEF Init, Link
  <2>3. lsnap \in Listing /\ shown \in Listing
    BY DEF Init, NoList, Listing
  <2>4. QED BY <2>1, <2>2, <2>3 DEF Init, TypeOK
<1>2. QED BY <1>1, TypeStep, PTL DEF Spec

-----------------------------------------------------------------------------
(* The invariant *)

\* A step that leaves the buffer alone leaves the events in flight alone.
LEMMA SameInFlight == ASSUME buf' = buf PROVE InFlight' = InFlight
BY DEF InFlight

\* Every step keeps the browser behind the table, deleted jobs buried, and what is
\* shown current or about to be.
LEMMA FeedStep == TypeOK /\ TypeOK' /\ FeedInv /\ [Next]_vars => FeedInv'
<1> SUFFICES ASSUME TypeOK, TypeOK', FeedInv, [Next]_vars PROVE FeedInv'
  OBVIOUS
<1>l. LinkShape /\ \A k \in Job : Behind(k) /\ Buried(k) /\ Fresh(k)
  BY DEF FeedInv
<1>n. \A k \in Job : NoList[k] = "absent"
  BY DEF NoList
<1>e. \A e \in InFlight : e.what \in Status \union {"deleted"}
  <2>1. InFlight \subseteq Event
    BY DEF InFlight, TypeOK
  <2>2. QED BY <2>1 DEF Event
<1> USE RankValues
<1>1. ASSUME NEW j \in Job, ServerStep(j) PROVE FeedInv'
  <2>1. CASE Create(j)
    <3>1. InFlight' = InFlight
      BY <2>1, SameInFlight DEF Create
    <3>a. LinkShape'
      BY <2>1, <3>1, <1>l DEF Create, LinkShape, Subscribed
    <3>b. ASSUME NEW k \in Job PROVE Behind(k)'
      BY <2>1, <3>1, <1>l, <1>n DEF Create, Behind, NotNewer, TypeOK
    <3>c. ASSUME NEW k \in Job PROVE Buried(k)'
      BY <2>1, <3>1, <1>l, <1>n DEF Create, Behind, Buried, Quiet, TypeOK, Listing
    <3>d. ASSUME NEW k \in Job PROVE Fresh(k)'
      BY <2>1, <3>1, <1>l, <1>n
        DEF Create, Behind, NotNewer, Fresh, Pending, LinkShape, TypeOK, Listing
    <3>e. QED BY <3>a, <3>b, <3>c, <3>d DEF FeedInv
  <2>2. CASE PublishCreated(j)
    <3>0. Publish(j, "queued") /\ "queued" \in Status \union {"deleted"}
      BY <2>2 DEF PublishCreated
    <3> DEFINE ev == [job |-> j, what |-> "queued"]
    <3>1. /\ InFlight \subseteq InFlight'
          /\ InFlight' \subseteq InFlight \union {ev}
          /\ cover' \subseteq cover /\ synced' \subseteq synced \union {j}
          /\ ~Subscribed => synced' = synced
          /\ j \in cover' \union synced' /\ Subscribed => ev \in InFlight'
          /\ ev.job = j /\ ev.what = "queued"
      BY <3>0, PublishEffect
    <3> HIDE DEF ev
    <3>a. LinkShape'
      BY <2>2, <3>1, <1>l DEF PublishCreated, LinkShape, Subscribed
    <3>b. ASSUME NEW k \in Job PROVE Behind(k)'
      BY <2>2, <3>1, <1>l, <1>n DEF PublishCreated, Behind, NotNewer, TypeOK
    <3>c. ASSUME NEW k \in Job PROVE Buried(k)'
      BY <2>2, <3>1, <1>l, <1>n
        DEF PublishCreated, Behind, Buried, Quiet, TypeOK, Listing
    <3>d. ASSUME NEW k \in Job PROVE Fresh(k)'
      BY <2>2, <3>1, <1>l, <1>n
        DEF PublishCreated, Behind, NotNewer, Fresh, Pending, LinkShape, TypeOK,
            Listing
    <3>e. QED BY <3>a, <3>b, <3>c, <3>d DEF FeedInv
  <2>3. CASE Accept(j)
    <3>1. InFlight' = InFlight
      BY <2>3, SameInFlight DEF Accept
    <3>a. LinkShape'
      BY <2>3, <3>1, <1>l DEF Accept, LinkShape, Subscribed
    <3>b. ASSUME NEW k \in Job PROVE Behind(k)'
      BY <2>3, <3>1, <1>l, <1>n DEF Accept, Behind, NotNewer, TypeOK
    <3>c. ASSUME NEW k \in Job PROVE Buried(k)'
      BY <2>3, <3>1, <1>l, <1>n DEF Accept, Behind, Buried, Quiet, TypeOK, Listing
    <3>d. ASSUME NEW k \in Job PROVE Fresh(k)'
      BY <2>3, <3>1, <1>l, <1>n
        DEF Accept, Behind, NotNewer, Fresh, Pending, LinkShape, TypeOK, Listing
    <3>e. QED BY <3>a, <3>b, <3>c, <3>d DEF FeedInv
  <2>4. CASE Refuse(j)
    <3>1. InFlight' = InFlight
      BY <2>4, SameInFlight DEF Refuse
    <3>a. LinkShape'
      BY <2>4, <3>1, <1>l DEF Refuse, LinkShape, Subscribed
    <3>2. \A k \in Job : row'[k] = row[k] \/ (row[k] \in Status /\ row'[k] \in Status)
      BY <2>4, <1>l DEF Refuse, TypeOK, Behind
    <3>3. \A k \in Job : row[k] \in Status => Rank[row[k]] <= Rank[row'[k]]
      BY <2>4 DEF Refuse, TypeOK
    <3>b. ASSUME NEW k \in Job PROVE Behind(k)'
      <4>1. \A s \in Status : NotNewer(k, s) =>
                row'[k] = "gone" \/ (row'[k] \in Status /\ Rank[s] <= Rank[row'[k]])
        BY <3>2, <3>3 DEF NotNewer
      <4>2. /\ \A e \in InFlight : e.job = k => IF e.what = "deleted"
                    THEN row[k] = "gone" ELSE NotNewer(k, e.what)
            /\ lsnap[k] # "absent" => lsnap[k] \in Status /\ NotNewer(k, lsnap[k])
            /\ shown[k] # "absent" => shown[k] \in Status /\ NotNewer(k, shown[k])
            /\ wpc[k] = "pub" => wsnap[k] \in Status /\ NotNewer(k, wsnap[k])
        BY <1>l DEF Behind, TypeOK, Listing
      <4>3. /\ (\A e \in InFlight : e.job = k => IF e.what = "deleted"
                    THEN row[k] = "gone" ELSE NotNewer(k, e.what))'
            /\ (lsnap[k] # "absent" => NotNewer(k, lsnap[k]))'
            /\ (shown[k] # "absent" => NotNewer(k, shown[k]))'
            /\ (wpc[k] = "pub" => NotNewer(k, wsnap[k]))'
        BY <2>4, <3>1, <3>2, <4>1, <4>2, <1>e DEF Refuse, NotNewer, TypeOK
      <4>4. QED BY <2>4, <4>3, <3>1, <3>2, <1>l DEF Refuse, Behind, TypeOK
    <3>c. ASSUME NEW k \in Job PROVE Buried(k)'
      BY <2>4, <3>1, <1>l, <1>n DEF Refuse, Behind, Buried, Quiet, TypeOK, Listing
    <3>d. ASSUME NEW k \in Job PROVE Fresh(k)'
      BY <2>4, <3>1, <1>l, <1>n
        DEF Refuse, Behind, NotNewer, Fresh, Pending, LinkShape, TypeOK, Listing
    <3>e. QED BY <3>a, <3>b, <3>c, <3>d DEF FeedInv
  <2>5. CASE Start(j)
    <3>1. InFlight' = InFlight
      BY <2>5, SameInFlight DEF Start
    <3>a. LinkShape'
      BY <2>5, <3>1, <1>l DEF Start, LinkShape, Subscribed
    <3>2. \A k \in Job : row'[k] = row[k] \/ (row[k] \in Status /\ row'[k] \in Status)
      BY <2>5, <1>l DEF Start, TypeOK, Behind
    <3>3. \A k \in Job : row[k] \in Status => Rank[row[k]] <= Rank[row'[k]]
      BY <2>5 DEF Start, TypeOK
    <3>b. ASSUME NEW k \in Job PROVE Behind(k)'
      <4>1. \A s \in Status : NotNewer(k, s) =>
                row'[k] = "gone" \/ (row'[k] \in Status /\ Rank[s] <= Rank[row'[k]])
        BY <3>2, <3>3 DEF NotNewer
      <4>2. /\ \A e \in InFlight : e.job = k => IF e.what = "deleted"
                    THEN row[k] = "gone" ELSE NotNewer(k, e.what)
            /\ lsnap[k] # "absent" => lsnap[k] \in Status /\ NotNewer(k, lsnap[k])
            /\ shown[k] # "absent" => shown[k] \in Status /\ NotNewer(k, shown[k])
            /\ wpc[k] = "pub" => wsnap[k] \in Status /\ NotNewer(k, wsnap[k])
        BY <1>l DEF Behind, TypeOK, Listing
      <4>3. /\ (\A e \in InFlight : e.job = k => IF e.what = "deleted"
                    THEN row[k] = "gone" ELSE NotNewer(k, e.what))'
            /\ (lsnap[k] # "absent" => NotNewer(k, lsnap[k]))'
            /\ (shown[k] # "absent" => NotNewer(k, shown[k]))'
            /\ (wpc[k] = "pub" => NotNewer(k, wsnap[k]))'
        <5>1. /\ lsnap' = lsnap /\ shown' = shown /\ wsnap' = wsnap
              /\ (wpc'[k] = "pub" => wpc[k] = "pub")
          BY <2>5 DEF Start, TypeOK
        <5>2. \A s \in Status : NotNewer(k, s) => NotNewer(k, s)'
          BY <4>1 DEF NotNewer
        <5>3. row[k] = "gone" => row'[k] = "gone"
          BY <3>2
        <5>4. QED BY <3>1, <4>2, <5>1, <5>2, <5>3, <1>e
      <4>4. QED BY <2>5, <4>3, <3>1, <3>2, <1>l DEF Start, Behind, TypeOK
    <3>c. ASSUME NEW k \in Job PROVE Buried(k)'
      BY <2>5, <3>1, <1>l, <1>n DEF Start, Behind, Buried, Quiet, TypeOK, Listing
    <3>d. ASSUME NEW k \in Job PROVE Fresh(k)'
      BY <2>5, <3>1, <1>l, <1>n
        DEF Start, Behind, NotNewer, Fresh, Pending, LinkShape, TypeOK, Listing
    <3>e. QED BY <3>a, <3>b, <3>c, <3>d DEF FeedInv
  <2>5a. CASE Finish(j)
    <3>1. InFlight' = InFlight
      BY <2>5a, SameInFlight DEF Finish
    <3>a. LinkShape'
      BY <2>5a, <3>1, <1>l DEF Finish, LinkShape, Subscribed
    <3>2. \A k \in Job : row'[k] = row[k] \/ (row[k] \in Status /\ row'[k] \in Status)
      BY <2>5a, <1>l DEF Finish, TypeOK, Behind
    <3>3. \A k \in Job : row[k] \in Status => Rank[row[k]] <= Rank[row'[k]]
      BY <2>5a DEF Finish, TypeOK
    <3>b. ASSUME NEW k \in Job PROVE Behind(k)'
      <4>1. \A s \in Status : NotNewer(k, s) =>
                row'[k] = "gone" \/ (row'[k] \in Status /\ Rank[s] <= Rank[row'[k]])
        BY <3>2, <3>3 DEF NotNewer
      <4>2. /\ \A e \in InFlight : e.job = k => IF e.what = "deleted"
                    THEN row[k] = "gone" ELSE NotNewer(k, e.what)
            /\ lsnap[k] # "absent" => lsnap[k] \in Status /\ NotNewer(k, lsnap[k])
            /\ shown[k] # "absent" => shown[k] \in Status /\ NotNewer(k, shown[k])
            /\ wpc[k] = "pub" => wsnap[k] \in Status /\ NotNewer(k, wsnap[k])
        BY <1>l DEF Behind, TypeOK, Listing
      <4>3. /\ (\A e \in InFlight : e.job = k => IF e.what = "deleted"
                    THEN row[k] = "gone" ELSE NotNewer(k, e.what))'
            /\ (lsnap[k] # "absent" => NotNewer(k, lsnap[k]))'
            /\ (shown[k] # "absent" => NotNewer(k, shown[k]))'
            /\ (wpc[k] = "pub" => NotNewer(k, wsnap[k]))'
        BY <2>5a, <3>1, <3>2, <4>1, <4>2, <1>e DEF Finish, NotNewer, TypeOK
      <4>4. QED BY <2>5a, <4>3, <3>1, <3>2, <1>l DEF Finish, Behind, TypeOK
    <3>c. ASSUME NEW k \in Job PROVE Buried(k)'
      BY <2>5a, <3>1, <1>l, <1>n DEF Finish, Behind, Buried, Quiet, TypeOK, Listing
    <3>d. ASSUME NEW k \in Job PROVE Fresh(k)'
      BY <2>5a, <3>1, <1>l, <1>n
        DEF Finish, Behind, NotNewer, Fresh, Pending, LinkShape, TypeOK, Listing
    <3>e. QED BY <3>a, <3>b, <3>c, <3>d DEF FeedInv
  <2>6. CASE GetStatus(j)
    <3>1. InFlight' = InFlight
      BY <2>6, SameInFlight DEF GetStatus
    <3>a. LinkShape'
      BY <2>6, <3>1, <1>l DEF GetStatus, Missed, LinkShape, Subscribed
    <3>b. ASSUME NEW k \in Job PROVE Behind(k)'
      BY <2>6, <3>1, <1>l, <1>n DEF GetStatus, Behind, NotNewer, TypeOK
    <3>c. ASSUME NEW k \in Job PROVE Buried(k)'
      BY <2>6, <3>1, <1>l, <1>n DEF GetStatus, Behind, Buried, Quiet, TypeOK, Listing
    <3>d. ASSUME NEW k \in Job PROVE Fresh(k)'
      BY <2>6, <3>1, <1>l, <1>n
        DEF GetStatus, Missed, Behind, NotNewer, Fresh, Pending, LinkShape, TypeOK,
            Listing
    <3>e. QED BY <3>a, <3>b, <3>c, <3>d DEF FeedInv
  <2>7. CASE PublishStatus(j)
    <3>0. Publish(j, wsnap[j]) /\ wsnap[j] \in Status \union {"deleted"}
      BY <2>7 DEF PublishStatus, TypeOK
    <3> DEFINE ev == [job |-> j, what |-> wsnap[j]]
    <3>1. /\ InFlight \subseteq InFlight'
          /\ InFlight' \subseteq InFlight \union {ev}
          /\ cover' \subseteq cover /\ synced' \subseteq synced \union {j}
          /\ ~Subscribed => synced' = synced
          /\ j \in cover' \union synced' /\ Subscribed => ev \in InFlight'
          /\ ev.job = j /\ ev.what = wsnap[j]
      BY <3>0, PublishEffect
    <3> HIDE DEF ev
    <3>a. LinkShape'
      BY <2>7, <3>1, <1>l DEF PublishStatus, LinkShape, Subscribed
    <3>b. ASSUME NEW k \in Job PROVE Behind(k)'
      BY <2>7, <3>1, <1>l, <1>n DEF PublishStatus, Behind, NotNewer, TypeOK
    <3>c. ASSUME NEW k \in Job PROVE Buried(k)'
      BY <2>7, <3>1, <1>l, <1>n
        DEF PublishStatus, Behind, Buried, Quiet, TypeOK, Listing
    <3>d. ASSUME NEW k \in Job PROVE Fresh(k)'
      BY <2>7, <3>1, <1>l, <1>n
        DEF PublishStatus, Behind, NotNewer, Fresh, Pending, LinkShape, TypeOK, Listing
    <3>e. QED BY <3>a, <3>b, <3>c, <3>d DEF FeedInv
  <2>8. CASE DeleteElsewhere(j)
    <3>1. InFlight' = InFlight
      BY <2>8, SameInFlight DEF DeleteElsewhere
    <3>a. LinkShape'
      BY <2>8, <3>1, <1>l DEF DeleteElsewhere, LinkShape, Subscribed
    <3>b. ASSUME NEW k \in Job PROVE Behind(k)'
      BY <2>8, <3>1, <1>l, <1>n DEF DeleteElsewhere, Behind, NotNewer, TypeOK
    <3>c. ASSUME NEW k \in Job PROVE Buried(k)'
      BY <2>8, <3>1, <1>l, <1>n
        DEF DeleteElsewhere, Behind, Buried, Quiet, TypeOK, Listing
    <3>d. ASSUME NEW k \in Job PROVE Fresh(k)'
      BY <2>8, <3>1, <1>l, <1>n
        DEF DeleteElsewhere, Behind, NotNewer, Fresh, Pending, LinkShape, TypeOK,
            Listing
    <3>e. QED BY <3>a, <3>b, <3>c, <3>d DEF FeedInv
  <2>9. CASE PublishDeleted(j)
    <3>0. Publish(j, "deleted") /\ "deleted" \in Status \union {"deleted"}
      BY <2>9 DEF PublishDeleted
    <3> DEFINE ev == [job |-> j, what |-> "deleted"]
    <3>1. /\ InFlight \subseteq InFlight'
          /\ InFlight' \subseteq InFlight \union {ev}
          /\ cover' \subseteq cover /\ synced' \subseteq synced \union {j}
          /\ ~Subscribed => synced' = synced
          /\ j \in cover' \union synced' /\ Subscribed => ev \in InFlight'
          /\ ev.job = j /\ ev.what = "deleted"
      BY <3>0, PublishEffect
    <3> HIDE DEF ev
    <3>a. LinkShape'
      BY <2>9, <3>1, <1>l DEF PublishDeleted, LinkShape, Subscribed
    <3>b. ASSUME NEW k \in Job PROVE Behind(k)'
      BY <2>9, <3>1, <1>l, <1>n DEF PublishDeleted, Behind, NotNewer, TypeOK
    <3>c. ASSUME NEW k \in Job PROVE Buried(k)'
      BY <2>9, <3>1, <1>l, <1>n
        DEF PublishDeleted, Behind, Buried, Quiet, TypeOK, Listing
    <3>d. ASSUME NEW k \in Job PROVE Fresh(k)'
      BY <2>9, <3>1, <1>l, <1>n
        DEF PublishDeleted, Behind, NotNewer, Fresh, Pending, LinkShape, TypeOK,
            Listing
    <3>e. QED BY <3>a, <3>b, <3>c, <3>d DEF FeedInv
  <2>10. CASE ServeDelete(j)
    <3>1. InFlight' = InFlight
      BY <2>10, SameInFlight DEF ServeDelete
    <3>a. LinkShape'
      BY <2>10, <3>1, <1>l DEF ServeDelete, LinkShape, Subscribed
    <3>b. ASSUME NEW k \in Job PROVE Behind(k)'
      BY <2>10, <3>1, <1>l, <1>n DEF ServeDelete, Behind, NotNewer, TypeOK
    <3>c. ASSUME NEW k \in Job PROVE Buried(k)'
      BY <2>10, <3>1, <1>l, <1>n DEF ServeDelete, Behind, Buried, Quiet, TypeOK, Listing
    <3>d. ASSUME NEW k \in Job PROVE Fresh(k)'
      BY <2>10, <3>1, <1>l, <1>n
        DEF ServeDelete, Behind, NotNewer, Fresh, Pending, LinkShape, TypeOK, Listing
    <3>e. QED BY <3>a, <3>b, <3>c, <3>d DEF FeedInv
  <2>11. CASE AnswerDelete(j)
    <3>0. Publish(j, "deleted") /\ "deleted" \in Status \union {"deleted"}
      BY <2>11 DEF AnswerDelete
    <3> DEFINE ev == [job |-> j, what |-> "deleted"]
    <3>1. /\ InFlight \subseteq InFlight'
          /\ InFlight' \subseteq InFlight \union {ev}
          /\ cover' \subseteq cover /\ synced' \subseteq synced \union {j}
          /\ ~Subscribed => synced' = synced
          /\ j \in cover' \union synced' /\ Subscribed => ev \in InFlight'
          /\ ev.job = j /\ ev.what = "deleted"
      BY <3>0, PublishEffect
    <3> HIDE DEF ev
    <3>a. LinkShape'
      BY <2>11, <3>1, <1>l DEF AnswerDelete, LinkShape, Subscribed
    <3>b. ASSUME NEW k \in Job PROVE Behind(k)'
      BY <2>11, <3>1, <1>l, <1>n DEF AnswerDelete, Behind, NotNewer, TypeOK
    <3>c. ASSUME NEW k \in Job PROVE Buried(k)'
      BY <2>11, <3>1, <1>l, <1>n
        DEF AnswerDelete, Behind, Buried, Quiet, TypeOK, Listing
    <3>d. ASSUME NEW k \in Job PROVE Fresh(k)'
      BY <2>11, <3>1, <1>l, <1>n
        DEF AnswerDelete, Behind, NotNewer, Fresh, Pending, LinkShape, TypeOK, Listing
    <3>e. QED BY <3>a, <3>b, <3>c, <3>d DEF FeedInv
  <2>12. QED BY <1>1, <2>1, <2>2, <2>3, <2>4, <2>5, <2>5a, <2>6, <2>7, <2>8, <2>9,
                <2>10, <2>11
    DEF ServerStep
<1>2. ASSUME NEW j \in Job, BrowserStep(j) PROVE FeedInv'
  <2>1. CASE ReceiveCreated(j)
    <3>1. InFlight' = InFlight
      BY <2>1, SameInFlight DEF ReceiveCreated
    <3>a. LinkShape'
      BY <2>1, <3>1, <1>l DEF ReceiveCreated, UpsertJob, LinkShape, Subscribed
    <3>b. ASSUME NEW k \in Job PROVE Behind(k)'
      BY <2>1, <3>1, <1>l, <1>n DEF ReceiveCreated, UpsertJob, Behind, NotNewer, TypeOK
    <3>c. ASSUME NEW k \in Job PROVE Buried(k)'
      BY <2>1, <3>1, <1>l, <1>n
        DEF ReceiveCreated, UpsertJob, Behind, Buried, Quiet, TypeOK, Listing
    <3>d. ASSUME NEW k \in Job PROVE Fresh(k)'
      BY <2>1, <3>1, <1>l, <1>n
        DEF ReceiveCreated, UpsertJob, Behind, NotNewer, Fresh, Pending, LinkShape,
            TypeOK, Listing
    <3>e. QED BY <3>a, <3>b, <3>c, <3>d DEF FeedInv
  <2>2. CASE LoseCreated(j)
    <3>1. InFlight' = InFlight
      BY <2>2, SameInFlight DEF LoseCreated
    <3>a. LinkShape'
      BY <2>2, <3>1, <1>l DEF LoseCreated, LinkShape, Subscribed
    <3>b. ASSUME NEW k \in Job PROVE Behind(k)'
      BY <2>2, <3>1, <1>l, <1>n DEF LoseCreated, Behind, NotNewer, TypeOK
    <3>c. ASSUME NEW k \in Job PROVE Buried(k)'
      BY <2>2, <3>1, <1>l, <1>n DEF LoseCreated, Behind, Buried, Quiet, TypeOK, Listing
    <3>d. ASSUME NEW k \in Job PROVE Fresh(k)'
      BY <2>2, <3>1, <1>l, <1>n
        DEF LoseCreated, Behind, NotNewer, Fresh, Pending, LinkShape, TypeOK, Listing
    <3>e. QED BY <3>a, <3>b, <3>c, <3>d DEF FeedInv
  <2>3. CASE SendDelete(j)
    <3>1. InFlight' = InFlight
      BY <2>3, SameInFlight DEF SendDelete
    <3>a. LinkShape'
      BY <2>3, <3>1, <1>l DEF SendDelete, LinkShape, Subscribed
    <3>b. ASSUME NEW k \in Job PROVE Behind(k)'
      BY <2>3, <3>1, <1>l, <1>n DEF SendDelete, Behind, NotNewer, TypeOK
    <3>c. ASSUME NEW k \in Job PROVE Buried(k)'
      BY <2>3, <3>1, <1>l, <1>n DEF SendDelete, Behind, Buried, Quiet, TypeOK, Listing
    <3>d. ASSUME NEW k \in Job PROVE Fresh(k)'
      BY <2>3, <3>1, <1>l, <1>n
        DEF SendDelete, Behind, NotNewer, Fresh, Pending, LinkShape, TypeOK, Listing
    <3>e. QED BY <3>a, <3>b, <3>c, <3>d DEF FeedInv
  <2>4. CASE ReceiveDelete(j)
    <3>1. InFlight' = InFlight
      BY <2>4, SameInFlight DEF ReceiveDelete
    <3>a. LinkShape'
      BY <2>4, <3>1, <1>l DEF ReceiveDelete, DropJob, LinkShape, Subscribed
    <3>b. ASSUME NEW k \in Job PROVE Behind(k)'
      BY <2>4, <3>1, <1>l, <1>n DEF ReceiveDelete, DropJob, Behind, NotNewer, TypeOK
    <3>c. ASSUME NEW k \in Job PROVE Buried(k)'
      BY <2>4, <3>1, <1>l, <1>n
        DEF ReceiveDelete, DropJob, Behind, Buried, Quiet, TypeOK, Listing
    <3>d. ASSUME NEW k \in Job PROVE Fresh(k)'
      BY <2>4, <3>1, <1>l, <1>n
        DEF ReceiveDelete, DropJob, Behind, NotNewer, Fresh, Pending, LinkShape,
            TypeOK, Listing
    <3>e. QED BY <3>a, <3>b, <3>c, <3>d DEF FeedInv
  <2>5. CASE FailDelete(j)
    <3>1. InFlight' = InFlight
      BY <2>5, SameInFlight DEF FailDelete
    <3>a. LinkShape'
      BY <2>5, <3>1, <1>l DEF FailDelete, LinkShape, Subscribed
    <3>b. ASSUME NEW k \in Job PROVE Behind(k)'
      BY <2>5, <3>1, <1>l, <1>n DEF FailDelete, Behind, NotNewer, TypeOK
    <3>c. ASSUME NEW k \in Job PROVE Buried(k)'
      BY <2>5, <3>1, <1>l, <1>n DEF FailDelete, Behind, Buried, Quiet, TypeOK, Listing
    <3>d. ASSUME NEW k \in Job PROVE Fresh(k)'
      BY <2>5, <3>1, <1>l, <1>n
        DEF FailDelete, Behind, NotNewer, Fresh, Pending, LinkShape, TypeOK, Listing
    <3>e. QED BY <3>a, <3>b, <3>c, <3>d DEF FeedInv
  <2>6. QED BY <1>2, <2>1, <2>2, <2>3, <2>4, <2>5 DEF BrowserStep
<1>3. CASE LinkStep
  <2>1. CASE Subscribe
    <3>1. InFlight' = InFlight
      BY <2>1, SameInFlight DEF Subscribe
    <3>a. LinkShape'
      BY <2>1, <3>1, <1>l DEF Subscribe, LinkShape, Subscribed
    <3>b. ASSUME NEW k \in Job PROVE Behind(k)'
      BY <2>1, <3>1, <1>l, <1>n DEF Subscribe, Behind, NotNewer, TypeOK
    <3>c. ASSUME NEW k \in Job PROVE Buried(k)'
      BY <2>1, <3>1, <1>l, <1>n DEF Subscribe, Behind, Buried, Quiet, TypeOK, Listing
    <3>d. ASSUME NEW k \in Job PROVE Fresh(k)'
      BY <2>1, <3>1, <1>l, <1>n
        DEF Subscribe, Behind, NotNewer, Fresh, Pending, LinkShape, TypeOK, Listing
    <3>e. QED BY <3>a, <3>b, <3>c, <3>d DEF FeedInv
  <2>2. CASE OnOpen
    <3>1. InFlight' = InFlight
      BY <2>2, SameInFlight DEF OnOpen
    <3>a. LinkShape'
      BY <2>2, <3>1, <1>l DEF OnOpen, SendLoad, LinkShape, Subscribed
    <3>b. ASSUME NEW k \in Job PROVE Behind(k)'
      BY <2>2, <3>1, <1>l, <1>n DEF OnOpen, SendLoad, Behind, NotNewer, TypeOK
    <3>c. ASSUME NEW k \in Job PROVE Buried(k)'
      BY <2>2, <3>1, <1>l, <1>n
        DEF OnOpen, SendLoad, Behind, Buried, Quiet, TypeOK, Listing
    <3>d. ASSUME NEW k \in Job PROVE Fresh(k)'
      BY <2>2, <3>1, <1>l, <1>n
        DEF OnOpen, SendLoad, Behind, NotNewer, Fresh, Pending, LinkShape, TypeOK,
            Listing
    <3>e. QED BY <3>a, <3>b, <3>c, <3>d DEF FeedInv
  <2>3. CASE ReceiveEvent
    <3>1. /\ Head(buf) \in Event /\ Head(buf) \in InFlight
          /\ InFlight' \subseteq InFlight
          /\ InFlight \subseteq InFlight' \union {Head(buf)}
      BY <2>3, ReceiveEffect DEF ReceiveEvent
    <3>2. PICK ev \in InFlight : ev = Head(buf)
      BY <3>1
    <3>3. ev.job \in Job /\ ev.what \in Status \union {"deleted"}
      BY <3>1, <3>2 DEF Event
    <3>4. CASE ev.what = "deleted" /\ DropJob(ev.job)
      <4>a. LinkShape'
        BY <2>3, <3>1, <3>2, <3>3, <3>4, <1>l
          DEF ReceiveEvent, DropJob, LinkShape, Subscribed
      <4>b. ASSUME NEW k \in Job PROVE Behind(k)'
        BY <2>3, <3>1, <3>2, <3>3, <3>4, <1>l, <1>n
          DEF ReceiveEvent, DropJob, Behind, NotNewer, TypeOK
      <4>c. ASSUME NEW k \in Job PROVE Buried(k)'
        BY <2>3, <3>1, <3>2, <3>3, <3>4, <1>l, <1>n
          DEF ReceiveEvent, DropJob, Behind, Buried, Quiet, TypeOK, Listing
      <4>d. ASSUME NEW k \in Job PROVE Fresh(k)'
        BY <2>3, <3>1, <3>2, <3>3, <3>4, <1>l, <1>n
          DEF ReceiveEvent, DropJob, Behind, NotNewer, Fresh, Pending, LinkShape,
              TypeOK, Listing
      <4>e. QED BY <4>a, <4>b, <4>c, <4>d DEF FeedInv
    <3>5. CASE /\ ev.what # "deleted" /\ UpsertJob(ev.job, ev.what)
               /\ cover' = cover \ {ev.job}
               /\ UNCHANGED <<tomb, listVars, dropped>>
      <4>a. LinkShape'
        BY <2>3, <3>1, <3>2, <3>3, <3>5, <1>l
          DEF ReceiveEvent, UpsertJob, LinkShape, Subscribed
      <4>b. ASSUME NEW k \in Job PROVE Behind(k)'
        BY <2>3, <3>1, <3>2, <3>3, <3>5, <1>l, <1>n
          DEF ReceiveEvent, UpsertJob, Behind, NotNewer, TypeOK
      <4>c. ASSUME NEW k \in Job PROVE Buried(k)'
        BY <2>3, <3>1, <3>2, <3>3, <3>5, <1>l, <1>n
          DEF ReceiveEvent, UpsertJob, Behind, Buried, Quiet, TypeOK, Listing
      <4>1. ASSUME NEW k \in Job, row[k] \in Status, k \in cover'
            PROVE  lsnap'[k] = row[k] \/ Pending(k)'
        <5>1. k # ev.job /\ (lsnap[k] = row[k] \/ Pending(k))
          BY <3>5, <4>1, <1>l DEF Fresh
        <5>2. Pending(k) => Pending(k)'
          BY <2>3, <3>1, <3>2, <5>1 DEF ReceiveEvent, Pending
        <5>3. QED BY <3>5, <5>1, <5>2
      <4>2. /\ \A k \in Job : k # ev.job => shown'[k] = shown[k]
            /\ shown'[ev.job] = shown[ev.job] \/ shown'[ev.job] = ev.what
            /\ shown[ev.job] # "absent" => Rank[shown'[ev.job]] >= Rank[shown[ev.job]]
            /\ ev.job \notin tomb => /\ shown'[ev.job] \in Status
                                     /\ Rank[shown'[ev.job]] >= Rank[ev.what]
        BY <3>3, <3>5, UpsertEffect
      <4>d. ASSUME NEW k \in Job PROVE Fresh(k)'
        <5> SUFFICES ASSUME row[k] \in Status, k \in synced
                     PROVE  shown'[k] = row[k] \/ Pending(k)'
          BY <2>3, <4>1 DEF ReceiveEvent, Fresh
        <5>1. shown[k] = row[k] \/ Pending(k)
          BY <1>l DEF Fresh
        <5>2. CASE Pending(k) /\ ~(k = ev.job /\ ev.what = row[k])
          BY <2>3, <3>1, <3>2, <5>2 DEF ReceiveEvent, Pending
        <5>3. CASE shown[k] = row[k] /\ k # ev.job
          BY <4>2, <5>3
        <5>4. CASE k = ev.job
          <6>1. k \notin tomb /\ Rank[ev.what] <= Rank[row[k]]
            BY <1>l, <3>5, <5>4 DEF Behind, NotNewer
          <6>2. shown[k] = row[k] \/ ev.what = row[k] => Rank[shown'[k]] >= Rank[row[k]]
            BY <4>2, <5>4, <6>1
          <6>3. shown'[k] \in Status /\ (shown'[k] = shown[k] \/ shown'[k] = ev.what)
            BY <4>2, <5>4, <6>1
          <6>4. shown[k] # "absent" => Rank[shown[k]] <= Rank[row[k]]
            BY <1>l DEF Behind, NotNewer
          <6>5. Rank[shown'[k]] <= Rank[row[k]]
            BY <6>1, <6>3, <6>4
          <6>6. shown[k] = row[k] \/ ev.what = row[k] => shown'[k] = row[k]
            BY <6>2, <6>3, <6>5
          <6>7. QED BY <5>1, <5>2, <5>4, <6>6
        <5>5. QED BY <5>1, <5>2, <5>3, <5>4
      <4>e. QED BY <4>a, <4>b, <4>c, <4>d DEF FeedInv
    <3>6. QED BY <2>3, <3>2, <3>4, <3>5 DEF ReceiveEvent
  <2>4. CASE OnError
    <3>1. InFlight' = {} /\ cover' = {} /\ synced' = {}
      BY <2>4, UnlinkEffect DEF OnError
    <3>a. LinkShape'
      BY <2>4, <3>1, <1>l DEF OnError, LinkShape, Subscribed
    <3>b. ASSUME NEW k \in Job PROVE Behind(k)'
      BY <2>4, <3>1, <1>l, <1>n DEF OnError, Behind, NotNewer, TypeOK
    <3>c. ASSUME NEW k \in Job PROVE Buried(k)'
      BY <2>4, <3>1, <1>l, <1>n DEF OnError, Behind, Buried, Quiet, TypeOK, Listing
    <3>d. ASSUME NEW k \in Job PROVE Fresh(k)'
      BY <2>4, <3>1, <1>l, <1>n
        DEF OnError, Behind, NotNewer, Fresh, Pending, LinkShape, TypeOK, Listing
    <3>e. QED BY <3>a, <3>b, <3>c, <3>d DEF FeedInv
  <2>5. CASE Reconnect
    <3>1. InFlight' = {} /\ cover' = {} /\ synced' = {}
      BY <2>5, UnlinkEffect DEF Reconnect
    <3>a. LinkShape'
      BY <2>5, <3>1, <1>l DEF Reconnect, LinkShape, Subscribed
    <3>b. ASSUME NEW k \in Job PROVE Behind(k)'
      BY <2>5, <3>1, <1>l, <1>n DEF Reconnect, Behind, NotNewer, TypeOK
    <3>c. ASSUME NEW k \in Job PROVE Buried(k)'
      BY <2>5, <3>1, <1>l, <1>n DEF Reconnect, Behind, Buried, Quiet, TypeOK, Listing
    <3>d. ASSUME NEW k \in Job PROVE Fresh(k)'
      BY <2>5, <3>1, <1>l, <1>n
        DEF Reconnect, Behind, NotNewer, Fresh, Pending, LinkShape, TypeOK, Listing
    <3>e. QED BY <3>a, <3>b, <3>c, <3>d DEF FeedInv
  <2>6. CASE BootConnect
    <3>1. InFlight' = {} /\ cover' = {} /\ synced' = {}
      BY <2>6, UnlinkEffect DEF BootConnect
    <3>a. LinkShape'
      BY <2>6, <3>1, <1>l DEF BootConnect, LinkShape, Subscribed
    <3>b. ASSUME NEW k \in Job PROVE Behind(k)'
      BY <2>6, <3>1, <1>l, <1>n DEF BootConnect, Behind, NotNewer, TypeOK
    <3>c. ASSUME NEW k \in Job PROVE Buried(k)'
      BY <2>6, <3>1, <1>l, <1>n DEF BootConnect, Behind, Buried, Quiet, TypeOK, Listing
    <3>d. ASSUME NEW k \in Job PROVE Fresh(k)'
      BY <2>6, <3>1, <1>l, <1>n
        DEF BootConnect, Behind, NotNewer, Fresh, Pending, LinkShape, TypeOK, Listing
    <3>e. QED BY <3>a, <3>b, <3>c, <3>d DEF FeedInv
  <2>7. CASE Foreground
    <3>1. InFlight' = {} /\ cover' = {} /\ synced' = {}
      BY <2>7, UnlinkEffect DEF Foreground
    <3>a. LinkShape'
      BY <2>7, <3>1, <1>l DEF Foreground, SendLoad, LinkShape, Subscribed
    <3>b. ASSUME NEW k \in Job PROVE Behind(k)'
      BY <2>7, <3>1, <1>l, <1>n DEF Foreground, SendLoad, Behind, NotNewer, TypeOK
    <3>c. ASSUME NEW k \in Job PROVE Buried(k)'
      BY <2>7, <3>1, <1>l, <1>n
        DEF Foreground, SendLoad, Behind, Buried, Quiet, TypeOK, Listing
    <3>d. ASSUME NEW k \in Job PROVE Fresh(k)'
      BY <2>7, <3>1, <1>l, <1>n
        DEF Foreground, SendLoad, Behind, NotNewer, Fresh, Pending, LinkShape, TypeOK,
            Listing
    <3>e. QED BY <3>a, <3>b, <3>c, <3>d DEF FeedInv
  <2>8. QED BY <1>3, <2>1, <2>2, <2>3, <2>4, <2>5, <2>6, <2>7 DEF LinkStep
<1>4. CASE ListStep
  <2>1. CASE Refresh
    <3>1. InFlight' = InFlight
      BY <2>1, SameInFlight DEF Refresh
    <3>a. LinkShape'
      BY <2>1, <3>1, <1>l DEF Refresh, SendLoad, LinkShape, Subscribed
    <3>b. ASSUME NEW k \in Job PROVE Behind(k)'
      BY <2>1, <3>1, <1>l, <1>n DEF Refresh, SendLoad, Behind, NotNewer, TypeOK
    <3>c. ASSUME NEW k \in Job PROVE Buried(k)'
      BY <2>1, <3>1, <1>l, <1>n
        DEF Refresh, SendLoad, Behind, Buried, Quiet, TypeOK, Listing
    <3>d. ASSUME NEW k \in Job PROVE Fresh(k)'
      BY <2>1, <3>1, <1>l, <1>n
        DEF Refresh, SendLoad, Behind, NotNewer, Fresh, Pending, LinkShape, TypeOK,
            Listing
    <3>e. QED BY <3>a, <3>b, <3>c, <3>d DEF FeedInv
  <2>2. CASE ServeList
    <3>1. InFlight' = InFlight
      BY <2>2, SameInFlight DEF ServeList
    <3>a. LinkShape'
      BY <2>2, <3>1, <1>l DEF ServeList, Listed, LinkShape, Subscribed
    <3>b. ASSUME NEW k \in Job PROVE Behind(k)'
      BY <2>2, <3>1, <1>l, <1>n DEF ServeList, Listed, Behind, NotNewer, TypeOK
    <3>c. ASSUME NEW k \in Job PROVE Buried(k)'
      BY <2>2, <3>1, <1>l, <1>n
        DEF ServeList, Listed, Behind, Buried, Quiet, TypeOK, Listing
    <3>d. ASSUME NEW k \in Job PROVE Fresh(k)'
      BY <2>2, <3>1, <1>l, <1>n
        DEF ServeList, Listed, Behind, NotNewer, Fresh, Pending, LinkShape, TypeOK,
            Listing
    <3>e. QED BY <3>a, <3>b, <3>c, <3>d DEF FeedInv
  <2>3. CASE ApplyLoad
    <3>1. InFlight' = InFlight
      BY <2>3, SameInFlight DEF ApplyLoad
    <3>a. LinkShape'
      BY <2>3, <3>1, <1>l DEF ApplyLoad, LinkShape, Subscribed
    <3>b. ASSUME NEW k \in Job PROVE Behind(k)'
      BY <2>3, <3>1, <1>l, <1>n DEF ApplyLoad, Behind, NotNewer, TypeOK
    <3>c. ASSUME NEW k \in Job PROVE Buried(k)'
      BY <2>3, <3>1, <1>l, <1>n DEF ApplyLoad, Behind, Buried, Quiet, TypeOK, Listing
    <3>d. ASSUME NEW k \in Job PROVE Fresh(k)'
      BY <2>3, <3>1, <1>l, <1>n
        DEF ApplyLoad, Behind, NotNewer, Fresh, Pending, LinkShape, TypeOK, Listing
    <3>e. QED BY <3>a, <3>b, <3>c, <3>d DEF FeedInv
  <2>4. CASE FailLoad
    <3>1. InFlight' = InFlight
      BY <2>4, SameInFlight DEF FailLoad
    <3>a. LinkShape'
      BY <2>4, <3>1, <1>l DEF FailLoad, LinkShape, Subscribed
    <3>b. ASSUME NEW k \in Job PROVE Behind(k)'
      BY <2>4, <3>1, <1>l, <1>n DEF FailLoad, Behind, NotNewer, TypeOK
    <3>c. ASSUME NEW k \in Job PROVE Buried(k)'
      BY <2>4, <3>1, <1>l, <1>n DEF FailLoad, Behind, Buried, Quiet, TypeOK, Listing
    <3>d. ASSUME NEW k \in Job PROVE Fresh(k)'
      BY <2>4, <3>1, <1>l, <1>n
        DEF FailLoad, Behind, NotNewer, Fresh, Pending, LinkShape, TypeOK, Listing
    <3>e. QED BY <3>a, <3>b, <3>c, <3>d DEF FeedInv
  <2>5. QED BY <1>4, <2>1, <2>2, <2>3, <2>4 DEF ListStep
<1>5. CASE Restart
  <2>1. InFlight' = {} /\ cover' = {} /\ synced' = {}
    BY <1>5, UnlinkEffect DEF Restart
  <2>a. LinkShape'
    BY <1>5, <2>1, <1>l DEF Restart, LinkShape, Subscribed
  <2>2. \A k \in Job, s \in Status : NotNewer(k, s) => NotNewer(k, s)'
    BY <1>5 DEF Restart, NotNewer, TypeOK
  <2>b. ASSUME NEW k \in Job PROVE Behind(k)'
    BY <1>5, <2>1, <2>2, <1>l, <1>n, <1>e DEF Restart, Behind, TypeOK, Listing
  <2>c. ASSUME NEW k \in Job PROVE Buried(k)'
    BY <1>5, <2>1, <1>l, <1>n DEF Restart, Behind, Buried, Quiet, TypeOK, Listing
  <2>d. ASSUME NEW k \in Job PROVE Fresh(k)'
    BY <1>5, <2>1, <1>l, <1>n
      DEF Restart, Behind, NotNewer, Fresh, Pending, LinkShape, TypeOK, Listing
  <2>e. QED BY <2>a, <2>b, <2>c, <2>d DEF FeedInv
<1>6. CASE UNCHANGED vars
  <2>1. InFlight' = InFlight
    BY <1>6, SameInFlight
  <2>a. LinkShape'
    BY <1>6, <2>1, <1>l DEF LinkShape, Subscribed
  <2>b. ASSUME NEW k \in Job PROVE Behind(k)'
    BY <1>6, <2>1, <1>l, <1>n DEF Behind, NotNewer, TypeOK
  <2>c. ASSUME NEW k \in Job PROVE Buried(k)'
    BY <1>6, <2>1, <1>l, <1>n DEF Behind, Buried, Quiet, TypeOK, Listing
  <2>d. ASSUME NEW k \in Job PROVE Fresh(k)'
    BY <1>6, <2>1, <1>l, <1>n
      DEF Behind, NotNewer, Fresh, Pending, LinkShape, TypeOK, Listing
  <2>e. QED BY <2>a, <2>b, <2>c, <2>d DEF FeedInv
<1>7. QED BY <1>1, <1>2, <1>3, <1>4, <1>5, <1>6 DEF Next

\* The invariant holds in every state.
THEOREM FeedInvHolds == Spec => [](TypeOK /\ FeedInv)
<1>1. Init => FeedInv
  <2> SUFFICES ASSUME Init PROVE FeedInv
    OBVIOUS
  <2>1. InFlight = {}
    BY DEF Init, InFlight
  <2>2. LinkShape
    BY DEF Init, LinkShape
  <2>3. ASSUME NEW k \in Job PROVE Behind(k) /\ Buried(k) /\ Fresh(k)
    BY <2>1 DEF Init, Behind, Buried, Fresh, NoList, Status
  <2>4. QED BY <2>2, <2>3 DEF FeedInv
<1>2. QED BY <1>1, TypeCorrect, FeedStep, PTL DEF Spec

\* A job the browser has dropped is never shown again (dropJob, upsertJob,
\* loadJobs, pruneTombstones).
THEOREM DroppedStaysGoneHolds == Spec => []DroppedStaysGone
<1>1. TypeOK /\ FeedInv => DroppedStaysGone
  BY DEF TypeOK, FeedInv, Buried, DroppedStaysGone
<1>2. QED BY <1>1, FeedInvHolds, PTL

\* With every list, event and answer arrived, an undisturbed browser shows the
\* status the row has (applyEvent, upsertJob and loadJobs against Bus.Publish).
THEOREM InStepHolds == Spec => []InStep
<1>1. TypeOK /\ FeedInv => InStep
  <2> SUFFICES ASSUME TypeOK, FeedInv,
                      NEW j \in synced, Quiet(j), row[j] \in Status
               PROVE  shown[j] = row[j]
    BY DEF InStep
  <2>1. shown[j] = row[j] \/ Pending(j)
    BY DEF FeedInv, Fresh, TypeOK
  <2>2. ~Pending(j)
    BY DEF Quiet, Pending
  <2>3. QED BY <2>1, <2>2
<1>2. QED BY <1>1, FeedInvHolds, PTL
=============================================================================
