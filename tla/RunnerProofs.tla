---------------------------- MODULE RunnerProofs ----------------------------
(***************************************************************************)
(* The runners, proved: for any number of jobs side by side, any kinds of  *)
(* plan, file sizes and running times, names taken, cancellations and      *)
(* crashes, and tools that do what they please.                            *)
(***************************************************************************)
EXTENDS Runner, TLAPS

USE ConstantsAssumption, NoneAssumption
USE DEF vars, run, tool, bar, name

-----------------------------------------------------------------------------
(* The plans                                                               *)

Where == {"dl", "enc", "pass", "edit", "src", "render", "img"}
Kinds == {"download", "convert", "size", "edit", "image", "embed", "trace"}

\* A call of a plan that may be the next to follow the call c.
Follows(c, d) == c.bin # "ffmpeg" => c.base <= d.base

\* A call of the kind k at the place i is a pass, or may report the whole bar.
Share(k, i, c) ==
  /\ c.span = 50 => k = "size" /\ i \in {2, 3}
  /\ k = "size" /\ i = 3 => c.span = 50 /\ c.base = 50 /\ c.bin = "ffmpeg"
  /\ k = "size" /\ i = 2 => c.span = 50 /\ c.base = 0
  /\ c.bin = "ffmpeg" => c.base + c.span = 100 \/ (k = "size" /\ i = 2)

\* Every plan has a last call, which writes the output and whose failure is the
\* run's; a call that does not encode leaves the bar to the next one.
LEMMA KindIsKinds == Kind = Kinds
BY DEF Kind, Kinds, Plans

LEMMA PlanFacts ==
    ASSUME NEW k \in Kind
    PROVE  /\ Len(Plans[k]) \in Nat \ {0} /\ DOMAIN Plans[k] = 1..Len(Plans[k])
           /\ Plans[k][1].base = 0
           /\ \A i \in DOMAIN Plans[k] :
                /\ Plans[k][i].writes \in Where \cup {"nothing"}
                /\ Plans[k][i].base \in {0, 50} /\ Plans[k][i].span \in {50, 100}
                /\ Plans[k][i].base + Plans[k][i].span <= 100
                /\ Plans[k][i].bin = "wrapPNGInSVG" => Plans[k][i].writes \in Where
                /\ i = Len(Plans[k]) => Plans[k][i].fatal /\ Plans[k][i].writes \in Where
                /\ i < Len(Plans[k]) => Follows(Plans[k][i], Plans[k][i + 1])
                /\ (Plans[k][i].writes = "dl") = (k = "download")
                /\ Share(k, i, Plans[k][i])
                /\ Plans[k][i].bin = "ffmpeg" /\ i < Len(Plans[k]) => k = "size" /\ i = 2
<1>1. CASE k = "download"
  BY <1>1 DEF Plans, Call, Probe, Pass, Where, Follows, Share
<1>2. CASE k = "convert"
  BY <1>2 DEF Plans, Call, Probe, Pass, Where, Follows, Share
<1>3. CASE k = "size"
  <2> DEFINE c == Probe(TRUE)
             p == Pass("pass", 0)
             q == Pass("enc", 50)
  <2>1. Plans[k] = <<c, p, q>>
    BY <1>3 DEF Plans
  <2>2. /\ Plans[k][1] = c /\ Plans[k][2] = p /\ Plans[k][3] = q
        /\ Len(Plans[k]) = 3 /\ DOMAIN Plans[k] = {1, 2, 3}
    <3> HIDE DEF c, p, q
    <3>1. QED BY <2>1
  <2>3. /\ c.bin = "ffprobe" /\ c.writes = "nothing" /\ c.fatal /\ c.base = 0 /\ c.span = 100
        /\ p.bin = "ffmpeg" /\ p.writes = "pass" /\ p.fatal /\ p.base = 0 /\ p.span = 50
        /\ q.bin = "ffmpeg" /\ q.writes = "enc" /\ q.fatal /\ q.base = 50 /\ q.span = 50
    BY DEF Probe, Pass, Call
  <2> HIDE DEF c, p, q
  <2>4. Follows(c, p) /\ Follows(p, q)
    BY <2>3 DEF Follows
  <2>5. Share(k, 1, c) /\ Share(k, 2, p) /\ Share(k, 3, q)
    BY <1>3, <2>3 DEF Share
  <2>6. QED BY <1>3, <2>2, <2>3, <2>4, <2>5 DEF Where
<1>4. CASE k = "edit"
  BY <1>4 DEF Plans, Call, Probe, Pass, Where, Follows, Share
<1>5. CASE k = "image"
  BY <1>5 DEF Plans, Call, Probe, Pass, Where, Follows, Share
<1>6. CASE k = "embed"
  BY <1>6 DEF Plans, Call, Probe, Pass, Where, Follows, Share
<1>7. CASE k = "trace"
  BY <1>7 DEF Plans, Call, Probe, Pass, Where, Follows, Share
<1>8. QED BY <1>1, <1>2, <1>3, <1>4, <1>5, <1>6, <1>7, KindIsKinds DEF Kinds

-----------------------------------------------------------------------------
(* The progress bar                                                        *)

LEMMA DivMonotone ==
    ASSUME NEW a \in Nat, NEW b \in Nat, NEW n \in Nat \ {0}, a <= b
    PROVE  (a \div n) \in Nat /\ a \div n <= b \div n
OBVIOUS

LEMMA DivWhole ==
    ASSUME NEW s \in Nat, NEW n \in Nat \ {0}
    PROVE  (s * n) \div n = s
OBVIOUS

LEMMA ScaleFacts ==
    ASSUME NEW c, c.base \in {0, 50}, c.span \in {50, 100}, c.base + c.span <= 100,
           NEW x \in 0..MaxClock, NEW y \in 0..MaxClock, x <= y
    PROVE  /\ Scale(c, x) \in 0..100 /\ c.base <= Scale(c, x) /\ Scale(c, x) <= Scale(c, y)
           /\ Scale(c, Length) = c.base + c.span
<1> DEFINE dx == (c.span * x) \div Length
           dy == (c.span * y) \div Length
<1>1. c.span * x \in Nat /\ c.span * y \in Nat /\ c.span * x <= c.span * y
  OBVIOUS
<1>2. dx \in Nat /\ dx <= dy
  BY <1>1, DivMonotone
<1>3. (c.span * Length) \div Length = c.span
  BY DivWhole
<1>4. dy \in Nat
  BY <1>1, DivMonotone
<1>5. /\ Scale(c, x) = ClampPercent(c.base + dx) /\ Scale(c, y) = ClampPercent(c.base + dy)
      /\ Scale(c, Length) = ClampPercent(c.base + c.span)
  BY <1>3 DEF Scale
<1> HIDE DEF dx, dy
<1>6. QED BY <1>2, <1>4, <1>5 DEF ClampPercent

-----------------------------------------------------------------------------
(* Where a run is, and what its tool writes                                *)

\* A run that has begun is at a call of its plan.
LEMMA CurFacts ==
    ASSUME TypeOK, NEW j \in Job, pc[j] # "idle"
    PROVE  /\ kind[j] \in Kind /\ Len(Plans[kind[j]]) \in Nat \ {0} /\ at[j] \in 1..Len(Plans[kind[j]])
           /\ DOMAIN Plans[kind[j]] = 1..Len(Plans[kind[j]])
           /\ Cur(j).writes \in Where \cup {"nothing"}
           /\ Cur(j).base \in {0, 50} /\ Cur(j).span \in {50, 100} /\ Cur(j).base + Cur(j).span <= 100
           /\ Cur(j).bin = "wrapPNGInSVG" => Cur(j).writes \in Where
           /\ at[j] = Len(Plans[kind[j]]) => Cur(j).fatal /\ Cur(j).writes \in Where
           /\ at[j] < Len(Plans[kind[j]]) => Follows(Cur(j), Plans[kind[j]][at[j] + 1])
           /\ (Cur(j).writes = "dl") = (kind[j] = "download")
           /\ Share(kind[j], at[j], Cur(j))
           /\ Cur(j).bin = "ffmpeg" /\ at[j] < Len(Plans[kind[j]]) => kind[j] = "size" /\ at[j] = 2
<1>1. kind[j] \in Kind /\ at[j] \in DOMAIN Plans[kind[j]]
  BY DEF TypeOK
<1>2. QED BY <1>1, PlanFacts DEF Cur

\* The percentages a call may report.
LEMMA BarFacts ==
    ASSUME TypeOK, NEW j \in Job, pc[j] # "idle"
    PROVE  /\ percent[j] \in 0..100 /\ clock[j] \in 0..MaxClock /\ Length \in 0..MaxClock
           /\ \A x \in 0..MaxClock : Scale(Cur(j), x) \in 0..100 /\ Cur(j).base <= Scale(Cur(j), x)
           /\ \A x, y \in 0..MaxClock : x <= y => Scale(Cur(j), x) <= Scale(Cur(j), y)
           /\ Scale(Cur(j), Length) = Cur(j).base + Cur(j).span
<1> DEFINE c == Cur(j)
<1>1. c.base \in {0, 50} /\ c.span \in {50, 100} /\ c.base + c.span <= 100
  BY CurFacts
<1>2. percent[j] \in 0..100 /\ clock[j] \in 0..MaxClock /\ Length \in 0..MaxClock
  BY DEF TypeOK
<1> HIDE DEF c
<1>3. Scale(c, Length) = c.base + c.span
  BY <1>1, <1>2, ScaleFacts
<1>4. \A x \in 0..MaxClock : Scale(c, x) \in 0..100 /\ c.base <= Scale(c, x)
  <2>1. \A x \in 0..MaxClock : x <= x
    OBVIOUS
  <2>2. QED BY <1>1, <2>1, ScaleFacts
<1>5. \A x, y \in 0..MaxClock : x <= y => Scale(c, x) <= Scale(c, y)
  BY <1>1, ScaleFacts
<1>6. QED BY <1>2, <1>3, <1>4, <1>5 DEF c

\* A tool adds one file under its run's name and path, and at that path no
\* other of its run is left.
LEMMA WrittenFacts ==
    ASSUME TypeOK, NEW j \in Job, Cur(j).writes \in Where,
           NEW w \in BOOLEAN, NEW s \in 1..MaxSize
    PROVE  /\ Written(j, w, s) \subseteq Files
           /\ \A f \in Written(j, w, s) :
                f \in tmp \/ (f.of = j /\ f.path = Path(j, Cur(j).writes))
           /\ \A f \in Written(j, w, s) :
                f.of = j /\ f.path = Path(j, Cur(j).writes) => f.whole = w
<1> DEFINE p == Path(j, Cur(j).writes)
           n == [path |-> p, of |-> j, whole |-> w, size |-> s]
<1>1. p \in [where : Where, tag : Tag]
  BY DEF Path
<1>2. n \in Files /\ n.of = j /\ n.path = p /\ n.whole = w
  BY <1>1 DEF Files, Where
<1> HIDE DEF n
<1>3. \A f \in Written(j, w, s) : f = n \/ (f \in tmp /\ ~(f.path = p /\ f.of = j))
  BY DEF Written, At, n
<1>4. QED BY <1>2, <1>3 DEF TypeOK

\* A call that has succeeded is followed by the next one, or was the last.
LEMMA AdvanceFacts ==
    ASSUME TypeOK, NEW j \in Job, pc[j] # "idle", Advance(j)
    PROVE  \/ /\ at[j] < Len(Plans[kind[j]])
              /\ at' = [at EXCEPT ![j] = at[j] + 1] /\ pc' = [pc EXCEPT ![j] = "call"]
              /\ at[j] + 1 \in DOMAIN Plans[kind[j]]
           \/ /\ at[j] = Len(Plans[kind[j]])
              /\ at' = at /\ pc' = [pc EXCEPT ![j] = "collect"]
<1>1. at[j] \in 1..Len(Plans[kind[j]]) /\ Len(Plans[kind[j]]) \in Nat
      /\ DOMAIN Plans[kind[j]] = 1..Len(Plans[kind[j]])
  BY CurFacts
<1>2. QED BY <1>1 DEF Advance

\* Scratch paths depend on the kind of a run only, and every file has a run.
LEMMA ScratchFacts ==
    ASSUME TypeOK
    PROVE  /\ kind' = kind => \A k \in Job : Scratch(k)' = Scratch(k)
           /\ \A f \in tmp : f.of \in Job
           /\ \A k \in Job : pc[k] # "idle" => Path(k, Cur(k).writes) \in Scratch(k)
           /\ \A k \in Job : \A p \in Scratch(k) : p.tag = TagOf[k]
<1>1. kind' = kind => \A k \in Job : Scratch(k)' = Scratch(k)
  BY DEF Scratch
<1>2. \A f \in tmp : f.of \in Job
  BY DEF TypeOK, Files
<1>3. ASSUME NEW k \in Job, pc[k] # "idle" PROVE Path(k, Cur(k).writes) \in Scratch(k)
  <2>1. at[k] \in DOMAIN Plans[kind[k]]
    BY <1>3, CurFacts
  <2>2. QED BY <2>1 DEF Scratch, Cur
<1>4. \A k \in Job : \A p \in Scratch(k) : p.tag = TagOf[k]
  BY DEF Scratch, Path
<1>5. QED BY <1>1, <1>2, <1>3, <1>4

\* Delivered concerns nothing but what is delivered.
LEMMA DeliveredFrame ==
    ASSUME Delivered, UNCHANGED <<tag, ok, out>>, shared \subseteq shared',
           \A k \in Job : pc[k] \in {"copy", "lost"} => pc'[k] \in {"copy", "lost"}
    PROVE  Delivered'
<1>1. \A k \in Job \ shared' : k \in Job \ shared /\ Dst(k)' = Dst(k)
  BY DEF Dst
<1>2. ASSUME NEW k \in Job \ shared'
      PROVE  /\ k \in ok' /\ OwnName(k) => out'[Dst(k)'] = [of |-> k, whole |-> TRUE]
             /\ \A d \in Dest : out'[d] # None /\ out'[d].of = k =>
                  d = Dst(k)' /\ (k \in ok' \/ pc'[k] \in {"copy", "lost"})
  <2>1. /\ k \in ok /\ OwnName(k) => out[Dst(k)] = [of |-> k, whole |-> TRUE]
        /\ \A d \in Dest : out[d] # None /\ out[d].of = k => d = Dst(k) /\ (k \in ok \/ pc[k] \in {"copy", "lost"})
    BY <1>1, <1>2 DEF Delivered
  <2>2. QED BY <1>1, <1>2, <2>1
<1>3. QED BY <1>2 DEF Delivered

\* Nobody new is beside anybody.
LEMMA ApartFrame ==
    ASSUME Apart, UNCHANGED shared, \A k \in Job : Live(k)' => Live(k)
    PROVE  Apart'
BY DEF Apart

-----------------------------------------------------------------------------
(* Every step keeps the invariant                                          *)

\* A run begins at its first call, without processes and files.
LEMMA BeginKeeps ==
    ASSUME IInv, NEW j \in Job, Begin(j)
    PROVE  IInv'
<1> USE DEF Begin
<1>1. TypeOK'
  <2>1. PICK k \in KindsOf[j] : kind' = [kind EXCEPT ![j] = k]
    BY DEF IInv, TypeOK
  <2>2. k \in Kind /\ k # None
    BY KindIsKinds DEF Kinds
  <2>3. at[j] = 1 /\ 1 \in DOMAIN Plans[k]
    BY <2>2, PlanFacts DEF IInv, TypeOK
  <2>4. \A i \in Job : at'[i] \in IF kind'[i] = None THEN {1} ELSE DOMAIN Plans[kind'[i]]
    BY <2>1, <2>2, <2>3 DEF IInv, TypeOK
  <2>5. shared' \subseteq Job
    BY DEF IInv, TypeOK, Sharers
  <2>6. QED BY <2>1, <2>2, <2>4, <2>5 DEF IInv, TypeOK
<1>2. Processes'
  BY DEF IInv, TypeOK, Processes
<1>3. Outcome'
  BY DEF IInv, TypeOK, Outcome
<1>4. Reported'
  <2>1. PICK k \in KindsOf[j] : kind' = [kind EXCEPT ![j] = k]
    BY DEF IInv, TypeOK
  <2>2. at[j] = 1 /\ Plans[k][1].base = 0
    <3>1. k \in Kind
      BY KindIsKinds DEF Kinds
    <3>2. QED BY <3>1, PlanFacts DEF IInv, TypeOK
  <2>3. Cur(j)' = Plans[k][1] /\ percent'[j] <= 0 /\ pc'[j] \in {"call", "failed"}
    BY <2>1, <2>2 DEF IInv, TypeOK, Cur, Reported
  <2>4. \A i \in Job \ {j} : /\ Cur(i)' = Cur(i) /\ pc'[i] = pc[i] /\ kind'[i] = kind[i]
                            /\ at'[i] = at[i] /\ percent'[i] = percent[i] /\ proc'[i] = proc[i] /\ clock'[i] = clock[i]
    BY <2>1 DEF IInv, TypeOK, Cur
  <2>5. ASSUME NEW i \in Job \ {j}
        PROVE  /\ pc'[i] = "idle" => percent'[i] <= 0
               /\ pc'[i] = "call" /\ ~(kind'[i] = "size" /\ at'[i] = 3) => percent'[i] <= Cur(i)'.base
               /\ pc'[i] = "proc" /\ Cur(i)'.bin # "ffmpeg" => percent'[i] <= Cur(i)'.base
               /\ pc'[i] = "proc" /\ "leader" \in proc'[i] => percent'[i] <= Scale(Cur(i)', clock'[i])
    BY <2>4 DEF IInv, Reported
  <2>6. QED BY <2>2, <2>3, <2>5 DEF Reported
<1>5. ScratchOwned'
  <2>1. \A f \in tmp : f.of \in Job \ {j}
    BY ScratchFacts DEF IInv, ScratchOwned
  <2>2. \A i \in Job \ {j} : Scratch(i)' = Scratch(i) /\ pc'[i] = pc[i]
    <3>1. \A i \in Job \ {j} : kind'[i] = kind[i] /\ pc'[i] = pc[i]
      BY DEF IInv, TypeOK
    <3>2. QED BY <3>1 DEF Scratch
  <2>3. QED BY <2>1, <2>2 DEF IInv, ScratchOwned
<1>6. WholeOutput'
  BY DEF IInv, TypeOK, WholeOutput, Cur, Path
<1>7. Picked'
  BY DEF IInv, TypeOK, Picked
<1>8. Delivered'
  BY DeliveredFrame DEF IInv, TypeOK
<1>a. Apart'
  <2>1. \A k \in Job \ {j} : pc'[k] = pc[k] /\ (Live(k)' <=> Live(k))
    BY DEF IInv, TypeOK, Live, Active
  <2>2. \A k \in Job \ {j} : TagOf[k] = TagOf[j] /\ Live(k) => {j, k} \subseteq shared'
    BY DEF Sharers, Live
  <2>3. shared \subseteq shared'
    OBVIOUS
  <2>4. QED BY <2>1, <2>2, <2>3 DEF IInv, Apart
<1>9. QED BY <1>a, <1>1, <1>2, <1>3, <1>4, <1>5, <1>6, <1>7, <1>8 DEF IInv

\* A tool is started, or the call is over at once.
LEMMA StartKeeps ==
    ASSUME IInv, NEW j \in Job, Start(j)
    PROVE  IInv'
<1>1. TypeOK /\ pc[j] # "idle"
  BY DEF IInv, TypeOK, Processes, Start
<1>2. /\ pc[j] = "call"
      /\ UNCHANGED <<kind, exit, deaf, cancelled, known, clock, tmp, name, ok, out, crashes, shared>>
      /\ percent' = percent \/ percent' = [percent EXCEPT ![j] = Cur(j).base]
  BY DEF Start
<1>3. \/ /\ at' = at /\ pc' = [pc EXCEPT ![j] = "proc"]
         /\ \E g \in SUBSET {"leader", "helper"} : proc' = [proc EXCEPT ![j] = g]
      \/ at' = at /\ pc' = [pc EXCEPT ![j] = "clean"] /\ proc' = proc
      \/ /\ at[j] < Len(Plans[kind[j]]) /\ at' = [at EXCEPT ![j] = at[j] + 1]
         /\ at[j] + 1 \in DOMAIN Plans[kind[j]]
         /\ pc' = [pc EXCEPT ![j] = "call"] /\ proc' = proc
  <2>1. CASE \E g \in Group(Cur(j).bin) : proc' = [proc EXCEPT ![j] = g] /\ pc' = [pc EXCEPT ![j] = "proc"] /\ at' = at
    BY <2>1 DEF Group
  <2>2. CASE Cur(j).fatal /\ Fail(j) /\ UNCHANGED <<at, proc>>
    BY <2>2 DEF Fail
  <2>3. CASE ~Cur(j).fatal /\ Advance(j) /\ UNCHANGED proc
    BY <1>1, <2>3, AdvanceFacts, CurFacts
  <2>4. QED BY <2>1, <2>2, <2>3 DEF Start
<1>4. /\ pc'[j] \in {"proc", "clean", "call"} /\ (pc'[j] # "proc" => proc'[j] = proc[j])
      /\ \A k \in Job \ {j} : pc'[k] = pc[k] /\ at'[k] = at[k] /\ proc'[k] = proc[k]
  BY <1>1, <1>2, <1>3 DEF TypeOK
<1>5. TypeOK'
  <2>1. /\ at' \in [Job -> Nat]
        /\ \A k \in Job : at'[k] \in IF kind[k] = None THEN {1} ELSE DOMAIN Plans[kind[k]]
    <3>1. kind[j] \in Kind /\ kind[j] # None /\ at[j] + 1 \in Nat
      BY <1>1, CurFacts DEF TypeOK
    <3>2. CASE at' = at
      BY <1>1, <3>2 DEF TypeOK
    <3>3. CASE at' = [at EXCEPT ![j] = at[j] + 1] /\ at[j] + 1 \in DOMAIN Plans[kind[j]]
      BY <1>1, <3>1, <3>3 DEF TypeOK
    <3>4. QED BY <1>3, <3>2, <3>3
  <2>2. Cur(j).base \in 0..100
    <3>1. Cur(j).base \in {0, 50}
      BY <1>1, CurFacts
    <3>2. QED BY <3>1
  <2>3. percent' \in [Job -> 0..100]
    BY <1>1, <1>2, <2>2 DEF TypeOK
  <2>4. pc' \in [Job -> {"idle", "call", "proc", "collect", "name", "move", "copy", "clean",
                         "done", "failed", "lost"}]
    BY <1>1, <1>3 DEF TypeOK
  <2>5. proc' \in [Job -> SUBSET {"leader", "helper"}]
    <3>1. proc' = proc \/ \E g \in SUBSET {"leader", "helper"} : proc' = [proc EXCEPT ![j] = g]
      BY <1>3
    <3>2. proc \in [Job -> SUBSET {"leader", "helper"}]
      BY <1>1 DEF TypeOK
    <3>3. QED BY <3>1, <3>2
  <2>6. QED BY <1>1, <1>2, <1>4, <2>1, <2>3, <2>4, <2>5 DEF TypeOK
<1>6. Processes'
  BY <1>1, <1>2, <1>4 DEF IInv, TypeOK, Processes
<1>7. Outcome'
  BY <1>1, <1>2, <1>4 DEF IInv, TypeOK, Outcome
<1>8. Reported'
  <2> DEFINE c == Cur(j)
             d == Plans[kind[j]][at[j] + 1]
  <2>1. /\ percent'[j] = (IF c.span = 50 THEN c.base ELSE percent[j]) /\ percent[j] \in 0..100
        /\ (kind[j] = "size" /\ at[j] = 3) \/ percent[j] <= c.base
    BY <1>1 DEF IInv, TypeOK, Reported, Start
  <2>2. /\ c.base \in {0, 50} /\ (kind[j] = "size" /\ at[j] = 3 => c.span = 50)
        /\ c.bin = "ffmpeg" /\ at[j] < Len(Plans[kind[j]]) => kind[j] = "size" /\ at[j] = 2
        /\ at[j] < Len(Plans[kind[j]]) => Follows(c, d) /\ d.base \in {0, 50}
    <3>1. kind[j] \in Kind /\ (at[j] < Len(Plans[kind[j]]) => at[j] + 1 \in DOMAIN Plans[kind[j]])
      BY <1>1, CurFacts
    <3>2. QED BY <1>1, <3>1, CurFacts, PlanFacts DEF Share
  <2>3. c.base <= Scale(c, clock[j]) /\ Scale(c, clock[j]) \in 0..100
    BY <1>1, BarFacts
  <2>4. ASSUME NEW k \in Job \ {j} PROVE /\ percent'[k] = percent[k] /\ clock'[k] = clock[k] /\ pc'[k] = pc[k]
                                         /\ Cur(k)' = Cur(k) /\ proc'[k] = proc[k] /\ kind'[k] = kind[k] /\ at'[k] = at[k]
    BY <1>2, <1>3 DEF IInv, TypeOK, Cur
  <2>5. ASSUME NEW k \in Job \ {j}
        PROVE  /\ pc'[k] = "idle" => percent'[k] <= 0
               /\ pc'[k] = "call" /\ ~(kind'[k] = "size" /\ at'[k] = 3) => percent'[k] <= Cur(k)'.base
               /\ pc'[k] = "proc" /\ Cur(k)'.bin # "ffmpeg" => percent'[k] <= Cur(k)'.base
               /\ pc'[k] = "proc" /\ "leader" \in proc'[k] => percent'[k] <= Scale(Cur(k)', clock'[k])
    BY <2>4 DEF IInv, Reported
  <2> HIDE DEF c, d
  <2>6. percent'[j] <= c.base /\ percent'[j] \in Nat /\ c.base \in Nat
    <3>0. c.base \in Nat /\ c.base <= c.base
      BY <2>2
    <3>00. percent[j] \in 0..100
      BY <2>1
    <3>1. c.base \in Nat /\ c.base <= c.base /\ percent[j] \in Nat
      BY <3>0, <3>00
    <3>2. CASE c.span = 50
      BY <2>1, <3>1, <3>2
    <3>3. CASE c.span # 50
      BY <2>1, <2>2, <3>1, <3>3
    <3>4. QED BY <3>2, <3>3, <3>1
  <2>7. percent'[j] <= Scale(c, clock[j])
    BY <2>3, <2>6
  <2>8. CASE at' = at
    <3>1. Cur(j)' = c /\ clock'[j] = clock[j] /\ pc'[j] \in {"proc", "clean"}
      BY <1>2, <1>3, <2>8 DEF IInv, TypeOK, Cur, c
    <3>2. QED BY <2>5, <2>6, <2>7, <3>1 DEF Reported
  <2>9. CASE at[j] < Len(Plans[kind[j]]) /\ at' = [at EXCEPT ![j] = at[j] + 1] /\ pc' = [pc EXCEPT ![j] = "call"]
    <3>1. Cur(j)' = d /\ pc'[j] = "call" /\ kind' = kind /\ at'[j] = at[j] + 1 /\ at[j] \in Nat
      BY <1>1, <1>2, <2>9 DEF TypeOK, Cur, d
    <3>2. c.bin # "ffmpeg" => percent'[j] <= d.base
      BY <2>2, <2>6, <2>9 DEF Follows
    <3>3. c.bin = "ffmpeg" => kind'[j] = "size" /\ at'[j] = 3
      BY <2>2, <2>9, <3>1
    <3>4. QED BY <2>5, <3>1, <3>2, <3>3 DEF Reported
  <2>10. QED BY <1>3, <2>8, <2>9
<1>9. ScratchOwned'
  BY <1>1, <1>2, <1>4, ScratchFacts DEF IInv, TypeOK, ScratchOwned
<1>10. WholeOutput'
  BY <1>1, <1>2, <1>4 DEF IInv, TypeOK, WholeOutput, Cur, Path, Processes
<1>11. Picked'
  BY <1>1, <1>2, <1>4 DEF IInv, TypeOK, Picked
<1>12. Delivered'
  BY <1>1, <1>2, <1>4, DeliveredFrame DEF IInv, TypeOK
<1>a. Apart'
  BY <1>1, <1>2, <1>4, ApartFrame DEF IInv, TypeOK, Live, Active
<1>13. QED BY <1>a, <1>5, <1>6, <1>7, <1>8, <1>9, <1>10, <1>11, <1>12 DEF IInv

\* A tool that runs writes to its run's path.
LEMMA WriteKeeps ==
    ASSUME IInv, NEW j \in Job, Write(j)
    PROVE  IInv'
<1>1. TypeOK /\ pc[j] # "idle"
  BY DEF IInv, TypeOK, Processes, Write
<1>2. /\ "leader" \in proc[j] /\ pc[j] \in {"proc", "lost"} /\ exit[j] = "none"
      /\ UNCHANGED <<run, tool, cancelled, bar, name, ok, out, crashes, shared>>
  BY DEF IInv, TypeOK, Processes, Write
<1>3. /\ tmp' \subseteq Files
      /\ \A f \in tmp' : f \in tmp \/ (f.of = j /\ f.path = Path(j, Cur(j).writes))
  <2>1. Cur(j).writes \in Where
    BY <1>1, CurFacts DEF Write
  <2>2. QED BY <1>1, <2>1, WrittenFacts DEF Write
<1>4. TypeOK'
  BY <1>1, <1>2, <1>3 DEF IInv, TypeOK
<1>5. Processes'
  BY <1>1, <1>2, <1>3 DEF IInv, TypeOK, Processes
<1>6. Outcome'
  BY <1>1, <1>2, <1>3 DEF IInv, TypeOK, Outcome
<1>7. Reported'
  BY <1>1, <1>2, <1>3 DEF IInv, TypeOK, Reported, Cur
<1>8. ScratchOwned'
  BY <1>1, <1>2, <1>3, ScratchFacts DEF IInv, TypeOK, ScratchOwned
<1>9. WholeOutput'
  BY <1>1, <1>2, <1>3 DEF IInv, TypeOK, WholeOutput, Cur, Path
<1>10. Picked'
  BY <1>1, <1>2, <1>3 DEF IInv, TypeOK, Picked
<1>11. Delivered'
  BY <1>1, <1>2, <1>3, DeliveredFrame DEF IInv, TypeOK
<1>a. Apart'
  BY <1>1, <1>2, ApartFrame DEF IInv, TypeOK, Live, Active
<1>12. QED BY <1>a, <1>4, <1>5, <1>6, <1>7, <1>8, <1>9, <1>10, <1>11 DEF IInv

\* The clock of ffmpeg moves forward.
LEMMA ProgressKeeps ==
    ASSUME IInv, NEW j \in Job, Progress(j)
    PROVE  IInv'
<1> USE DEF Progress
<1>1. TypeOK /\ pc[j] # "idle"
  BY DEF IInv, TypeOK, Processes
<1>2. TypeOK'
  <2>1. PICK t \in clock[j]..MaxClock : clock' = [clock EXCEPT ![j] = t]
    OBVIOUS
  <2>2. t \in 0..MaxClock
    BY <2>1 DEF IInv, TypeOK
  <2>3. clock' \in [Job -> 0..MaxClock] /\ clock'[j] = t
    BY <2>1, <2>2 DEF IInv, TypeOK
  <2>4. Scale(Cur(j), clock'[j]) \in 0..100
    BY <1>1, <2>2, <2>3, BarFacts
  <2>5. percent' \in [Job -> 0..100]
    BY <2>4 DEF IInv, TypeOK
  <2>6. QED BY <2>3, <2>5 DEF IInv, TypeOK
<1>3. Processes'
  BY <1>1 DEF IInv, TypeOK, Processes
<1>4. Outcome'
  BY <1>1 DEF IInv, TypeOK, Outcome
<1>5. Reported'
  <2> DEFINE c == Cur(j)
             x == clock[j]
             y == clock'[j]
  <2>1. x \in 0..MaxClock /\ y \in 0..MaxClock /\ x <= y /\ percent[j] \in 0..100
    BY DEF IInv, TypeOK
  <2>2. Scale(c, x) \in 0..100 /\ Scale(c, y) \in 0..100 /\ Scale(c, x) <= Scale(c, y)
    <3> HIDE DEF x, y
    <3>1. QED BY <1>1, <2>1, BarFacts
  <2>3. percent[j] <= Scale(c, x) /\ c.bin = "ffmpeg" /\ pc[j] = "proc"
    BY DEF IInv, Reported
  <2>4. percent'[j] = percent[j] \/ percent'[j] = Scale(c, y)
    BY <2>1 DEF IInv, TypeOK
  <2>5. \A k \in Job : Cur(k)' = Cur(k) /\ pc'[k] = pc[k] /\ proc'[k] = proc[k]
    BY DEF Cur
  <2>6. ASSUME NEW k \in Job \ {j} PROVE percent'[k] = percent[k] /\ clock'[k] = clock[k]
    BY DEF IInv, TypeOK
  <2> HIDE DEF c, x, y
  <2>7. percent'[j] <= Scale(c, y)
    <3>1. percent[j] \in Nat /\ Scale(c, x) \in Nat /\ Scale(c, y) \in Nat
      BY <2>1, <2>2
    <3>2. QED BY <2>2, <2>3, <2>4, <3>1
  <2>8. QED BY <2>3, <2>5, <2>6, <2>7 DEF IInv, Reported, c, y
<1>6. ScratchOwned'
  BY <1>1, ScratchFacts DEF IInv, TypeOK, ScratchOwned
<1>7. WholeOutput'
  BY <1>1 DEF IInv, TypeOK, WholeOutput, Cur, Path
<1>8. Picked'
  BY <1>1 DEF IInv, TypeOK, Picked
<1>9. Delivered'
  BY <1>1, DeliveredFrame DEF IInv, TypeOK
<1>a. Apart'
  BY <1>1, ApartFrame DEF IInv, TypeOK, Live, Active
<1>10. QED BY <1>a, <1>2, <1>3, <1>4, <1>5, <1>6, <1>7, <1>8, <1>9 DEF IInv

\* A scanner that gave up changes nothing on disk.
LEMMA LongLineKeeps ==
    ASSUME IInv, NEW j \in Job, LongLine(j)
    PROVE  IInv'
<1> USE DEF LongLine
<1>1. TypeOK /\ pc[j] # "idle"
  BY DEF IInv, TypeOK, Processes
<1>2. TypeOK'
  BY <1>1 DEF IInv, TypeOK
<1>3. Processes'
  BY <1>1 DEF IInv, TypeOK, Processes
<1>4. Outcome'
  BY <1>1 DEF IInv, TypeOK, Outcome
<1>5. Reported'
  BY <1>1 DEF IInv, TypeOK, Reported, Cur
<1>6. ScratchOwned'
  BY <1>1, ScratchFacts DEF IInv, TypeOK, ScratchOwned
<1>7. WholeOutput'
  BY <1>1 DEF IInv, TypeOK, WholeOutput, Cur, Path
<1>8. Picked'
  BY <1>1 DEF IInv, TypeOK, Picked
<1>9. Delivered'
  BY <1>1, DeliveredFrame DEF IInv, TypeOK
<1>a. Apart'
  BY <1>1, ApartFrame DEF IInv, TypeOK, Live, Active
<1>10. QED BY <1>a, <1>2, <1>3, <1>4, <1>5, <1>6, <1>7, <1>8, <1>9 DEF IInv

\* A leader that exits with 0 leaves a complete output, or none.
LEMMA LeaderExitsKeeps ==
    ASSUME IInv, NEW j \in Job, LeaderExits(j)
    PROVE  IInv'
<1>1. TypeOK /\ pc[j] # "idle"
  BY DEF IInv, TypeOK, Processes, LeaderExits
<1>2. /\ "leader" \in proc[j] /\ pc[j] \in {"proc", "lost"} /\ exit[j] = "none"
      /\ proc' = [proc EXCEPT ![j] = @ \ {"leader"}]
      /\ exit' \in {[exit EXCEPT ![j] = "bad"], [exit EXCEPT ![j] = "ok"]}
      /\ percent' = percent \/ (percent' = [percent EXCEPT ![j] = Scale(Cur(j), Length)] /\ pc[j] = "proc" /\ Cur(j).bin = "ffmpeg")
      /\ UNCHANGED <<run, deaf, cancelled, known, clock, name, ok, out, crashes, shared>>
  BY DEF IInv, TypeOK, Processes, LeaderExits
<1>3. /\ tmp' \subseteq Files
      /\ \A f \in tmp' : f \in tmp \/ (f.of = j /\ f.path = Path(j, Cur(j).writes))
      /\ exit'[j] = "ok" => \A f \in tmp' : f.of = j /\ f.path = Path(j, Cur(j).writes) => f.whole
  <2>1. CASE exit' = [exit EXCEPT ![j] = "bad"] /\ tmp' = tmp
    BY <1>1, <2>1 DEF TypeOK
  <2>2. CASE tmp' = tmp /\ ~\E f \in tmp : f.of = j /\ f.path = Path(j, Cur(j).writes)
    BY <1>1, <2>2 DEF TypeOK
  <2>3. CASE Cur(j).writes # "nothing" /\ \E s \in 1..MaxSize : tmp' = Written(j, TRUE, s)
    <3>1. Cur(j).writes \in Where
      BY <1>1, <2>3, CurFacts
    <3>2. QED BY <1>1, <2>3, <3>1, WrittenFacts
  <2>4. QED BY <2>1, <2>2, <2>3 DEF LeaderExits
<1>4. TypeOK'
  <2>1. Scale(Cur(j), Length) \in 0..100
    BY <1>1, BarFacts
  <2>2. percent' \in [Job -> 0..100]
    BY <1>1, <1>2, <2>1 DEF TypeOK
  <2>3. proc' \in [Job -> SUBSET {"leader", "helper"}] /\ exit' \in [Job -> {"none", "ok", "bad"}]
    BY <1>1, <1>2 DEF TypeOK
  <2>4. QED BY <1>1, <1>2, <1>3, <2>2, <2>3 DEF TypeOK
<1>5. Processes'
  BY <1>1, <1>2, <1>3 DEF IInv, TypeOK, Processes
<1>6. Outcome'
  BY <1>1, <1>2, <1>3 DEF IInv, TypeOK, Outcome
<1>7. Reported'
  <2>1. ASSUME NEW k \in Job \ {j} PROVE percent'[k] = percent[k] /\ proc'[k] = proc[k]
    BY <1>1, <1>2 DEF TypeOK
  <2>2. \A k \in Job : Cur(k)' = Cur(k) /\ pc'[k] = pc[k] /\ clock'[k] = clock[k]
    BY <1>2 DEF Cur
  <2>3. "leader" \notin proc'[j] /\ (percent'[j] = percent[j] \/ Cur(j).bin = "ffmpeg")
    BY <1>1, <1>2 DEF TypeOK
  <2>4. QED BY <1>2, <2>1, <2>2, <2>3 DEF IInv, Reported
<1>8. ScratchOwned'
  BY <1>1, <1>2, <1>3, ScratchFacts DEF IInv, TypeOK, ScratchOwned
<1>9. WholeOutput'
  BY <1>1, <1>2, <1>3 DEF IInv, TypeOK, WholeOutput, Cur, Path
<1>10. Picked'
  BY <1>1, <1>2, <1>3 DEF IInv, TypeOK, Picked
<1>11. Delivered'
  BY <1>1, <1>2, <1>3, DeliveredFrame DEF IInv, TypeOK
<1>a. Apart'
  BY <1>1, <1>2, ApartFrame DEF IInv, TypeOK, Live, Active
<1>12. QED BY <1>a, <1>4, <1>5, <1>6, <1>7, <1>8, <1>9, <1>10, <1>11 DEF IInv

\* A helper owns nothing.
LEMMA HelperExitsKeeps ==
    ASSUME IInv, NEW j \in Job, HelperExits(j)
    PROVE  IInv'
<1> USE DEF HelperExits
<1>1. TypeOK /\ pc[j] # "idle"
  BY DEF IInv, TypeOK, Processes
<1>2. TypeOK'
  BY <1>1 DEF IInv, TypeOK
<1>3. Processes'
  BY <1>1 DEF IInv, TypeOK, Processes
<1>4. Outcome'
  BY <1>1 DEF IInv, TypeOK, Outcome
<1>5. Reported'
  BY <1>1 DEF IInv, TypeOK, Reported, Cur
<1>6. ScratchOwned'
  BY <1>1, ScratchFacts DEF IInv, TypeOK, ScratchOwned
<1>7. WholeOutput'
  BY <1>1 DEF IInv, TypeOK, WholeOutput, Cur, Path
<1>8. Picked'
  BY <1>1 DEF IInv, TypeOK, Picked
<1>9. Delivered'
  BY <1>1, DeliveredFrame DEF IInv, TypeOK
<1>a. Apart'
  BY <1>1, ApartFrame DEF IInv, TypeOK, Live, Active
<1>10. QED BY <1>a, <1>2, <1>3, <1>4, <1>5, <1>6, <1>7, <1>8, <1>9 DEF IInv

\* The whole group is killed.
LEMMA KillGroupKeeps ==
    ASSUME IInv, NEW j \in Job, KillGroup(j)
    PROVE  IInv'
<1> USE DEF KillGroup, Survivors
<1>1. TypeOK /\ pc[j] # "idle"
  BY DEF IInv, TypeOK, Processes
<1>2. TypeOK'
  BY <1>1 DEF IInv, TypeOK
<1>3. Processes'
  BY <1>1 DEF IInv, TypeOK, Processes
<1>4. Outcome'
  BY <1>1 DEF IInv, TypeOK, Outcome
<1>5. Reported'
  BY <1>1 DEF IInv, TypeOK, Reported, Cur
<1>6. ScratchOwned'
  BY <1>1, ScratchFacts DEF IInv, TypeOK, ScratchOwned
<1>7. WholeOutput'
  BY <1>1 DEF IInv, TypeOK, WholeOutput, Cur, Path
<1>8. Picked'
  BY <1>1 DEF IInv, TypeOK, Picked
<1>9. Delivered'
  BY <1>1, DeliveredFrame DEF IInv, TypeOK
<1>a. Apart'
  BY <1>1, ApartFrame DEF IInv, TypeOK, Live, Active
<1>10. QED BY <1>a, <1>2, <1>3, <1>4, <1>5, <1>6, <1>7, <1>8, <1>9 DEF IInv

\* A call ends when nobody holds its pipes; only a successful last call leads to a delivery.
LEMMA WaitKeeps ==
    ASSUME IInv, NEW j \in Job, Wait(j)
    PROVE  IInv'
<1>1. TypeOK /\ pc[j] # "idle"
  BY DEF IInv, TypeOK, Processes, Wait
<1>2. /\ pc[j] = "proc" /\ proc[j] = {}
      /\ exit' = [exit EXCEPT ![j] = "none"] /\ deaf' = deaf \ {j} /\ clock' = [clock EXCEPT ![j] = 0]
      /\ known' \subseteq known \cup {j}
      /\ UNCHANGED <<kind, proc, cancelled, percent, tmp, name, ok, out, crashes, shared>>
  BY DEF Wait, PipesClosed
<1>3. \/ at' = at /\ pc' = [pc EXCEPT ![j] = "clean"]
      \/ /\ at[j] < Len(Plans[kind[j]]) /\ at' = [at EXCEPT ![j] = at[j] + 1]
         /\ at[j] + 1 \in DOMAIN Plans[kind[j]] /\ pc' = [pc EXCEPT ![j] = "call"]
      \/ exit[j] = "ok" /\ at' = at /\ pc' = [pc EXCEPT ![j] = "collect"]
  <2>1. CASE exit[j] = "ok" /\ Advance(j)
    BY <1>1, <2>1, AdvanceFacts
  <2>2. CASE Cur(j).fatal /\ Fail(j) /\ UNCHANGED at
    BY <2>2 DEF Fail
  <2>3. CASE ~Cur(j).fatal /\ Advance(j)
    BY <1>1, <2>3, AdvanceFacts, CurFacts
  <2>4. QED BY <2>1, <2>2, <2>3 DEF Wait
<1>4. /\ pc'[j] \in {"collect", "clean", "call"} /\ (pc'[j] # "call" => at'[j] = at[j])
      /\ \A k \in Job \ {j} : pc'[k] = pc[k] /\ at'[k] = at[k]
      /\ pc'[j] = "collect" => exit[j] = "ok"
  BY <1>1, <1>3 DEF TypeOK
<1>5. TypeOK'
  <2>1. /\ at' \in [Job -> Nat]
        /\ \A k \in Job : at'[k] \in IF kind[k] = None THEN {1} ELSE DOMAIN Plans[kind[k]]
    <3>1. kind[j] \in Kind /\ kind[j] # None /\ at[j] + 1 \in Nat
      BY <1>1, CurFacts DEF TypeOK
    <3>2. CASE at' = at
      BY <1>1, <3>2 DEF TypeOK
    <3>3. CASE at' = [at EXCEPT ![j] = at[j] + 1] /\ at[j] + 1 \in DOMAIN Plans[kind[j]]
      BY <1>1, <3>1, <3>3 DEF TypeOK
    <3>4. QED BY <1>3, <3>2, <3>3
  <2>2. pc' \in [Job -> {"idle", "call", "proc", "collect", "name", "move", "copy", "clean",
                         "done", "failed", "lost"}]
    BY <1>1, <1>3 DEF TypeOK
  <2>3. exit' \in [Job -> {"none", "ok", "bad"}] /\ clock' \in [Job -> 0..MaxClock]
    BY <1>1, <1>2 DEF TypeOK
  <2>4. QED BY <1>1, <1>2, <1>4, <2>1, <2>2, <2>3 DEF TypeOK
<1>6. Processes'
  BY <1>1, <1>2, <1>4 DEF IInv, TypeOK, Processes
<1>7. Outcome'
  BY <1>1, <1>2, <1>4 DEF IInv, TypeOK, Outcome
<1>8. Reported'
  <2> DEFINE c == Cur(j)
             d == Plans[kind[j]][at[j] + 1]
  <2>1. (c.bin = "ffmpeg" \/ percent[j] <= c.base) /\ percent[j] \in 0..100
    BY <1>1, <1>2 DEF IInv, TypeOK, Reported
  <2>2. /\ c.base \in {0, 50}
        /\ at[j] < Len(Plans[kind[j]]) => Follows(c, d) /\ d.base \in {0, 50}
        /\ c.bin = "ffmpeg" /\ at[j] < Len(Plans[kind[j]]) => kind[j] = "size" /\ at[j] = 2
    <3>1. kind[j] \in Kind /\ (at[j] < Len(Plans[kind[j]]) => at[j] + 1 \in DOMAIN Plans[kind[j]])
      BY <1>1, CurFacts
    <3>2. QED BY <1>1, <3>1, CurFacts, PlanFacts
  <2> HIDE DEF c, d
  <2>3. at[j] < Len(Plans[kind[j]]) => percent[j] <= d.base \/ (kind[j] = "size" /\ at[j] = 2)
    <3>1. c.base \in Nat /\ (at[j] < Len(Plans[kind[j]]) => d.base \in Nat)
      BY <2>2
    <3>2. percent[j] \in 0..100
      BY <2>1
    <3>3. percent[j] \in Nat
      BY <3>2
    <3>4. c.bin # "ffmpeg" => percent[j] <= c.base
      BY <2>1
    <3>5. at[j] < Len(Plans[kind[j]]) => (c.bin # "ffmpeg" => c.base <= d.base)
      BY <2>2 DEF Follows
    <3>6. QED BY <2>2, <3>1, <3>3, <3>4, <3>5
  <2>4. ASSUME NEW k \in Job \ {j} PROVE /\ percent'[k] = percent[k] /\ clock'[k] = clock[k] /\ pc'[k] = pc[k]
                                         /\ Cur(k)' = Cur(k) /\ proc'[k] = proc[k] /\ kind'[k] = kind[k] /\ at'[k] = at[k]
    BY <1>2, <1>3 DEF IInv, TypeOK, Cur
  <2>5. CASE pc' = [pc EXCEPT ![j] = "clean"] \/ pc' = [pc EXCEPT ![j] = "collect"]
    BY <1>2, <2>4, <2>5 DEF IInv, TypeOK, Reported
  <2>6. CASE at[j] < Len(Plans[kind[j]]) /\ at' = [at EXCEPT ![j] = at[j] + 1] /\ pc' = [pc EXCEPT ![j] = "call"]
    <3>1. Cur(j)' = d /\ pc'[j] = "call" /\ percent'[j] = percent[j] /\ kind'[j] = kind[j] /\ at'[j] = at[j] + 1
      BY <1>1, <1>2, <2>6 DEF TypeOK, Cur, d
    <3>2. at[j] = 2 => at'[j] = 3
      BY <3>1
    <3>3. QED BY <2>3, <2>4, <2>6, <3>1, <3>2 DEF IInv, Reported
  <2>7. QED BY <1>3, <2>5, <2>6
<1>9. ScratchOwned'
  BY <1>1, <1>2, <1>4, ScratchFacts DEF IInv, TypeOK, ScratchOwned
<1>10. WholeOutput'
  BY <1>1, <1>2, <1>4 DEF IInv, TypeOK, WholeOutput, Cur, Path
<1>11. Picked'
  BY <1>1, <1>2, <1>4 DEF IInv, TypeOK, Picked
<1>12. Delivered'
  BY <1>1, <1>2, <1>4, DeliveredFrame DEF IInv, TypeOK
<1>a. Apart'
  BY <1>1, <1>2, <1>4, ApartFrame DEF IInv, TypeOK, Live, Active
<1>13. QED BY <1>a, <1>5, <1>6, <1>7, <1>8, <1>9, <1>10, <1>11, <1>12 DEF IInv

\* wrapPNGInSVG writes the output to the end, or the run fails.
LEMMA WrapKeeps ==
    ASSUME IInv, NEW j \in Job, Wrap(j)
    PROVE  IInv'
<1>1. TypeOK /\ pc[j] # "idle"
  BY DEF IInv, TypeOK, Processes, Wrap
<1>2. /\ pc[j] = "call" /\ Cur(j).writes \in Where
      /\ UNCHANGED <<kind, tool, cancelled, bar, name, ok, out, crashes, shared>>
  BY <1>1, CurFacts DEF Wrap
<1>3. \/ at' = at /\ pc' = [pc EXCEPT ![j] = "clean"]
      \/ /\ at[j] < Len(Plans[kind[j]]) /\ at' = [at EXCEPT ![j] = at[j] + 1]
         /\ at[j] + 1 \in DOMAIN Plans[kind[j]] /\ pc' = [pc EXCEPT ![j] = "call"]
      \/ at' = at /\ pc' = [pc EXCEPT ![j] = "collect"]
  BY <1>1, AdvanceFacts DEF Wrap, Fail
<1>4. /\ tmp' \subseteq Files
      /\ \A f \in tmp' : f \in tmp \/ (f.of = j /\ f.path = Path(j, Cur(j).writes))
      /\ pc'[j] # "clean" => \A f \in tmp' : f.of = j /\ f.path = Path(j, Cur(j).writes) => f.whole
  <2>1. CASE \E s \in 1..MaxSize : tmp' = Written(j, TRUE, s)
    BY <1>1, <1>2, <2>1, WrittenFacts
  <2>2. CASE (\E s \in 1..MaxSize : tmp' = Written(j, FALSE, s)) /\ Fail(j)
    BY <1>1, <1>2, <2>2, WrittenFacts DEF Fail, TypeOK
  <2>3. CASE tmp' = tmp /\ Fail(j)
    BY <1>1, <2>3 DEF Fail, TypeOK
  <2>4. QED BY <2>1, <2>2, <2>3 DEF Wrap
<1>5. /\ pc'[j] \in {"collect", "clean", "call"} /\ (pc'[j] # "call" => at'[j] = at[j])
      /\ \A k \in Job \ {j} : pc'[k] = pc[k] /\ at'[k] = at[k]
  BY <1>1, <1>3 DEF TypeOK
<1>6. TypeOK'
  <2>1. /\ at' \in [Job -> Nat]
        /\ \A k \in Job : at'[k] \in IF kind[k] = None THEN {1} ELSE DOMAIN Plans[kind[k]]
    <3>1. kind[j] \in Kind /\ kind[j] # None /\ at[j] + 1 \in Nat
      BY <1>1, CurFacts DEF TypeOK
    <3>2. CASE at' = at
      BY <1>1, <3>2 DEF TypeOK
    <3>3. CASE at' = [at EXCEPT ![j] = at[j] + 1] /\ at[j] + 1 \in DOMAIN Plans[kind[j]]
      BY <1>1, <3>1, <3>3 DEF TypeOK
    <3>4. QED BY <1>3, <3>2, <3>3
  <2>2. pc' \in [Job -> {"idle", "call", "proc", "collect", "name", "move", "copy", "clean",
                         "done", "failed", "lost"}]
    BY <1>1, <1>3 DEF TypeOK
  <2>3. QED BY <1>1, <1>2, <1>4, <1>5, <2>1, <2>2 DEF TypeOK
<1>7. Processes'
  BY <1>1, <1>2, <1>4, <1>5 DEF IInv, TypeOK, Processes
<1>8. Outcome'
  BY <1>1, <1>2, <1>4, <1>5 DEF IInv, TypeOK, Outcome
<1>9. Reported'
  <2> DEFINE c == Cur(j)
             d == Plans[kind[j]][at[j] + 1]
  <2>1. percent[j] <= c.base /\ percent[j] \in 0..100
    <3>1. c.bin = "wrapPNGInSVG" /\ kind[j] \in Kind
      BY <1>1, CurFacts DEF Wrap
    <3>2. ~(kind[j] = "size" /\ at[j] = 3)
      BY <1>1, <3>1, CurFacts DEF Share
    <3>3. QED BY <1>1, <1>2, <3>2 DEF IInv, TypeOK, Reported
  <2>2. /\ c.base \in {0, 50}
        /\ at[j] < Len(Plans[kind[j]]) => Follows(c, d) /\ d.base \in {0, 50}
        /\ c.bin = "ffmpeg" /\ at[j] < Len(Plans[kind[j]]) => kind[j] = "size" /\ at[j] = 2
    <3>1. kind[j] \in Kind /\ (at[j] < Len(Plans[kind[j]]) => at[j] + 1 \in DOMAIN Plans[kind[j]])
      BY <1>1, CurFacts
    <3>2. QED BY <1>1, <3>1, CurFacts, PlanFacts
  <2> HIDE DEF c, d
  <2>3. at[j] < Len(Plans[kind[j]]) => percent[j] <= d.base \/ (kind[j] = "size" /\ at[j] = 2)
    <3>1. c.base \in Nat /\ (at[j] < Len(Plans[kind[j]]) => d.base \in Nat)
      BY <2>2
    <3>2. percent[j] \in 0..100
      BY <2>1
    <3>3. percent[j] \in Nat
      BY <3>2
    <3>4. c.bin # "ffmpeg" => percent[j] <= c.base
      BY <2>1
    <3>5. at[j] < Len(Plans[kind[j]]) => (c.bin # "ffmpeg" => c.base <= d.base)
      BY <2>2 DEF Follows
    <3>6. QED BY <2>2, <3>1, <3>3, <3>4, <3>5
  <2>4. ASSUME NEW k \in Job \ {j} PROVE /\ percent'[k] = percent[k] /\ clock'[k] = clock[k] /\ pc'[k] = pc[k]
                                         /\ Cur(k)' = Cur(k) /\ proc'[k] = proc[k] /\ kind'[k] = kind[k] /\ at'[k] = at[k]
    BY <1>2, <1>3 DEF IInv, TypeOK, Cur
  <2>5. CASE pc' = [pc EXCEPT ![j] = "clean"] \/ pc' = [pc EXCEPT ![j] = "collect"]
    BY <1>2, <2>4, <2>5 DEF IInv, TypeOK, Reported
  <2>6. CASE at[j] < Len(Plans[kind[j]]) /\ at' = [at EXCEPT ![j] = at[j] + 1] /\ pc' = [pc EXCEPT ![j] = "call"]
    <3>1. Cur(j)' = d /\ pc'[j] = "call" /\ percent'[j] = percent[j] /\ kind'[j] = kind[j] /\ at'[j] = at[j] + 1
      BY <1>1, <1>2, <2>6 DEF TypeOK, Cur, d
    <3>2. at[j] = 2 => at'[j] = 3
      BY <3>1
    <3>3. QED BY <2>3, <2>4, <2>6, <3>1, <3>2 DEF IInv, Reported
  <2>7. QED BY <1>3, <2>5, <2>6
<1>10. ScratchOwned'
  BY <1>1, <1>2, <1>4, <1>5, ScratchFacts DEF IInv, TypeOK, ScratchOwned
<1>11. WholeOutput'
  BY <1>1, <1>2, <1>4, <1>5 DEF IInv, TypeOK, WholeOutput, Cur, Path
<1>12. Picked'
  BY <1>1, <1>2, <1>4, <1>5 DEF IInv, TypeOK, Picked
<1>13. Delivered'
  BY <1>1, <1>2, <1>4, <1>5, DeliveredFrame DEF IInv, TypeOK
<1>a. Apart'
  BY <1>1, <1>2, <1>5, ApartFrame DEF IInv, TypeOK, Live, Active
<1>14. QED BY <1>a, <1>6, <1>7, <1>8, <1>9, <1>10, <1>11, <1>12, <1>13 DEF IInv

\* What is collected lies at the path of the last call.
LEMMA CollectKeeps ==
    ASSUME IInv, NEW j \in Job, Collect(j)
    PROVE  IInv'
<1> USE DEF Collect, Fail
<1>1. TypeOK /\ pc[j] # "idle"
  BY DEF IInv, TypeOK, Processes
<1>2. TypeOK'
  <2>1. Candidates(j) \subseteq tmp /\ tmp' \subseteq tmp
    BY DEF Candidates, At
  <2>2. /\ pick' \in [Job -> Files \cup {None}]
        /\ pc'[j] = "name" /\ kind[j] = "download" => pick'[j] # None
        /\ pc'[j] # "copy" /\ \A k \in Job \ {j} : pick'[k] = pick[k] /\ pc'[k] = pc[k]
    BY <1>1, <2>1 DEF TypeOK
  <2>3. QED BY <1>1, <2>1, <2>2 DEF TypeOK
<1>3. Processes'
  BY <1>1 DEF IInv, TypeOK, Processes
<1>4. Outcome'
  BY <1>1 DEF IInv, TypeOK, Outcome
<1>5. Reported'
  BY <1>1 DEF IInv, TypeOK, Reported, Cur
<1>6. ScratchOwned'
  BY <1>1, ScratchFacts DEF IInv, TypeOK, ScratchOwned
<1>7. WholeOutput'
  BY <1>1 DEF IInv, TypeOK, WholeOutput, Cur, Path
<1>8. Picked'
  <2>1. pc'[j] # "copy" /\ \A k \in Job \ {j} : pick'[k] = pick[k] /\ pc'[k] = pc[k]
    BY <1>1 DEF TypeOK
  <2>2. QED BY <2>1 DEF IInv, Picked
<1>9. Delivered'
  BY <1>1, DeliveredFrame DEF IInv, TypeOK
<1>a. Apart'
  BY <1>1, ApartFrame DEF IInv, TypeOK, Live, Active
<1>10. QED BY <1>a, <1>2, <1>3, <1>4, <1>5, <1>6, <1>7, <1>8, <1>9 DEF IInv

\* A name is settled before anything is moved there.
LEMMA UniqueOutputPathKeeps ==
    ASSUME IInv, NEW j \in Job, UniqueOutputPath(j)
    PROVE  IInv'
<1> USE DEF UniqueOutputPath
<1>1. TypeOK /\ pc[j] # "idle"
  BY DEF IInv, TypeOK, Processes
<1>2. TypeOK'
  BY <1>1 DEF IInv, TypeOK
<1>3. Processes'
  BY <1>1 DEF IInv, TypeOK, Processes
<1>4. Outcome'
  BY <1>1 DEF IInv, TypeOK, Outcome
<1>5. Reported'
  BY <1>1 DEF IInv, TypeOK, Reported, Cur
<1>6. ScratchOwned'
  BY <1>1, ScratchFacts DEF IInv, TypeOK, ScratchOwned
<1>7. WholeOutput'
  BY <1>1 DEF IInv, TypeOK, WholeOutput, Cur, Path
<1>8. Picked'
  BY <1>1 DEF IInv, TypeOK, Picked
<1>9. Delivered'
  <2>1. j \notin ok /\ pc[j] \notin {"copy", "lost"} /\ out' = out /\ ok' = ok
    BY DEF IInv, Outcome
  <2>2. \A k \in Job \ {j} : Dst(k)' = Dst(k) /\ pc'[k] = pc[k]
    BY <1>1 DEF TypeOK, Dst
  <2>3. ASSUME NEW k \in Job \ shared
        PROVE  /\ k \in ok' /\ OwnName(k) => out'[Dst(k)'] = [of |-> k, whole |-> TRUE]
               /\ \A d \in Dest : out'[d] # None /\ out'[d].of = k =>
                    d = Dst(k)' /\ (k \in ok' \/ pc'[k] \in {"copy", "lost"})
    <3>1. /\ k \in ok /\ OwnName(k) => out[Dst(k)] = [of |-> k, whole |-> TRUE]
          /\ \A d \in Dest : out[d] # None /\ out[d].of = k => d = Dst(k) /\ (k \in ok \/ pc[k] \in {"copy", "lost"})
      BY DEF IInv, Delivered
    <3>2. QED BY <2>1, <2>2, <3>1
  <2>4. QED BY <2>3 DEF Delivered
<1>a. Apart'
  BY <1>1, ApartFrame DEF IInv, TypeOK, Live, Active
<1>10. QED BY <1>a, <1>2, <1>3, <1>4, <1>5, <1>6, <1>7, <1>8, <1>9 DEF IInv

\* What a run finds to deliver is its own and complete, or of a run beside it.
LEMMA SourceFacts ==
    ASSUME IInv, NEW j \in Job, pc[j] = "move", NEW f \in Source(j)
    PROVE  /\ f \in tmp /\ f \in Files /\ f.of \in Job /\ f.whole \in BOOLEAN
           /\ f.of = j => f.whole
           /\ f.of # j => j \in shared /\ f.of \in shared
<1>1. f \in tmp /\ f.path = Path(j, Cur(j).writes)
  BY DEF Source, At
<1>2. f \in Files /\ f.of \in Job /\ f.whole \in BOOLEAN
  BY <1>1 DEF IInv, TypeOK, Files
<1>3. f.of = j => f.whole
  BY <1>1 DEF IInv, WholeOutput
<1>4. TagOf[f.of] = TagOf[j] /\ pc[f.of] \notin {"idle", "done", "failed"}
  <2>1. f.path \in Scratch(f.of) /\ f.path \in Scratch(j) /\ pc[f.of] \notin {"idle", "done", "failed"}
    BY <1>1, <1>2, ScratchFacts DEF IInv, ScratchOwned
  <2>2. QED BY <1>2, <2>1, ScratchFacts DEF IInv
<1>5. Live(j) /\ Live(f.of)
  BY <1>2, <1>4 DEF Live, Active, IInv, TypeOK
<1>6. QED BY <1>1, <1>2, <1>3, <1>4, <1>5 DEF IInv, Apart

\* A run in moveFile leaves v at its path; v is nobody's, or its own, or of a run
\* beside it.
Delivers(j, v) ==
  /\ j \notin ok /\ pc[j] \in {"move", "copy"}
  /\ out' = [out EXCEPT ![Dst(j)] = v] /\ tag' = tag /\ shared' = shared
  /\ \A k \in Job \ {j} : pc'[k] = pc[k] /\ (k \in ok' <=> k \in ok)
  /\ \A k \in Job \ shared : k # j => v = None \/ v.of # k
  /\ j \notin shared => \/ v = [of |-> j, whole |-> TRUE] /\ j \in ok'
                        \/ v = None /\ j \notin ok'
                        \/ j \notin ok' /\ pc'[j] = "copy"

\* It disturbs nobody who shares neither its tag nor the name of its output.
LEMMA DeliveryKeeps ==
    ASSUME IInv, NEW j \in Job, NEW v, Delivers(j, v)
    PROVE  Delivered'
<1> USE DEF Delivers
<1> DEFINE own(k) == [of |-> k, whole |-> TRUE]
<1>1. Dst(j) \in Dest /\ \A k \in Job : Dst(k)' = Dst(k) /\ Dst(k) \in Dest
  BY DEF IInv, TypeOK, Dst, Dest
<1>2. \A d \in Dest : out'[d] = IF d = Dst(j) THEN v ELSE out[d]
  BY <1>1 DEF IInv, TypeOK
<1>3. ASSUME NEW k \in Job \ shared
      PROVE  /\ k \in ok /\ OwnName(k) => out[Dst(k)] = own(k)
             /\ \A d \in Dest : out[d] # None /\ out[d].of = k => d = Dst(k) /\ (k \in ok \/ pc[k] \in {"copy", "lost"})
  BY DEF IInv, Delivered
<1> HIDE DEF own
<1>4. ASSUME NEW k \in Job \ shared, k # j
      PROVE  /\ k \in ok' /\ OwnName(k) => out'[Dst(k)'] = own(k)
             /\ \A d \in Dest : out'[d] # None /\ out'[d].of = k =>
                  d = Dst(k)' /\ (k \in ok' \/ pc'[k] \in {"copy", "lost"})
  <2>1. OwnName(k) => Dst(k) # Dst(j)
    BY <1>4 DEF OwnName, Dst
  <2>2. k \in ok' /\ OwnName(k) => out'[Dst(k)'] = own(k)
    BY <1>1, <1>2, <1>3, <1>4, <2>1
  <2>3. ASSUME NEW d \in Dest, out'[d] # None, out'[d].of = k
        PROVE  d = Dst(k)' /\ (k \in ok' \/ pc'[k] \in {"copy", "lost"})
    <3>1. d # Dst(j) /\ out[d] # None /\ out[d].of = k
      BY <1>2, <1>4, <2>3
    <3>2. QED BY <1>1, <1>3, <1>4, <3>1
  <2>4. QED BY <2>2, <2>3
<1>5. ASSUME j \notin shared
      PROVE  /\ j \in ok' /\ OwnName(j) => out'[Dst(j)'] = own(j)
             /\ \A d \in Dest : out'[d] # None /\ out'[d].of = j =>
                  d = Dst(j)' /\ (j \in ok' \/ pc'[j] \in {"copy", "lost"})
  <2>1. ASSUME NEW d \in Dest, out'[d] # None, out'[d].of = j
        PROVE  d = Dst(j)' /\ (j \in ok' \/ pc'[j] \in {"copy", "lost"})
    <3>1. d = Dst(j)
      BY <1>2, <1>3, <1>5, <2>1
    <3>2. v # None
      BY <1>2, <2>1, <3>1
    <3>3. QED BY <1>1, <1>5, <3>1, <3>2
  <2>2. QED BY <1>1, <1>2, <1>5, <2>1 DEF own
<1>6. QED BY <1>4, <1>5 DEF Delivered, own

\* A file is moved whole, or begun to be copied.
LEMMA MoveFileKeeps ==
    ASSUME IInv, NEW j \in Job, MoveFile(j)
    PROVE  IInv'
<1> USE DEF MoveFile, Fail
<1>1. TypeOK /\ pc[j] # "idle" /\ pc[j] = "move"
  BY DEF IInv, TypeOK, Processes
<1>b. \/ \E f \in Source(j) :
            /\ out' = [out EXCEPT ![Dst(j)] = [of |-> f.of, whole |-> f.whole]] /\ pick' = pick
            /\ ok' = ok \cup {j} /\ pc' = [pc EXCEPT ![j] = "clean"]
      \/ \E f \in Source(j) :
            /\ out' = [out EXCEPT ![Dst(j)] = [of |-> j, whole |-> FALSE]] /\ ok' = ok
            /\ pick' = [pick EXCEPT ![j] = f] /\ pc' = [pc EXCEPT ![j] = "copy"]
      \/ out' = out /\ ok' = ok /\ pick' = pick /\ pc' = [pc EXCEPT ![j] = "clean"]
  OBVIOUS
<1>2. TypeOK'
  <2> DEFINE V == [of : Job \cup {None}, whole : BOOLEAN] \cup {None}
  <2>1. Dst(j) \in Dest /\ out \in [Dest -> V]
    BY <1>1 DEF TypeOK, Dst, Dest
  <2>2. ASSUME NEW f \in Source(j) PROVE [of |-> f.of, whole |-> f.whole] \in V /\ f \in Files /\ f # None
    BY <1>1, SourceFacts
  <2>3. [of |-> j, whole |-> FALSE] \in V
    OBVIOUS
  <2> HIDE DEF V
  <2>4. out' \in [Dest -> V]
    <3>1. out' = out \/ \E v \in V : out' = [out EXCEPT ![Dst(j)] = v]
      BY <1>b, <2>2, <2>3
    <3>2. QED BY <2>1, <3>1
  <2>5. /\ pick' \in [Job -> Files \cup {None}] /\ (pc'[j] = "copy" => pick'[j] # None)
        /\ pc'[j] \in {"clean", "copy"} /\ \A k \in Job \ {j} : pick'[k] = pick[k] /\ pc'[k] = pc[k]
    <3>1. pick' = pick \/ \E f \in Files : f # None /\ pick' = [pick EXCEPT ![j] = f]
      BY <1>b, <2>2
    <3>2. pick \in [Job -> Files \cup {None}]
      BY <1>1 DEF TypeOK
    <3>3. pick' \in [Job -> Files \cup {None}] /\ \A k \in Job \ {j} : pick'[k] = pick[k]
      BY <3>1, <3>2
    <3>4. pc'[j] \in {"clean", "copy"} /\ \A k \in Job \ {j} : pc'[k] = pc[k]
      BY <1>1, <1>b DEF TypeOK
    <3>5. pc'[j] = "copy" => \E f \in Files : f # None /\ pick' = [pick EXCEPT ![j] = f]
      BY <1>1, <1>b, <2>2 DEF TypeOK
    <3>6. pc'[j] = "copy" => pick'[j] # None
      BY <3>2, <3>5
    <3>7. QED BY <3>3, <3>4, <3>6
  <2>6. pc' \in [Job -> {"idle", "call", "proc", "collect", "name", "move", "copy", "clean",
                         "done", "failed", "lost"}] /\ ok' \subseteq Job
    BY <1>1, <1>b DEF TypeOK
  <2>7. tmp' \subseteq tmp
    OBVIOUS
  <2>8. QED BY <1>1, <2>4, <2>5, <2>6, <2>7 DEF TypeOK, V
<1>3. Processes'
  BY <1>1 DEF IInv, TypeOK, Processes
<1>4. Outcome'
  BY <1>1 DEF IInv, TypeOK, Outcome
<1>5. Reported'
  BY <1>1 DEF IInv, TypeOK, Reported, Cur
<1>6. ScratchOwned'
  BY <1>1, ScratchFacts DEF IInv, TypeOK, ScratchOwned
<1>7. WholeOutput'
  BY <1>1 DEF IInv, TypeOK, WholeOutput, Cur, Path
<1>8. Picked'
  <2>1. \A k \in Job \ {j} : pick'[k] = pick[k] /\ pc'[k] = pc[k]
    BY <1>1, <1>b DEF TypeOK
  <2>2. pc'[j] = "copy" => IF pick'[j].of = j THEN pick'[j].whole ELSE {j, pick'[j].of} \subseteq shared
    <3>1. ASSUME NEW f \in Source(j), pick' = [pick EXCEPT ![j] = f]
          PROVE  IF pick'[j].of = j THEN pick'[j].whole ELSE {j, pick'[j].of} \subseteq shared
      <4>1. pick'[j] = f
        BY <1>1, <3>1 DEF TypeOK
      <4>2. QED BY <1>1, <4>1, SourceFacts
    <3>2. pc'[j] = "copy" => \E f \in Source(j) : pick' = [pick EXCEPT ![j] = f]
      BY <1>1, <1>b DEF TypeOK
    <3>3. QED BY <3>1, <3>2
  <2>3. QED BY <2>1, <2>2 DEF IInv, Picked
<1>9. Delivered'
  <2>1. /\ j \notin ok /\ UNCHANGED <<tag, shared>>
        /\ \A k \in Job \ {j} : pc'[k] = pc[k] /\ (k \in ok' <=> k \in ok)
    BY <1>1, <1>b DEF IInv, Outcome, TypeOK
  <2>2. CASE out' = out /\ ok' = ok
    BY <1>1, <2>1, <2>2, DeliveredFrame DEF IInv
  <2>3. ASSUME NEW f \in Source(j), ok' = ok \cup {j},
               out' = [out EXCEPT ![Dst(j)] = [of |-> f.of, whole |-> f.whole]]
        PROVE  Delivered'
    <3> DEFINE v == [of |-> f.of, whole |-> f.whole]
    <3>1. /\ f.of \in Job /\ (f.of = j => f.whole = TRUE)
          /\ f.of # j => j \in shared /\ f.of \in shared
      BY <1>1, SourceFacts
    <3>2. v.of = f.of /\ (f.of = j => v = [of |-> j, whole |-> TRUE])
      BY <3>1
    <3>3. out' = [out EXCEPT ![Dst(j)] = v]
      BY <2>3
    <3> HIDE DEF v
    <3>4. /\ \A k \in Job \ shared : k # j => v = None \/ v.of # k
          /\ j \notin shared => v = [of |-> j, whole |-> TRUE] /\ j \in ok'
      BY <2>3, <3>1, <3>2
    <3> HIDE DEF MoveFile, Fail
    <3>5. Delivers(j, v)
      BY <1>1, <2>1, <3>3, <3>4 DEF Delivers
    <3>6. QED BY <3>5, DeliveryKeeps
  <2>4. CASE ok' = ok /\ pc'[j] = "copy" /\ out' = [out EXCEPT ![Dst(j)] = [of |-> j, whole |-> FALSE]]
    <3> DEFINE v == [of |-> j, whole |-> FALSE]
    <3>1. v.of = j /\ out' = [out EXCEPT ![Dst(j)] = v]
      BY <2>4
    <3> HIDE DEF v
    <3> HIDE DEF MoveFile, Fail
    <3>2. Delivers(j, v)
      BY <1>1, <2>1, <2>4, <3>1 DEF Delivers
    <3>3. QED BY <3>2, DeliveryKeeps
  <2>5. QED
    <3>1. \/ out' = out /\ ok' = ok
          \/ \E f \in Source(j) :
               ok' = ok \cup {j} /\ out' = [out EXCEPT ![Dst(j)] = [of |-> f.of, whole |-> f.whole]]
          \/ ok' = ok /\ pc'[j] = "copy" /\ out' = [out EXCEPT ![Dst(j)] = [of |-> j, whole |-> FALSE]]
      BY <1>1, <1>b DEF TypeOK
    <3>2. QED BY <2>2, <2>3, <2>4, <3>1
<1>a. Apart'
  BY <1>1, ApartFrame DEF IInv, TypeOK, Live, Active
<1>10. QED BY <1>a, <1>2, <1>3, <1>4, <1>5, <1>6, <1>7, <1>8, <1>9 DEF IInv

\* A copy is completed or undone.
LEMMA CopyRemoveKeeps ==
    ASSUME IInv, NEW j \in Job, CopyRemove(j)
    PROVE  IInv'
<1> USE DEF CopyRemove, CopyUndone
<1>1. TypeOK /\ pc[j] # "idle" /\ pc[j] = "copy"
  BY DEF IInv, TypeOK, Processes
<1>2. TypeOK'
  <2>1. Dst(j) \in Dest /\ pick[j] \in Files
    BY <1>1 DEF TypeOK, Dst, Dest
  <2>2. [of |-> pick[j].of, whole |-> pick[j].whole] \in [of : Job \cup {None}, whole : BOOLEAN]
    BY <2>1 DEF Files
  <2>3. out' \in [Dest -> [of : Job \cup {None}, whole : BOOLEAN] \cup {None}]
    BY <1>1, <2>1, <2>2 DEF TypeOK
  <2>4. QED BY <1>1, <2>3 DEF TypeOK
<1>3. Processes'
  BY <1>1 DEF IInv, TypeOK, Processes
<1>4. Outcome'
  BY <1>1 DEF IInv, TypeOK, Outcome
<1>5. Reported'
  BY <1>1 DEF IInv, TypeOK, Reported, Cur
<1>6. ScratchOwned'
  BY <1>1, ScratchFacts DEF IInv, TypeOK, ScratchOwned
<1>7. WholeOutput'
  BY <1>1 DEF IInv, TypeOK, WholeOutput, Cur, Path
<1>8. Picked'
  BY <1>1 DEF IInv, TypeOK, Picked
<1>9. Delivered'
  <2>1. /\ j \notin ok /\ UNCHANGED <<tag, shared>>
        /\ \A k \in Job \ {j} : pc'[k] = pc[k] /\ (k \in ok' <=> k \in ok)
    BY <1>1 DEF IInv, Outcome, TypeOK
  <2>2. CASE ok' = ok \cup {j} /\ out' = [out EXCEPT ![Dst(j)] = [of |-> pick[j].of, whole |-> pick[j].whole]]
    <3> DEFINE v == [of |-> pick[j].of, whole |-> pick[j].whole]
    <3>1. /\ pick[j].of = j => pick[j].whole = TRUE
          /\ pick[j].of # j => j \in shared /\ pick[j].of \in shared
      <4>1. pick[j] \in Files
        BY <1>1 DEF TypeOK
      <4>2. pick[j].whole \in BOOLEAN
        BY <4>1 DEF Files
      <4>3. QED BY <1>1, <4>2 DEF IInv, Picked
    <3>2. v.of = pick[j].of /\ (pick[j].of = j => v = [of |-> j, whole |-> TRUE])
      BY <3>1
    <3>3. out' = [out EXCEPT ![Dst(j)] = v]
      BY <2>2
    <3> HIDE DEF v
    <3>4. /\ \A k \in Job \ shared : k # j => v = None \/ v.of # k
          /\ j \notin shared => v = [of |-> j, whole |-> TRUE] /\ j \in ok'
      BY <2>2, <3>1, <3>2
    <3> HIDE DEF CopyRemove, CopyUndone
    <3>5. Delivers(j, v)
      BY <1>1, <2>1, <3>3, <3>4 DEF Delivers
    <3>6. QED BY <3>5, DeliveryKeeps
  <2>3. CASE ok' = ok /\ out' = [out EXCEPT ![Dst(j)] = None]
    <3> HIDE DEF CopyRemove, CopyUndone
    <3>1. Delivers(j, None)
      BY <1>1, <2>1, <2>3 DEF Delivers
    <3>2. QED BY <3>1, DeliveryKeeps
  <2>4. QED BY <2>2, <2>3
<1>a. Apart'
  BY <1>1, ApartFrame DEF IInv, TypeOK, Live, Active
<1>10. QED BY <1>a, <1>2, <1>3, <1>4, <1>5, <1>6, <1>7, <1>8, <1>9 DEF IInv

\* A run that returns has removed its scratch files.
LEMMA ReturnKeeps ==
    ASSUME IInv, NEW j \in Job, Return(j)
    PROVE  IInv'
<1> USE DEF Return, Deferred, Forget
<1>1. TypeOK /\ pc[j] # "idle"
  BY DEF IInv, TypeOK, Processes
<1>2. TypeOK'
  BY <1>1 DEF IInv, TypeOK
<1>3. Processes'
  BY <1>1 DEF IInv, TypeOK, Processes
<1>4. Outcome'
  BY <1>1 DEF IInv, TypeOK, Outcome
<1>5. Reported'
  BY <1>1 DEF IInv, TypeOK, Reported, Cur
<1>6. ScratchOwned'
  BY <1>1, ScratchFacts DEF IInv, TypeOK, ScratchOwned
<1>7. WholeOutput'
  BY <1>1 DEF IInv, TypeOK, WholeOutput, Cur, Path
<1>8. Picked'
  BY <1>1 DEF IInv, TypeOK, Picked
<1>9. Delivered'
  BY <1>1, DeliveredFrame DEF IInv, TypeOK
<1>a. Apart'
  BY <1>1, ApartFrame DEF IInv, TypeOK, Live, Active
<1>10. QED BY <1>a, <1>2, <1>3, <1>4, <1>5, <1>6, <1>7, <1>8, <1>9 DEF IInv

\* A cancellation only marks the run.
LEMMA CancelKeeps ==
    ASSUME IInv, NEW j \in Job, Cancel(j)
    PROVE  IInv'
<1> USE DEF Cancel, Active
<1>1. TypeOK /\ pc[j] # "idle"
  BY DEF IInv, TypeOK, Processes
<1>2. TypeOK'
  BY <1>1 DEF IInv, TypeOK
<1>3. Processes'
  BY <1>1 DEF IInv, TypeOK, Processes
<1>4. Outcome'
  BY <1>1 DEF IInv, TypeOK, Outcome
<1>5. Reported'
  BY <1>1 DEF IInv, TypeOK, Reported, Cur
<1>6. ScratchOwned'
  BY <1>1, ScratchFacts DEF IInv, TypeOK, ScratchOwned
<1>7. WholeOutput'
  BY <1>1 DEF IInv, TypeOK, WholeOutput, Cur, Path
<1>8. Picked'
  BY <1>1 DEF IInv, TypeOK, Picked
<1>9. Delivered'
  BY <1>1, DeliveredFrame DEF IInv, TypeOK
<1>a. Apart'
  BY <1>1, ApartFrame DEF IInv, TypeOK, Live, Active
<1>10. QED BY <1>a, <1>2, <1>3, <1>4, <1>5, <1>6, <1>7, <1>8, <1>9 DEF IInv

\* A run that dies keeps what it has on disk.
LEMMA CrashKeeps ==
    ASSUME IInv, Crash
    PROVE  IInv'
<1> USE DEF Crash, Active, Forget
<1>1. TypeOK'
  BY DEF IInv, TypeOK
<1>2. Processes'
  BY DEF IInv, TypeOK, Processes
<1>3. Outcome'
  BY DEF IInv, TypeOK, Outcome
<1>4. Reported'
  BY DEF IInv, TypeOK, Reported, Cur
<1>5. ScratchOwned'
  BY ScratchFacts DEF IInv, TypeOK, ScratchOwned
<1>6. WholeOutput'
  BY DEF IInv, TypeOK, WholeOutput, Cur, Path
<1>7. Picked'
  BY DEF IInv, TypeOK, Picked
<1>8. Delivered'
  BY DeliveredFrame DEF IInv, TypeOK
<1>a. Apart'
  BY ApartFrame DEF IInv, TypeOK, Live, Active
<1>9. QED BY <1>a, <1>1, <1>2, <1>3, <1>4, <1>5, <1>6, <1>7, <1>8 DEF IInv

-----------------------------------------------------------------------------
(* The theorems                                                            *)

\* The runs satisfy the inductive invariant.
THEOREM RunsInvariant == Spec => []IInv
<1>1. Init => IInv
  <2> SUFFICES ASSUME Init PROVE IInv
    OBVIOUS
  <2> USE DEF Init
  <2>1. TypeOK
    BY DEF TypeOK, Dest
  <2>2. Processes /\ Outcome /\ ScratchOwned /\ WholeOutput /\ Picked /\ Apart
    BY DEF Processes, Outcome, ScratchOwned, WholeOutput, Picked, Apart, Live, Active
  <2>3. Reported
    BY DEF Reported
  <2>4. Delivered
    BY DEF Delivered
  <2>5. QED BY <2>1, <2>2, <2>3, <2>4 DEF IInv
<1>2. IInv /\ [Next]_vars => IInv'
  <2> SUFFICES ASSUME IInv, [Next]_vars PROVE IInv'
    OBVIOUS
  <2>1. CASE UNCHANGED vars
    BY <2>1 DEF IInv, TypeOK, Processes, Outcome, Reported, ScratchOwned, WholeOutput, Picked,
                Delivered, Cur, Scratch, Dst, Apart, Live, Active
  <2>2. CASE Crash
    BY <2>2, CrashKeeps
  <2>3. ASSUME NEW j \in Job, Runs(j) PROVE IInv'
    BY <2>3, StartKeeps, KillGroupKeeps, WaitKeeps, WrapKeeps, CollectKeeps, UniqueOutputPathKeeps,
       MoveFileKeeps, CopyRemoveKeeps, ReturnKeeps DEF Runs
  <2>4. ASSUME NEW j \in Job,
               \/ Begin(j) \/ Cancel(j) \/ Write(j) \/ Progress(j)
               \/ LongLine(j) \/ LeaderExits(j) \/ HelperExits(j)
        PROVE  IInv'
    BY <2>4, BeginKeeps, CancelKeeps, WriteKeeps, ProgressKeeps, LongLineKeeps,
       LeaderExitsKeeps, HelperExitsKeeps
  <2>5. QED BY <2>1, <2>2, <2>3, <2>4 DEF Next
<1>3. QED BY <1>1, <1>2, PTL DEF Spec

\* Every run is at a call of its plan, its files and percentages are of their
\* types, and a run that delivers has a file to deliver.
THEOREM TypeCorrect == Spec => []TypeOK
<1>1. IInv => TypeOK
  BY DEF IInv
<1>2. QED BY <1>1, RunsInvariant, PTL

\* When a run cleans up and returns, no process of its last tool lives:
\* runProc has waited for everyone who holds its pipes.
THEOREM NoOrphansHolds == Spec => []NoOrphans
<1>1. IInv => NoOrphans
  BY DEF IInv, TypeOK, Processes, NoOrphans
<1>2. QED BY <1>1, RunsInvariant, PTL

\* A run that succeeds has delivered its own complete output and nobody has
\* replaced it, if no run of its tag was under way with it or had died before it
\* and no other output has its name; whatever the others share among themselves,
\* and however many earlier and later runs have its tag.
THEOREM OwnResultUnlessSharedHolds == Spec => []OwnResultUnlessShared
<1>1. IInv => OwnResultUnlessShared
  BY DEF IInv, Outcome, Delivered, OwnResultUnlessShared
<1>2. QED BY <1>1, RunsInvariant, PTL

\* A run that returns leaves no scratch file behind, also where ids begin alike;
\* and no output if it failed, unless a run of its tag beside it took it.
THEOREM LeavesNothingHolds == Spec => []LeavesNothing
<1>1. IInv => LeavesNothing
  BY DEF IInv, Outcome, ScratchOwned, Delivered, LeavesNothing, Returned
<1>2. QED BY <1>1, RunsInvariant, PTL

\* The percentage does not walk back from block to block of one ffmpeg, nor at
\* the end of a run; from pass to pass only after a clock that overran.
THEOREM WalksBackAfterOverrunHolds == Spec => WalksBackAfterOverrun
<1> DEFINE Overrun(j) == /\ kind[j] = "size" /\ (at[j] = 2 \/ (at[j] = 3 /\ pc[j] = "call"))
                         /\ percent[j] > 50 /\ percent'[j] = 50
           Allowed == \A j \in Job : percent'[j] < percent[j] => Overrun(j)
<1>1. IInv /\ [Next]_vars => [Allowed]_percent
  <2> SUFFICES ASSUME IInv, [Next]_vars, percent' # percent PROVE Allowed
    OBVIOUS
  <2>1. percent \in [Job -> 0..100]
    BY DEF IInv, TypeOK
  <2>2. ASSUME NEW j \in Job, NEW p \in 0..100, percent' = [percent EXCEPT ![j] = p],
               percent[j] <= p \/ (p = 50 /\ kind[j] = "size" /\ (at[j] = 2 \/ (at[j] = 3 /\ pc[j] = "call")))
        PROVE  Allowed
    <3>1. \A k \in Job : percent[k] \in Int /\ percent'[k] = IF k = j THEN p ELSE percent[k]
      BY <2>1, <2>2
    <3>2. QED BY <2>2, <3>1
  <2> HIDE DEF Allowed
  <2>3. ASSUME NEW j \in Job, Start(j) PROVE Allowed
    <3> DEFINE c == Cur(j)
    <3>1. percent' = [percent EXCEPT ![j] = c.base] /\ pc[j] = "call"
      BY <2>3 DEF Start
    <3>2. c.base \in {0, 50} /\ Share(kind[j], at[j], c)
      BY <3>1, CurFacts DEF IInv
    <3>3. percent[j] <= c.base \/ (kind[j] = "size" /\ at[j] = 3)
      BY <3>1 DEF IInv, Reported
    <3> HIDE DEF c
    <3>4. c.base \in 0..100 /\ (kind[j] = "size" /\ at[j] = 3 => c.base = 50)
      BY <3>2 DEF Share
    <3>5. QED BY <2>2, <3>1, <3>3, <3>4
  <2>4. ASSUME NEW j \in Job, Progress(j) PROVE Allowed
    <3> DEFINE x == clock[j]
               y == clock'[j]
               c == Cur(j)
    <3>1. percent' = [percent EXCEPT ![j] = Scale(c, y)] /\ percent[j] <= Scale(c, x) /\ pc[j] # "idle"
      BY <2>4 DEF Progress, IInv, Reported
    <3>2. x \in 0..MaxClock /\ y \in 0..MaxClock /\ x <= y
      BY <2>4 DEF Progress, IInv, TypeOK
    <3>3. Scale(c, x) \in 0..100 /\ Scale(c, y) \in 0..100 /\ Scale(c, x) <= Scale(c, y)
      <4> HIDE DEF x, y
      <4>1. QED BY <3>1, <3>2, BarFacts DEF IInv
    <3> HIDE DEF x, y, c
    <3>4. percent[j] <= Scale(c, y)
      <4>1. percent[j] \in Nat /\ Scale(c, x) \in Nat /\ Scale(c, y) \in Nat
        BY <2>1, <3>3
      <4>2. QED BY <3>1, <3>3, <4>1
    <3>5. QED BY <2>2, <3>1, <3>3, <3>4
  <2>5. ASSUME NEW j \in Job, LeaderExits(j) PROVE Allowed
    <3> DEFINE c == Cur(j)
    <3>1. percent' = [percent EXCEPT ![j] = Scale(c, Length)] /\ pc[j] = "proc" /\ c.bin = "ffmpeg"
      BY <2>5 DEF LeaderExits
    <3>2. Scale(c, Length) \in 0..100 /\ Scale(c, Length) = c.base + c.span /\ percent[j] \in 0..100
      BY <3>1, BarFacts DEF IInv
    <3>3. Share(kind[j], at[j], c)
      BY <3>1, CurFacts DEF IInv
    <3> HIDE DEF c
    <3>4. Scale(c, Length) = 100 \/ (Scale(c, Length) = 50 /\ kind[j] = "size" /\ at[j] = 2)
      BY <3>1, <3>2, <3>3 DEF Share
    <3>5. percent[j] <= 100
      BY <3>2
    <3>6. \/ percent[j] <= Scale(c, Length)
          \/ Scale(c, Length) = 50 /\ kind[j] = "size" /\ (at[j] = 2 \/ (at[j] = 3 /\ pc[j] = "call"))
      BY <3>4, <3>5
    <3>7. QED BY <2>2, <3>1, <3>2, <3>6
  <2>6. ASSUME NEW j \in Job, Return(j) PROVE Allowed
    <3>1. percent' = [percent EXCEPT ![j] = 100] /\ percent[j] <= 100
      BY <2>1, <2>6 DEF Return
    <3>2. 100 \in 0..100
      OBVIOUS
    <3>3. QED BY <2>2, <3>1, <3>2
  <2>7. ASSUME NEW j \in Job,
               \/ Begin(j) \/ KillGroup(j) \/ Wait(j) \/ Wrap(j) \/ Collect(j) \/ UniqueOutputPath(j)
               \/ MoveFile(j) \/ CopyRemove(j) \/ Cancel(j) \/ Write(j) \/ LongLine(j)
               \/ HelperExits(j)
        PROVE  percent' = percent
    BY <2>7 DEF Begin, KillGroup, Wait, Wrap, Collect, UniqueOutputPath, MoveFile, CopyRemove,
                Cancel, Write, LongLine, HelperExits
  <2>8. ~UNCHANGED vars /\ (Crash => percent' = percent)
    BY DEF Crash
  <2>9. QED BY <2>3, <2>4, <2>5, <2>6, <2>7, <2>8 DEF Next, Runs
<1>2. QED BY <1>1, RunsInvariant, PTL DEF Spec, WalksBackAfterOverrun

=============================================================================
