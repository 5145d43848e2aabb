------------------------------- MODULE Runner -------------------------------
(***************************************************************************)
(* The runners (internal/runner): YtDlp.Run, FFmpeg.Run and Image.Run, each *)
(* a plan of external tools started by runProc, writing to scratch files    *)
(* named after the first two characters of the job id (its tag), and a      *)
(* delivery of the last one into the download directory.                    *)
(*                                                                          *)
(* A tool is a process group: the leader, and perhaps a helper it started   *)
(* (yt-dlp runs ffmpeg) that holds the same pipes.  Tools do what they      *)
(* please, and may hang; what they are trusted with is that the leader      *)
(* exits with 0 only when its output is complete or was never begun, and    *)
(* that ffmpeg's clock does not run backwards.  It may run past the length  *)
(* that ffprobe reports, which is an estimate for many formats.             *)
(*                                                                          *)
(* Jobs are run at most once.  Which of them run together is the business   *)
(* of JobQueue; here any may.                                               *)
(***************************************************************************)
EXTENDS Integers, Sequences, FiniteSets

CONSTANTS
  Job, None,
  Tag,              \* two hexadecimal digits
  TagOf, SlugOf,    \* shortID of a job, and the name and type of its output
  Earlier,          \* paths that outputs of earlier jobs have
  KindsOf,          \* the kinds of plan a job may have
  MaxSize,          \* bound on file sizes
  Length,           \* the probed length of a source, in units of ffmpeg's clock
  MaxClock,         \* bound on ffmpeg's clock
  MaxNameAttempts,
  MaxRuns,          \* bound on the runs begun
  MaxCrashes        \* bound on ends of the process

ASSUME ConstantsAssumption ==
  /\ None \notin Job /\ TagOf \in [Job -> Tag] /\ DOMAIN SlugOf = Job
  /\ KindsOf \in [Job -> SUBSET {"download", "convert", "size", "edit", "image", "embed", "trace"}]
  /\ MaxSize \in Nat \ {0} /\ Length \in Nat \ {0} /\ MaxClock \in Nat /\ MaxClock >= Length
  /\ MaxNameAttempts \in Nat /\ MaxCrashes \in Nat

-----------------------------------------------------------------------------
(* What a Run does: its tools, the scratch file each writes, the share of   *)
(* the progress bar, and whether a failure of the tool ends the Run.        *)

Call(bin, writes) == [bin |-> bin, writes |-> writes, fatal |-> TRUE, base |-> 0, span |-> 100]
Probe(fatal) == [Call("ffprobe", "nothing") EXCEPT !.fatal = fatal]
Pass(writes, base) == [Call("ffmpeg", writes) EXCEPT !.base = base, !.span = 50]

\* A size target needs two passes and the length of its source; an edit without
\* an end asks for the length too (one with an end is like one whose probe
\* succeeds).  An SVG is rendered first: "trace" is an image job from SVG to
\* svg_trace.  "embed" is one from a picture to svg, whose last step is no tool
\* but wrapPNGInSVG, "image" one between two picture formats.
Plans ==
  [download |-> <<Call("yt-dlp", "dl")>>,
   convert  |-> <<Probe(FALSE), Call("ffmpeg", "enc")>>,
   size     |-> <<Probe(TRUE), Pass("pass", 0), Pass("enc", 50)>>,
   edit     |-> <<Probe(FALSE), Call("ffmpeg", "edit")>>,
   image    |-> <<Call("magick", "img")>>,
   embed    |-> <<Call("magick", "render"), Call("wrapPNGInSVG", "img")>>,
   trace    |-> <<Call("rsvg-convert", "src"), Call("magick", "render"), Call("potrace", "img")>>]

Kind == DOMAIN Plans
Dest == {SlugOf[j] : j \in Job} \X Tag

VARIABLES
  kind, pc,
  at,         \* index of the current call in the plan
  proc,       \* processes of the group that live: "leader", "helper"
  exit,       \* how the leader ended: "none", "ok", "bad"
  deaf,       \* runs whose scanner gave up on a line of more than maxLineBytes
  cancelled,  \* runs whose context is done
  known,      \* runs that know the length of their source
  clock, percent,   \* ffmpeg's out_time, and the percentage reported last
  tmp,        \* files in TmpDir that are not empty
  pick,       \* the file a run is about to deliver
  tag, tries, \* uniqueOutputPath's tag and attempt
  ok,         \* runs that return no error
  out,        \* out[d]: the file at a path in DownloadDir
  crashes,
  shared      \* history: runs that had a run of their own tag beside them, or the
              \* remains of one that died with the process

run == <<kind, pc, at>>
tool == <<proc, exit, deaf>>
bar == <<known, clock, percent>>
name == <<pick, tag, tries>>
vars == <<run, tool, cancelled, bar, tmp, name, ok, out, crashes, shared>>

Active(j) == pc[j] \in {"call", "proc", "collect", "name", "move", "copy", "clean"}
Returned(j) == pc[j] \in {"done", "failed"}
Cur(j) == Plans[kind[j]][at[j]]

\* Slip: scratch names without the job's tag.
PathUntagged(j, writes) == [where |-> writes, tag |-> CHOOSE t \in Tag : TRUE]

\* The scratch path a job uses.  For a download it is a directory.
Path(j, writes) == [where |-> writes, tag |-> TagOf[j]]
Scratch(j) == {Path(j, Plans[kind[j]][i].writes) : i \in DOMAIN Plans[kind[j]]}
At(p) == {f \in tmp : f.path = p}

\* j's tool writes: ffmpeg (-y), magick, potrace and wrapPNGInSVG replace
\* what is at the path, yt-dlp adds a file of its own to the directory.
Written(j, whole, size) ==
  LET p == Path(j, Cur(j).writes)
      old == IF Cur(j).writes = "dl" THEN {f \in At(p) : f.of = j} ELSE At(p)
  IN (tmp \ old) \cup {[path |-> p, of |-> j, whole |-> whole, size |-> size]}

Init ==
  /\ kind = [j \in Job |-> None] /\ pc = [j \in Job |-> "idle"] /\ at = [j \in Job |-> 1]
  /\ proc = [j \in Job |-> {}] /\ exit = [j \in Job |-> "none"]
  /\ deaf = {} /\ cancelled = {} /\ known = {}
  /\ clock = [j \in Job |-> 0] /\ percent = [j \in Job |-> 0]
  /\ tmp = {} /\ pick = [j \in Job |-> None]
  /\ tag = TagOf /\ tries = [j \in Job |-> 0] /\ ok = {}
  /\ out = [d \in Dest |-> IF d \in Earlier THEN [of |-> None, whole |-> TRUE] ELSE None]
  /\ crashes = 0 /\ shared = {}

\* Others of j's tag that are under way, or died and left their files and tools.
Sharers(j) == {k \in Job \ {j} : TagOf[k] = TagOf[j] /\ (Active(k) \/ pc[k] = "lost")}

\* Run is called.  Parameters, input and directory are checked before there is
\* anything to clean up; the Run may end there.
Begin(j) ==
  /\ pc[j] = "idle" /\ Cardinality({k \in Job : pc[k] # "idle"}) < MaxRuns
  /\ kind' \in {[kind EXCEPT ![j] = k] : k \in KindsOf[j]}
  /\ pc' \in {[pc EXCEPT ![j] = p] : p \in {"call", "failed"}}
  /\ shared' = shared \cup UNION {{j, k} : k \in Sharers(j)}
  /\ UNCHANGED <<at, tool, cancelled, bar, tmp, name, ok, out, crashes>>

Fail(j) == pc' = [pc EXCEPT ![j] = "clean"]

\* A call has succeeded: the next one, or the delivery.
Advance(j) ==
  IF at[j] < Len(Plans[kind[j]])
  THEN at' = [at EXCEPT ![j] = @ + 1] /\ pc' = [pc EXCEPT ![j] = "call"]
  ELSE pc' = [pc EXCEPT ![j] = "collect"] /\ UNCHANGED at

-----------------------------------------------------------------------------
(* runProc                                                                  *)

ClampPercent(p) == IF p < 0 THEN 0 ELSE IF p > 100 THEN 100 ELSE p

\* Slip: the second pass forgets where its share of the bar begins.
ScaleWithoutBase(c, frac) == ClampPercent((c.span * frac) \div Length)

\* ffProgress.scale at a position of the clock: kept within the bar, not within
\* the call's share of it.
Scale(c, frac) == ClampPercent(c.base + (c.span * frac) \div Length)

\* The processes a tool consists of.
Group(bin) == {{"leader"}} \cup (IF bin = "yt-dlp" THEN {{"leader", "helper"}} ELSE {})

\* cmd.Start, which fails at once if the context is done.  A pass reports its
\* base before.
Start(j) ==
  /\ pc[j] = "call" /\ Cur(j).bin # "wrapPNGInSVG"
  /\ percent' = IF Cur(j).span = 50 THEN [percent EXCEPT ![j] = Cur(j).base] ELSE percent
  /\ \/ /\ j \notin cancelled /\ pc' = [pc EXCEPT ![j] = "proc"]
        /\ \E g \in Group(Cur(j).bin) : proc' = [proc EXCEPT ![j] = g]
        /\ UNCHANGED at
     \/ IF Cur(j).fatal THEN Fail(j) /\ UNCHANGED <<at, proc>> ELSE Advance(j) /\ UNCHANGED proc
  /\ UNCHANGED <<kind, exit, deaf, cancelled, known, clock, tmp, name, ok, out, crashes, shared>>

\* The tool writes part of its output.
Write(j) ==
  /\ "leader" \in proc[j] /\ Cur(j).writes # "nothing"
  /\ \E s \in 1..MaxSize : tmp' = Written(j, FALSE, s)
  /\ tmp' # tmp
  /\ UNCHANGED <<run, tool, cancelled, bar, name, ok, out, crashes, shared>>

\* A block of ffmpeg's -progress is read: a percentage if the length is known.
Progress(j) ==
  /\ pc[j] = "proc" /\ "leader" \in proc[j] /\ Cur(j).bin = "ffmpeg" /\ j \notin deaf
  /\ \E t \in clock[j]..MaxClock : clock' = [clock EXCEPT ![j] = t]
  /\ percent' = IF j \in known THEN [percent EXCEPT ![j] = Scale(Cur(j), clock'[j])] ELSE percent
  /\ UNCHANGED <<run, tool, cancelled, known, tmp, name, ok, out, crashes, shared>>

\* A line longer than the scanner's buffer: scanLines returns, nobody reads the
\* pipe any more, and what the tool still has to say may not fit in it.  The
\* other pipe of yt-dlp or ffmpeg is still read to its end: that both carry such
\* a line is left out.
LongLine(j) ==
  /\ pc[j] = "proc" /\ "leader" \in proc[j] /\ deaf' = deaf \cup {j} /\ deaf' # deaf
  /\ UNCHANGED <<run, proc, exit, cancelled, bar, tmp, name, ok, out, crashes, shared>>

\* The leader ends by itself, successfully or not; "progress=end" is the last
\* line of a successful ffmpeg.
LeaderExits(j) ==
  /\ "leader" \in proc[j] /\ proc' = [proc EXCEPT ![j] = @ \ {"leader"}]
  /\ \/ exit' = [exit EXCEPT ![j] = "bad"] /\ UNCHANGED <<tmp, percent>>
     \/ /\ exit' = [exit EXCEPT ![j] = "ok"]
        /\ \/ Cur(j).writes # "nothing" /\ \E s \in 1..MaxSize : tmp' = Written(j, TRUE, s)
           \/ tmp' = tmp /\ ~\E f \in tmp : f.of = j /\ f.path = Path(j, Cur(j).writes)
        /\ percent' = IF Cur(j).bin = "ffmpeg" /\ pc[j] = "proc" /\ j \notin deaf
                      THEN [percent EXCEPT ![j] = Scale(Cur(j), Length)] ELSE percent
  /\ UNCHANGED <<run, deaf, cancelled, known, clock, name, ok, out, crashes, shared>>

HelperExits(j) ==
  /\ "helper" \in proc[j] /\ proc' = [proc EXCEPT ![j] = @ \ {"helper"}]
  /\ UNCHANGED <<run, exit, deaf, cancelled, bar, tmp, name, ok, out, crashes, shared>>

\* Slip: the process is killed, not its group.
KillProcess(j) == proc[j] \ {"leader"}

\* Who survives killGroup.
Survivors(j) == {}

\* The context is done while the tool runs: cmd.Cancel.  The leader of a group
\* whose helper still holds a pipe is a zombie, and the group can be signalled.
KillGroup(j) ==
  /\ pc[j] = "proc" /\ j \in cancelled /\ proc[j] # {}
  /\ proc' = [proc EXCEPT ![j] = Survivors(j)] /\ exit' = [exit EXCEPT ![j] = "bad"]
  /\ UNCHANGED <<run, deaf, cancelled, bar, tmp, name, ok, out, crashes, shared>>

\* Slip: Wait without waiting for the pipes.
LeaderGone(j) == "leader" \notin proc[j]

\* The pipes report end of file once nobody holds them ...
PipesClosed(j) == proc[j] = {}

\* Image.Run looks for what rsvg-convert and magick were to produce before it
\* goes on; the last call's file is looked for by Collect.
Produced(j) == Cur(j).writes \in {"src", "render"} => At(Path(j, Cur(j).writes)) # {}

\* ... and only then is the exit status collected.  A context that became done
\* meanwhile may turn success into an error.  ffprobe succeeds with a length or
\* fails; its failure is an error of a size target alone, whose budget may also
\* turn out to be too small.
Wait(j) ==
  /\ pc[j] = "proc" /\ PipesClosed(j) /\ exit[j] # "none"
  /\ \/ /\ exit[j] = "ok" /\ Produced(j) /\ Advance(j)
        /\ known' = IF Cur(j).bin = "ffprobe" THEN known \cup {j} ELSE known
     \/ /\ exit[j] = "bad" \/ j \in cancelled \/ Cur(j).bin = "ffprobe" \/ ~Produced(j)
        /\ IF Cur(j).fatal THEN Fail(j) /\ UNCHANGED at ELSE Advance(j)
        /\ UNCHANGED known
  /\ exit' = [exit EXCEPT ![j] = "none"] /\ deaf' = deaf \ {j} /\ clock' = [clock EXCEPT ![j] = 0]
  /\ UNCHANGED <<kind, proc, cancelled, percent, tmp, name, ok, out, crashes, shared>>

\* wrapPNGInSVG: in process, to the end or to an error.
Wrap(j) ==
  /\ pc[j] = "call" /\ Cur(j).bin = "wrapPNGInSVG"
  /\ \/ \E s \in 1..MaxSize : tmp' = Written(j, TRUE, s) /\ Advance(j)
     \/ \E s \in 1..MaxSize : tmp' = Written(j, FALSE, s) /\ Fail(j) /\ UNCHANGED at
     \/ Fail(j) /\ UNCHANGED <<tmp, at>>
  /\ UNCHANGED <<kind, tool, cancelled, bar, name, ok, out, crashes, shared>>

-----------------------------------------------------------------------------
(* Delivery                                                                 *)

\* Slip: nobody looks whether the tool has produced anything.
CandidatesOrNone(j) == LET fs == At(Path(j, Cur(j).writes)) IN IF fs = {} THEN {None} ELSE fs

\* The file at the path of the last call; in the directory of a download the
\* largest.
Candidates(j) ==
  LET fs == At(Path(j, Cur(j).writes))
  IN IF kind[j] = "download" THEN {f \in fs : \A g \in fs : g.size <= f.size}
                             ELSE fs

\* Slip: the logs of the passes are left to the last defer, which knows only tmpOut.
ScratchButLogs(j) == {p \in Scratch(j) : p.where # "pass"}

\* What the deferred calls remove: RemoveAll(jobDir), Remove of every scratch
\* file, removePassLogs.
Deferred(j) == Scratch(j)

\* collectDownload, or the Stat of tmpOut, which is not done for an SVG.
\* runTwoPass has removed its logs.
Collect(j) ==
  /\ pc[j] = "collect"
  /\ tmp' = {f \in tmp : f.path # Path(j, "pass") \/ f.path \notin Deferred(j)}
  /\ \/ /\ kind[j] = "download" /\ \E f \in Candidates(j) : pick' = [pick EXCEPT ![j] = f]
        /\ pc' = [pc EXCEPT ![j] = "name"]
     \/ /\ kind[j] # "download" /\ (Candidates(j) # {} \/ kind[j] \in {"embed", "trace"})
        /\ pc' = [pc EXCEPT ![j] = "name"] /\ UNCHANGED pick
     \/ /\ Candidates(j) = {} /\ kind[j] \notin {"embed", "trace"}
        /\ Fail(j) /\ UNCHANGED pick
  /\ UNCHANGED <<kind, at, tool, cancelled, bar, tag, tries, ok, out, crashes, shared>>

\* One round of uniqueOutputPath.
UniqueOutputPath(j) ==
  /\ pc[j] = "name"
  /\ \/ /\ out[<<SlugOf[j], tag[j]>>] = None \/ tries[j] >= MaxNameAttempts
        /\ pc' = [pc EXCEPT ![j] = "move"] /\ UNCHANGED <<tag, tries>>
     \/ /\ out[<<SlugOf[j], tag[j]>>] # None /\ tries[j] < MaxNameAttempts
        /\ \E t \in Tag : tag' = [tag EXCEPT ![j] = t]
        /\ tries' = [tries EXCEPT ![j] = @ + 1] /\ UNCHANGED pc
  /\ UNCHANGED <<kind, at, tool, cancelled, bar, tmp, pick, ok, out, crashes, shared>>

Dst(j) == <<SlugOf[j], tag[j]>>

\* What is there under the name that j wants to move: in the directory of a
\* download the file collected, else whatever is at the path by now.
Source(j) ==
  {f \in At(Path(j, Cur(j).writes)) : kind[j] = "download" => f.of = pick[j].of}

\* moveFile: a rename; or the first half of a copy, into a truncated file; or an
\* error.
MoveFile(j) ==
  /\ pc[j] = "move"
  /\ \/ /\ \E f \in Source(j) : out' = [out EXCEPT ![Dst(j)] = [of |-> f.of, whole |-> f.whole]]
        /\ tmp' = tmp \ Source(j) /\ ok' = ok \cup {j} /\ pc' = [pc EXCEPT ![j] = "clean"]
        /\ UNCHANGED pick
     \/ /\ \E f \in Source(j) : pick' = [pick EXCEPT ![j] = f]
        /\ out' = [out EXCEPT ![Dst(j)] = [of |-> j, whole |-> FALSE]]
        /\ pc' = [pc EXCEPT ![j] = "copy"] /\ UNCHANGED <<tmp, ok>>
     \/ Fail(j) /\ UNCHANGED <<tmp, out, ok, pick>>
  /\ UNCHANGED <<kind, at, tool, cancelled, bar, tag, tries, crashes, shared>>

\* A failed copy is removed.
CopyUndone(j) == out' = [out EXCEPT ![Dst(j)] = None]

\* copyRemove: the copy is complete and the source removed, if it can be; or it
\* is undone.
CopyRemove(j) ==
  /\ pc[j] = "copy" /\ pc' = [pc EXCEPT ![j] = "clean"]
  /\ \/ /\ out' = [out EXCEPT ![Dst(j)] = [of |-> pick[j].of, whole |-> pick[j].whole]]
        /\ ok' = ok \cup {j} /\ tmp' \in {tmp, tmp \ Source(j)}
     \/ CopyUndone(j) /\ UNCHANGED <<tmp, ok>>
  /\ UNCHANGED <<kind, at, tool, cancelled, bar, name, crashes, shared>>

Forget(js) ==
  /\ cancelled' = cancelled \ js /\ known' = known \ js
  /\ pick' = [j \in Job |-> IF j \in js THEN None ELSE pick[j]]
  /\ tries' = [j \in Job |-> IF j \in js THEN 0 ELSE tries[j]]

\* The last percentage, the deferred removals, and the result for Queue.execute.
\* With the run go its locals, but for the path it returns.
Return(j) ==
  /\ pc[j] = "clean" /\ pc' = [pc EXCEPT ![j] = IF j \in ok THEN "done" ELSE "failed"]
  /\ percent' = IF j \in ok THEN [percent EXCEPT ![j] = 100] ELSE percent
  /\ tmp' = {f \in tmp : f.path \notin Deferred(j)} /\ Forget({j})
  /\ UNCHANGED <<kind, at, tool, clock, tag, ok, out, crashes, shared>>

-----------------------------------------------------------------------------

\* Queue.Cancel, the time limit, or the end of the workers' context.
Cancel(j) ==
  /\ Active(j) /\ j \notin cancelled /\ cancelled' = cancelled \cup {j}
  /\ UNCHANGED <<run, tool, bar, tmp, name, ok, out, crashes, shared>>

\* The process dies and a next one starts: nothing is cleaned up, then or at
\* boot.  s6 takes the container down with it, or only restarts the service,
\* and then the tools live on.
Crash ==
  /\ crashes < MaxCrashes /\ crashes' = crashes + 1
  /\ pc' = [j \in Job |-> IF Active(j) THEN "lost" ELSE pc[j]]
  /\ proc' \in {proc, [j \in Job |-> {}]} /\ Forget({j \in Job : Active(j)})
  /\ UNCHANGED <<kind, at, exit, deaf, clock, percent, tmp, tag, ok, out, shared>>

\* What the Go code does about a run, as opposed to what tools and users do.
Runs(j) ==
  Start(j) \/ KillGroup(j) \/ Wait(j) \/ Wrap(j) \/ Collect(j)
  \/ UniqueOutputPath(j) \/ MoveFile(j) \/ CopyRemove(j) \/ Return(j)

Next ==
  \/ \E j \in Job :
       \/ Begin(j) \/ Runs(j) \/ Cancel(j)
       \/ Write(j) \/ Progress(j) \/ LongLine(j) \/ LeaderExits(j) \/ HelperExits(j)
  \/ Crash

Spec == Init /\ [][Next]_vars

\* The goroutines of a run are scheduled.  Tools owe nothing.
FairSpec == Spec /\ \A j \in Job : WF_vars(Runs(j))

-----------------------------------------------------------------------------
(* Properties                                                               *)

\* No other job's output has the name and type of j's.
OwnName(j) == \A k \in Job \ {j} : SlugOf[k] # SlugOf[j]

Files == [path : [where : {"dl", "enc", "pass", "edit", "src", "render", "img"}, tag : Tag],
          of : Job, whole : BOOLEAN, size : 1..MaxSize]

ASSUME NoneAssumption == None \notin Kind /\ None \notin Files

\* Types; a run that delivers has a file to deliver.
TypeOK ==
  /\ kind \in [Job -> Kind \cup {None}] /\ \A j \in Job : (kind[j] = None) = (pc[j] = "idle")
  /\ pc \in [Job -> {"idle", "call", "proc", "collect", "name", "move", "copy", "clean",
                     "done", "failed", "lost"}]
  /\ at \in [Job -> Nat]
  /\ \A j \in Job : at[j] \in IF kind[j] = None THEN {1} ELSE DOMAIN Plans[kind[j]]
  /\ proc \in [Job -> SUBSET {"leader", "helper"}] /\ exit \in [Job -> {"none", "ok", "bad"}]
  /\ deaf \subseteq Job /\ cancelled \subseteq Job /\ known \subseteq Job /\ ok \subseteq Job
  /\ clock \in [Job -> 0..MaxClock] /\ percent \in [Job -> 0..100]
  /\ tmp \subseteq Files /\ pick \in [Job -> Files \cup {None}]
  /\ \A j \in Job : pc[j] = "copy" \/ (pc[j] \in {"name", "move"} /\ kind[j] = "download") => pick[j] # None
  /\ tag \in [Job -> Tag] /\ tries \in [Job -> 0..MaxNameAttempts]
  /\ out \in [Dest -> [of : Job \cup {None}, whole : BOOLEAN] \cup {None}] /\ crashes \in 0..MaxCrashes
  /\ shared \subseteq Job

\* What the download directory is for: a run that succeeds has delivered what its
\* own tools made.  It does not hold of runs whose ids begin alike.
OwnResult == \A j \in Job : pc[j] = "done" => out[Dst(j)] = [of |-> j, whole |-> TRUE]

\* A run that succeeds has delivered what its own tools made, all of it, and
\* nobody has replaced it: not a run beside it, not one that failed, was
\* cancelled or died with the process, not an earlier or later one of the same
\* tag.  It takes that no run of the same tag was under way with it or had died
\* before it, and that no other output has its name and type.
OwnResultUnlessShared ==
  \A j \in Job \ shared :
    pc[j] = "done" /\ OwnName(j) => out[Dst(j)] = [of |-> j, whole |-> TRUE]

\* A run that returns leaves nothing in TmpDir, and nothing in DownloadDir unless
\* it succeeded, wherever it was stopped; but for what a run of its tag beside it
\* has taken from it and delivered.
LeavesNothing ==
  \A j \in Job : Returned(j) =>
    /\ ~\E f \in tmp : f.of = j
    /\ pc[j] = "failed" /\ j \notin shared => ~\E d \in Dest : out[d] # None /\ out[d].of = j

\* When a run cleans up and returns, no process of its last tool is left to write
\* to what it removes.
NoOrphans == \A j \in Job : pc[j] \in {"collect", "clean", "done", "failed"} => proc[j] = {}

\* The percentage walks back in one case only: the clock of a first pass has run
\* past the probed length, its percentage past the first half of the bar, and the
\* end of the pass or the beginning of the second takes it back to the middle.
\* (ffmpeg.go:163 says that it never does.)
WalksBackAfterOverrun ==
  [][\A j \in Job : percent'[j] < percent[j] =>
       /\ kind[j] = "size" /\ (at[j] = 2 \/ (at[j] = 3 /\ pc[j] = "call"))
       /\ percent[j] > 50 /\ percent'[j] = 50]_percent

\* A cancelled run returns, whatever its tools do: hang, leave a helper with the
\* pipes, write to a pipe nobody reads.
CancelReturns == \A j \in Job : (j \in cancelled /\ Active(j)) ~> ~Active(j)

-----------------------------------------------------------------------------
(* The inductive invariant behind these properties, in parts                *)

\* Runs of one tag that are, or have died, side by side know of each other.
Live(j) == Active(j) \/ pc[j] = "lost"
Apart ==
  \A j \in Job : \A k \in Job \ {j} :
    TagOf[k] = TagOf[j] /\ Live(j) /\ Live(k) => j \in shared

\* Only a run in runProc, or one that died there, has processes and an exit
\* status, and a status only after its leader.
Processes ==
  \A j \in Job : /\ proc[j] # {} => pc[j] \in {"proc", "lost"}
                 /\ exit[j] # "none" => pc[j] \in {"proc", "lost"} /\ "leader" \notin proc[j]

\* What a run returns is decided before it cleans up.
Outcome ==
  \A j \in Job : /\ j \in ok => pc[j] \in {"clean", "done", "lost"}
                 /\ pc[j] = "done" => j \in ok

\* The percentage is what the calls so far may have reported.  Nothing bounds
\* what a first pass leaves behind.
Reported ==
  \A j \in Job :
    /\ pc[j] = "idle" => percent[j] <= 0
    /\ pc[j] = "call" /\ ~(kind[j] = "size" /\ at[j] = 3) => percent[j] <= Cur(j).base
    /\ pc[j] = "proc" /\ Cur(j).bin # "ffmpeg" => percent[j] <= Cur(j).base
    /\ pc[j] = "proc" /\ "leader" \in proc[j] => percent[j] <= Scale(Cur(j), clock[j])

\* A scratch file is where its run will look for it, and its run will.
ScratchOwned ==
  \A f \in tmp : /\ pc[f.of] \notin {"idle", "done", "failed"}
                 /\ f.path \in Scratch(f.of)

\* After a tool has succeeded nothing incomplete is left at its path.
WholeOutput ==
  \A j \in Job : pc[j] \in {"collect", "name", "move"} \/ (pc[j] = "proc" /\ exit[j] = "ok") =>
    \A f \in tmp : f.of = j /\ f.path = Path(j, Cur(j).writes) => f.whole

\* What a run copies is its own and complete, or of a run it shares its tag with.
Picked ==
  \A j \in Job : pc[j] = "copy" =>
    IF pick[j].of = j THEN pick[j].whole ELSE {j, pick[j].of} \subseteq shared

\* A run without sharers has a file in DownloadDir only if it has delivered or is
\* about to; and finds its delivery as it left it if the name is its own.
Delivered ==
  \A j \in Job \ shared :
    /\ j \in ok /\ OwnName(j) => out[Dst(j)] = [of |-> j, whole |-> TRUE]
    /\ \A d \in Dest : out[d] # None /\ out[d].of = j =>
         d = Dst(j) /\ (j \in ok \/ pc[j] \in {"copy", "lost"})

IInv == /\ TypeOK /\ Apart /\ Processes /\ Outcome /\ Reported
        /\ ScratchOwned /\ WholeOutput /\ Picked /\ Delivered

=============================================================================
