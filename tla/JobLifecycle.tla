---------------------------- MODULE JobLifecycle ----------------------------
(***************************************************************************)
(* What the job table promises its users, whatever the workers, handlers,  *)
(* crashes and restarts behind it do: a job is created queued, becomes     *)
(* running at most once, settles once, and its external tool is started at *)
(* most once and never while the row still says queued.                    *)
(***************************************************************************)
EXTENDS Naturals

CONSTANT Job
VARIABLES status, starts

Settled == {"done", "failed", "canceled"}

Init ==
    /\ status = [j \in Job |-> "none"]
    /\ starts = [j \in Job |-> 0]

Become(j, from, to) ==
    /\ status[j] \in from
    /\ status' = [status EXCEPT ![j] = to]
    /\ UNCHANGED starts

Create(j) == Become(j, {"none"}, "queued")

Begin(j) == Become(j, {"queued"}, "running")

\* A job that never ran may be turned away or canceled, but is never done.
Settle(j) == \/ Become(j, {"queued", "running"}, "failed")
             \/ Become(j, {"queued", "running"}, "canceled")
             \/ starts[j] = 1 /\ Become(j, {"running"}, "done")

Delete(j) == Become(j, {"queued", "running"} \union Settled, "gone")

\* The tool is started while the row says running, or after its deletion.
StartTool(j) ==
    /\ status[j] \in {"running", "gone"}
    /\ starts[j] = 0
    /\ starts' = [starts EXCEPT ![j] = 1]
    /\ UNCHANGED status

\* A restart settles every interrupted job at once.
Interrupt ==
    /\ status' = [j \in Job |-> IF status[j] = "running" THEN "failed" ELSE status[j]]
    /\ UNCHANGED starts

Next == \/ \E j \in Job : Create(j) \/ Begin(j) \/ Settle(j) \/ Delete(j) \/ StartTool(j)
        \/ Interrupt

Spec == Init /\ [][Next]_<<status, starts>>
=============================================================================
