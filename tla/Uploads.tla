------------------------------ MODULE Uploads -------------------------------
(***************************************************************************)
(* The files behind the jobs: uploads (api/uploads.go), their reuse        *)
(* (api/handlers_files.go), the rows that name them (input_path,           *)
(* output_path), and everything that unlinks them: DELETE of a job         *)
(* (api/handlers_jobs.go), the expiry of jobs and the collection of        *)
(* orphaned uploads (internal/retention).                                  *)
(*                                                                         *)
(* Files and rows are changed by different steps, and the process may stop *)
(* between them.  A file name is random and never drawn twice.  Age is     *)
(* that of the inode, which a reused file shares with its source; it is    *)
(* counted in ticks up to Grace, beyond which nothing distinguishes ages.  *)
(***************************************************************************)
EXTENDS Integers, FiniteSets

CONSTANTS
  File,       \* names storedName may draw
  Job, None,
  Expiring,   \* jobs with a retention
  Grace       \* DefaultUploadGrace in ticks

ASSUME ConstantsAssumption ==
  /\ None \notin File \cup Job /\ Expiring \subseteq Job
  /\ Grace \in Nat \ {0}

VARIABLES
  file,       \* file[f]: "free", "partial" (being written), "here", "cut" (left
              \* by a request that was never answered) or "gone"
  node,       \* the name under which f's inode was created
  age,        \* ticks since the mtime of an inode
  reuse,      \* links whose mtime handleReuseFile has not set yet
  row,        \* row[j]: "none", "resolved" (a create between resolveUpload and
              \* Store.Create), "here" or "gone"
  input,      \* input_path
  del,        \* DELETE requests: "none", "read", "unlinked"
  swp,        \* the sweeper's step
  todo, cur,  \* expired jobs still to be removed, and the one in work
  doomed,     \* files it is going to unlink, as far as it has looked
  aim,        \* the orphan whose mtime it has found old and which it unlinks next
  \* History, read by properties only:
  taken,      \* who unlinked the input of a job that was there, on nobody's or on
              \* another job's behalf
  prompt,     \* jobs created while their input was there and younger than Grace
  late        \* jobs created at a moment at which the sweeper would not notice: see
              \* Unseen

files == <<file, node, age>>
rows == <<row, input>>
sweep == <<swp, todo, cur, doomed, aim>>
history == <<taken, prompt, late>>
vars == <<files, reuse, rows, del, sweep, history>>

Exists(f) == file[f] \in {"partial", "here", "cut"}
Row == {j \in Job : row[j] = "here"}
InputPaths == {input[j] : j \in Row}

Init ==
  /\ file = [f \in File |-> "free"] /\ node = [f \in File |-> f]
  /\ age = [f \in File |-> 0] /\ reuse = {}
  /\ row = [j \in Job |-> "none"] /\ del = [j \in Job |-> "none"]
  /\ input = [j \in Job |-> None]
  /\ swp = "idle" /\ todo = {} /\ cur = None /\ doomed = {} /\ aim = None
  /\ taken = [j \in Job |-> "no"] /\ prompt = {} /\ late = {}

\* os.Remove of files by someone, on behalf of a job or of None; that a file is
\* gone is no error.
Unlink(fs, who, j) ==
  /\ file' = [f \in File |-> IF f \in fs /\ Exists(f) THEN "gone" ELSE file[f]]
  /\ taken' = [k \in Job |-> IF k \in Row \ {j} /\ input[k] \in fs /\ Exists(input[k])
                             THEN who ELSE taken[k]]

\* Of names that are not there the inode has no age.
Tick ==
  /\ age' = [f \in File |-> IF age[f] < Grace /\ \E g \in File : Exists(g) /\ node[g] = f
                            THEN age[f] + 1 ELSE age[f]]
  /\ age' # age
  /\ UNCHANGED <<file, node, reuse, rows, del, sweep, history>>

-----------------------------------------------------------------------------
(* Uploading and reuse                                                     *)

\* storeUpload opens a new file (O_EXCL) ...
OpenUpload(f) ==
  /\ file[f] = "free" /\ file' = [file EXCEPT ![f] = "partial"]
  /\ age' = [age EXCEPT ![f] = 0]
  /\ UNCHANGED <<node, reuse, rows, del, sweep, history>>

\* ... and writes it to the end, which sets its mtime once more, or removes
\* what it has written.
CloseUpload(f) ==
  /\ file[f] = "partial" /\ age' = [age EXCEPT ![node[f]] = 0]
  /\ \/ file' = [file EXCEPT ![f] = "here"] /\ doomed' = doomed \ {f} /\ UNCHANGED taken
     \/ Unlink({f}, "upload", None) /\ UNCHANGED doomed
  /\ UNCHANGED <<node, reuse, rows, del, swp, todo, cur, aim, prompt, late>>

\* linkUpload: a second name for the input or the output of a job, with the
\* mtime of the first until Chtimes.  (A copy, its fallback, is OpenUpload.)
\* Outputs are in another directory, so of an output only its age matters.
LinkUpload(f) ==
  /\ file[f] = "free"
  /\ \E j \in Row :
       \/ file[input[j]] = "here" /\ node' = [node EXCEPT ![f] = node[input[j]]] /\ UNCHANGED age
       \/ \E a \in 0..Grace : age' = [age EXCEPT ![f] = a] /\ UNCHANGED node
  /\ file' = [file EXCEPT ![f] = "here"] /\ reuse' = reuse \cup {f}
  /\ UNCHANGED <<rows, del, sweep, history>>

\* Chtimes, on the inode and so on all its names; no effect if f is gone.  A
\* file the sweeper has not come to yet is found young by its e.Info(); for the
\* one it has just looked at (aim) it comes too late.
Chtimes(f) ==
  /\ f \in reuse /\ reuse' = reuse \ {f}
  /\ IF file[f] = "here"
     THEN /\ age' = [age EXCEPT ![node[f]] = 0]
          /\ doomed' = IF swp = "collect" THEN {g \in doomed : node[g] # node[f]} ELSE doomed
     ELSE UNCHANGED <<age, doomed>>
  /\ UNCHANGED <<file, node, rows, del, swp, todo, cur, aim, history>>

-----------------------------------------------------------------------------
(* Jobs                                                                    *)

\* Slip: an upload id that names no file is taken.
ResolveUnknown(j) ==
  /\ row[j] = "none" /\ row' = [row EXCEPT ![j] = "resolved"]
  /\ UNCHANGED <<files, reuse, input, del, sweep, history>>

\* handleCreateJob resolves the upload id: the file must be there.
ResolveUpload(j) ==
  /\ row[j] = "none" /\ row' = [row EXCEPT ![j] = "resolved"]
  /\ \E f \in File \ reuse :
       file[f] = "here" /\ input' = [input EXCEPT ![j] = f]
  /\ UNCHANGED <<files, reuse, del, sweep, history>>

\* The sweeper has decided about f and does not look again: between removeInput's
\* query and its unlink, between InputPaths and the cutoff, between an entry's
\* e.Info() and its os.Remove.
Unseen(f) == (swp \in {"unlink", "named"} /\ f \in doomed) \/ f = aim

\* Submit's Store.Create.
CreateJob(j) ==
  /\ row[j] = "resolved" /\ row' = [row EXCEPT ![j] = "here"]
  /\ prompt' = IF Exists(input[j]) /\ age[node[input[j]]] < Grace THEN prompt \cup {j} ELSE prompt
  /\ late' = IF Unseen(input[j]) THEN late \cup {j} ELSE late
  /\ UNCHANGED <<files, reuse, input, del, sweep, taken>>

\* The parameters are invalid, or Store.Create fails.
RejectJob(j) ==
  /\ row[j] = "resolved" /\ row' = [row EXCEPT ![j] = "none"]
  /\ input' = [input EXCEPT ![j] = None]
  /\ UNCHANGED <<files, reuse, del, sweep, history>>

\* handleDeleteJob: lookup; then the input, whoever else uses it; then the row.
DeleteLookup(j) ==
  /\ j \in Row /\ del[j] = "none" /\ del' = [del EXCEPT ![j] = "read"]
  /\ UNCHANGED <<files, reuse, rows, sweep, history>>

DeleteInput(j) ==
  /\ del[j] = "read" /\ del' = [del EXCEPT ![j] = "unlinked"]
  /\ Unlink({input[j]}, "delete", j)
  /\ UNCHANGED <<node, age, reuse, rows, sweep, prompt, late>>

\* Store.Delete, and with the row its history; if it fails the row stays.
StoreDelete(j) ==
  \/ /\ row' = [row EXCEPT ![j] = "gone"] /\ taken' = [taken EXCEPT ![j] = "no"]
     /\ prompt' = prompt \ {j} /\ late' = late \ {j}
  \/ UNCHANGED <<row, history>>

DeleteRow(j) ==
  /\ del[j] = "unlinked" /\ del' = [del EXCEPT ![j] = "none"]
  /\ StoreDelete(j)
  /\ UNCHANGED <<files, reuse, input, sweep>>

-----------------------------------------------------------------------------
(* The sweeper                                                             *)

\* SweepOnce begins with the rows whose retention is over by now.
SweepOnce ==
  /\ swp = "idle" /\ swp' = "expire"
  /\ todo' \in SUBSET (Row \cap Expiring)
  /\ UNCHANGED <<files, reuse, rows, del, cur, doomed, aim, history>>

InputPathShared(j) == \E k \in Row \ {j} : input[k] = input[j]

\* What removeInput may decide to unlink: the query may fail, and then nothing.
Doom(j) == {{}} \cup (IF InputPathShared(j) THEN {} ELSE {{input[j]}})

\* The query of removeInput for an expired job ...
ExpireLook(j) ==
  /\ swp = "expire" /\ j \in todo /\ swp' = "unlink"
  /\ cur' = j /\ todo' = todo \ {j} /\ doomed' \in Doom(j)
  /\ UNCHANGED <<files, reuse, rows, del, aim, history>>

\* ... its unlink ...
ExpireUnlink ==
  /\ swp = "unlink" /\ swp' = "delete"
  /\ Unlink(doomed, "expiry", cur) /\ doomed' = {}
  /\ UNCHANGED <<node, age, reuse, rows, del, todo, cur, aim, prompt, late>>

\* ... and Store.Delete, which may fail and leave the row to the next sweep.
ExpireRow ==
  /\ swp = "delete" /\ swp' = "expire" /\ cur' = None
  /\ StoreDelete(cur)
  /\ UNCHANGED <<files, reuse, input, del, todo, doomed, aim>>

\* sweepUploads: ReadDir ...
ReadDir ==
  /\ swp = "expire" /\ todo = {} /\ swp' = "listed"
  /\ doomed' = {f \in File : Exists(f)}
  /\ UNCHANGED <<files, reuse, rows, del, todo, cur, aim, history>>

\* Slip: only what a job once had is collected.
UnreferencedOfJobs(entries) ==
  {f \in entries : f \notin InputPaths /\ \E j \in Job : input[j] = f}

Unreferenced(entries) == {f \in entries : f \notin InputPaths}

\* ... InputPaths; the round is skipped if the query fails ...
NameInputs ==
  /\ swp = "listed" /\ swp' = "named"
  /\ doomed' \in {{}, Unreferenced(doomed)}
  /\ UNCHANGED <<files, reuse, rows, del, todo, cur, aim, history>>

\* Slip: orphans are collected whatever their age.
PastCutoffAlways(entries) == entries

PastCutoff(entries) == {f \in entries : age[node[f]] >= Grace}

\* ... the cutoff, from time.Now().  An entry that is younger now is younger when
\* its mtime is read; one that is touched meanwhile leaves doomed: see CloseUpload
\* and Chtimes ...
Cutoff ==
  /\ swp = "named" /\ swp' = "collect"
  /\ doomed' = PastCutoff(doomed)
  /\ UNCHANGED <<files, reuse, rows, del, todo, cur, aim, history>>

\* ... and for each entry e.Info(), which fails if it is gone ...
Info ==
  /\ swp = "collect" /\ aim = None
  /\ \/ \E f \in doomed : /\ doomed' = doomed \ {f} /\ swp' = swp
                          /\ aim' = IF Exists(f) THEN f ELSE None
     \/ doomed = {} /\ swp' = "idle" /\ UNCHANGED <<doomed, aim>>
  /\ UNCHANGED <<files, reuse, rows, del, todo, cur, history>>

\* ... and os.Remove.
Collect ==
  /\ aim # None /\ aim' = None
  /\ Unlink({aim}, "gc", None)
  /\ UNCHANGED <<node, age, reuse, rows, del, swp, todo, cur, doomed, prompt, late>>

\* The process ends and the next one starts: requests and the sweep are cut
\* off wherever they are, files and rows stay.
Restart ==
  /\ row' = [j \in Job |-> IF row[j] = "resolved" THEN "none" ELSE row[j]]
  /\ input' = [j \in Job |-> IF row[j] = "resolved" THEN None ELSE input[j]]
  /\ del' = [j \in Job |-> "none"] /\ reuse' = {}
  /\ swp' = "idle" /\ todo' = {} /\ cur' = None /\ doomed' = {} /\ aim' = None
  /\ file' = [f \in File |-> IF file[f] = "partial" \/ (f \in reuse /\ Exists(f)) THEN "cut" ELSE file[f]]
  /\ UNCHANGED <<node, age, history>>

Sweep == SweepOnce \/ (\E j \in Job : ExpireLook(j)) \/ ExpireUnlink \/ ExpireRow
         \/ ReadDir \/ NameInputs \/ Cutoff \/ Info \/ Collect

Next ==
  \/ Tick \/ Restart \/ Sweep
  \/ \E f \in File : OpenUpload(f) \/ CloseUpload(f) \/ LinkUpload(f) \/ Chtimes(f)
  \/ \E j \in Job : \/ ResolveUpload(j) \/ CreateJob(j) \/ RejectJob(j)
                    \/ DeleteLookup(j) \/ DeleteInput(j) \/ DeleteRow(j)

Spec == Init /\ [][Next]_vars

\* Time passes, the ticker keeps sweeping, a query does not fail for ever, and the
\* process is not stopped for ever.
FairSpec == Spec /\ WF_vars(Tick) /\ WF_vars(Sweep) /\ <>[][~Restart]_vars
                 /\ SF_vars(NameInputs /\ doomed' = Unreferenced(doomed))

-----------------------------------------------------------------------------
(* Properties                                                              *)

\* Types; a job has an input from resolveUpload on.
TypeOK ==
  /\ file \in [File -> {"free", "partial", "here", "cut", "gone"}]
  /\ node \in [File -> File] /\ age \in [File -> 0..Grace] /\ reuse \subseteq File
  /\ row \in [Job -> {"none", "resolved", "here", "gone"}]
  /\ input \in [Job -> File \cup {None}] /\ \A j \in Job : (input[j] = None) = (row[j] = "none")
  /\ del \in [Job -> {"none", "read", "unlinked"}]
  /\ swp \in {"idle", "expire", "unlink", "delete", "listed", "named", "collect"}
  /\ todo \subseteq Job /\ cur \in Job \cup {None} /\ doomed \subseteq File
  /\ aim \in File \cup {None}
  /\ taken \in [Job -> {"no", "upload", "delete", "expiry", "gc"}]
  /\ prompt \subseteq Job /\ late \subseteq Job

\* The sweeper takes no input from a job, but for a job whose creation falls into
\* a moment in which the sweeper has looked and not yet unlinked (late).  Otherwise
\* the collection of orphans takes an input only from a job that was created when
\* the upload had been lying around for the whole grace period, and the expiry of
\* a job only its own.
InputKept ==
  \A j \in Row \ late : taken[j] # "expiry" /\ (taken[j] = "gc" => j \notin prompt)

\* What nobody refers to is removed in the end: uploads never submitted, inputs
\* a failed query left behind, parts of uploads cut off by a stop, links.
Orphan(f) == file[f] \in {"here", "cut"} /\ \A j \in Job : input[j] = f => row[j] = "gone"

OrphansCollected == \A f \in File : Orphan(f) ~> ~Orphan(f)

\* store.go: "Two jobs can be built from the same upload, so deleting one of
\* them must not unlink an input the other still needs."
DeleteSparesShared ==
  \A j \in Row : taken[j] # "delete"

-----------------------------------------------------------------------------
(* The inductive invariant behind InputKept, in parts                      *)

\* A file that is not complete shares its inode with no other.
OwnInode ==
  \A f \in File : file[f] \in {"free", "partial"} =>
    node[f] = f /\ \A g \in File \ {f} : node[g] # f

\* Inputs and what is doomed have once been files.
Written ==
  /\ \A j \in Job : input[j] # None => file[input[j]] # "free"
  /\ \A f \in doomed : file[f] # "free"

\* Deletions, expiry and the history concern jobs that have been created.
Created ==
  /\ \A j \in Job : del[j] # "none" \/ j \in todo \cup prompt \cup late \/ taken[j] # "no"
       => row[j] \in {"here", "gone"}
  /\ swp \in {"unlink", "delete"} => cur \in Job /\ row[cur] \in {"here", "gone"}

\* Between removeInput's check and its unlink the file is nobody else's, but for
\* jobs created meanwhile.
ExpiryClaim ==
  swp = "unlink" => \A f \in doomed : \A j \in Row \ late : input[j] = f => j = cur

\* What InputPaths did not name has no job, but for those created before the
\* cutoff.  Then what is going to be collected is past its grace, and so no job
\* that was created in time has it; nor has one the file aimed at.
CollectClaim ==
  /\ swp = "named" => \A f \in doomed : \A j \in Row \ late : input[j] # f
  /\ swp = "collect" => \A f \in doomed : Exists(f) =>
       age[node[f]] = Grace /\ \A j \in Row \ late : input[j] = f => j \notin prompt
  /\ aim # None => swp = "collect"
  /\ \A j \in Row \ late : input[j] = aim => j \notin prompt

IInv == /\ TypeOK /\ OwnInode /\ Written /\ Created
        /\ ExpiryClaim /\ CollectClaim /\ InputKept

=============================================================================
