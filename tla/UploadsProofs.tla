--------------------------- MODULE UploadsProofs ----------------------------
(***************************************************************************)
(* Uploads, proved: for any number of files and jobs, any grace period,    *)
(* and any number of restarts.                                             *)
(***************************************************************************)
EXTENDS Uploads, TLAPS

USE ConstantsAssumption
USE DEF vars, files, rows, sweep, history

\* Time passes: only ages grow, and an age at Grace stays.
LEMMA TickKeeps ==
    ASSUME IInv, Tick
    PROVE  IInv'
<1> USE DEF Tick, Exists, Row
<1>1. TypeOK'
  BY DEF IInv, TypeOK
<1>2. OwnInode'
  BY DEF IInv, TypeOK, OwnInode
<1>3. Written'
  BY DEF IInv, TypeOK, Written
<1>4. Created'
  BY DEF IInv, TypeOK, Created
<1>5. ExpiryClaim'
  BY DEF IInv, TypeOK, ExpiryClaim
<1>6. CollectClaim'
  BY DEF IInv, TypeOK, CollectClaim
<1>7. InputKept'
  BY DEF IInv, TypeOK, InputKept
<1>8. QED BY <1>1, <1>2, <1>3, <1>4, <1>5, <1>6, <1>7 DEF IInv

\* A new upload has an inode of its own.
LEMMA OpenUploadKeeps ==
    ASSUME IInv, NEW f \in File, OpenUpload(f)
    PROVE  IInv'
<1> USE DEF OpenUpload, Exists, Row
<1>1. TypeOK'
  BY DEF IInv, TypeOK
<1>2. OwnInode'
  BY DEF IInv, TypeOK, OwnInode
<1>3. Written'
  BY DEF IInv, TypeOK, Written
<1>4. Created'
  BY DEF IInv, TypeOK, Created
<1>5. ExpiryClaim'
  BY DEF IInv, TypeOK, ExpiryClaim
<1>6. CollectClaim'
  BY DEF IInv, TypeOK, CollectClaim, Written, OwnInode
<1>7. InputKept'
  BY DEF IInv, TypeOK, InputKept
<1>8. QED BY <1>1, <1>2, <1>3, <1>4, <1>5, <1>6, <1>7 DEF IInv

\* An upload that ends was partial, so its inode is its own.
LEMMA CloseUploadKeeps ==
    ASSUME IInv, NEW f \in File, CloseUpload(f)
    PROVE  IInv'
<1> USE DEF CloseUpload, Exists, Row, Unlink
<1>1. TypeOK'
  BY DEF IInv, TypeOK
<1>2. OwnInode'
  BY DEF IInv, TypeOK, OwnInode
<1>3. Written'
  BY DEF IInv, TypeOK, Written
<1>4. Created'
  BY DEF IInv, TypeOK, Created
<1>5. ExpiryClaim'
  BY DEF IInv, TypeOK, ExpiryClaim
<1>6. CollectClaim'
  BY DEF IInv, TypeOK, CollectClaim, Written, OwnInode
<1>7. InputKept'
  <2>1. \A k \in Job : taken'[k] = taken[k] \/ taken'[k] = "upload"
    BY DEF IInv, TypeOK
  <2>2. QED BY <2>1 DEF IInv, InputKept
<1>8. QED BY <1>1, <1>2, <1>3, <1>4, <1>5, <1>6, <1>7 DEF IInv

\* A link gives a free name the inode of a complete file.
LEMMA LinkUploadKeeps ==
    ASSUME IInv, NEW f \in File, LinkUpload(f)
    PROVE  IInv'
<1> USE DEF LinkUpload, Exists, Row
<1>1. TypeOK'
  <2>1. \A k \in Row : input[k] \in File
    BY DEF IInv, TypeOK
  <2>2. node' \in [File -> File] /\ age' \in [File -> 0..Grace]
    BY <2>1 DEF IInv, TypeOK
  <2>3. QED BY <2>2 DEF IInv, TypeOK
<1>2. OwnInode'
  BY DEF IInv, TypeOK, OwnInode
<1>3. Written'
  BY DEF IInv, TypeOK, Written
<1>4. Created'
  BY DEF IInv, TypeOK, Created
<1>5. ExpiryClaim'
  BY DEF IInv, TypeOK, ExpiryClaim
<1>6. CollectClaim'
  <2>1. \A g \in doomed : g # f /\ node'[g] = node[g] /\ age'[node[g]] = age[node[g]]
    BY DEF IInv, TypeOK, OwnInode, Written
  <2>2. QED BY <2>1 DEF IInv, TypeOK, CollectClaim
<1>7. InputKept'
  BY DEF IInv, TypeOK, InputKept
<1>8. QED BY <1>1, <1>2, <1>3, <1>4, <1>5, <1>6, <1>7 DEF IInv

\* A fresh mtime spares every name of the inode.
LEMMA ChtimesKeeps ==
    ASSUME IInv, NEW f \in File, Chtimes(f)
    PROVE  IInv'
<1> USE DEF Chtimes, Exists, Row
<1>1. TypeOK'
  <2>1. age' \in [File -> 0..Grace] /\ doomed' \subseteq File
    BY DEF IInv, TypeOK
  <2>2. QED BY <2>1 DEF IInv, TypeOK
<1>2. OwnInode'
  BY DEF IInv, TypeOK, OwnInode
<1>3. Written'
  BY DEF IInv, TypeOK, Written
<1>4. Created'
  BY DEF IInv, TypeOK, Created
<1>5. ExpiryClaim'
  BY DEF IInv, TypeOK, ExpiryClaim
<1>6. CollectClaim'
  BY DEF IInv, TypeOK, CollectClaim
<1>7. InputKept'
  BY DEF IInv, TypeOK, InputKept
<1>8. QED BY <1>1, <1>2, <1>3, <1>4, <1>5, <1>6, <1>7 DEF IInv

\* A resolved upload is a complete file.
LEMMA ResolveUploadKeeps ==
    ASSUME IInv, NEW j \in Job, ResolveUpload(j)
    PROVE  IInv'
<1> USE DEF ResolveUpload, Exists, Row
<1>1. TypeOK'
  BY DEF IInv, TypeOK
<1>2. OwnInode'
  BY DEF IInv, TypeOK, OwnInode
<1>3. Written'
  BY DEF IInv, TypeOK, Written
<1>4. Created'
  BY DEF IInv, TypeOK, Created
<1>5. ExpiryClaim'
  BY DEF IInv, TypeOK, ExpiryClaim
<1>6. CollectClaim'
  BY DEF IInv, TypeOK, CollectClaim
<1>7. InputKept'
  BY DEF IInv, TypeOK, InputKept
<1>8. QED BY <1>1, <1>2, <1>3, <1>4, <1>5, <1>6, <1>7 DEF IInv

\* A created job whose input is doomed is too old for prompt or in late.
LEMMA CreateJobKeeps ==
    ASSUME IInv, NEW j \in Job, CreateJob(j)
    PROVE  IInv'
<1> USE DEF CreateJob, Exists, Row, Unseen
<1>1. TypeOK'
  BY DEF IInv, TypeOK
<1>2. OwnInode'
  BY DEF IInv, TypeOK, OwnInode
<1>3. Written'
  BY DEF IInv, TypeOK, Written
<1>4. Created'
  BY DEF IInv, TypeOK, Created
<1>5. ExpiryClaim'
  BY DEF IInv, TypeOK, ExpiryClaim
<1>6. CollectClaim'
  BY DEF IInv, TypeOK, CollectClaim, Created
<1>7. InputKept'
  BY DEF IInv, TypeOK, InputKept, Written, Created
<1>8. QED BY <1>1, <1>2, <1>3, <1>4, <1>5, <1>6, <1>7 DEF IInv

\* A rejected request had no row.
LEMMA RejectJobKeeps ==
    ASSUME IInv, NEW j \in Job, RejectJob(j)
    PROVE  IInv'
<1> USE DEF RejectJob, Exists, Row
<1>1. TypeOK'
  BY DEF IInv, TypeOK, Created
<1>2. OwnInode'
  BY DEF IInv, TypeOK, OwnInode
<1>3. Written'
  BY DEF IInv, TypeOK, Written, Created
<1>4. Created'
  BY DEF IInv, TypeOK, Created
<1>5. ExpiryClaim'
  BY DEF IInv, TypeOK, ExpiryClaim
<1>6. CollectClaim'
  BY DEF IInv, TypeOK, CollectClaim
<1>7. InputKept'
  BY DEF IInv, TypeOK, InputKept
<1>8. QED BY <1>1, <1>2, <1>3, <1>4, <1>5, <1>6, <1>7 DEF IInv

\* A deletion begins with a row.
LEMMA DeleteLookupKeeps ==
    ASSUME IInv, NEW j \in Job, DeleteLookup(j)
    PROVE  IInv'
<1> USE DEF DeleteLookup, Exists, Row
<1>1. TypeOK'
  BY DEF IInv, TypeOK
<1>2. OwnInode'
  BY DEF IInv, TypeOK, OwnInode
<1>3. Written'
  BY DEF IInv, TypeOK, Written
<1>4. Created'
  BY DEF IInv, TypeOK, Created
<1>5. ExpiryClaim'
  BY DEF IInv, TypeOK, ExpiryClaim
<1>6. CollectClaim'
  BY DEF IInv, TypeOK, CollectClaim
<1>7. InputKept'
  BY DEF IInv, TypeOK, InputKept
<1>8. QED BY <1>1, <1>2, <1>3, <1>4, <1>5, <1>6, <1>7 DEF IInv

\* A deletion unlinks as "delete", of which InputKept does not speak.
LEMMA DeleteInputKeeps ==
    ASSUME IInv, NEW j \in Job, DeleteInput(j)
    PROVE  IInv'
<1> USE DEF DeleteInput, Exists, Row, Unlink
<1>1. TypeOK'
  BY DEF IInv, TypeOK
<1>2. OwnInode'
  BY DEF IInv, TypeOK, OwnInode
<1>3. Written'
  BY DEF IInv, TypeOK, Written
<1>4. Created'
  BY DEF IInv, TypeOK, Created
<1>5. ExpiryClaim'
  BY DEF IInv, TypeOK, ExpiryClaim
<1>6. CollectClaim'
  BY DEF IInv, TypeOK, CollectClaim
<1>7. InputKept'
  BY DEF IInv, TypeOK, InputKept
<1>8. QED BY <1>1, <1>2, <1>3, <1>4, <1>5, <1>6, <1>7 DEF IInv

\* A row that goes is no longer a subject of InputKept.
LEMMA DeleteRowKeeps ==
    ASSUME IInv, NEW j \in Job, DeleteRow(j)
    PROVE  IInv'
<1> USE DEF DeleteRow, StoreDelete, Exists, Row
<1>1. TypeOK'
  BY DEF IInv, TypeOK, Created
<1>2. OwnInode'
  BY DEF IInv, TypeOK, OwnInode
<1>3. Written'
  BY DEF IInv, TypeOK, Written
<1>4. Created'
  BY DEF IInv, TypeOK, Created
<1>5. ExpiryClaim'
  BY DEF IInv, TypeOK, ExpiryClaim
<1>6. CollectClaim'
  BY DEF IInv, TypeOK, CollectClaim
<1>7. InputKept'
  BY DEF IInv, TypeOK, InputKept
<1>8. QED BY <1>1, <1>2, <1>3, <1>4, <1>5, <1>6, <1>7 DEF IInv

\* What has expired is a row.
LEMMA SweepOnceKeeps ==
    ASSUME IInv, SweepOnce
    PROVE  IInv'
<1> USE DEF SweepOnce, Exists, Row
<1>1. TypeOK'
  BY DEF IInv, TypeOK
<1>2. OwnInode'
  BY DEF IInv, TypeOK, OwnInode
<1>3. Written'
  BY DEF IInv, TypeOK, Written
<1>4. Created'
  BY DEF IInv, TypeOK, Created
<1>5. ExpiryClaim'
  BY DEF IInv, TypeOK, ExpiryClaim
<1>6. CollectClaim'
  BY DEF IInv, TypeOK, CollectClaim
<1>7. InputKept'
  BY DEF IInv, TypeOK, InputKept
<1>8. QED BY <1>1, <1>2, <1>3, <1>4, <1>5, <1>6, <1>7 DEF IInv

\* removeInput dooms an input no other row has.
LEMMA ExpireLookKeeps ==
    ASSUME IInv, NEW j \in Job, ExpireLook(j)
    PROVE  IInv'
<1> USE DEF ExpireLook, Exists, Row, Doom, InputPathShared
<1>1. TypeOK'
  BY DEF IInv, TypeOK, Created
<1>2. OwnInode'
  BY DEF IInv, TypeOK, OwnInode
<1>3. Written'
  BY DEF IInv, TypeOK, Written, Created
<1>4. Created'
  BY DEF IInv, TypeOK, Created
<1>5. ExpiryClaim'
  BY DEF IInv, TypeOK, ExpiryClaim
<1>6. CollectClaim'
  BY DEF IInv, TypeOK, CollectClaim
<1>7. InputKept'
  BY DEF IInv, TypeOK, InputKept
<1>8. QED BY <1>1, <1>2, <1>3, <1>4, <1>5, <1>6, <1>7 DEF IInv

\* What the expiry unlinks is its job's, or that of a job in late.
LEMMA ExpireUnlinkKeeps ==
    ASSUME IInv, ExpireUnlink
    PROVE  IInv'
<1> USE DEF ExpireUnlink, Exists, Row, Unlink
<1>1. TypeOK'
  BY DEF IInv, TypeOK
<1>2. OwnInode'
  BY DEF IInv, TypeOK, OwnInode
<1>3. Written'
  BY DEF IInv, TypeOK, Written
<1>4. Created'
  BY DEF IInv, TypeOK, Created
<1>5. ExpiryClaim'
  BY DEF IInv, TypeOK, ExpiryClaim
<1>6. CollectClaim'
  BY DEF IInv, TypeOK, CollectClaim
<1>7. InputKept'
  BY DEF IInv, TypeOK, InputKept, ExpiryClaim, Written
<1>8. QED BY <1>1, <1>2, <1>3, <1>4, <1>5, <1>6, <1>7 DEF IInv

\* The row of the expired job goes.
LEMMA ExpireRowKeeps ==
    ASSUME IInv, ExpireRow
    PROVE  IInv'
<1> USE DEF ExpireRow, StoreDelete, Exists, Row
<1>1. TypeOK'
  BY DEF IInv, TypeOK, Created
<1>2. OwnInode'
  BY DEF IInv, TypeOK, OwnInode
<1>3. Written'
  BY DEF IInv, TypeOK, Written
<1>4. Created'
  BY DEF IInv, TypeOK, Created
<1>5. ExpiryClaim'
  BY DEF IInv, TypeOK, ExpiryClaim
<1>6. CollectClaim'
  BY DEF IInv, TypeOK, CollectClaim
<1>7. InputKept'
  BY DEF IInv, TypeOK, InputKept
<1>8. QED BY <1>1, <1>2, <1>3, <1>4, <1>5, <1>6, <1>7 DEF IInv

\* The listing claims nothing yet.
LEMMA ReadDirKeeps ==
    ASSUME IInv, ReadDir
    PROVE  IInv'
<1> USE DEF ReadDir, Exists, Row
<1>1. TypeOK'
  BY DEF IInv, TypeOK
<1>2. OwnInode'
  BY DEF IInv, TypeOK, OwnInode
<1>3. Written'
  BY DEF IInv, TypeOK, Written
<1>4. Created'
  BY DEF IInv, TypeOK, Created
<1>5. ExpiryClaim'
  BY DEF IInv, TypeOK, ExpiryClaim
<1>6. CollectClaim'
  BY DEF IInv, TypeOK, CollectClaim
<1>7. InputKept'
  BY DEF IInv, TypeOK, InputKept
<1>8. QED BY <1>1, <1>2, <1>3, <1>4, <1>5, <1>6, <1>7 DEF IInv

\* What InputPaths does not name is no input.
LEMMA NameInputsKeeps ==
    ASSUME IInv, NameInputs
    PROVE  IInv'
<1> USE DEF NameInputs, Exists, Row, Unreferenced, InputPaths
<1>1. TypeOK'
  BY DEF IInv, TypeOK
<1>2. OwnInode'
  BY DEF IInv, TypeOK, OwnInode
<1>3. Written'
  BY DEF IInv, TypeOK, Written
<1>4. Created'
  BY DEF IInv, TypeOK, Created
<1>5. ExpiryClaim'
  BY DEF IInv, TypeOK, ExpiryClaim
<1>6. CollectClaim'
  BY DEF IInv, TypeOK, CollectClaim
<1>7. InputKept'
  BY DEF IInv, TypeOK, InputKept
<1>8. QED BY <1>1, <1>2, <1>3, <1>4, <1>5, <1>6, <1>7 DEF IInv

\* Past the cutoff nothing doomed is an input or young.
LEMMA CutoffKeeps ==
    ASSUME IInv, Cutoff
    PROVE  IInv'
<1> USE DEF Cutoff, Exists, Row, PastCutoff
<1>1. TypeOK'
  BY DEF IInv, TypeOK
<1>2. OwnInode'
  BY DEF IInv, TypeOK, OwnInode
<1>3. Written'
  BY DEF IInv, TypeOK, Written
<1>4. Created'
  BY DEF IInv, TypeOK, Created
<1>5. ExpiryClaim'
  BY DEF IInv, TypeOK, ExpiryClaim
<1>6. CollectClaim'
  <2>1. \A f \in doomed' : age[node[f]] = Grace /\ \A j \in Row \ late : input[j] # f
    <3>1. \A f \in doomed' : age[node[f]] >= Grace /\ age[node[f]] \in 0..Grace
      BY DEF IInv, TypeOK
    <3>2. \A f \in doomed' : \A j \in Row \ late : input[j] # f
      BY DEF IInv, TypeOK, CollectClaim
    <3>3. QED BY <3>1, <3>2
  <2>2. QED BY <2>1 DEF IInv, TypeOK, CollectClaim
<1>7. InputKept'
  BY DEF IInv, TypeOK, InputKept
<1>8. QED BY <1>1, <1>2, <1>3, <1>4, <1>5, <1>6, <1>7 DEF IInv

\* The file aimed at was doomed, and so is not a prompt job's.
LEMMA InfoKeeps ==
    ASSUME IInv, Info
    PROVE  IInv'
<1> USE DEF Info, Exists, Row
<1>1. TypeOK'
  BY DEF IInv, TypeOK
<1>2. OwnInode'
  BY DEF IInv, TypeOK, OwnInode
<1>3. Written'
  BY DEF IInv, TypeOK, Written
<1>4. Created'
  BY DEF IInv, TypeOK, Created
<1>5. ExpiryClaim'
  BY DEF IInv, TypeOK, ExpiryClaim
<1>6. CollectClaim'
  BY DEF IInv, TypeOK, CollectClaim
<1>7. InputKept'
  BY DEF IInv, TypeOK, InputKept
<1>8. QED BY <1>1, <1>2, <1>3, <1>4, <1>5, <1>6, <1>7 DEF IInv

\* What is collected has been aimed at.
LEMMA CollectKeeps ==
    ASSUME IInv, Collect
    PROVE  IInv'
<1> USE DEF Collect, Exists, Row, Unlink
<1>1. TypeOK'
  BY DEF IInv, TypeOK
<1>2. OwnInode'
  BY DEF IInv, TypeOK, OwnInode
<1>3. Written'
  BY DEF IInv, TypeOK, Written
<1>4. Created'
  BY DEF IInv, TypeOK, Created
<1>5. ExpiryClaim'
  BY DEF IInv, TypeOK, ExpiryClaim
<1>6. CollectClaim'
  BY DEF IInv, TypeOK, CollectClaim
<1>7. InputKept'
  BY DEF IInv, TypeOK, InputKept, CollectClaim, Written
<1>8. QED BY <1>1, <1>2, <1>3, <1>4, <1>5, <1>6, <1>7 DEF IInv

\* A restart ends every claim.
LEMMA RestartKeeps ==
    ASSUME IInv, Restart
    PROVE  IInv'
<1> USE DEF Restart, Exists, Row
<1>1. TypeOK'
  BY DEF IInv, TypeOK
<1>2. OwnInode'
  BY DEF IInv, TypeOK, OwnInode
<1>3. Written'
  BY DEF IInv, TypeOK, Written
<1>4. Created'
  BY DEF IInv, TypeOK, Created
<1>5. ExpiryClaim'
  BY DEF IInv, TypeOK, ExpiryClaim
<1>6. CollectClaim'
  BY DEF IInv, TypeOK, CollectClaim
<1>7. InputKept'
  BY DEF IInv, TypeOK, InputKept
<1>8. QED BY <1>1, <1>2, <1>3, <1>4, <1>5, <1>6, <1>7 DEF IInv

-----------------------------------------------------------------------------
(* The theorems                                                            *)

\* The files of the jobs satisfy the inductive invariant.
THEOREM FilesInvariant == Spec => []IInv
<1>1. Init => IInv
  BY DEF Init, IInv, TypeOK, OwnInode, Written, Created, ExpiryClaim, CollectClaim,
         InputKept, Exists, Row
<1>2. IInv /\ [Next]_vars => IInv'
  <2> SUFFICES ASSUME IInv, [Next]_vars PROVE IInv'
    OBVIOUS
  <2>1. CASE UNCHANGED vars
    BY <2>1 DEF IInv, TypeOK, OwnInode, Written, Created, ExpiryClaim, CollectClaim,
                InputKept, Exists, Row
  <2>2. CASE Sweep
    BY <2>2, SweepOnceKeeps, ExpireLookKeeps, ExpireUnlinkKeeps, ExpireRowKeeps,
       ReadDirKeeps, NameInputsKeeps, CutoffKeeps, InfoKeeps, CollectKeeps DEF Sweep
  <2>3. CASE Tick \/ Restart
    BY <2>3, TickKeeps, RestartKeeps
  <2>4. CASE \E f \in File : OpenUpload(f) \/ CloseUpload(f) \/ LinkUpload(f) \/ Chtimes(f)
    BY <2>4, OpenUploadKeeps, CloseUploadKeeps, LinkUploadKeeps, ChtimesKeeps
  <2>5. CASE \E j \in Job : \/ ResolveUpload(j) \/ CreateJob(j) \/ RejectJob(j)
                            \/ DeleteLookup(j) \/ DeleteInput(j) \/ DeleteRow(j)
    BY <2>5, ResolveUploadKeeps, CreateJobKeeps, RejectJobKeeps, DeleteLookupKeeps,
       DeleteInputKeeps, DeleteRowKeeps
  <2>6. QED BY <2>1, <2>2, <2>3, <2>4, <2>5 DEF Next
<1>3. QED BY <1>1, <1>2, PTL DEF Spec

\* Every file, row and step of the sweeper has its type, and every job an
\* input from resolveUpload on.
THEOREM TypeCorrect == Spec => []TypeOK
<1>1. IInv => TypeOK
  BY DEF IInv
<1>2. QED BY <1>1, FilesInvariant, PTL

\* Neither sweepUploads nor the expiry of another job takes the input of a job
\* that was created in time, unless it was created between the sweeper's look and
\* its unlink.
THEOREM InputKeptHolds == Spec => []InputKept
<1>1. IInv => InputKept
  BY DEF IInv
<1>2. QED BY <1>1, FilesInvariant, PTL

=============================================================================
