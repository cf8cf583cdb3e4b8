---------------------------- MODULE ImagesProofs ----------------------------
(***************************************************************************)
(* Proofs about the image uploads, for any number of uploads, paths,       *)
(* failures and crashes.                                                   *)
(***************************************************************************)
EXTENDS Images, TLAPS

\* An upload has a path once it has begun.
Fresh == \A r \in Uploads : pc[r] = "idle" <=> path[r] = NoPath

\* A temporary file is its upload's, and whole once it is copied.
TempInv ==
    \A r \in Uploads :
        /\ temp[r] # NoFile => temp[r].by = r
        /\ pc[r] \in {"stat", "remove_old", "rename"} => temp[r].whole

\* Nobody else works on the path of an upload that is alone.
AloneInv ==
    \A r, q \in Uploads : alone[r] /\ SamePath(r, q) => pc[q] \notin Working

\* What an upload that is alone has done is still there.
DoneInv ==
    \A r \in Uploads : alone[r] =>
        /\ pc[r] \in {"chmod", "insert", "get", "ok"} => file[path[r]] = [by |-> r, whole |-> TRUE]
        /\ pc[r] \in {"get", "ok"} => row[path[r]] = r

ImagesInv == TypeOK /\ Fresh /\ TempInv /\ WholeFiles /\ AloneInv /\ DoneInv

-----------------------------------------------------------------------------
(* The types.                                                              *)

\* Init has the types.
LEMMA InitTyped == Init => TypeOK
  BY ImagesAssumption DEF Init, TypeOK, Working, Staged

\* Each step keeps them.
LEMMA TypeStep == ASSUME TypeOK, [Next]_vars PROVE TypeOK'
<1> USE ImagesAssumption
<1>1. ASSUME NEW r \in Uploads, Post(r) PROVE TypeOK'
  <2>1. PICK p \in Paths, k \in {"image", "other"} :
            /\ path' = [path EXCEPT ![r] = p]
            /\ kind' = [kind EXCEPT ![r] = k]
    BY <1>1 DEF Post
  <2>2. alone' \in [Uploads -> BOOLEAN]
    BY <1>1, Zenon DEF Post, TypeOK
  <2>3. pc' = [pc EXCEPT ![r] = "create"] /\ UNCHANGED <<file, temp, row, faults>>
    BY <1>1 DEF Post, Goto
  <2> QED
    BY <2>1, <2>2, <2>3 DEF TypeOK, Working, Staged, Ended
<1>2. ASSUME NEW r \in Uploads, CreateTemp(r) PROVE TypeOK'
  <2> DEFINE f == [by |-> r, whole |-> FALSE]
  <2>1. f \in File
    BY DEF File
  <2> HIDE DEF f
  <2>2. temp' = [temp EXCEPT ![r] = f]
    BY <1>2 DEF CreateTemp, SetTemp, f
  <2>3. f # NoFile
    BY <2>1 DEF File
  <2> QED
    BY <1>2, <2>1, <2>2, <2>3 DEF TypeOK, CreateTemp, Operation, Goto, Working, Staged, Ended
<1>3. ASSUME NEW r \in Uploads, Copy(r) PROVE TypeOK'
  <2>1. temp[r] \in File
    BY <1>3 DEF TypeOK, Copy, Operation, Staged
  <2>2. [temp[r] EXCEPT !.whole = TRUE] \in File
    BY <2>1 DEF File
  <2>3. [temp[r] EXCEPT !.whole = TRUE] # NoFile
    BY <2>2 DEF File
  <2> QED
    BY <1>3, <2>2, <2>3 DEF TypeOK, Copy, Operation, SetTemp, Goto, Working, Staged, Ended
<1>4. ASSUME NEW r \in Uploads, StatOld(r) PROVE TypeOK'
  BY <1>4 DEF TypeOK, StatOld, Operation, Goto, Working, Staged, Ended
<1>5. ASSUME NEW r \in Uploads, RemoveOld(r) PROVE TypeOK'
  BY <1>5 DEF TypeOK, RemoveOld, Operation, SetFile, Goto, Working, Staged, Ended
<1>6. ASSUME NEW r \in Uploads, Rename(r) PROVE TypeOK'
  BY <1>6 DEF TypeOK, Rename, Operation, SetFile, SetTemp, Goto, Working, Staged, Ended
<1>7. ASSUME NEW r \in Uploads, Chmod(r) PROVE TypeOK'
  BY <1>7 DEF TypeOK, Chmod, Operation, Goto, Working, Staged, Ended
<1>8. ASSUME NEW r \in Uploads, InsertRow(r) PROVE TypeOK'
  BY <1>8 DEF TypeOK, InsertRow, Operation, SetRow, Goto, Working, Staged, Ended
<1>9. ASSUME NEW r \in Uploads, GetRow(r) PROVE TypeOK'
  BY <1>9 DEF TypeOK, GetRow, Operation, Goto, Working, Staged, Ended
<1>10. ASSUME NEW r \in Uploads, DeleteFile(r) PROVE TypeOK'
  BY <1>10 DEF TypeOK, DeleteFile, Operation, SetFile, Goto, Working, Staged, Ended
<1>11. ASSUME NEW r \in Uploads, DeleteRow(r) PROVE TypeOK'
  BY <1>11 DEF TypeOK, DeleteRow, Operation, SetRow, Goto, Working, Staged, Ended
<1>12. ASSUME NEW r \in Uploads, Cleanup(r) PROVE TypeOK'
  BY <1>12 DEF TypeOK, Cleanup, Operation, SetTemp, Goto, Working, Staged, Ended
<1>13. ASSUME NEW r \in Uploads, OperationFails(r) PROVE TypeOK'
  <2>1. AfterFailure(pc[r]) \in {"cleanup", "refused", "failed"}
    BY DEF AfterFailure
  <2>2. pc' = [pc EXCEPT ![r] = AfterFailure(pc[r])]
    BY <1>13 DEF OperationFails, Goto
  <2>3. faults' \in 0..MaxFaults
    BY <1>13 DEF OperationFails, TypeOK
  <2> QED
    BY <1>13, <2>1, <2>2, <2>3 DEF TypeOK, OperationFails, Working, Staged, Ended
<1>14. ASSUME Crash PROVE TypeOK'
  <2>1. faults' \in 0..MaxFaults
    BY <1>14 DEF Crash, TypeOK
  <2> QED
    BY <1>14, <2>1 DEF TypeOK, Crash, Working, Staged, Ended
<1>15. CASE UNCHANGED vars
  BY <1>15 DEF TypeOK, vars
<1> QED
  BY <1>1, <1>2, <1>3, <1>4, <1>5, <1>6, <1>7, <1>8, <1>9, <1>10, <1>11, <1>12,
     <1>13, <1>14, <1>15 DEF Next, UploadStep

\* The state of the image store has its shape in every reachable state: TypeOK.
THEOREM ImagesTyped == Spec => []TypeOK
<1>1. TypeOK /\ [Next]_vars => TypeOK'
  BY TypeStep
<1> QED
  BY InitTyped, <1>1, PTL DEF Spec
-----------------------------------------------------------------------------
(* The inductive invariant.                                                *)

\* Init establishes it.
LEMMA InitInv == Init => ImagesInv
<1>1. ASSUME Init PROVE Fresh /\ TempInv /\ WholeFiles /\ AloneInv /\ DoneInv
  BY <1>1 DEF Init, Fresh, TempInv, WholeFiles, AloneInv, DoneInv
<1> QED
  BY <1>1, InitTyped DEF ImagesInv

\* A new upload takes the solitude of the uploads to its path and disturbs no more.
LEMMA PostInv ==
  ASSUME ImagesInv, TypeOK', NEW r \in Uploads, Post(r)
  PROVE ImagesInv'
<1> USE ImagesAssumption
<1>1. PICK p \in Paths :
        /\ path' = [path EXCEPT ![r] = p]
        /\ alone' = [q \in Uploads |->
              IF q = r THEN \A u \in Uploads \ {r} : path[u] = p => pc[u] \notin Working
              ELSE alone[q] /\ path[q] # p]
  BY DEF Post
<1>2. /\ pc[r] = "idle" /\ pc' = [pc EXCEPT ![r] = "create"]
      /\ UNCHANGED <<file, temp, row>>
  BY DEF Post, Goto
<1>3. path[r] = NoPath
  BY <1>2 DEF ImagesInv, Fresh
<1> USE DEF ImagesInv, TypeOK
<1>4. Fresh'
  BY <1>1, <1>2 DEF Fresh
<1>5. TempInv'
  BY <1>2 DEF TempInv
<1>6. WholeFiles'
  <2> SUFFICES ASSUME NEW t \in Paths, file[t] # NoFile
               PROVE file[t].whole /\ path'[file[t].by] = t
    BY <1>2 DEF WholeFiles
  <2>1. file[t].whole /\ path[file[t].by] = t
    BY DEF WholeFiles
  <2>2. file[t].by \in Uploads /\ file[t].by # r
    BY <2>1, <1>3 DEF File
  <2> QED
    BY <2>1, <2>2, <1>1
<1>7. AloneInv'
  <2> SUFFICES ASSUME NEW u \in Uploads, NEW q \in Uploads, alone'[u],
                      u # q, path'[q] = path'[u]
               PROVE pc'[q] \notin Working
    BY DEF AloneInv, SamePath
  <2>1. CASE u = r
    BY <2>1, <1>1, <1>2
  <2>2. CASE u # r
    <3>1. alone[u] /\ path[u] # p /\ path'[u] = path[u]
      BY <2>2, <1>1
    <3>2. q # r
      BY <3>1, <1>1
    <3>3. path[q] = path[u]
      BY <3>1, <3>2, <1>1
    <3> QED
      BY <3>1, <3>2, <3>3, <1>2 DEF AloneInv, SamePath
  <2> QED
    BY <2>1, <2>2
<1>8. DoneInv'
  <2> SUFFICES ASSUME NEW u \in Uploads, alone'[u]
               PROVE /\ pc'[u] \in {"chmod", "insert", "get", "ok"} =>
                          file[path'[u]] = [by |-> u, whole |-> TRUE]
                     /\ pc'[u] \in {"get", "ok"} => row[path'[u]] = u
    BY <1>2 DEF DoneInv
  <2>1. CASE u = r
    BY <2>1, <1>2
  <2>2. CASE u # r
    <3>1. alone[u] /\ path'[u] = path[u] /\ pc'[u] = pc[u]
      BY <2>2, <1>1, <1>2
    <3> QED
      BY <3>1 DEF DoneInv
  <2> QED
    BY <2>1, <2>2
<1> QED
  BY <1>4, <1>5, <1>6, <1>7, <1>8

\* An operation changes its own upload and its own path only.
Local(r) ==
    /\ pc[r] \in Working /\ pc'[r] # "idle"
    /\ UNCHANGED <<path, kind, alone>>
    /\ \A q \in Uploads \ {r} : pc'[q] = pc[q] /\ temp'[q] = temp[q]
    /\ \A p \in Paths \ {path[r]} : file'[p] = file[p] /\ row'[p] = row[p]

\* What the invariant says of one upload and its path.
Sound(r) ==
    /\ temp[r] # NoFile => temp[r].by = r
    /\ pc[r] \in {"stat", "remove_old", "rename"} => temp[r].whole
    /\ file[path[r]] # NoFile =>
         file[path[r]].whole /\ path[file[path[r]].by] = path[r]
    /\ alone[r] /\ pc[r] \in {"chmod", "insert", "get", "ok"} =>
         file[path[r]] = [by |-> r, whole |-> TRUE]
    /\ alone[r] /\ pc[r] \in {"get", "ok"} => row[path[r]] = r

\* The invariant is kept by a local operation that leaves its own upload sound.
LEMMA OperationInv ==
  ASSUME ImagesInv, TypeOK', NEW r \in Uploads, Local(r), Sound(r)'
  PROVE ImagesInv'
<1> USE ImagesAssumption DEF ImagesInv, TypeOK, Local, Sound
<1>1. path[r] \in Paths
  OBVIOUS
<1>2. Fresh'
  BY DEF Fresh
<1>3. TempInv'
  BY DEF TempInv
<1>4. WholeFiles'
  BY DEF WholeFiles
<1>5. AloneInv'
  <2>1. \A q \in Uploads : pc'[q] \in Working => pc[q] \in Working
    OBVIOUS
  <2> QED
    BY <2>1 DEF AloneInv, SamePath
<1>6. DoneInv'
  <2> SUFFICES ASSUME NEW u \in Uploads, alone[u]
               PROVE /\ pc'[u] \in {"chmod", "insert", "get", "ok"} =>
                          file'[path[u]] = [by |-> u, whole |-> TRUE]
                     /\ pc'[u] \in {"get", "ok"} => row'[path[u]] = u
    BY DEF DoneInv
  <2>1. CASE u = r
    BY <2>1, <1>1
  <2>2. CASE u # r /\ pc[u] = "idle"
    BY <2>2
  <2>3. CASE u # r /\ pc[u] # "idle"
    <3>1. path[u] \in Paths \ {path[r]}
      BY <2>3 DEF AloneInv, SamePath, Fresh
    <3>2. pc'[u] = pc[u] /\ file'[path[u]] = file[path[u]] /\ row'[path[u]] = row[path[u]]
      BY <2>3, <3>1
    <3> QED
      BY <3>2 DEF DoneInv
  <2> QED
    BY <2>1, <2>2, <2>3
<1> QED
  BY <1>2, <1>3, <1>4, <1>5, <1>6

\* A working upload is sound, has a path, and has its temporary file if staged.
LEMMA Before ==
  ASSUME ImagesInv, NEW r \in Uploads, pc[r] \in Working
  PROVE Sound(r) /\ path[r] \in Paths /\ (pc[r] \in Staged => temp[r] # NoFile)
  BY DEF ImagesInv, TypeOK, TempInv, WholeFiles, DoneInv, Sound

\* Every step keeps the invariant.
LEMMA InvStep == ASSUME ImagesInv, [Next]_vars PROVE ImagesInv'
<1> USE ImagesAssumption
<1>0. TypeOK'
  BY TypeStep DEF ImagesInv
<1>1. ASSUME NEW r \in Uploads, Post(r) PROVE ImagesInv'
  BY <1>0, <1>1, PostInv
<1>2. ASSUME NEW r \in Uploads, CreateTemp(r) PROVE ImagesInv'
  <2>1. pc[r] \in Working
    BY <1>2 DEF CreateTemp, Operation, Working
  <2>2. Sound(r) /\ path[r] \in Paths /\ (pc[r] \in Staged => temp[r] # NoFile)
    BY <2>1, Before
  <2>3. Local(r)
    BY <1>2, <2>1, <2>2 DEF CreateTemp, Operation, SetTemp, Goto, Local, ImagesInv, TypeOK
  <2>4. Sound(r)'
    BY <1>2, <2>2 DEF CreateTemp, Operation, SetTemp, Goto, Sound, Staged, ImagesInv, TypeOK
  <2> QED
    BY <1>0, <2>3, <2>4, OperationInv
<1>3. ASSUME NEW r \in Uploads, Copy(r) PROVE ImagesInv'
  <2>1. pc[r] \in Working
    BY <1>3 DEF Copy, Operation, Working, Staged
  <2>2. Sound(r) /\ path[r] \in Paths /\ (pc[r] \in Staged => temp[r] # NoFile)
    BY <2>1, Before
  <2>3. Local(r)
    BY <1>3, <2>1, <2>2 DEF Copy, Operation, SetTemp, Goto, Local, ImagesInv, TypeOK
  <2>4. Sound(r)'
    <3>1. temp[r] \in File /\ temp[r].by = r
      BY <1>3, <2>2 DEF Copy, Operation, Sound, Staged, ImagesInv, TypeOK
    <3>2. temp'[r] = [temp[r] EXCEPT !.whole = TRUE]
      BY <1>3 DEF Copy, SetTemp, ImagesInv, TypeOK
    <3>3. temp'[r].whole /\ temp'[r].by = r
      BY <3>1, <3>2 DEF File
    <3>4. pc'[r] = "stat" /\ UNCHANGED <<file, path>>
      BY <1>3 DEF Copy, Operation, Goto, ImagesInv, TypeOK
    <3> QED
      BY <2>2, <3>3, <3>4 DEF Sound
  <2> QED
    BY <1>0, <2>3, <2>4, OperationInv
<1>4. ASSUME NEW r \in Uploads, StatOld(r) PROVE ImagesInv'
  <2>1. pc[r] \in Working
    BY <1>4 DEF StatOld, Operation, Working, Staged
  <2>2. Sound(r) /\ path[r] \in Paths /\ (pc[r] \in Staged => temp[r] # NoFile)
    BY <2>1, Before
  <2>3. Local(r)
    BY <1>4, <2>1, <2>2 DEF StatOld, Operation, Goto, Local, ImagesInv, TypeOK
  <2>4. Sound(r)'
    BY <1>4, <2>2 DEF StatOld, Operation, Goto, Sound, Staged, ImagesInv, TypeOK
  <2> QED
    BY <1>0, <2>3, <2>4, OperationInv
<1>5. ASSUME NEW r \in Uploads, RemoveOld(r) PROVE ImagesInv'
  <2>1. pc[r] \in Working
    BY <1>5 DEF RemoveOld, Operation, Working, Staged
  <2>2. Sound(r) /\ path[r] \in Paths /\ (pc[r] \in Staged => temp[r] # NoFile)
    BY <2>1, Before
  <2>3. Local(r)
    BY <1>5, <2>1, <2>2 DEF RemoveOld, Operation, SetFile, Goto, Local, ImagesInv, TypeOK
  <2>4. Sound(r)'
    BY <1>5, <2>2 DEF RemoveOld, Operation, SetFile, Goto, Sound, Staged, ImagesInv, TypeOK
  <2> QED
    BY <1>0, <2>3, <2>4, OperationInv
<1>6. ASSUME NEW r \in Uploads, Rename(r) PROVE ImagesInv'
  <2>1. pc[r] \in Working
    BY <1>6 DEF Rename, Operation, Working, Staged
  <2>2. Sound(r) /\ path[r] \in Paths /\ (pc[r] \in Staged => temp[r] # NoFile)
    BY <2>1, Before
  <2>3. Local(r)
    BY <1>6, <2>1, <2>2 DEF Rename, Operation, SetFile, SetTemp, Goto, Local, ImagesInv, TypeOK
  <2>4. Sound(r)'
    <3>1. temp[r] \in File /\ temp[r].by = r /\ temp[r].whole
      BY <1>6, <2>2 DEF Rename, Operation, Sound, Staged, ImagesInv, TypeOK
    <3>2. temp[r] = [by |-> r, whole |-> TRUE]
      BY <3>1 DEF File
    <3>3. /\ temp'[r] = NoFile /\ file'[path[r]] = temp[r] /\ pc'[r] = "chmod"
          /\ path' = path
      BY <1>6, <2>2 DEF Rename, Operation, SetFile, SetTemp, Goto, ImagesInv, TypeOK
    <3> QED
      BY <3>1, <3>2, <3>3 DEF Sound
  <2> QED
    BY <1>0, <2>3, <2>4, OperationInv
<1>7. ASSUME NEW r \in Uploads, Chmod(r) PROVE ImagesInv'
  <2>1. pc[r] \in Working
    BY <1>7 DEF Chmod, Operation, Working
  <2>2. Sound(r) /\ path[r] \in Paths /\ (pc[r] \in Staged => temp[r] # NoFile)
    BY <2>1, Before
  <2>3. Local(r)
    BY <1>7, <2>1, <2>2 DEF Chmod, Operation, Goto, Local, ImagesInv, TypeOK
  <2>4. Sound(r)'
    BY <1>7, <2>2 DEF Chmod, Operation, Goto, Sound, Staged, ImagesInv, TypeOK
  <2> QED
    BY <1>0, <2>3, <2>4, OperationInv
<1>8. ASSUME NEW r \in Uploads, InsertRow(r) PROVE ImagesInv'
  <2>1. pc[r] \in Working
    BY <1>8 DEF InsertRow, Operation, Working
  <2>2. Sound(r) /\ path[r] \in Paths /\ (pc[r] \in Staged => temp[r] # NoFile)
    BY <2>1, Before
  <2>3. Local(r)
    BY <1>8, <2>1, <2>2 DEF InsertRow, Operation, SetRow, Goto, Local, ImagesInv, TypeOK
  <2>4. Sound(r)'
    BY <1>8, <2>2 DEF InsertRow, Operation, SetRow, Goto, Sound, Staged, ImagesInv, TypeOK
  <2> QED
    BY <1>0, <2>3, <2>4, OperationInv
<1>9. ASSUME NEW r \in Uploads, GetRow(r) PROVE ImagesInv'
  <2>1. pc[r] \in Working
    BY <1>9 DEF GetRow, Operation, Working
  <2>2. Sound(r) /\ path[r] \in Paths /\ (pc[r] \in Staged => temp[r] # NoFile)
    BY <2>1, Before
  <2>3. Local(r)
    BY <1>9, <2>1, <2>2 DEF GetRow, Operation, Goto, Local, ImagesInv, TypeOK
  <2>4. Sound(r)'
    BY <1>9, <2>2 DEF GetRow, Operation, Goto, Sound, Staged, ImagesInv, TypeOK
  <2> QED
    BY <1>0, <2>3, <2>4, OperationInv
<1>10. ASSUME NEW r \in Uploads, DeleteFile(r) PROVE ImagesInv'
  <2>1. pc[r] \in Working
    BY <1>10 DEF DeleteFile, Operation, Working
  <2>2. Sound(r) /\ path[r] \in Paths /\ (pc[r] \in Staged => temp[r] # NoFile)
    BY <2>1, Before
  <2>3. Local(r)
    BY <1>10, <2>1, <2>2 DEF DeleteFile, Operation, SetFile, Goto, Local, ImagesInv, TypeOK
  <2>4. Sound(r)'
    BY <1>10, <2>2 DEF DeleteFile, Operation, SetFile, Goto, Sound, Staged, ImagesInv, TypeOK
  <2> QED
    BY <1>0, <2>3, <2>4, OperationInv
<1>11. ASSUME NEW r \in Uploads, DeleteRow(r) PROVE ImagesInv'
  <2>1. pc[r] \in Working
    BY <1>11 DEF DeleteRow, Operation, Working
  <2>2. Sound(r) /\ path[r] \in Paths /\ (pc[r] \in Staged => temp[r] # NoFile)
    BY <2>1, Before
  <2>3. Local(r)
    BY <1>11, <2>1, <2>2 DEF DeleteRow, Operation, SetRow, Goto, Local, ImagesInv, TypeOK
  <2>4. Sound(r)'
    BY <1>11, <2>2 DEF DeleteRow, Operation, SetRow, Goto, Sound, Staged, ImagesInv, TypeOK
  <2> QED
    BY <1>0, <2>3, <2>4, OperationInv
<1>12. ASSUME NEW r \in Uploads, Cleanup(r) PROVE ImagesInv'
  <2>1. pc[r] \in Working
    BY <1>12 DEF Cleanup, Operation, Working
  <2>2. Sound(r) /\ path[r] \in Paths /\ (pc[r] \in Staged => temp[r] # NoFile)
    BY <2>1, Before
  <2>3. Local(r)
    BY <1>12, <2>1, <2>2 DEF Cleanup, Operation, SetTemp, Goto, Local, ImagesInv, TypeOK
  <2>4. Sound(r)'
    BY <1>12, <2>2 DEF Cleanup, Operation, SetTemp, Goto, Sound, Staged, ImagesInv, TypeOK
  <2> QED
    BY <1>0, <2>3, <2>4, OperationInv
<1>13. ASSUME NEW r \in Uploads, OperationFails(r) PROVE ImagesInv'
  <2>1. pc' = [pc EXCEPT ![r] = AfterFailure(pc[r])] /\ pc[r] \in Working
    BY <1>13 DEF OperationFails, Goto
  <2>2. AfterFailure(pc[r]) \in {"cleanup", "refused", "failed"}
    BY DEF AfterFailure
  <2>3. pc'[r] \in {"cleanup", "refused", "failed"}
    BY <2>1, <2>2 DEF ImagesInv, TypeOK
  <2>4. Local(r)
    BY <1>13, <2>1, <2>3 DEF OperationFails, Local, ImagesInv, TypeOK
  <2>5. Sound(r)'
    BY <1>13, <2>1, <2>3, Before DEF OperationFails, Sound
  <2> QED
    BY <1>0, <2>4, <2>5, OperationInv
<1>14. ASSUME Crash PROVE ImagesInv'
  <2>1. \A r \in Uploads : /\ pc'[r] \in {pc[r], "dead"} /\ pc'[r] \notin Working
                           /\ pc'[r] = "idle" <=> pc[r] = "idle"
    BY <1>14 DEF Crash, Working, Staged
  <2>2. UNCHANGED <<file, temp, row, path, kind, alone>>
    BY <1>14 DEF Crash
  <2>3. Fresh' /\ AloneInv'
    BY <2>1, <2>2 DEF ImagesInv, Fresh, AloneInv
  <2>4. TempInv' /\ WholeFiles'
    BY <2>1, <2>2 DEF ImagesInv, TempInv, WholeFiles
  <2>5. DoneInv'
    BY <2>1, <2>2 DEF ImagesInv, DoneInv
  <2> QED
    BY <1>0, <2>3, <2>4, <2>5 DEF ImagesInv
<1>15. CASE UNCHANGED vars
  BY <1>0, <1>15
     DEF vars, ImagesInv, Fresh, TempInv, WholeFiles, AloneInv, DoneInv, SamePath
<1> QED
  BY <1>1, <1>2, <1>3, <1>4, <1>5, <1>6, <1>7, <1>8, <1>9, <1>10, <1>11, <1>12,
     <1>13, <1>14, <1>15 DEF Next, UploadStep

\* The inductive invariant: what an upload has staged, who works on a path, and
\* what an upload alone on its path has done so far.
THEOREM ImagesInvariant == Spec => []ImagesInv
<1>1. ImagesInv /\ [Next]_vars => ImagesInv'
  BY InvStep
<1> QED
  BY InitInv, <1>1, PTL DEF Spec

\* A served file is the whole of one upload to its path, for any number of uploads,
\* failures and crashes: WholeFiles.
THEOREM ServesWholeFiles == Spec => []WholeFiles
<1>1. ImagesInv => WholeFiles
  BY DEF ImagesInv
<1> QED
  BY ImagesInvariant, <1>1, PTL

\* What the handler called uploaded stays, file and row, until another upload takes
\* its path: UploadedStays.
THEOREM UploadsStay == Spec => []UploadedStays
<1>1. ImagesInv => UploadedStays
  BY DEF ImagesInv, DoneInv, UploadedStays
<1> QED
  BY ImagesInvariant, <1>1, PTL

-----------------------------------------------------------------------------
(* Rows, records and temporary files.                                      *)

\* What an operation of r does to r, its path, and its temporary file.
Kept(r) == file'[path[r]] = file[path[r]] /\ row'[path[r]] = row[path[r]]
Does(r) ==
    \/ /\ faults' = faults
       /\ \/ pc[r] = "create" /\ pc'[r] = "copy" /\ Kept(r)
          \/ pc[r] = "copy" /\ pc'[r] = "stat" /\ Kept(r)
          \/ /\ pc[r] = "stat" /\ Kept(r)
             /\ pc'[r] = "rename" \/ (pc'[r] = "remove_old" /\ file[path[r]] # NoFile)
          \/ /\ pc[r] = "remove_old" /\ row'[path[r]] = row[path[r]]
             /\ pc'[r] = "rename" \/ (pc'[r] = "cleanup" /\ file[path[r]] = NoFile)
          \/ /\ pc[r] = "rename" /\ pc'[r] = "chmod" /\ row'[path[r]] = row[path[r]]
             /\ file'[path[r]] # NoFile /\ temp'[r] = NoFile
          \/ /\ pc[r] = "chmod" /\ Kept(r) /\ temp'[r] = temp[r]
             /\ pc'[r] = "failed" \/ (pc'[r] = "insert" /\ file[path[r]] # NoFile)
          \/ /\ pc[r] = "insert" /\ pc'[r] = "get" /\ temp'[r] = temp[r]
             /\ file'[path[r]] = file[path[r]] /\ row'[path[r]] = r
          \/ /\ pc[r] = "get" /\ Kept(r) /\ temp'[r] = temp[r]
             /\ \/ pc'[r] = "panicked" /\ row[path[r]] = NoRow
                \/ /\ row[path[r]] # NoRow
                   /\ pc'[r] = IF kind[row[path[r]]] = "image" THEN "ok" ELSE "delete_file"
          \/ /\ pc[r] = "delete_file" /\ pc'[r] = "delete_row" /\ temp'[r] = temp[r]
             /\ row'[path[r]] = row[path[r]]
          \/ /\ pc[r] = "delete_row" /\ pc'[r] = "refused" /\ temp'[r] = temp[r]
             /\ file'[path[r]] = file[path[r]] /\ row'[path[r]] = NoRow
          \/ pc[r] = "cleanup" /\ pc'[r] = "failed" /\ Kept(r) /\ temp'[r] = NoFile
    \/ /\ faults' = faults + 1 /\ Kept(r) /\ temp'[r] = temp[r]
       /\ \/ pc[r] \in Staged /\ pc'[r] = "cleanup"
          \/ pc[r] \in {"delete_file", "delete_row"} /\ pc'[r] = "refused"
          \/ pc[r] \in {"create", "cleanup", "chmod", "insert", "get"} /\ pc'[r] = "failed"

LEMMA Operations ==
    ASSUME ImagesInv, NEW r \in Uploads, UploadStep(r)
    PROVE  Post(r) \/ (Local(r) /\ Does(r) /\ path[r] \in Paths)
  <1> USE DEF ImagesInv, TypeOK, Local, Does, Kept, Operation, Goto, Working, Staged
  <1>1. CASE CreateTemp(r)
    BY <1>1 DEF CreateTemp, SetFile, SetTemp, SetRow
  <1>2. CASE Copy(r)
    BY <1>2 DEF Copy, SetFile, SetTemp, SetRow
  <1>3. CASE StatOld(r)
    BY <1>3 DEF StatOld, SetFile, SetTemp, SetRow
  <1>4. CASE RemoveOld(r)
    BY <1>4 DEF RemoveOld, SetFile, SetTemp, SetRow
  <1>5. CASE Rename(r)
    BY <1>5 DEF Rename, SetFile, SetTemp, SetRow
  <1>6. CASE Chmod(r)
    BY <1>6 DEF Chmod, SetFile, SetTemp, SetRow
  <1>7. CASE InsertRow(r)
    BY <1>7 DEF InsertRow, SetFile, SetTemp, SetRow
  <1>8. CASE GetRow(r)
    BY <1>8 DEF GetRow, SetFile, SetTemp, SetRow
  <1>9. CASE DeleteFile(r)
    BY <1>9 DEF DeleteFile, SetFile, SetTemp, SetRow
  <1>10. CASE DeleteRow(r)
    BY <1>10 DEF DeleteRow, SetFile, SetTemp, SetRow
  <1>11. CASE Cleanup(r)
    BY <1>11 DEF Cleanup, SetFile, SetTemp, SetRow
  <1>12. CASE OperationFails(r)
    <2>1. pc'[r] = AfterFailure(pc[r])
      BY <1>12 DEF OperationFails
    <2> QED  BY <1>12, <2>1 DEF OperationFails, AfterFailure
  <1> QED
    BY <1>1, <1>2, <1>3, <1>4, <1>5, <1>6, <1>7, <1>8, <1>9, <1>10, <1>11, <1>12 DEF UploadStep

\* A row is of an upload to its path.
RowOwn == \A p \in Paths : row[p] # NoRow => path[row[p]] = p

\* Where no other upload has, or will ever have had, the path.
Single(r) == \A q \in Uploads : ~SamePath(r, q)

\* The record an upload looks for is there, unless another one deleted it.
Records ==
    \A r \in Uploads :
        /\ pc[r] = "get" /\ row[path[r]] = NoRow =>
               \E q \in Uploads : SamePath(r, q) /\ pc[q] = "refused"
        /\ pc[r] = "panicked" => \E q \in Uploads : SamePath(r, q) /\ pc[q] = "refused"

\* An image whose path is its own alone has its file before its row, and to stay.
FileFirst ==
    \A r \in Uploads : Single(r) /\ kind[r] = "image" /\ pc[r] # "idle" =>
        /\ pc[r] \in {"chmod", "insert", "get", "ok"} => file[path[r]] # NoFile
        /\ pc[r] \in Staged \cup {"create"} => row[path[r]] = NoRow
        /\ row[path[r]] # NoRow => file[path[r]] # NoFile
        /\ pc[r] \notin {"delete_file", "delete_row"}

\* What an upload that is about to tidy up, or has ended without, went through.
Leftovers ==
    \A r \in Uploads :
        /\ pc[r] \in {"idle", "create", "chmod", "insert", "get", "delete_file", "delete_row"} =>
               temp[r] = NoFile
        /\ pc[r] = "remove_old" /\ Single(r) => file[path[r]] # NoFile
        /\ pc[r] = "cleanup" => faults >= 1 \/ ~Single(r)
        /\ pc[r] \in Ended /\ temp[r] # NoFile => faults >= 2 \/ (faults >= 1 /\ ~Single(r))

RestInv == RowOwn /\ NonImagesLeave /\ Records /\ FileFirst /\ Leftovers

LEMMA InitRest == Init => RestInv
  BY DEF Init, RestInv, RowOwn, NonImagesLeave, Listed, Records, FileFirst, Leftovers, Working,
         Staged, Ended

\* Uploads that have begun keep their path.
LEMMA PostRest ==
    ASSUME ImagesInv, RestInv, NEW r \in Uploads, Post(r) PROVE RestInv'
  <1> USE ImagesAssumption DEF ImagesInv, TypeOK, RestInv
  <1>1. PICK p \in Paths, k \in {"image", "other"} :
          path' = [path EXCEPT ![r] = p] /\ kind' = [kind EXCEPT ![r] = k]
    BY DEF Post
  <1>2. /\ pc[r] = "idle" /\ pc' = [pc EXCEPT ![r] = "create"]
        /\ UNCHANGED <<file, temp, row, faults>>
    BY DEF Post, Goto
  <1>3. path[r] = NoPath
    BY <1>2 DEF Fresh
  <1>4. \A t \in Paths : row[t] # NoRow => row[t] \in Uploads /\ row[t] # r
    BY <1>3 DEF RowOwn
  <1>5. RowOwn'
    BY <1>1, <1>2, <1>4 DEF RowOwn
  <1>6. NonImagesLeave'
    BY <1>1, <1>2, <1>4 DEF NonImagesLeave, Listed
  <1>7. \A u, q \in Uploads : SamePath(u, q) /\ pc[u] # "idle" => SamePath(u, q)' /\ q # r
    BY <1>1, <1>2, <1>3 DEF SamePath, Fresh
  <1>8. Records'
    BY <1>1, <1>2, <1>7 DEF Records
  <1>9. \A u \in Uploads : u # r /\ Single(u)' /\ pc[u] # "idle" => Single(u)
    BY <1>7 DEF Single
  <1>10. FileFirst'
    <2> SUFFICES ASSUME NEW u \in Uploads, Single(u)', kind'[u] = "image", pc'[u] # "idle"
                 PROVE  /\ pc'[u] \in {"chmod", "insert", "get", "ok"} => file[path'[u]] # NoFile
                        /\ pc'[u] \in Staged \cup {"create"} => row[path'[u]] = NoRow
                        /\ row[path'[u]] # NoRow => file[path'[u]] # NoFile
                        /\ pc'[u] \notin {"delete_file", "delete_row"}
      BY <1>2 DEF FileFirst
    <2>1. CASE u = r
      <3>1. row[p] = NoRow
        <4> SUFFICES ASSUME row[p] # NoRow PROVE FALSE
          OBVIOUS
        <4>1. row[p] \in Uploads \ {r} /\ path[row[p]] = p  BY <1>4 DEF RowOwn
        <4>2. path'[row[p]] = p /\ path'[r] = p  BY <1>1, <4>1
        <4> QED  BY <2>1, <4>1, <4>2 DEF Single, SamePath
      <3> QED  BY <2>1, <3>1, <1>1, <1>2
    <2>2. CASE u # r
      BY <2>2, <1>1, <1>2, <1>9 DEF FileFirst
    <2> QED  BY <2>1, <2>2
  <1>11. Leftovers'
    <2>1. ASSUME NEW u \in Uploads \ {r}
          PROVE  pc'[u] = pc[u] /\ path'[u] = path[u] /\ (Single(u)' /\ pc[u] # "idle" => Single(u))
      BY <1>1, <1>2, <1>9
    <2>2. pc'[r] = "create" /\ temp'[r] = NoFile
      BY <1>2 DEF Leftovers
    <2> QED
      BY <2>1, <2>2, <1>2 DEF Leftovers, Ended
  <1> QED  BY <1>5, <1>6, <1>8, <1>10, <1>11

LEMMA OperationRest ==
    ASSUME ImagesInv, RestInv, NEW r \in Uploads, Local(r), Does(r), path[r] \in Paths
    PROVE  RestInv'
  <1> USE ImagesAssumption DEF ImagesInv, TypeOK, RestInv
  <1>1. \A q \in Uploads : /\ Single(q)' = Single(q)
                           /\ \A u \in Uploads : SamePath(q, u)' = SamePath(q, u)
    BY DEF Local, Single, SamePath
  <1>2. \A p \in Paths \ {path[r]} : file'[p] = file[p] /\ row'[p] = row[p]
    BY DEF Local
  <1>3. row'[path[r]] \in {row[path[r]], r, NoRow}
    BY DEF Does, Kept
  <1>4. UNCHANGED <<path, kind>> /\ \A q \in Uploads \ {r} : pc'[q] = pc[q] /\ temp'[q] = temp[q]
    BY DEF Local
  <1>5. RowOwn'
    BY <1>2, <1>3, <1>4 DEF RowOwn
  <1>6. NonImagesLeave'
    <2> SUFFICES ASSUME NEW p \in Paths, row'[p] # NoRow, faults' = 0, kind[row'[p]] # "image"
                 PROVE  pc'[row'[p]] \in {"get", "delete_file", "delete_row"}
      BY <1>4 DEF NonImagesLeave, Listed
    <2>1. faults = 0 /\ faults' = faults  BY DEF Does
    <2>2. CASE row'[p] = r
      <3>1. p = path[r]  BY <2>2, <1>4, <1>5 DEF RowOwn
      <3>2. CASE pc[r] = "insert"
        BY <2>1, <2>2, <3>2 DEF Does
      <3>3. CASE pc[r] # "insert"
        <4>1. row[p] = r /\ pc[r] # "delete_row"  BY <2>1, <2>2, <3>1, <3>3 DEF Does, Kept
        <4>2. pc[r] \in {"get", "delete_file"}
          BY <2>1, <2>2, <4>1 DEF NonImagesLeave, Listed
        <4> QED  BY <2>1, <2>2, <3>1, <4>1, <4>2 DEF Does, Kept
      <3> QED  BY <3>2, <3>3
    <2>3. CASE row'[p] # r
      <3>1. row'[p] = row[p] /\ row[p] \in Uploads \ {r}  BY <2>3, <1>2, <1>3
      <3> QED  BY <3>1, <2>1, <1>4 DEF NonImagesLeave, Listed
    <2> QED  BY <2>2, <2>3
  <1>7. Records'
    <2>1. \A q \in Uploads : pc[q] = "refused" => pc'[q] = "refused"
      BY <1>4 DEF Does, Staged
    <2>2. ASSUME NEW q \in Uploads,
                 (pc'[q] = "get" /\ row'[path[q]] = NoRow) \/ pc'[q] = "panicked"
          PROVE  \E u \in Uploads : SamePath(q, u) /\ pc'[u] = "refused"
      <3>1. CASE q = r
        <4>1. pc[r] = "get" /\ row[path[r]] = NoRow  BY <2>2, <3>1 DEF Does, Kept
        <4> QED  BY <3>1, <4>1, <2>1 DEF Records
      <3>2. CASE q # r /\ path[q] = path[r] /\ pc[r] = "delete_row" /\ pc'[r] = "refused"
        BY <3>2 DEF SamePath
      <3>3. CASE q # r /\ (pc[q] = "panicked" \/ row[path[q]] = NoRow)
        BY <2>1, <2>2, <3>3, <1>4 DEF Records
      <3> QED
        <4>1. CASE path[q] # path[r] /\ q # r
          <5>1. pc[q] = pc'[q]  BY <4>1, <1>4
          <5>2. path[q] \in Paths \/ pc[q] = "panicked"  BY <2>2, <5>1 DEF Working
          <5> QED  BY <4>1, <5>1, <5>2, <2>2, <3>3, <1>2
        <4>2. CASE path[q] = path[r] /\ q # r /\ pc[r] # "delete_row"
          <5>1. row'[path[q]] = NoRow => row[path[q]] = NoRow
            BY <4>2 DEF Does, Kept
          <5> QED  BY <4>2, <5>1, <2>2, <3>3, <1>4
        <4>3. CASE path[q] = path[r] /\ q # r /\ pc[r] = "delete_row"
          <5>1. pc'[r] = "refused"  BY <4>3 DEF Does, Staged
          <5> QED  BY <4>3, <5>1, <3>2
        <4> QED  BY <3>1, <4>1, <4>2, <4>3
    <2> QED  BY <2>2, <1>1, <1>4 DEF Records
  <1>8. FileFirst'
    <2> SUFFICES ASSUME NEW q \in Uploads, Single(q), kind[q] = "image", pc'[q] # "idle"
                 PROVE  /\ pc'[q] \in {"chmod", "insert", "get", "ok"} => file'[path[q]] # NoFile
                        /\ pc'[q] \in Staged \cup {"create"} => row'[path[q]] = NoRow
                        /\ row'[path[q]] # NoRow => file'[path[q]] # NoFile
                        /\ pc'[q] \notin {"delete_file", "delete_row"}
      BY <1>1, <1>4 DEF FileFirst
    <2>1. CASE q = r
      <3>1. pc[r] # "idle"  BY DEF Local, Working, Staged
      <3>2. /\ pc[r] \in {"chmod", "insert", "get", "ok"} => file[path[r]] # NoFile
            /\ pc[r] \in Staged \cup {"create"} => row[path[r]] = NoRow
            /\ row[path[r]] # NoRow => file[path[r]] # NoFile
            /\ pc[r] \notin {"delete_file", "delete_row"}
        BY <2>1, <3>1 DEF FileFirst
      <3>3. row[path[r]] \in {r, NoRow}
        <4> SUFFICES ASSUME row[path[r]] # NoRow, row[path[r]] # r PROVE FALSE
          OBVIOUS
        <4> QED  BY <2>1 DEF RowOwn, Single, SamePath
      <3>4. /\ pc'[r] \in {"chmod", "insert", "get", "ok"} => file'[path[r]] # NoFile
            /\ pc'[r] \in Staged \cup {"create"} => row'[path[r]] = NoRow
            /\ row'[path[r]] # NoRow => file'[path[r]] # NoFile
            /\ pc'[r] \notin {"delete_file", "delete_row"}
        BY <2>1, <3>2, <3>3 DEF Does, Kept, Staged
      <3> QED  BY <2>1, <3>4
    <2>2. CASE q # r
      <3>1. pc'[q] = pc[q] /\ path[q] # path[r] /\ path[q] \in Paths
        BY <2>2, <1>4 DEF Single, SamePath, Fresh
      <3> QED  BY <3>1, <1>2 DEF FileFirst
    <2> QED  BY <2>1, <2>2
  <1>9. Leftovers'
    <2>1. faults \in Nat /\ faults' >= faults  BY DEF Does
    <2>2. ASSUME NEW q \in Uploads \ {r}
          PROVE  /\ pc'[q] = pc[q] /\ temp'[q] = temp[q]
                 /\ pc[q] = "remove_old" /\ Single(q) => file'[path[q]] = file[path[q]]
      <3>1. pc[q] = "remove_old" /\ Single(q) => path[q] \in Paths \ {path[r]}
        BY DEF Single, SamePath, Working, Staged
      <3> QED  BY <3>1, <1>2, <1>4
    <2>3. /\ pc'[r] \in {"idle", "create", "chmod", "insert", "get", "delete_file", "delete_row"} =>
               temp'[r] = NoFile
          /\ pc'[r] = "remove_old" /\ Single(r) => file'[path[r]] # NoFile
      BY DEF Does, Kept, Leftovers, Local
    <2>4. pc'[r] = "cleanup" => faults' >= 1 \/ ~Single(r)
      BY <2>1 DEF Does, Leftovers
    <2>5. pc'[r] \in Ended /\ temp'[r] # NoFile => faults' >= 2 \/ (faults' >= 1 /\ ~Single(r))
      BY <2>1 DEF Does, Leftovers, Ended
    <2> SUFFICES ASSUME NEW q \in Uploads
                 PROVE  /\ pc'[q] \in {"idle", "create", "chmod", "insert", "get", "delete_file",
                                         "delete_row"} => temp'[q] = NoFile
                        /\ pc'[q] = "remove_old" /\ Single(q) => file'[path[q]] # NoFile
                        /\ pc'[q] = "cleanup" => faults' >= 1 \/ ~Single(q)
                        /\ pc'[q] \in Ended /\ temp'[q] # NoFile =>
                               faults' >= 2 \/ (faults' >= 1 /\ ~Single(q))
      BY <1>1, <1>4 DEF Leftovers
    <2>7. CASE q = r
      BY <2>3, <2>4, <2>5, <2>7
    <2>8. CASE q # r
      <3>1. /\ pc[q] \in {"idle", "create", "chmod", "insert", "get", "delete_file", "delete_row"}
                   => temp[q] = NoFile
            /\ pc[q] = "remove_old" /\ Single(q) => file[path[q]] # NoFile
            /\ pc[q] = "cleanup" => faults >= 1 \/ ~Single(q)
            /\ pc[q] \in Ended /\ temp[q] # NoFile => faults >= 2 \/ (faults >= 1 /\ ~Single(q))
        BY DEF Leftovers
      <3>2. (faults >= 1 => faults' >= 1) /\ (faults >= 2 => faults' >= 2)
        <4>1. faults \in Nat /\ (faults' = faults \/ faults' = faults + 1)  BY DEF Does
        <4> QED  BY <4>1
      <3> HIDE DEF ImagesInv, TypeOK, RestInv
      <3> QED  BY <2>2, <2>8, <3>1, <3>2
    <2> QED  BY <2>7, <2>8
  <1> QED  BY <1>5, <1>6, <1>7, <1>8, <1>9

LEMMA CrashRest == ASSUME ImagesInv, RestInv, Crash PROVE RestInv'
  <1> USE DEF ImagesInv, TypeOK, RestInv
  <1>1. \A r \in Uploads : pc'[r] = pc[r] \/ pc'[r] = "dead"
    BY DEF Crash
  <1>2. UNCHANGED <<file, temp, row, path, kind>> /\ faults' = faults + 1 /\ faults \in Nat
    BY DEF Crash
  <1>3. \A r, q \in Uploads : SamePath(r, q)' = SamePath(r, q) /\ Single(r)' = Single(r)
    BY <1>2 DEF SamePath, Single
  <1>4. \A r \in Uploads : pc[r] = "refused" => pc'[r] = "refused"
    BY DEF Crash, Working, Staged
  <1>5. RowOwn' /\ NonImagesLeave'
    BY <1>2 DEF RowOwn, NonImagesLeave
  <1>6. Records'
    BY <1>1, <1>2, <1>3, <1>4 DEF Records
  <1>7. FileFirst'
    BY <1>1, <1>2, <1>3 DEF FileFirst, Crash, Working, Staged
  <1>8. Leftovers'
    BY <1>1, <1>2, <1>3 DEF Leftovers, Ended
  <1> QED  BY <1>5, <1>6, <1>7, <1>8

LEMMA RestStep == ImagesInv /\ RestInv /\ [Next]_vars => RestInv'
  <1> SUFFICES ASSUME ImagesInv, RestInv, [Next]_vars PROVE RestInv'
    OBVIOUS
  <1>1. CASE UNCHANGED vars
    BY <1>1 DEF vars, RestInv, RowOwn, NonImagesLeave, Listed, Records, FileFirst,
         Leftovers, Single, SamePath
  <1> QED
    BY <1>1, PostRest, OperationRest, Operations, CrashRest DEF Next

\* The invariant of rows, records and temporary files.
THEOREM RestInvariant == Spec => []RestInv
  <1>1. ImagesInv /\ [Next]_vars => ImagesInv'
    BY InvStep
  <1> QED
    BY InitInv, <1>1, InitRest, RestStep, PTL DEF Spec

\* NonImagesLeave: without failures, what is not an image is on its way out.
THEOREM NonImagesGo == Spec => []NonImagesLeave
  <1>1. RestInv => NonImagesLeave
    BY DEF RestInv
  <1> QED
    BY RestInvariant, <1>1, PTL

\* NilRecordOnlyByCollision: the handler panics only where an upload to the same
\* path was refused.
THEOREM PanicOnlyByCollision == Spec => []NilRecordOnlyByCollision
  <1>1. RestInv => NilRecordOnlyByCollision
    BY DEF RestInv, Records, NilRecordOnlyByCollision
  <1> QED
    BY RestInvariant, <1>1, PTL

\* GalleryShowsImages: a listed image without a file shared its path, or was none.
THEOREM GalleryHasFiles == Spec => []GalleryShowsImages
  <1>1. ImagesInv /\ RestInv => GalleryShowsImages
    <2> SUFFICES ASSUME ImagesInv, RestInv, NEW p \in Paths, row[p] # NoRow, file[p] = NoFile,
                        \A r \in Uploads : path[r] = p => kind[r] # "other"
                 PROVE  \E r, q \in Uploads : path[r] = p /\ SamePath(r, q)
      BY DEF GalleryShowsImages, Listed, Served
    <2>1. row[p] \in Uploads /\ path[row[p]] = p /\ kind[row[p]] = "image" /\ pc[row[p]] # "idle"
      BY ImagesAssumption DEF ImagesInv, RestInv, RowOwn, TypeOK, Fresh
    <2>2. ~Single(row[p])
      BY <2>1 DEF RestInv, FileFirst
    <2> QED  BY <2>1, <2>2 DEF Single
  <1> QED
    BY ImagesInvariant, RestInvariant, <1>1, PTL

\* TempsRemoved: a temporary file is left behind only if two things went wrong.
THEOREM TempsTidied == Spec => []TempsRemoved
  <1>1. ImagesInv /\ RestInv => TempsRemoved
    BY DEF ImagesInv, TypeOK, RestInv, Leftovers, TempsRemoved, Single
  <1> QED
    BY ImagesInvariant, RestInvariant, <1>1, PTL
=============================================================================
