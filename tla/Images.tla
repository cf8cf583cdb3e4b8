------------------------------- MODULE Images -------------------------------
(***************************************************************************)
(* Image uploads: uploadImageHandler (home.go) over UploadImage, GetImage  *)
(* and DeleteImage of the document store (database/images.go).             *)
(*                                                                         *)
(* An image is a file under its path and a row of the table images, which  *)
(* nothing ties together: each file operation and each statement is a step *)
(* here, and any of them may fail or be the last one before a crash.       *)
(*                                                                         *)
(* A path is built from the clock and the file's name, and nothing keeps   *)
(* it from being taken already (two uploads in one tick of the clock, a    *)
(* clock set back), so an upload takes any path.  A file's content is the  *)
(* upload it came from, and whether all of it is there; a row is the       *)
(* upload whose type and size it has.  That no path leads out of "uploads" *)
(* is shown in ImagePaths; making it, and a directory below it for a       *)
(* backslash in an extension, is left out.                                 *)
(***************************************************************************)
EXTENDS Naturals

CONSTANTS
    Uploads,     \* the upload requests, each made at most once
    Paths,       \* the paths buildStoredImagePath may return
    NoFile, NoRow, NoPath,
    Faults,      \* which of "fail", "crash" may happen
    MaxFaults    \* bound on how many do

ASSUME ImagesAssumption ==
    /\ NoRow \notin Uploads /\ NoPath \notin Paths
    /\ NoFile \notin [by : Uploads, whole : BOOLEAN]
    /\ Faults \subseteq {"fail", "crash"}
    /\ MaxFaults \in Nat

VARIABLES
    file,        \* file[p]: the file under path p, or NoFile
    temp,        \* temp[r]: the temporary file of r, or NoFile
    row,         \* row[p]: the row of path p, or NoRow
    pc,          \* pc[r]: the next operation of r, or how it ended
    path, kind,  \* path[r], kind[r]: where r stores what it was sent
    faults,      \* number of failed operations and crashes so far
    alone        \* history: no other upload to r's path came while r ran or since

vars == <<file, temp, row, pc, path, kind, faults, alone>>

File == [by : Uploads, whole : BOOLEAN]
Staged == {"copy", "stat", "remove_old", "rename"}
Working == {"create", "cleanup", "chmod", "insert", "get", "delete_file", "delete_row"}
           \cup Staged
Ended == {"ok", "failed", "refused", "panicked"}

Init ==
    /\ file = [p \in Paths |-> NoFile]
    /\ temp = [r \in Uploads |-> NoFile]
    /\ row = [p \in Paths |-> NoRow]
    /\ pc = [r \in Uploads |-> "idle"]
    /\ path = [r \in Uploads |-> NoPath]
    /\ kind = [r \in Uploads |-> "other"]
    /\ faults = 0
    /\ alone = [r \in Uploads |-> FALSE]

Goto(r, s) == pc' = [pc EXCEPT ![r] = s]
SetFile(p, f) == file' = [file EXCEPT ![p] = f]
SetTemp(r, f) == temp' = [temp EXCEPT ![r] = f]
SetRow(p, who) == row' = [row EXCEPT ![p] = who]

-----------------------------------------------------------------------------
(* One upload.                                                             *)

SamePath(r, q) == r # q /\ path[q] = path[r]

\* A well-formed form with a file arrives, and gets its path.
Post(r) ==
    /\ pc[r] = "idle"
    /\ \E p \in Paths, k \in {"image", "other"} :
         /\ path' = [path EXCEPT ![r] = p]
         /\ kind' = [kind EXCEPT ![r] = k]
         /\ alone' = [q \in Uploads |->
                        IF q = r THEN \A u \in Uploads \ {r} : path[u] = p => pc[u] \notin Working
                        ELSE alone[q] /\ path[q] # p]
    /\ Goto(r, "create")
    /\ UNCHANGED <<file, temp, row, faults>>

\* An operation of UploadImage or DeleteImage: what else it changes follows it.
Operation(r, s) == pc[r] = s /\ UNCHANGED <<path, kind, faults, alone>>

CreateTemp(r) ==
    /\ Operation(r, "create")
    /\ SetTemp(r, [by |-> r, whole |-> FALSE])
    /\ Goto(r, "copy")
    /\ UNCHANGED <<file, row>>

\* Mutant: the row is written before the file is in place.
StatOldInserts(r) ==
    /\ Operation(r, "stat")
    /\ Goto(r, IF file[path[r]] = NoFile THEN "rename" ELSE "remove_old")
    /\ SetRow(path[r], r)
    /\ UNCHANGED <<file, temp>>

\* Copy and Close.
Copy(r) ==
    /\ Operation(r, "copy")
    /\ SetTemp(r, [temp[r] EXCEPT !.whole = TRUE])
    /\ Goto(r, "stat")
    /\ UNCHANGED <<file, row>>

StatOld(r) ==
    /\ Operation(r, "stat")
    /\ Goto(r, IF file[path[r]] = NoFile THEN "rename" ELSE "remove_old")
    /\ UNCHANGED <<file, temp, row>>

\* Mutant: the deferred removal runs, but the error of Remove does not end the upload.
RemoveOldGoesOn(r) ==
    /\ Operation(r, "remove_old")
    /\ SetFile(path[r], NoFile)
    /\ SetTemp(r, IF file[path[r]] = NoFile THEN NoFile ELSE temp[r])
    /\ Goto(r, "rename")
    /\ UNCHANGED row

\* The file that Stat saw may be gone, which is an error here.
RemoveOld(r) ==
    /\ Operation(r, "remove_old")
    /\ SetFile(path[r], NoFile)
    /\ Goto(r, IF file[path[r]] = NoFile THEN "cleanup" ELSE "rename")
    /\ UNCHANGED <<temp, row>>

Rename(r) ==
    /\ Operation(r, "rename")
    /\ SetFile(path[r], temp[r])
    /\ SetTemp(r, NoFile)
    /\ Goto(r, "chmod")
    /\ UNCHANGED row

Chmod(r) ==
    /\ Operation(r, "chmod")
    /\ Goto(r, IF file[path[r]] = NoFile THEN "failed" ELSE "insert")
    /\ UNCHANGED <<file, temp, row>>

\* Mutant: ON CONFLICT DO NOTHING.
InsertRowIfNew(r) ==
    /\ Operation(r, "insert")
    /\ SetRow(path[r], IF row[path[r]] = NoRow THEN r ELSE row[path[r]])
    /\ Goto(r, "get")
    /\ UNCHANGED <<file, temp>>

\* A row of the path is overwritten, but for its created_at.
InsertRow(r) ==
    /\ Operation(r, "insert")
    /\ SetRow(path[r], r)
    /\ Goto(r, "get")
    /\ UNCHANGED <<file, temp>>

\* The handler looks at the content type in the record, which may be of another
\* upload, or nil: then it panics.
GetRow(r) ==
    /\ Operation(r, "get")
    /\ LET record == row[path[r]] IN
         Goto(r, IF record = NoRow THEN "panicked"
                 ELSE IF kind[record] = "image" THEN "ok" ELSE "delete_file")
    /\ UNCHANGED <<file, temp, row>>

\* Mutant: a file that is not there is an error.
DeleteFileMustExist(r) ==
    /\ Operation(r, "delete_file")
    /\ SetFile(path[r], NoFile)
    /\ Goto(r, IF file[path[r]] = NoFile THEN "refused" ELSE "delete_row")
    /\ UNCHANGED <<temp, row>>

\* DeleteImage takes a file that is not there as removed.
DeleteFile(r) ==
    /\ Operation(r, "delete_file")
    /\ SetFile(path[r], NoFile)
    /\ Goto(r, "delete_row")
    /\ UNCHANGED <<temp, row>>

DeleteRow(r) ==
    /\ Operation(r, "delete_row")
    /\ SetRow(path[r], NoRow)
    /\ Goto(r, "refused")
    /\ UNCHANGED <<file, temp>>

\* The deferred removal of the temporary file.
Cleanup(r) ==
    /\ Operation(r, "cleanup")
    /\ SetTemp(r, NoFile)
    /\ Goto(r, "failed")
    /\ UNCHANGED <<file, row>>

\* Mutant: the error of io.Copy is dropped.
AfterFailureOfCopy(s) ==
    CASE s = "copy" -> "stat"
      [] s \in Staged -> "cleanup"
      [] s \in {"delete_file", "delete_row"} -> "refused"
      [] OTHER -> "failed"

\* Mutant: the error of the INSERT is dropped.
AfterFailureOfInsert(s) ==
    CASE s = "insert" -> "get"
      [] s \in Staged -> "cleanup"
      [] s \in {"delete_file", "delete_row"} -> "refused"
      [] OTHER -> "failed"

\* Mutant: keepTemp is set before the rename.
AfterFailureOfRename(s) ==
    CASE s \in Staged \ {"rename"} -> "cleanup"
      [] s \in {"delete_file", "delete_row"} -> "refused"
      [] OTHER -> "failed"

\* Where an operation that fails leaves the upload.  After the rename nothing
\* is undone, and the errors of the removal and of DeleteImage are ignored.
AfterFailure(s) ==
    CASE s \in Staged -> "cleanup"
      [] s \in {"delete_file", "delete_row"} -> "refused"
      [] OTHER -> "failed"

OperationFails(r) ==
    /\ "fail" \in Faults /\ faults < MaxFaults
    /\ pc[r] \in Working
    /\ Goto(r, AfterFailure(pc[r]))
    /\ faults' = faults + 1
    /\ UNCHANGED <<file, temp, row, path, kind, alone>>

UploadStep(r) ==
    \/ Post(r) \/ CreateTemp(r) \/ Copy(r) \/ StatOld(r) \/ RemoveOld(r)
    \/ Rename(r) \/ Chmod(r) \/ InsertRow(r) \/ GetRow(r)
    \/ DeleteFile(r) \/ DeleteRow(r) \/ Cleanup(r) \/ OperationFails(r)

\* The server dies between two steps; what is on disk stays, temporary files too.
Crash ==
    /\ "crash" \in Faults /\ faults < MaxFaults
    /\ \E r \in Uploads : pc[r] \in Working
    /\ pc' = [r \in Uploads |-> IF pc[r] \in Working THEN "dead" ELSE pc[r]]
    /\ faults' = faults + 1
    /\ UNCHANGED <<file, temp, row, path, kind, alone>>

Next == Crash \/ \E r \in Uploads : UploadStep(r)

Spec == Init /\ [][Next]_vars
-----------------------------------------------------------------------------
(* What visitors see.                                                      *)

\* The home page lists the rows; a file is served under its path, row or not.
Listed == {p \in Paths : row[p] # NoRow}
Served == {p \in Paths : file[p] # NoFile}
-----------------------------------------------------------------------------
(* Properties.                                                             *)

\* The shape of the state; an upload that is about to rename still has its
\* temporary file, also after another one took the old file away under it.
TypeOK ==
    /\ file \in [Paths -> File \cup {NoFile}]
    /\ temp \in [Uploads -> File \cup {NoFile}]
    /\ row \in [Paths -> Uploads \cup {NoRow}]
    /\ pc \in [Uploads -> {"idle", "dead"} \cup Working \cup Ended]
    /\ path \in [Uploads -> Paths \cup {NoPath}]
    /\ kind \in [Uploads -> {"image", "other"}]
    /\ faults \in 0..MaxFaults
    /\ alone \in [Uploads -> BOOLEAN]
    /\ \A r \in Uploads : pc[r] \in Staged => temp[r] # NoFile
    /\ \A r \in Uploads : pc[r] \in Working => path[r] \in Paths

\* What is served under a path is always the whole of one upload to it, whatever
\* failed and whenever the server died.
WholeFiles ==
    \A p \in Paths : file[p] # NoFile => file[p].whole /\ path[file[p].by] = p

\* "uploaded ..." means that file and row are there and belong together, and stay,
\* for an upload whose path no other one uses at the time or later; the path may
\* have been used before.
UploadedStays ==
    \A r \in Uploads : pc[r] = "ok" /\ alone[r] =>
        /\ file[path[r]] = [by |-> r, whole |-> TRUE]
        /\ row[path[r]] = r

\* The gallery lists an image whose file is missing only if DeleteImage was at
\* work there for what is not an image, or a second upload took the path.
GalleryShowsImages ==
    \A p \in Listed \ Served :
        \/ \E r \in Uploads : path[r] = p /\ kind[r] = "other"
        \/ \E r, q \in Uploads : path[r] = p /\ SamePath(r, q)

\* What is not an image stays listed only between its row and the handler's look
\* at it, in whatever order uploads to one path run, as long as nothing fails.
NonImagesLeave ==
    \A p \in Listed : faults = 0 =>
        \/ kind[row[p]] = "image"
        \/ pc[row[p]] \in {"get", "delete_file", "delete_row"}

\* The handler uses a nil record only if an upload to the same path was refused.
NilRecordOnlyByCollision ==
    \A r \in Uploads : pc[r] = "panicked" =>
        \E q \in Uploads : SamePath(r, q) /\ pc[q] = "refused"

\* A temporary file outlives its upload's answer only if two things went wrong:
\* the upload, by a failure or by losing the old file to another one, and the
\* removal.
TempsRemoved ==
    \A r \in Uploads : pc[r] \in Ended /\ temp[r] # NoFile =>
        \/ faults >= 2
        \/ faults = 1 /\ \E q \in Uploads : SamePath(r, q)
=============================================================================
