----------------------------- MODULE UserStore -----------------------------
(***************************************************************************)
(* The user part of auth.SQLiteStore (auth/sqlstore.go) over the document  *)
(* store (database/store.go), as a machine of calls.                       *)
(*                                                                         *)
(* A user is two documents, user:<id> and email:<email>, and the document  *)
(* store has no transaction over both: each Put, Get or Delete is a step   *)
(* here.  The mutex s.mu orders the locked methods of one operating-system *)
(* process only; `admin create` runs in a process of its own over the same *)
(* database.  GetByEmail, GetByID and CountByRole do not lock.             *)
(*                                                                         *)
(* A request makes one call at a time: Accounts starts a call by putting   *)
(* the request at the call's first step, the steps below carry it out, and *)
(* leave it at "returned" with an answer.  Entering a locked method and    *)
(* its first document operation are one step, as are the last operation    *)
(* and the deferred unlock.                                                *)
(*                                                                         *)
(* An email is a name and whether it is in normal form (lower case, no     *)
(* blanks around it); passwords and timestamps are left out.               *)
(***************************************************************************)
EXTENDS Naturals, FiniteSets

CONSTANTS
    Requests,    \* HTTP requests and command-line runs, each made at most once
    LegacyIds,   \* ids of the users that are there at the start
    LegacyForms, \* the forms of their emails: "mixed" from before normalisation
    Names,       \* what is left of an email without its case
    Procs,       \* operating-system processes that share the database
    ProcOf,      \* the process that serves each request
    NoId, NoUser, NoOne,
    Faults,      \* which of "fail", "crash" may happen
    MaxFaults    \* bound on how many do

\* CreateUser draws a random id: the id of the user that request r creates is r.
Ids == Requests \cup LegacyIds

ASSUME StoreAssumption ==
    /\ Requests \cap LegacyIds = {}
    /\ ProcOf \in [Requests -> Procs]
    /\ NoId \notin Ids /\ NoOne \notin Requests
    /\ LegacyForms \subseteq {"lower", "mixed"}
    /\ Faults \subseteq {"fail", "crash"}
    /\ MaxFaults \in Nat

Emails == [name : Names, form : {"lower", "mixed"}]
Roles == {"member", "admin"}
FormRoles == Roles \cup {"ADMIN", "other"}
User == [email : Emails, role : Roles]

ASSUME DocumentAssumption == Names # {} /\ NoUser \notin User

normalizeEmail(e) == [e EXCEPT !.form = "lower"]

\* Mutant: a role is stored as it was typed.
normalizeRoleAsTyped(role) == role

\* A role as typed: in capitals, and one that is not a role.
normalizeRole(role) == IF role = "ADMIN" THEN "admin" ELSE role

VARIABLES
    users,       \* users[id]: the document user:<id>, or NoUser
    index,       \* index[e]: the id in the document email:<e>, or NoId
    mu,          \* mu[p]: the request that holds s.mu of process p, or NoOne
    at,          \* at[r]: the next step of r's call, "none" or "returned"
    frame,       \* frame[r]: the parameters and variables of r's call
    answer,      \* answer[r]: what r's last call returned
    faults,      \* number of failed operations and crashes so far
    steady       \* history: the users an answer to r's lookup could be, all along

storeVars == <<users, index, mu, at, frame, answer, faults, steady>>

Locked == {"create_put_user", "create_put_index", "create_undo", "update_put",
           "delete_user", "delete_index", "reindex_put_user", "reindex_put_index",
           "reindex_delete_old", "consume_put"}
Unlocked == {"create_check", "update_read", "delete_read", "reindex_read",
             "lookup_index", "lookup_user", "scan_list", "scan_read",
             "count_list", "count_read", "consume_read"}

Frame == [email : Emails, id : Ids \cup {NoId}, role : Roles,
          doc : User \cup {NoUser}, todo : SUBSET Ids, n : Nat]
Answer == [err : {"nil", "exists", "notfound", "failed", "invite"},
           id : Ids \cup {NoId}, role : Roles, n : Nat]

SomeEmail == CHOOSE e \in Emails : e.form = "lower"
NoFrame == [email |-> SomeEmail, id |-> NoId, role |-> "member",
            doc |-> NoUser, todo |-> {}, n |-> 0]
NoAnswer == [err |-> "nil", id |-> NoId, role |-> "member", n |-> 0]
Failed(err) == [NoAnswer EXCEPT !.err = err]
Found(id, role) == [NoAnswer EXCEPT !.id = id, !.role = role]

StoreTypeOK ==
    /\ users \in [Ids -> User \cup {NoUser}]
    /\ index \in [Emails -> Ids \cup {NoId}]
    /\ mu \in [Procs -> Requests \cup {NoOne}]
    /\ at \in [Requests -> Locked \cup Unlocked \cup {"none", "returned", "dead"}]
    /\ frame \in [Requests -> Frame]
    /\ answer \in [Requests -> Answer]
    /\ faults \in 0..MaxFaults
    /\ steady \in [Requests -> SUBSET Ids]

\* A new database, or one left by a version that stored emails as typed.
StoreInit ==
    /\ users \in [Ids -> User \cup {NoUser}]
    /\ \A r \in Requests : users[r] = NoUser
    /\ \A id \in LegacyIds : users[id] # NoUser /\ users[id].email.form \in LegacyForms
    /\ \A id, jd \in LegacyIds : id # jd => users[id].email.name # users[jd].email.name
    /\ index = [e \in Emails |->
                  IF \E id \in LegacyIds : users[id].email = e
                  THEN CHOOSE id \in LegacyIds : users[id].email = e ELSE NoId]
    /\ mu = [p \in Procs |-> NoOne]
    /\ at = [r \in Requests |-> "none"]
    /\ frame = [r \in Requests |-> NoFrame]
    /\ answer = [r \in Requests |-> NoAnswer]
    /\ faults = 0
    /\ steady = [r \in Requests |-> {}]

-----------------------------------------------------------------------------
(* Steps of a call.                                                        *)

Owners(e) == {id \in Ids : users[id] # NoUser /\ normalizeEmail(users[id].email) = e}

\* Request r calls the method whose first step is s.
Call(r, s, f) ==
    /\ at' = [at EXCEPT ![r] = s]
    /\ frame' = [frame EXCEPT ![r] = f]
    /\ answer' = [answer EXCEPT ![r] = NoAnswer]
    /\ steady' = [steady EXCEPT ![r] = IF s = "lookup_index" THEN Owners(f.email) ELSE {}]

CreateUser(r, e, role) == Call(r, "create_check", [NoFrame EXCEPT !.email = e, !.role = role, !.id = r])
DeleteUser(r, id)      == Call(r, "delete_read", [NoFrame EXCEPT !.id = id])
UpdateRole(r, id, ro)  == Call(r, "update_read", [NoFrame EXCEPT !.id = id, !.role = normalizeRole(ro)])
GetByEmail(r, e)       == Call(r, "lookup_index", [NoFrame EXCEPT !.email = e])
CountByRole(r, role)   == Call(r, "count_list", [NoFrame EXCEPT !.role = role])

Goto(r, s) ==
    /\ at' = [at EXCEPT ![r] = s]
    /\ UNCHANGED answer

\* The document a call has read, the user it is about, the users it has to read.
SetFrame(r, f)        == frame' = [frame EXCEPT ![r] = f]
SetDoc(r, u)          == SetFrame(r, [frame[r] EXCEPT !.doc = u])
SetFound(r, id, role) == SetFrame(r, [frame[r] EXCEPT !.id = id, !.role = role, !.todo = {}])
ListUsers(r)          == SetFrame(r, [frame[r] EXCEPT !.todo = {id \in Ids : users[id] # NoUser}])
SkipUser(r, id)       == SetFrame(r, [frame[r] EXCEPT !.todo = @ \ {id}])

Return(r, a) ==
    /\ at' = [at EXCEPT ![r] = "returned"]
    /\ answer' = [answer EXCEPT ![r] = a]
    /\ SetFrame(r, NoFrame)

\* s.mu.Lock() and the deferred s.mu.Unlock().
MutexFree(r) == mu[ProcOf[r]] = NoOne
Lock(r) == mu' = [mu EXCEPT ![ProcOf[r]] = r]
Unlock(r) == mu' = [mu EXCEPT ![ProcOf[r]] = IF @ = r THEN NoOne ELSE @]

\* Documents written and removed by a step.
SetUser(id, u) ==
    /\ users' = [users EXCEPT ![id] = u]
    /\ steady' = IF u = NoUser THEN [r \in Requests |-> steady[r] \ {id}] ELSE steady
SetIndex(e, id) == index' = [index EXCEPT ![e] = id]
SameDocs == UNCHANGED <<users, index, steady>>

MayFail == "fail" \in Faults /\ faults < MaxFaults /\ faults' = faults + 1

-----------------------------------------------------------------------------
(* createUserWithRole                                                      *)

\* Mutant: the early return does not unlock.
CreateCheckKeepsLock(r) ==
    /\ at[r] = "create_check"
    /\ MutexFree(r)
    /\ Lock(r)
    /\ IF index[frame[r].email] # NoId
       THEN Return(r, Failed("exists"))
       ELSE Goto(r, "create_put_user") /\ UNCHANGED frame
    /\ SameDocs /\ UNCHANGED faults

\* The error of this Get is ignored: a failed read counts as no such email.
\* bcrypt refuses a password of more than 72 bytes.
CreateCheck(r) ==
    /\ at[r] = "create_check"
    /\ MutexFree(r)
    /\ \/ /\ index[frame[r].email] # NoId
          /\ Return(r, Failed("exists"))
          /\ UNCHANGED <<mu, faults>>
       \/ /\ index[frame[r].email] = NoId
          /\ Return(r, Failed("failed"))
          /\ UNCHANGED <<mu, faults>>
       \/ /\ \/ index[frame[r].email] = NoId /\ UNCHANGED faults
             \/ MayFail
          /\ Lock(r) /\ Goto(r, "create_put_user")
          /\ UNCHANGED frame
    /\ SameDocs

CreatePutUser(r) ==
    /\ at[r] = "create_put_user"
    /\ SetUser(frame[r].id, [email |-> frame[r].email, role |-> frame[r].role])
    /\ Goto(r, "create_put_index")
    /\ UNCHANGED <<index, mu, frame, faults>>

CreatePutIndex(r) ==
    /\ at[r] = "create_put_index"
    /\ \/ /\ SetIndex(frame[r].email, frame[r].id)
          /\ Unlock(r)
          /\ Return(r, Found(frame[r].id, frame[r].role))
          /\ UNCHANGED faults
       \/ /\ MayFail
          /\ Goto(r, "create_undo")
          /\ UNCHANGED <<index, mu, frame>>
    /\ UNCHANGED <<users, steady>>

\* The error of this Delete is ignored.
CreateUndo(r) ==
    /\ at[r] = "create_undo"
    /\ \/ SetUser(frame[r].id, NoUser) /\ UNCHANGED faults
       \/ MayFail /\ UNCHANGED <<users, steady>>
    /\ Unlock(r)
    /\ Return(r, Failed("failed"))
    /\ UNCHANGED index

-----------------------------------------------------------------------------
(* UpdateRole                                                              *)

UpdateRead(r) ==
    /\ at[r] = "update_read"
    /\ MutexFree(r)
    /\ \/ /\ users[frame[r].id] = NoUser
          /\ Return(r, Failed("notfound"))
          /\ UNCHANGED mu
       \/ /\ users[frame[r].id] # NoUser
          /\ SetDoc(r, users[frame[r].id])
          /\ Lock(r) /\ Goto(r, "update_put")
    /\ SameDocs /\ UNCHANGED faults

UpdatePut(r) ==
    /\ at[r] = "update_put"
    /\ SetUser(frame[r].id, [frame[r].doc EXCEPT !.role = frame[r].role])
    /\ Unlock(r)
    /\ Return(r, Found(frame[r].id, frame[r].role))
    /\ UNCHANGED <<index, faults>>

-----------------------------------------------------------------------------
(* DeleteUser: the user document first, then the index entry of its email. *)

DeleteRead(r) ==
    /\ at[r] = "delete_read"
    /\ MutexFree(r)
    /\ \/ /\ users[frame[r].id] = NoUser
          /\ Return(r, Failed("notfound"))
          /\ UNCHANGED mu
       \/ /\ users[frame[r].id] # NoUser
          /\ SetDoc(r, users[frame[r].id])
          /\ Lock(r) /\ Goto(r, "delete_user")
    /\ SameDocs /\ UNCHANGED faults

DeleteUserDoc(r) ==
    /\ at[r] = "delete_user"
    /\ SetUser(frame[r].id, NoUser)
    /\ Goto(r, "delete_index")
    /\ UNCHANGED <<index, mu, frame, faults>>

DeleteIndex(r) ==
    /\ at[r] = "delete_index"
    /\ SetIndex(frame[r].doc.email, NoId)
    /\ Unlock(r)
    /\ Return(r, NoAnswer)
    /\ UNCHANGED <<users, steady, faults>>

-----------------------------------------------------------------------------
(* GetByEmail: through the index, or by a scan of all the users.           *)

\* Mutant: no backfill for an email without index entry.
LookupIndexOnly(r) ==
    /\ at[r] = "lookup_index"
    /\ LET id == index[frame[r].email] IN
          IF id = NoId
          THEN Return(r, Failed("notfound"))
          ELSE Goto(r, "lookup_user") /\ SetFound(r, id, frame[r].role)
    /\ SameDocs /\ UNCHANGED <<mu, faults>>

LookupIndex(r) ==
    /\ at[r] = "lookup_index"
    /\ LET id == index[frame[r].email] IN
          IF id = NoId
          THEN Goto(r, "scan_list") /\ UNCHANGED frame
          ELSE Goto(r, "lookup_user") /\ SetFound(r, id, frame[r].role)
    /\ SameDocs /\ UNCHANGED <<mu, faults>>

\* userFromEmailIndex
LookupUser(r) ==
    /\ at[r] = "lookup_user"
    /\ LET u == users[frame[r].id] IN
          \/ u = NoUser /\ Return(r, Failed("notfound"))
          \/ /\ u # NoUser /\ u.email = frame[r].email
             /\ Return(r, Found(frame[r].id, u.role))
          \/ /\ u # NoUser /\ u.email # frame[r].email
             /\ Goto(r, "reindex_read")
             /\ SetFound(r, frame[r].id, u.role)
    /\ SameDocs /\ UNCHANGED <<mu, faults>>

\* listIDsWithPrefix
ScanList(r) ==
    /\ at[r] = "scan_list"
    /\ Goto(r, "scan_read")
    /\ ListUsers(r)
    /\ SameDocs /\ UNCHANGED <<mu, faults>>

\* Mutants: any listed user is the answer; any listed user is made the owner of
\* the email.
ScanReadFirstUser(r) ==
    /\ at[r] = "scan_read"
    /\ \/ /\ frame[r].todo = {}
          /\ Return(r, Failed("notfound"))
       \/ \E id \in frame[r].todo :
             /\ users[id] # NoUser
             /\ Return(r, Found(id, users[id].role))
    /\ SameDocs /\ UNCHANGED <<mu, faults>>

ScanReadAnyUser(r) ==
    /\ at[r] = "scan_read"
    /\ \/ /\ frame[r].todo = {}
          /\ Return(r, Failed("notfound"))
       \/ \E id \in frame[r].todo :
             /\ users[id] # NoUser
             /\ Goto(r, "reindex_read")
             /\ SetFound(r, id, users[id].role)
    /\ SameDocs /\ UNCHANGED <<mu, faults>>

\* The listed users one by one, in the order the database returned them; one
\* that is gone or cannot be read is skipped.
ScanRead(r) ==
    /\ at[r] = "scan_read"
    /\ \/ /\ frame[r].todo = {}
          /\ Return(r, Failed("notfound"))
          /\ UNCHANGED faults
       \/ \E id \in frame[r].todo :
             IF users[id] # NoUser /\ normalizeEmail(users[id].email) = frame[r].email
             THEN /\ Goto(r, "reindex_read")
                  /\ SetFound(r, id, users[id].role)
                  /\ UNCHANGED faults
             ELSE /\ SkipUser(r, id)
                  /\ UNCHANGED <<at, answer, faults>>
       \/ \E id \in frame[r].todo :
             /\ MayFail
             /\ SkipUser(r, id)
             /\ UNCHANGED <<at, answer>>
    /\ SameDocs /\ UNCHANGED mu

\* reindexUserEmail: GetByEmail ignores its error and answers with the user it
\* had read before.
ReindexDone(r) ==
    /\ Unlock(r)
    /\ Return(r, Found(frame[r].id, frame[r].role))

\* Mutant: the user is not read again under the lock.
ReindexReadNotFresh(r) ==
    /\ at[r] = "reindex_read"
    /\ MutexFree(r)
    /\ Lock(r)
    /\ SetDoc(r, [email |-> frame[r].email, role |-> frame[r].role])
    /\ Goto(r, "reindex_put_index")
    /\ SameDocs /\ UNCHANGED faults

ReindexRead(r) ==
    /\ at[r] = "reindex_read"
    /\ MutexFree(r)
    /\ LET fresh == users[frame[r].id] IN
          \/ fresh = NoUser /\ ReindexDone(r)
          \/ /\ fresh # NoUser
             /\ Lock(r)
             /\ SetDoc(r, fresh)
             /\ Goto(r, IF fresh.email # frame[r].email
                        THEN "reindex_put_user" ELSE "reindex_put_index")
    /\ SameDocs /\ UNCHANGED faults

\* Mutant: what GetByEmail had read before is written back.
ReindexPutUserStale(r) ==
    /\ at[r] = "reindex_put_user"
    /\ SetUser(frame[r].id, [email |-> frame[r].email, role |-> frame[r].role])
    /\ Goto(r, "reindex_put_index")
    /\ UNCHANGED <<index, mu, frame, faults>>

ReindexPutUser(r) ==
    /\ at[r] = "reindex_put_user"
    /\ SetUser(frame[r].id, [frame[r].doc EXCEPT !.email = frame[r].email])
    /\ Goto(r, "reindex_put_index")
    /\ UNCHANGED <<index, mu, frame, faults>>

ReindexPutIndex(r) ==
    /\ at[r] = "reindex_put_index"
    /\ SetIndex(frame[r].email, frame[r].id)
    /\ IF frame[r].doc.email = frame[r].email
       THEN ReindexDone(r)
       ELSE Goto(r, "reindex_delete_old") /\ UNCHANGED <<mu, frame>>
    /\ UNCHANGED <<users, steady, faults>>

ReindexDeleteOld(r) ==
    /\ at[r] = "reindex_delete_old"
    /\ SetIndex(frame[r].doc.email, NoId)
    /\ ReindexDone(r)
    /\ UNCHANGED <<users, steady, faults>>

-----------------------------------------------------------------------------
(* CountByRole: ListUsers, then a count; users are read one by one.        *)

CountList(r) ==
    /\ at[r] = "count_list"
    /\ Goto(r, "count_read")
    /\ ListUsers(r)
    /\ SameDocs /\ UNCHANGED <<mu, faults>>

CountRead(r) ==
    /\ at[r] = "count_read"
    /\ \/ /\ frame[r].todo = {}
          /\ Return(r, [NoAnswer EXCEPT !.n = frame[r].n])
          /\ UNCHANGED faults
       \/ \E id \in frame[r].todo :
             /\ SetFrame(r, [frame[r] EXCEPT !.todo = @ \ {id},
                                !.n = IF users[id] # NoUser /\ users[id].role = frame[r].role
                                      THEN @ + 1 ELSE @])
             /\ UNCHANGED <<at, answer, faults>>
       \/ \E id \in frame[r].todo :
             /\ MayFail
             /\ SkipUser(r, id)
             /\ UNCHANGED <<at, answer>>
    /\ SameDocs /\ UNCHANGED mu

-----------------------------------------------------------------------------
(* Failures.                                                               *)

\* A document operation fails and the method returns the error ...
FailReturns == {"create_put_user", "update_read", "update_put", "delete_read",
                "delete_user", "delete_index", "lookup_index", "lookup_user",
                "scan_list", "count_list"}
\* ... or, in reindexUserEmail, GetByEmail drops it.
FailIgnored == {"reindex_read", "reindex_put_user", "reindex_put_index", "reindex_delete_old"}

OperationFails(r) ==
    /\ MayFail
    /\ at[r] \in {"update_read", "delete_read", "reindex_read"} => MutexFree(r)
    /\ \/ at[r] \in FailReturns /\ Unlock(r) /\ Return(r, Failed("failed"))
       \/ at[r] \in FailIgnored /\ ReindexDone(r)
    /\ SameDocs

StoreStep(r) ==
    \/ CreateCheck(r) \/ CreatePutUser(r) \/ CreatePutIndex(r) \/ CreateUndo(r)
    \/ UpdateRead(r) \/ UpdatePut(r)
    \/ DeleteRead(r) \/ DeleteUserDoc(r) \/ DeleteIndex(r)
    \/ LookupIndex(r) \/ LookupUser(r) \/ ScanList(r) \/ ScanRead(r)
    \/ ReindexRead(r) \/ ReindexPutUser(r) \/ ReindexPutIndex(r) \/ ReindexDeleteOld(r)
    \/ CountList(r) \/ CountRead(r)
    \/ OperationFails(r)
=============================================================================
