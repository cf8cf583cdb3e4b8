------------------------------ MODULE Accounts ------------------------------
(***************************************************************************)
(* The handlers that change accounts, as clients of UserStore:             *)
(*                                                                         *)
(*   auth/handlers.go     registerHandler, loginHandler                    *)
(*   admin/handlers.go    userRoleHandler, registrationModeHandler,        *)
(*                        inviteCreateHandler, requireAdmin                *)
(*   admin/bootstrap.go   HandleCLI (`admin create`), through EnsureAdmin  *)
(*   auth/sqlstore.go     the registration mode and the invites            *)
(*                                                                         *)
(* net/http serves every request in a goroutine of its own; a handler is   *)
(* the sequence of phases of its request.  What a handler only displays    *)
(* (lists of users and invites, pages, messages) is left out.              *)
(***************************************************************************)
EXTENDS UserStore

CONSTANTS
    Registrations, Logins, RoleChanges, PanelPosts, AdminCreates, \* the requests, by kind
    Tokens,      \* invite tokens
    NoToken,     \* the empty invite_token
    InitialModes \* the modes the database may be in at the start

ASSUME KindAssumption ==
    /\ Requests = Registrations \cup Logins \cup RoleChanges \cup PanelPosts \cup AdminCreates
    /\ LET kinds == <<Registrations, Logins, RoleChanges, PanelPosts, AdminCreates>> IN
          \A i, j \in 1..5 : i # j => kinds[i] \cap kinds[j] = {}
    /\ NoToken \notin Tokens
    /\ InitialModes \subseteq {"open", "invite_only", "closed"}

VARIABLES
    mode,        \* the document config:registration_mode
    invites,     \* the documents invite:<token>
    phase,       \* phase[r]: where the handler of r is
    input,       \* input[r]: the form values and variables of the handler of r
    subject      \* subject[r]: the user that login r opened a session for, or that
                 \* admin create r made an admin; NoId before

handlerVars == <<mode, invites, phase, input, subject>>
vars == <<storeVars, handlerVars>>

Modes == {"open", "invite_only", "closed"}
Invite == [state : {"absent", "live", "expired"}, ttl : BOOLEAN, usedBy : Ids \cup {NoId}]
Input == [email : Emails, token : Tokens \cup {NoToken}, id : Ids \cup {NoId}, role : FormRoles]
NoInput == [email |-> SomeEmail, token |-> NoToken, id |-> NoId, role |-> "member"]

Phases == {"idle", "open", "invite", "consume", "rollback",
           "verify", "reload", "session",
           "target", "count", "update", "panel", "ensure", "promote",
           "ok", "invited", "error", "panicked", "dead"}
Ended == {"ok", "invited", "error", "panicked", "dead"}

TypeOK ==
    /\ StoreTypeOK
    /\ mode \in Modes
    /\ invites \in [Tokens -> Invite]
    /\ phase \in [Requests -> Phases]
    /\ input \in [Requests -> Input]
    /\ subject \in [Requests -> Ids \cup {NoId}]

Init ==
    /\ StoreInit
    /\ mode \in InitialModes
    /\ invites \in [Tokens -> {i \in Invite : i.usedBy = NoId /\ i.state # "expired"
                                             /\ (i.state = "absent" => ~i.ttl)}]
    /\ phase = [r \in Requests |-> "idle"]
    /\ input = [r \in Requests |-> NoInput]
    /\ subject = [r \in Requests |-> NoId]

-----------------------------------------------------------------------------
Enter(r, p) == phase' = [phase EXCEPT ![r] = p]

\* The handler of r ends, and its variables with it.
End(r, p) ==
    /\ Enter(r, p)
    /\ at' = [at EXCEPT ![r] = "none"]
    /\ answer' = [answer EXCEPT ![r] = NoAnswer]
    /\ steady' = [steady EXCEPT ![r] = {}]
    /\ input' = [input EXCEPT ![r] = NoInput]
    /\ UNCHANGED frame

SameStore == UNCHANGED <<users, index, mu, faults>>
NoCall == UNCHANGED <<at, frame, answer, steady>>
SameSetup == UNCHANGED <<mode, invites>>

Returned(r, p) == phase[r] = p /\ at[r] = "returned"
Err(r) == answer[r].err

Form(r, e, t, id, role) ==
    input' = [input EXCEPT ![r] = [email |-> e, token |-> t, id |-> id, role |-> role]]

\* A document operation of the handler itself fails; it has changed nothing yet.
HandlerFails(r) ==
    /\ phase[r] \in {"target", "session", "panel"}
    /\ MayFail
    /\ End(r, "error")
    /\ UNCHANGED <<users, index, mu, mode, invites, subject>>

-----------------------------------------------------------------------------
(* registerHandler                                                         *)

\* The mode is read; the form has an email, normalised, a password and maybe a
\* token.
Register(r) ==
    /\ r \in Registrations /\ phase[r] = "idle"
    /\ \E n \in Names, t \in Tokens \cup {NoToken} :
          LET e == normalizeEmail([name |-> n, form |-> "mixed"]) IN
          \/ mode = "closed" /\ End(r, "error")
          \/ /\ mode = "open"
             /\ CreateUser(r, e, "member")
             /\ Enter(r, "open") /\ UNCHANGED input
          \/ mode = "invite_only" /\ t = NoToken /\ End(r, "error")
          \/ /\ mode = "invite_only" /\ t # NoToken
             /\ CreateUser(r, e, "member")
             /\ Enter(r, "invite") /\ Form(r, e, t, NoId, "member")
    /\ SameStore /\ SameSetup /\ UNCHANGED subject

RegisteredOpen(r) ==
    /\ Returned(r, "open")
    /\ End(r, IF Err(r) = "nil" THEN "ok" ELSE "error")
    /\ SameStore /\ SameSetup /\ UNCHANGED subject

RegisteredInvite(r) ==
    /\ Returned(r, "invite")
    /\ \/ Err(r) # "nil" /\ End(r, "error")
       \/ /\ Err(r) = "nil"
          /\ Call(r, "consume_read", [NoFrame EXCEPT !.id = answer[r].id])
          /\ Enter(r, "consume") /\ UNCHANGED input
    /\ SameStore /\ SameSetup /\ UNCHANGED subject

\* Mutant: a used invite is good for another account.
ConsumeReadUsed(r) ==
    /\ at[r] = "consume_read"
    /\ MutexFree(r)
    /\ IF invites[input[r].token].state = "live"
       THEN Lock(r) /\ Goto(r, "consume_put") /\ UNCHANGED frame
       ELSE Return(r, Failed("invite")) /\ UNCHANGED mu
    /\ SameDocs /\ UNCHANGED <<faults, handlerVars>>

\* ConsumeInvite
ConsumeRead(r) ==
    /\ at[r] = "consume_read"
    /\ MutexFree(r)
    /\ LET i == invites[input[r].token] IN
          IF i.state = "live" /\ i.usedBy = NoId
          THEN Lock(r) /\ Goto(r, "consume_put") /\ UNCHANGED frame
          ELSE Return(r, Failed("invite")) /\ UNCHANGED mu
    /\ SameDocs /\ UNCHANGED <<faults, handlerVars>>

\* Mutant: the token is stored for the user.
ConsumePutToken(r) ==
    /\ at[r] = "consume_put"
    /\ invites' = [invites EXCEPT ![input[r].token].usedBy = input[r].token]
    /\ Unlock(r)
    /\ Return(r, [NoAnswer EXCEPT !.id = frame[r].id])
    /\ SameDocs /\ UNCHANGED <<faults, mode, phase, input, subject>>

ConsumePut(r) ==
    /\ at[r] = "consume_put"
    /\ invites' = [invites EXCEPT ![input[r].token].usedBy = frame[r].id]
    /\ Unlock(r)
    /\ Return(r, [NoAnswer EXCEPT !.id = frame[r].id])
    /\ SameDocs /\ UNCHANGED <<faults, mode, phase, input, subject>>

\* Mutant: the early return does not unlock.
ConsumeFailsKeepsLock(r) ==
    /\ at[r] \in {"consume_read", "consume_put"}
    /\ at[r] = "consume_read" => MutexFree(r)
    /\ MayFail
    /\ Lock(r)
    /\ Return(r, Failed("failed"))
    /\ SameDocs /\ UNCHANGED handlerVars

ConsumeFails(r) ==
    /\ at[r] \in {"consume_read", "consume_put"}
    /\ at[r] = "consume_read" => MutexFree(r)
    /\ MayFail
    /\ Unlock(r)
    /\ Return(r, Failed("failed"))
    /\ SameDocs /\ UNCHANGED handlerVars

\* Mutants: the account stays when its invite was refused; it is deleted
\* whatever became of the invite.
ConsumedNoRollback(r) ==
    /\ Returned(r, "consume")
    /\ End(r, IF Err(r) = "nil" THEN "invited" ELSE "error")
    /\ SameStore /\ SameSetup /\ UNCHANGED subject

ConsumedAlwaysRollback(r) ==
    /\ Returned(r, "consume")
    /\ DeleteUser(r, r)
    /\ Enter(r, "rollback")
    /\ SameStore /\ SameSetup /\ UNCHANGED <<input, subject>>

Consumed(r) ==
    /\ Returned(r, "consume")
    /\ \/ Err(r) = "nil" /\ End(r, "invited")
       \/ /\ Err(r) # "nil"
          /\ DeleteUser(r, r)
          /\ Enter(r, "rollback") /\ UNCHANGED input
    /\ SameStore /\ SameSetup /\ UNCHANGED subject

\* The error of DeleteUser is ignored.
RolledBack(r) ==
    /\ Returned(r, "rollback")
    /\ End(r, "error")
    /\ SameStore /\ SameSetup /\ UNCHANGED subject

-----------------------------------------------------------------------------
(* loginHandler: GetByEmail inside VerifyPassword, and again.              *)

Login(r) ==
    /\ r \in Logins /\ phase[r] = "idle"
    /\ \E n \in Names :
          LET e == normalizeEmail([name |-> n, form |-> "mixed"]) IN
          GetByEmail(r, e) /\ Form(r, e, NoToken, NoId, "member")
    /\ Enter(r, "verify")
    /\ SameStore /\ SameSetup /\ UNCHANGED subject

\* bcrypt compares the password with the hash that was found.
Verified(r) ==
    /\ Returned(r, "verify")
    /\ \/ End(r, "error")
       \/ /\ Err(r) = "nil"
          /\ GetByEmail(r, input[r].email)
          /\ Enter(r, "reload") /\ UNCHANGED input
    /\ SameStore /\ SameSetup /\ UNCHANGED subject

\* The error of the second GetByEmail is ignored: user.ID panics on nil, and
\* net/http recovers.
Reloaded(r) ==
    /\ Returned(r, "reload")
    /\ \/ Err(r) # "nil" /\ End(r, "panicked")
       \/ /\ Err(r) = "nil"
          /\ input' = [input EXCEPT ![r].id = answer[r].id]
          /\ Enter(r, "session") /\ NoCall
    /\ SameStore /\ SameSetup /\ UNCHANGED subject

\* Sessions.Create, and the cookie.
OpenSession(r) ==
    /\ phase[r] = "session"
    /\ subject' = [subject EXCEPT ![r] = input[r].id]
    /\ End(r, "ok")
    /\ SameStore /\ SameSetup

-----------------------------------------------------------------------------
(* The admin panel.                                                        *)

\* requireAdmin: the session names a user whose document says admin.
IsAdmin(id) == id \in Ids /\ users[id] # NoUser /\ users[id].role = "admin"

\* userRoleHandler
ChangeRole(r) ==
    /\ r \in RoleChanges /\ phase[r] = "idle"
    /\ \E actor \in Ids : IsAdmin(actor)
    /\ \E target \in Ids, role \in FormRoles : Form(r, SomeEmail, NoToken, target, role)
    /\ Enter(r, "target")
    /\ NoCall /\ SameStore /\ SameSetup /\ UNCHANGED subject

\* UpdateRole refuses what is not a role, before it locks.
ChangeTo(r) ==
    \/ input[r].role = "other" /\ End(r, "error")
    \/ /\ input[r].role # "other"
       /\ UpdateRole(r, input[r].id, input[r].role)
       /\ Enter(r, "update") /\ UNCHANGED input

\* GetByID of the target, and the question whether an admin is demoted.
ReadTarget(r) ==
    /\ phase[r] = "target"
    /\ LET u == users[input[r].id]
           demotes == u # NoUser /\ u.role = "admin" /\ input[r].role # "admin" IN
          \/ u = NoUser /\ End(r, "error")
          \/ /\ demotes
             /\ CountByRole(r, "admin")
             /\ Enter(r, "count") /\ UNCHANGED input
          \/ /\ u # NoUser /\ ~demotes
             /\ ChangeTo(r)
    /\ SameStore /\ SameSetup /\ UNCHANGED subject

\* Mutant: admins < 1 in place of admins <= 1.
CountedOffByOne(r) ==
    /\ Returned(r, "count")
    /\ \/ (Err(r) # "nil" \/ answer[r].n < 1) /\ End(r, "error")
       \/ Err(r) = "nil" /\ answer[r].n >= 1 /\ ChangeTo(r)
    /\ SameStore /\ SameSetup /\ UNCHANGED subject

\* "Cannot demote the last admin"
Counted(r) ==
    /\ Returned(r, "count")
    /\ \/ (Err(r) # "nil" \/ answer[r].n <= 1) /\ End(r, "error")
       \/ Err(r) = "nil" /\ answer[r].n > 1 /\ ChangeTo(r)
    /\ SameStore /\ SameSetup /\ UNCHANGED subject

RoleUpdated(r) ==
    /\ Returned(r, "update")
    /\ End(r, IF Err(r) = "nil" THEN "ok" ELSE "error")
    /\ SameStore /\ SameSetup /\ UNCHANGED subject

OpenPanel(r) ==
    /\ r \in PanelPosts /\ phase[r] = "idle"
    /\ \E actor \in Ids : IsAdmin(actor)
    /\ Enter(r, "panel")
    /\ NoCall /\ SameStore /\ SameSetup /\ UNCHANGED <<input, subject>>

\* registrationModeHandler
SetRegistrationMode(r) ==
    /\ phase[r] = "panel"
    /\ \E m \in Modes : mode' = m
    /\ End(r, "ok")
    /\ SameStore /\ UNCHANGED <<invites, subject>>

\* inviteCreateHandler: a fresh token, with or without an end.
CreateInvite(r) ==
    /\ phase[r] = "panel"
    /\ \E t \in Tokens, ttl \in BOOLEAN :
          /\ invites[t].state = "absent"
          /\ invites' = [invites EXCEPT ![t] = [state |-> "live", ttl |-> ttl, usedBy |-> NoId]]
    /\ End(r, "ok")
    /\ SameStore /\ UNCHANGED <<mode, subject>>

\* The clock passes the ExpiresAt of an invite.
InviteExpires(t) ==
    /\ invites[t].state = "live" /\ invites[t].ttl
    /\ invites' = [invites EXCEPT ![t].state = "expired"]
    /\ UNCHANGED <<storeVars, mode, phase, input, subject>>

-----------------------------------------------------------------------------
(* `admin create`: EnsureAdmin, in a process of its own.                   *)

AdminCreate(r) ==
    /\ r \in AdminCreates /\ phase[r] = "idle"
    /\ \E n \in Names :
          LET e == normalizeEmail([name |-> n, form |-> "mixed"]) IN
          GetByEmail(r, e) /\ Form(r, e, NoToken, NoId, "admin")
    /\ Enter(r, "ensure")
    /\ SameStore /\ SameSetup /\ UNCHANGED subject

Ensured(r) ==
    /\ Returned(r, "ensure")
    /\ \/ /\ Err(r) = "nil" /\ answer[r].role = "admin"
          /\ subject' = [subject EXCEPT ![r] = answer[r].id]
          /\ End(r, "ok")
       \/ /\ Err(r) = "nil" /\ answer[r].role # "admin"
          /\ UpdateRole(r, answer[r].id, "admin")
          /\ Enter(r, "promote") /\ UNCHANGED <<input, subject>>
       \/ /\ Err(r) = "notfound"
          /\ CreateUser(r, input[r].email, "admin")
          /\ Enter(r, "promote") /\ UNCHANGED <<input, subject>>
       \/ Err(r) = "failed" /\ End(r, "error") /\ UNCHANGED subject
    /\ SameStore /\ SameSetup

Promoted(r) ==
    /\ Returned(r, "promote")
    /\ End(r, IF Err(r) = "nil" THEN "ok" ELSE "error")
    /\ subject' = [subject EXCEPT ![r] = answer[r].id]
    /\ SameStore /\ SameSetup

-----------------------------------------------------------------------------
(* A process is killed between two steps; the database stays.              *)

Running(r) == phase[r] \notin Ended \cup {"idle"}

Crash(p) ==
    /\ "crash" \in Faults /\ faults < MaxFaults
    /\ \E r \in Requests : ProcOf[r] = p /\ Running(r)
    /\ faults' = faults + 1
    /\ LET lost == {r \in Requests : ProcOf[r] = p /\ Running(r)} IN
          /\ phase' = [r \in Requests |-> IF r \in lost THEN "dead" ELSE phase[r]]
          /\ at' = [r \in Requests |-> IF r \in lost THEN "dead" ELSE at[r]]
          /\ frame' = [r \in Requests |-> IF r \in lost THEN NoFrame ELSE frame[r]]
          /\ answer' = [r \in Requests |-> IF r \in lost THEN NoAnswer ELSE answer[r]]
          /\ input' = [r \in Requests |-> IF r \in lost THEN NoInput ELSE input[r]]
          /\ steady' = [r \in Requests |-> IF r \in lost THEN {} ELSE steady[r]]
    /\ mu' = [mu EXCEPT ![p] = NoOne]
    /\ UNCHANGED <<users, index, mode, invites, subject>>

HandlerStep(r) ==
    \/ Register(r) \/ RegisteredOpen(r) \/ RegisteredInvite(r)
    \/ ConsumeRead(r) \/ ConsumePut(r) \/ ConsumeFails(r) \/ Consumed(r) \/ RolledBack(r)
    \/ Login(r) \/ Verified(r) \/ Reloaded(r) \/ OpenSession(r)
    \/ ChangeRole(r) \/ ReadTarget(r) \/ Counted(r) \/ RoleUpdated(r)
    \/ OpenPanel(r) \/ SetRegistrationMode(r) \/ CreateInvite(r)
    \/ AdminCreate(r) \/ Ensured(r) \/ Promoted(r)
    \/ HandlerFails(r)

\* No request runs.
Quiet == (\A r \in Requests : ~Running(r)) /\ UNCHANGED vars

Next ==
    \/ \E r \in Requests : HandlerStep(r) \/ (StoreStep(r) /\ UNCHANGED handlerVars)
    \/ \E t \in Tokens : InviteExpires(t)
    \/ \E p \in Procs : Crash(p)
    \/ Quiet

Spec == Init /\ [][Next]_vars

-----------------------------------------------------------------------------
(* Safety.                                                                 *)

AtRest == \A p \in Procs : mu[p] = NoOne

\* With one process, no failures and no emails from before normalisation: when
\* no locked method runs, the email index names exactly the users there are,
\* each by its email.  So no two users share an email, however registrations,
\* rollbacks and backfilling lookups interleave.
IndexAgrees ==
    AtRest => \A e \in Emails, id \in Ids :
                 index[e] = id <=> users[id] # NoUser /\ users[id].email = e

\* The index never leads from one address to the account of another, whatever
\* fails, crashes or runs in a second process, and whatever emails are stored.
IndexNeverLies ==
    \A e \in Emails, id \in Ids :
        index[e] = id /\ users[id] # NoUser =>
            normalizeEmail(users[id].email) = normalizeEmail(e)

UsedBy(r) == {t \in Tokens : invites[t].usedBy = r}

\* Without failures, registration under invite_only is all or nothing: a
\* request that succeeds has an account and spent one invite on it; one that is
\* refused has left neither, although the account is created before the
\* invite is looked at.
InviteBacked ==
    \A r \in Registrations :
        /\ phase[r] = "invited" => users[r] # NoUser /\ Cardinality(UsedBy(r)) = 1
        /\ phase[r] = "ok" => users[r] # NoUser /\ UsedBy(r) = {}
        /\ phase[r] = "error" => users[r] = NoUser /\ UsedBy(r) = {}

\* No invite is spent without an account, even if the server crashes or the
\* database fails half-way.
InviteNeverWasted ==
    \A t \in Tokens : invites[t].usedBy # NoId => users[invites[t].usedBy] # NoUser

\* GetByEmail finds a user that was there from the start of the call to its end:
\* it never looks between the two documents of a user.
LookupFinds ==
    \A r \in Requests :
        at[r] = "returned" /\ Err(r) = "notfound" /\ phase[r] \in {"verify", "reload", "ensure"}
            => steady[r] = {}

\* A login opens a session for an account of the address it was given, even if
\* that account is not the one whose password was compared any more.
SessionForOwner ==
    [][\A r \in Logins :
          subject'[r] # subject[r] /\ users[subject'[r]] # NoUser
              => normalizeEmail(users[subject'[r]].email) = input[r].email]_vars

\* A role changes only where UpdateRole writes it: a lookup that repairs an
\* email does not write back a role it had read before.
RolesOnlyByUpdateRole ==
    [][\A id \in Ids :
          users[id] # NoUser /\ users'[id] # NoUser /\ users'[id].role # users[id].role
              => \E r \in Requests : at[r] = "update_put"]_vars

\* There is an admin as long as there was one ("Cannot demote the last admin").
SomeAdmin == \E id \in Ids : IsAdmin(id)
AdminRemains == [][SomeAdmin => SomeAdmin']_vars

\* No two accounts have the same email up to case and blanks.
NoDuplicateEmail ==
    \A e \in Emails : Cardinality(Owners(e)) <= 1

\* Who was promised an admin by `admin create` has one, unless roles were
\* changed through the panel.
PromotionSticks ==
    (\A r \in RoleChanges : phase[r] = "idle") =>
        \A r \in AdminCreates : phase[r] = "ok" => IsAdmin(subject[r])

-----------------------------------------------------------------------------
(* Fairness: a goroutine that can go on does, and sync.Mutex does not starve
   a waiting goroutine (it hands itself over after a millisecond of waiting).   *)

Progress(r) == Running(r) /\ (HandlerStep(r) \/ (StoreStep(r) /\ UNCHANGED handlerVars))

LiveSpec == Spec /\ \A r \in Requests : SF_vars(Progress(r))

\* Every request ends: no path through the store, also none on which an operation
\* fails, keeps the mutex or waits for it while holding it.
RequestsEnd == \A r \in Requests : Running(r) ~> phase[r] \in Ended
=============================================================================
