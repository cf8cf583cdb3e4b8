---------------------------- MODULE MemoryStore ----------------------------
(***************************************************************************)
(* The in-memory stores of auth/store.go and auth/admin_store.go: users by *)
(* id and by email, the registration mode and the invites.  Each method    *)
(* holds its lock from beginning to end, so a call is one step.  This is   *)
(* what UserRepo, RegistrationRepo and InviteRepo promise a handler, and   *)
(* the SQLite stores are measured against it in AccountsRefinement.        *)
(*                                                                         *)
(* Emails are in normal form here: the methods begin with normalizeEmail.  *)
(* So are roles, but for another reason: UpdateRole refuses any other here *)
(* (store.go:129), where SQLiteStore.UpdateRole puts it in normal form     *)
(* first (sqlstore.go:193, 421).  A role in capitals is thus answered with *)
(* an error by one store and taken by the other; what is stored is a role  *)
(* of Roles in both.                                                       *)
(***************************************************************************)
EXTENDS FiniteSets

CONSTANTS
    Ids, Emails, Tokens,
    NoId, NoUser,
    Modes        \* the modes isValidRegistrationMode accepts

VARIABLES
    byID,        \* byID[id]: the user, or NoUser
    byEmail,     \* byEmail[e]: the id of the user with email e, or NoId
    mode,
    invites      \* invites[t]: whether it is there, may end or has, and who used it

memoryVars == <<byID, byEmail, mode, invites>>

Roles == {"member", "admin"}
Users == [email : Emails, role : Roles]
Invites == [state : {"absent", "live", "expired"}, ttl : BOOLEAN, usedBy : Ids \cup {NoId}]

Agree ==
    \A e \in Emails, id \in Ids : byEmail[e] = id <=> byID[id] # NoUser /\ byID[id].email = e

\* Whatever was there before; new stores are empty and open.
Init ==
    /\ byID \in [Ids -> Users \cup {NoUser}]
    /\ byEmail \in [Emails -> Ids \cup {NoId}]
    /\ Agree
    /\ mode \in Modes
    /\ invites \in [Tokens -> Invites]

GetByID(id) == byID[id]
GetByEmail(e) == byEmail[e]
CountByRole(role) == Cardinality({id \in Ids : byID[id] # NoUser /\ byID[id].role = role})

\* genID never returns an id again.
CreateUser(id, e) ==
    /\ GetByEmail(e) = NoId /\ GetByID(id) = NoUser
    /\ byID' = [byID EXCEPT ![id] = [email |-> e, role |-> "member"]]
    /\ byEmail' = [byEmail EXCEPT ![e] = id]
    /\ UNCHANGED <<mode, invites>>

UpdateRole(id, role) ==
    /\ role \in Roles
    /\ GetByID(id) # NoUser
    /\ byID' = [byID EXCEPT ![id].role = role]
    /\ UNCHANGED <<byEmail, mode, invites>>

DeleteUser(id) ==
    /\ GetByID(id) # NoUser
    /\ byEmail' = [byEmail EXCEPT ![byID[id].email] = NoId]
    /\ byID' = [byID EXCEPT ![id] = NoUser]
    /\ UNCHANGED <<mode, invites>>

SetRegistrationMode(m) ==
    /\ m \in Modes /\ mode' = m
    /\ UNCHANGED <<byID, byEmail, invites>>

CreateInvite(t, ttl) ==
    /\ invites[t].state = "absent"
    /\ invites' = [invites EXCEPT ![t] = [state |-> "live", ttl |-> ttl, usedBy |-> NoId]]
    /\ UNCHANGED <<byID, byEmail, mode>>

\* GetInvite, IsUsed and IsExpired, and the mark.
ConsumeInvite(t, id) ==
    /\ invites[t].state = "live" /\ invites[t].usedBy = NoId
    /\ invites' = [invites EXCEPT ![t].usedBy = id]
    /\ UNCHANGED <<byID, byEmail, mode>>

\* The clock passes the ExpiresAt of an invite.
Expire(t) ==
    /\ invites[t].state = "live" /\ invites[t].ttl
    /\ invites' = [invites EXCEPT ![t].state = "expired"]
    /\ UNCHANGED <<byID, byEmail, mode>>

Next ==
    \/ \E id \in Ids :
          \/ \E e \in Emails : CreateUser(id, e)
          \/ \E role \in Roles : UpdateRole(id, role)
          \/ DeleteUser(id)
    \/ \E m \in Modes : SetRegistrationMode(m)
    \/ \E t \in Tokens :
          \/ \E ttl \in BOOLEAN : CreateInvite(t, ttl)
          \/ \E id \in Ids : ConsumeInvite(t, id)
          \/ Expire(t)

Spec == Init /\ [][Next]_memoryVars
=============================================================================
