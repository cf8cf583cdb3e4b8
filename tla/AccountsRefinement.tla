------------------------- MODULE AccountsRefinement -------------------------
(***************************************************************************)
(* The SQLite stores under their handlers implement the in-memory stores,  *)
(* as long as one process runs, nothing fails and no email is stored in    *)
(* mixed case.  A user is there from the moment its document is; an invite *)
(* is used from the moment ConsumeInvite has read it under the lock.       *)
(***************************************************************************)
EXTENDS Accounts

MemoryEmails == {e \in Emails : e.form = "lower"}

OwnerOf(e) ==
    IF \E id \in Ids : users[id] # NoUser /\ users[id].email = e
    THEN CHOOSE id \in Ids : users[id] # NoUser /\ users[id].email = e
    ELSE NoId

Taking(t) == {r \in Requests : at[r] = "consume_put" /\ input[r].token = t}
InviteAsTaken(t) ==
    IF Taking(t) = {} THEN invites[t]
    ELSE [invites[t] EXCEPT !.usedBy = frame[CHOOSE r \in Taking(t) : TRUE].id]

Memory == INSTANCE MemoryStore WITH
    Emails <- MemoryEmails,
    byID <- users,
    byEmail <- [e \in MemoryEmails |-> OwnerOf(e)],
    invites <- [t \in Tokens |-> InviteAsTaken(t)]

\* Every step of the handlers is one call on the in-memory stores or changes
\* nothing of them: no registration, rollback, backfill, role change or panel post
\* shows the others a half-made account, two accounts of one email, an invite used
\* twice or a role not in normal form.  It compares what is stored and not what is
\* answered: the in-memory UpdateRole refuses a role that SQLite brings into form.
ImplementsMemoryStore ==
    Memory!Init /\ [][UNCHANGED Memory!memoryVars \/ Memory!Next]_(Memory!memoryVars)
=============================================================================
