-------------------------- MODULE FaultFreeProofs --------------------------
(***************************************************************************)
(* Proofs about Accounts as long as one process runs, nothing fails and no *)
(* email is stored in mixed case: for any requests and users, the index    *)
(* and the users agree, accounts and invites are made together, and the    *)
(* SQLite stores implement the in-memory ones.                             *)
(***************************************************************************)
EXTENDS OwnershipProofs, AccountsRefinement, FiniteSetTheorems

-----------------------------------------------------------------------------
(* The index and the users, without failures and second processes.         *)

\* One process, no failures, and no emails from before normalisation.
Plain == OneProcess /\ Faults = {} /\ LegacyForms \subseteq {"lower"}

\* Emails are in normal form, in the documents and where an account is made.
Lower ==
    /\ \A id \in Ids : users[id] # NoUser => users[id].email.form = "lower"
    /\ \A r \in Requests : at[r] \in CreateAt => frame[r].email.form = "lower"

\* What a call that holds the mutex has read still stands.
Holds(r) ==
    /\ at[r] \in {"create_put_user", "create_put_index"} => index[frame[r].email] = NoId
    /\ at[r] = "create_put_index" =>
          users[frame[r].id] # NoUser /\ users[frame[r].id].email = frame[r].email
    /\ at[r] \in {"update_put", "delete_user", "reindex_put_index"} =>
          users[frame[r].id] = frame[r].doc
    /\ at[r] = "reindex_put_index" => frame[r].doc.email = frame[r].email
    /\ at[r] = "delete_index" =>
          users[frame[r].id] = NoUser /\ index[frame[r].doc.email] = frame[r].id
    /\ at[r] \notin {"create_undo", "reindex_put_user", "reindex_delete_old"}

\* The index names the users there are, except where a call is between the
\* document of a user and its entry in the index.
Agree(e, id) == index[e] = id <=> users[id] # NoUser /\ users[id].email = e
Between(r, e, id) ==
    /\ frame[r].id = id
    /\ \/ at[r] = "create_put_index" /\ frame[r].email = e
       \/ at[r] = "delete_index" /\ frame[r].doc.email = e

Indexed ==
    /\ Lower
    /\ \A r \in Requests : Holds(r)
    /\ \A e \in Emails, id \in Ids : Agree(e, id) \/ \E r \in Requests : Between(r, e, id)

\* As long as r is the one that holds the mutex, or nobody does, agreement is
\* a matter of r alone.
Others(r) ==
    /\ \A q \in Requests \ {r} : at'[q] = at[q] /\ frame'[q] = frame[q]
    /\ at[r] \in Locked => \A q \in Requests \ {r} : at[q] \notin Locked

LEMMA Calm ==
    ASSUME Plain, Shape, Guarded, Indexed, NEW r \in Requests, Others(r),
           UNCHANGED <<users, index>>, Lower', Holds(r)',
           at[r] \notin {"create_put_index", "delete_index"}
    PROVE  Indexed'
  <1>1. ASSUME NEW q \in Requests PROVE Holds(q)'
    BY <1>1 DEF Indexed, Holds, Others
  <1>2. ASSUME NEW e \in Emails, NEW id \in Ids
        PROVE  Agree(e, id)' \/ \E q \in Requests : Between(q, e, id)'
    <2>1. CASE Agree(e, id)
      BY <2>1 DEF Agree
    <2>2. CASE \E q \in Requests : Between(q, e, id)
      BY <2>2 DEF Between, Others
    <2> QED  BY <2>1, <2>2 DEF Indexed
  <1> QED  BY <1>1, <1>2 DEF Indexed

\* A call that holds the mutex writes: what it says of its own user and email
\* is all there is to show.
LEMMA Writing ==
    ASSUME Plain, Shape, Indexed, NEW r \in Requests, Others(r), at[r] \in Locked,
           Lower', Holds(r)',
           \A e \in Emails, id \in Ids : Agree(e, id)' \/ Between(r, e, id)'
    PROVE  Indexed'
  <1>1. ASSUME NEW q \in Requests \ {r} PROVE Holds(q)'
    BY <1>1 DEF Others, Holds, Locked
  <1> QED  BY <1>1 DEF Indexed

LEMMA StoreIndexed ==
    ASSUME Plain, Shape, Owned, Guarded, Indexed, NEW r \in Requests, StoreStep(r),
           UNCHANGED handlerVars
    PROVE  Indexed'
  <1> DEFINE f == frame[r]
  <1>o. /\ TypeOK /\ StepOutcome(r) /\ Framed(r) /\ Phased(r) /\ Holds(r) /\ Lower
        /\ f \in Frame /\ f.email \in Emails /\ r \in Ids /\ NoId \notin Ids
        /\ \A id \in Ids : users[id] \in User \cup {NoUser}
        /\ \A id \in Ids : users[id] # NoUser => users[id].email \in Emails
        /\ NoUser \notin User
        /\ phase[r] \in Phases
    BY StoreOutcome, Own, UserEmails, FrameFields, StoreAssumption, DocumentAssumption
       DEF Shape, Indexed, TypeOK, StoreTypeOK
  <1>p. ~MayFail
    BY DEF MayFail, Plain
  <1>q. Others(r)
    BY StoreApart DEF Shape, Apart, Others, Guarded, Plain, OneProcess
  <1>s. at[r] \in Locked => \A e \in Emails, id \in Ids : Agree(e, id) \/ Between(r, e, id)
    BY <1>q DEF Indexed, Others, Between, Locked
  \* Steps that only read.
  <1>1. ASSUME UNCHANGED <<users, index>>, Holds(r)',
               at'[r] \in CreateAt => at[r] \in CreateAt /\ frame'[r] = f,
               at[r] \notin {"create_put_index", "delete_index"}
        PROVE  Indexed'
    <2>1. Lower'
      BY <1>1, <1>q, <1>o DEF Lower, Others
    <2> QED  BY <1>1, <2>1, <1>q, Calm
  <1>2. CASE CreateCheck(r)
    <2>1. /\ UNCHANGED <<users, index>> /\ at[r] = "create_check"
          /\ at'[r] = "create_put_user" => index[f.email] = NoId /\ frame'[r] = f
          /\ at'[r] \in {"returned", "create_put_user"}
      BY <1>2, <1>p, <1>o, Effects DEF CreateCheck, SameDocs
    <2>2. Holds(r)'
      BY <2>1 DEF Holds
    <2> QED  BY <2>1, <2>2, <1>1 DEF CreateAt
  <1>3. CASE CreatePutUser(r)
    <2> DEFINE u == [email |-> f.email, role |-> f.role]
    <2>1. /\ at[r] = "create_put_user" /\ f.id = r /\ at'[r] = "create_put_index"
          /\ frame'[r] = f /\ index' = index
      BY <1>3, <1>o, Effects DEF CreatePutUser, Framed, CreateAt
    <2>2. SetUser(r, u) /\ u.email = f.email /\ u # NoUser
      <3>1. u \in User
        BY <1>o, FrameFields DEF User
      <3> QED  BY <3>1, <1>3, <2>1, <1>o, Zenon DEF CreatePutUser
    <2> HIDE DEF u
    <2>3. users'[r] = u /\ \A jd \in Ids \ {r} : users'[jd] = users[jd]
      BY <2>2, <1>o, Writes
    <2>4. \A e \in Emails : index[e] # r
      BY <2>1 DEF Owned, Unborn, Claim, ClaimIndex
    <2>5. Lower'
      BY <2>1, <2>2, <2>3, <1>o, <1>q DEF Lower, Others, CreateAt
    <2>6. Holds(r)'
      BY <2>1, <2>2, <2>3, <1>o DEF Holds
    <2>7. ASSUME NEW e \in Emails, NEW id \in Ids PROVE Agree(e, id)' \/ Between(r, e, id)'
      BY <2>1, <2>2, <2>3, <2>4, <1>s DEF Agree, Between, Locked
    <2> QED  BY <2>1, <2>5, <2>6, <2>7, <1>q, Writing DEF Locked
  <1>4. CASE CreatePutIndex(r)
    <2>1. /\ at[r] = "create_put_index" /\ f.id = r /\ at'[r] = "returned"
          /\ users' = users /\ SetIndex(f.email, r)
      BY <1>4, <1>p, <1>o, Effects DEF CreatePutIndex, Framed, CreateAt
    <2>2. index'[f.email] = r /\ \A d \in Emails \ {f.email} : index'[d] = index[d]
      BY <2>1, <1>o, Writes
    <2>3. Lower'
      BY <2>1, <1>o, <1>q DEF Lower, Others, CreateAt
    <2>4. Holds(r)'
      BY <2>1 DEF Holds
    <2>5. ASSUME NEW e \in Emails, NEW id \in Ids PROVE Agree(e, id)'
      BY <2>1, <2>2, <1>s, <1>o DEF Agree, Between, Locked, Holds
    <2> QED  BY <2>1, <2>3, <2>4, <2>5, <1>q, Writing DEF Locked
  <1>5. CASE UpdateRead(r) \/ DeleteRead(r)
    <2>1. /\ UNCHANGED <<users, index>> /\ at[r] \in {"update_read", "delete_read"}
          /\ at'[r] \in {"returned", "update_put", "delete_user"}
          /\ at'[r] \in {"update_put", "delete_user"} =>
                frame'[r].doc = users[f.id] /\ frame'[r].id = f.id
      BY <1>5, <1>o, Effects DEF UpdateRead, DeleteRead, SameDocs
    <2>2. Holds(r)'
      BY <2>1 DEF Holds
    <2> QED  BY <2>1, <2>2, <1>1 DEF CreateAt
  <1>6. CASE UpdatePut(r)
    <2> DEFINE u == [f.doc EXCEPT !.role = f.role]
    <2>1. /\ at[r] = "update_put" /\ f.id \in Ids /\ f.doc \in User /\ at'[r] = "returned"
          /\ index' = index /\ users[f.id] = f.doc
      BY <1>6, <1>o, Effects DEF UpdatePut, Framed, UpdateAt, DocAt, Holds
    <2>2. SetUser(f.id, u) /\ u.email = f.doc.email /\ u # NoUser
      <3>1. u \in User /\ u.email = f.doc.email
        BY <2>1, <1>o, FrameFields DEF User
      <3> QED  BY <3>1, <1>6, <1>o, Zenon DEF UpdatePut
    <2> HIDE DEF u
    <2>3. users'[f.id] = u /\ \A jd \in Ids \ {f.id} : users'[jd] = users[jd]
      BY <2>1, <2>2, <1>o, Writes
    <2>4. Lower'
      BY <2>1, <2>2, <2>3, <1>o, <1>q DEF Lower, Others, CreateAt
    <2>5. Holds(r)'
      BY <2>1 DEF Holds
    <2>6. ASSUME NEW e \in Emails, NEW id \in Ids PROVE Agree(e, id)'
      BY <2>1, <2>2, <2>3, <1>s, <1>o DEF Agree, Between, Locked
    <2> QED  BY <2>1, <2>4, <2>5, <2>6, <1>q, Writing DEF Locked
  <1>7. CASE DeleteUserDoc(r)
    <2>1. /\ at[r] = "delete_user" /\ f.id = r /\ f.doc \in User /\ at'[r] = "delete_index"
          /\ frame'[r] = f /\ index' = index /\ users[r] = f.doc /\ SetUser(r, NoUser)
      BY <1>7, <1>o, Effects DEF DeleteUserDoc, Framed, DeleteAt, DocAt, Holds
    <2>2. users'[r] = NoUser /\ \A jd \in Ids \ {r} : users'[jd] = users[jd]
      BY <2>1, <1>o, Writes
    <2>3. Lower'
      BY <2>1, <2>2, <1>o, <1>q DEF Lower, Others, CreateAt
    <2>4. index[f.doc.email] = r
      BY <2>1, <1>s, <1>o DEF Agree, Between, Locked
    <2>5. Holds(r)'
      BY <2>1, <2>2, <2>4 DEF Holds
    <2>6. ASSUME NEW e \in Emails, NEW id \in Ids PROVE Agree(e, id)' \/ Between(r, e, id)'
      BY <2>1, <2>2, <1>s DEF Agree, Between, Locked
    <2> QED  BY <2>1, <2>3, <2>5, <2>6, <1>q, Writing DEF Locked
  <1>8. CASE DeleteIndex(r)
    <2>1. /\ at[r] = "delete_index" /\ f.id = r /\ f.doc \in User /\ at'[r] = "returned"
          /\ users' = users /\ SetIndex(f.doc.email, NoId)
          /\ users[r] = NoUser /\ index[f.doc.email] = r /\ f.doc.email \in Emails
      BY <1>8, <1>o, Effects, UserEmails DEF DeleteIndex, Framed, DeleteAt, DocAt, Holds
    <2>2. index'[f.doc.email] = NoId /\ \A d \in Emails \ {f.doc.email} : index'[d] = index[d]
      BY <2>1, <1>o, Writes
    <2>3. Lower'
      BY <2>1, <1>o, <1>q DEF Lower, Others, CreateAt
    <2>4. Holds(r)'
      BY <2>1 DEF Holds
    <2>5. ASSUME NEW e \in Emails, NEW id \in Ids PROVE Agree(e, id)'
      BY <2>1, <2>2, <1>s, <1>o DEF Agree, Between, Locked
    <2> QED  BY <2>1, <2>3, <2>4, <2>5, <1>q, Writing DEF Locked
  \* A lookup repairs nothing: the user it found has the very email it looks for.
  <1>9. CASE ReindexRead(r)
    <2>1. /\ UNCHANGED <<users, index>> /\ at[r] = "reindex_read" /\ f.id \in Ids
          /\ at'[r] \in {"returned", "reindex_put_user", "reindex_put_index"}
          /\ at'[r] # "returned" =>
                /\ users[f.id] # NoUser
                /\ frame'[r].doc = users[f.id]
                /\ frame'[r].id = f.id /\ frame'[r].email = f.email
                /\ users[f.id].email = f.email => at'[r] = "reindex_put_index"
      BY <1>9, <1>o, Effects DEF ReindexRead, ReindexDone, SameDocs, Framed, ReindexAt
    <2>2. users[f.id] # NoUser => users[f.id].email = f.email
      <3>1. phase[r] \in {"verify", "reload", "ensure"}
        BY <2>1, <1>o DEF Phased, Phases, Ended, CreateAt, UpdateAt, DeleteAt, LookupAt,
             ReindexAt, CountAt, ConsumeAt
      <3>2. f.email.form = "lower"
        BY <2>1, <3>1 DEF Owned, Asked, LookupAt, ReindexAt
      <3>3. Claim(f.id, f.email.name)
        BY <2>1 DEF Claim, ClaimCall, ReindexAt
      <3>4. users[f.id] # NoUser => Claim(f.id, users[f.id].email.name)
        BY DEF Claim, ClaimDoc
      <3>5. users[f.id] # NoUser => users[f.id].email.name = f.email.name
        BY <3>3, <3>4, <2>1 DEF Owned
      <3>6. \A d, e \in Emails : d.name = e.name /\ d.form = e.form => d = e
        BY DEF Emails
      <3> QED  BY <3>2, <3>5, <3>6, <2>1, <1>o DEF Lower
    <2>3. Holds(r)'
      BY <2>1, <2>2 DEF Holds
    <2> QED  BY <2>1, <2>3, <1>1 DEF CreateAt
  <1>10. CASE ReindexPutIndex(r)
    <2>1. /\ at[r] = "reindex_put_index" /\ f.id \in Ids /\ f.doc \in User
          /\ users' = users /\ SetIndex(f.email, f.id)
          /\ users[f.id] = f.doc /\ f.doc.email = f.email /\ at'[r] = "returned"
      BY <1>10, <1>o, Effects DEF ReindexPutIndex, ReindexDone, Framed, ReindexAt, DocAt, Holds
    <2>2. index'[f.email] = f.id /\ \A d \in Emails \ {f.email} : index'[d] = index[d]
      BY <2>1, <1>o, Writes
    <2>3. index[f.email] = f.id
      BY <2>1, <1>s, <1>o DEF Agree, Between, Locked
    <2>4. Lower'
      BY <2>1, <1>o, <1>q DEF Lower, Others, CreateAt
    <2>5. Holds(r)'
      BY <2>1 DEF Holds
    <2>6. ASSUME NEW e \in Emails, NEW id \in Ids PROVE Agree(e, id)'
      BY <2>1, <2>2, <2>3, <1>s DEF Agree, Between, Locked
    <2> QED  BY <2>1, <2>4, <2>5, <2>6, <1>q, Writing DEF Locked
  <1>11. CASE LookupIndex(r) \/ LookupUser(r) \/ ScanList(r) \/ ScanRead(r) \/ CountList(r)
              \/ CountRead(r)
    <2>1. /\ UNCHANGED <<users, index>>
          /\ at[r] \in {"lookup_index", "lookup_user", "scan_list", "scan_read", "count_list",
                        "count_read"}
      BY <1>11 DEF LookupIndex, LookupUser, ScanList, ScanRead, CountList, CountRead, SameDocs
    <2>2. at'[r] \in {"lookup_user", "scan_list", "scan_read", "reindex_read", "count_read",
                      "returned"}
      BY <2>1, <1>o DEF StepOutcome, Refuses, Answers, GoesOn, Scans, Finds, Reads,
           FailReturns, FailIgnored
    <2>3. Holds(r)'
      BY <2>2 DEF Holds
    <2> QED  BY <2>1, <2>2, <2>3, <1>1 DEF CreateAt
  <1>12. ~CreateUndo(r) /\ ~ReindexPutUser(r) /\ ~ReindexDeleteOld(r) /\ ~OperationFails(r)
    BY <1>o, <1>p DEF CreateUndo, ReindexPutUser, ReindexDeleteOld, OperationFails, Holds
  <1> QED
    BY <1>2, <1>3, <1>4, <1>5, <1>6, <1>7, <1>8, <1>9, <1>10, <1>11, <1>12 DEF StoreStep

\* A handler asks for an account with an email in normal form, and writes no
\* document of a user.
LEMMA HandlerIndexed ==
    ASSUME Plain, Shape, Owned, Guarded, Indexed, NEW r \in Requests, HandlerStep(r)
    PROVE  Indexed'
  <1>o. /\ TypeOK /\ Outcome(r) /\ Apart(r) /\ UNCHANGED <<users, index>> /\ Phased(r)
        /\ r \in Ids /\ Lower /\ Asked(r)
        /\ input[r].email \in Emails
    BY HandlerOutcome, HandlerApart, HandlerDocs, Own DEF Shape, Indexed, Owned, TypeOK, Input
  <1>1. at[r] \in Waits \cup ConsumeAt
    BY <1>o DEF HandlerStep, Register, RegisteredOpen, RegisteredInvite, ConsumeRead,
         ConsumePut, ConsumeFails, Consumed, RolledBack, Login, Verified, Reloaded, OpenSession,
         ChangeRole, ReadTarget, Counted, RoleUpdated, OpenPanel, SetRegistrationMode,
         CreateInvite, AdminCreate, Ensured, Promoted, HandlerFails, Returned, ConsumeAt,
         Waits, Phased, Ended
  <1>2. Others(r)
    BY <1>o DEF Apart, Others, Guarded, Plain, OneProcess
  <1>3. at'[r] \notin {"create_put_user", "create_put_index", "update_put", "delete_user",
                       "reindex_put_index", "delete_index", "create_undo", "reindex_put_user",
                       "reindex_delete_old"}
    BY <1>o DEF Outcome, Waits, ConsumeAt
  <1>4. Holds(r)'
    BY <1>3 DEF Holds
  <1>5. ASSUME NEW e \in Emails, NEW ro, CreateUser(r, e, ro) PROVE frame'[r].email = e
    <2> DEFINE g == [NoFrame EXCEPT !.email = e, !.role = ro, !.id = r]
    <2>1. g.email = e
      BY EmptyFrame DEF Frame
    <2>2. Call(r, "create_check", g)
      BY <1>5, Zenon DEF CreateUser
    <2> HIDE DEF g
    <2> QED  BY <2>1, <2>2, <1>o, Effects
  <1>6. ASSUME at'[r] = "create_check" PROVE frame'[r].email.form = "lower"
    <2>n. \A n \in Names : /\ normalizeEmail([name |-> n, form |-> "mixed"]).form = "lower"
                           /\ normalizeEmail([name |-> n, form |-> "mixed"]) \in Emails
      BY HandlerPieces, <1>o DEF normalizeEmail
    <2>1. \/ phase[r] = "idle" /\ phase'[r] \in {"open", "invite"}
          \/ phase[r] = "ensure" /\ phase'[r] = "promote"
      BY <1>6, <1>o DEF Outcome, Waits, ConsumeAt
    <2>2. CASE phase[r] = "idle"
      <3>1. Register(r)
        BY <2>1, <2>2, <1>1, <1>o, Effects
           DEF HandlerStep, Register, RegisteredOpen, RegisteredInvite, ConsumeRead,
             ConsumePut, ConsumeFails, Consumed, RolledBack, Login, Verified, Reloaded,
             OpenSession, ChangeRole, ReadTarget, Counted, RoleUpdated, OpenPanel,
             SetRegistrationMode, CreateInvite, AdminCreate, Ensured, Promoted, HandlerFails,
             Returned, Phased, Ended, ConsumeAt
      <3> QED  BY <3>1, <2>n, <1>5, <1>6, <1>o, Effects DEF Register
    <2>3. CASE phase[r] = "ensure"
      <3>1. Ensured(r)
        BY <2>1, <2>3, <1>1, <1>o, Effects
           DEF HandlerStep, Register, RegisteredOpen, RegisteredInvite, ConsumeRead,
             ConsumePut, ConsumeFails, Consumed, RolledBack, Login, Verified, Reloaded,
             OpenSession, ChangeRole, ReadTarget, Counted, RoleUpdated, OpenPanel,
             SetRegistrationMode, CreateInvite, AdminCreate, Ensured, Promoted, HandlerFails,
             Returned, Phased, Ended, ConsumeAt, LookupAt, ReindexAt
      <3>2. input[r].email.form = "lower"
        BY <2>3, <1>o DEF Asked
      <3>3. UpdateRole(r, answer[r].id, "admin") => at'[r] = "update_read"
        <4> SUFFICES ASSUME UpdateRole(r, answer[r].id, "admin") PROVE at'[r] = "update_read"
          OBVIOUS
        <4>1. PICK g : Call(r, "update_read", g)  BY Zenon DEF UpdateRole
        <4> QED  BY <4>1, <1>o, Effects
      <3> QED  BY <3>1, <3>2, <3>3, <1>5, <1>6, <1>o, Effects DEF Ensured
    <2> QED  BY <2>1, <2>2, <2>3
  <1>7. Lower'
    <2>1. at'[r] \in CreateAt => at'[r] = "create_check"
      BY <1>3 DEF CreateAt
    <2> QED  BY <2>1, <1>6, <1>2, <1>o DEF Lower, Others
  <1> QED  BY <1>o, <1>1, <1>2, <1>4, <1>7, Calm DEF Waits, ConsumeAt

LEMMA InitIndexed == ASSUME Plain, Init PROVE Indexed
  <1>1. \A r \in Requests : at[r] = "none" /\ users[r] = NoUser
    BY DEF Init, StoreInit
  <1>2. \A id \in LegacyIds : users[id] # NoUser /\ users[id].email.form = "lower"
    BY DEF Init, StoreInit, Plain
  <1>3. Lower /\ \A r \in Requests : Holds(r)
    BY <1>1, <1>2 DEF Lower, Holds, Ids, CreateAt
  <1>4. ASSUME NEW e \in Emails, NEW id \in Ids PROVE Agree(e, id)
    <2>1. index[e] = IF \E jd \in LegacyIds : users[jd].email = e
                     THEN CHOOSE jd \in LegacyIds : users[jd].email = e ELSE NoId
      BY DEF Init, StoreInit
    <2>2. \A jd, kd \in LegacyIds : users[jd].email = e /\ users[kd].email = e => jd = kd
      BY DEF Init, StoreInit
    <2>3. CASE \E jd \in LegacyIds : users[jd].email = e
      BY <2>1, <2>2, <2>3, <1>1, <1>2 DEF Agree, Ids
    <2>4. CASE ~\E jd \in LegacyIds : users[jd].email = e
      BY <2>1, <2>4, <1>1, <1>2, StoreAssumption DEF Agree, Ids
    <2> QED  BY <2>3, <2>4
  <1> QED  BY <1>3, <1>4 DEF Indexed

LEMMA NextIndexed ==
    ASSUME Plain PROVE Shape /\ Owned /\ Guarded /\ Indexed /\ [Next]_vars => Indexed'
  <1> SUFFICES ASSUME Shape, Owned, Guarded, Indexed, [Next]_vars PROVE Indexed'
    OBVIOUS
  <1>1. CASE UNCHANGED vars \/ \E t \in Tokens : InviteExpires(t)
    BY <1>1 DEF vars, storeVars, InviteExpires, Indexed, Lower, Holds, Agree, Between
  <1>2. \A p \in Procs : ~Crash(p)
    BY DEF Crash, Plain
  <1> QED
    BY <1>1, <1>2, StoreIndexed, HandlerIndexed DEF Next, Quiet

\* IndexAgrees, for one process without failures over emails in normal form:
\* whenever nobody holds the mutex, the index and the users say the same.
THEOREM IndexIsUsers == ASSUME Plain PROVE Spec => []IndexAgrees
  <1>1. Init => Guarded  BY DEF Init, StoreInit, Guarded, Locked
  <1>2. Shape /\ Guarded /\ Indexed => IndexAgrees
    BY Mutexes, StoreAssumption DEF Shape, Guarded, Indexed, IndexAgrees, AtRest, Agree, Between,
         Locked
  <1>3. Init => Indexed  BY SMTT(30), InitIndexed
  <1> QED
    BY <1>1, <1>2, <1>3, InitShape, NextShape, InitOwned, NextOwned, NextGuarded, NextIndexed,
       PTL DEF Spec

-----------------------------------------------------------------------------
(* What a lookup finds, without failures and second processes.             *)

\* Who has had the address all along is still to be found: by the entry of the
\* index, or among the users that the scan has yet to read.
Sought(r) ==
    /\ at[r] \in LookupAt =>
          \A id \in steady[r] : users[id] # NoUser /\ users[id].email = frame[r].email
    /\ at[r] = "lookup_user" => steady[r] \subseteq {frame[r].id}
    /\ at[r] = "scan_read" => steady[r] \subseteq frame[r].todo
    /\ phase[r] \in {"verify", "reload", "ensure"} /\ at[r] = "returned" /\ Err(r) = "notfound" =>
          steady[r] = {}

\* A step of a call leaves the address of whoever remains in steady.
LEMMA Steadied ==
    ASSUME Plain, Shape, Owned, Indexed, NEW r \in Requests, StoreStep(r)
    PROVE  \A q \in Requests : \A id \in steady'[q] :
               /\ id \in steady[q] /\ id \in Ids
               /\ users[id] # NoUser => users'[id] # NoUser /\ users'[id].email = users[id].email
  <1>o. /\ TypeOK /\ Framed(r) /\ Holds(r) /\ frame[r] \in Frame /\ r \in Ids
        /\ steady \in [Requests -> SUBSET Ids]
        /\ NoUser \notin User
    BY Own, DocumentAssumption DEF Shape, Indexed, TypeOK, StoreTypeOK
  <1>1. CASE users' = users /\ steady' = steady
    BY <1>1, <1>o
  <1>2. CASE CreatePutUser(r)
    <2> DEFINE u == [email |-> frame[r].email, role |-> frame[r].role]
    <2>1. at[r] = "create_put_user" /\ frame[r].id = r
      BY <1>2, <1>o DEF CreatePutUser, Framed, CreateAt
    <2>2. u \in User
      BY <1>o, FrameFields DEF User
    <2>3. SetUser(r, u)
      BY <2>1, <1>2, Zenon DEF CreatePutUser
    <2> HIDE DEF u
    <2>4. users[r] = NoUser
      <3>1. ~Claim(r, users[r].email.name)  BY <2>1 DEF Owned, Unborn
      <3> QED  BY <3>1 DEF Claim, ClaimDoc
    <2>5. steady' = steady /\ \A jd \in Ids \ {r} : users'[jd] = users[jd]
      BY <2>2, <2>3, <1>o, Writes DEF SetUser
    <2> QED  BY <2>4, <2>5, <1>o
  <1>3. CASE UpdatePut(r)
    <2> DEFINE u == [frame[r].doc EXCEPT !.role = frame[r].role]
    <2>1. /\ at[r] = "update_put" /\ frame[r].id \in Ids /\ frame[r].doc \in User
          /\ users[frame[r].id] = frame[r].doc
      BY <1>3, <1>o DEF UpdatePut, Framed, UpdateAt, DocAt, Holds
    <2>2. u \in User /\ u.email = frame[r].doc.email
      BY <2>1, <1>o, FrameFields DEF User
    <2>3. SetUser(frame[r].id, u)
      BY <1>3, Zenon DEF UpdatePut
    <2> HIDE DEF u
    <2>4. /\ steady' = steady /\ users'[frame[r].id] = u
          /\ \A jd \in Ids \ {frame[r].id} : users'[jd] = users[jd]
      BY ZenonT(40), <2>1, <2>2, <2>3, <1>o, Writes DEF SetUser
    <2> QED  BY <2>1, <2>2, <2>4, <1>o
  <1>4. CASE DeleteUserDoc(r)
    <2>1. frame[r].id \in Ids /\ SetUser(frame[r].id, NoUser)
      BY <1>4, <1>o DEF DeleteUserDoc, Framed, DeleteAt
    <2>2. /\ \A q \in Requests : steady'[q] = steady[q] \ {frame[r].id}
          /\ \A jd \in Ids \ {frame[r].id} : users'[jd] = users[jd]
      BY <2>1, <1>o, Writes DEF SetUser
    <2> QED  BY <2>2, <1>o
  <1>5. ~CreateUndo(r) /\ ~ReindexPutUser(r)
    BY <1>o DEF CreateUndo, ReindexPutUser, Holds
  <1> QED
    BY <1>1, <1>2, <1>3, <1>4, <1>5
       DEF StoreStep, CreateCheck, CreatePutIndex, UpdateRead, DeleteRead, DeleteIndex,
         LookupIndex, LookupUser, ScanList, ScanRead, ReindexRead, ReindexPutIndex,
         ReindexDeleteOld, CountList, CountRead, OperationFails, SameDocs

\* An address leads by the index to its user, or for the moment to nobody.
LEMMA Leads ==
    ASSUME Plain, Shape, Guarded, Indexed, NEW e \in Emails, NEW id \in Ids,
           users[id] # NoUser, users[id].email = e
    PROVE  index[e] \in {id, NoId}
  <1> SUFFICES ASSUME index[e] # id, index[e] # NoId PROVE FALSE
    OBVIOUS
  <1>1. index[e] \in Ids
    BY DEF Shape, TypeOK, StoreTypeOK
  <1>2. PICK r \in Requests : Between(r, e, id)
    BY DEF Indexed, Agree
  <1>3. Holds(r)
    BY DEF Indexed
  <1> QED  BY <1>2, <1>3 DEF Between, Holds

LEMMA StoreSought ==
    ASSUME Plain, Shape, Owned, Guarded, Indexed, NEW r \in Requests, StoreStep(r),
           UNCHANGED handlerVars, \A q \in Requests : Sought(q), NEW q \in Requests
    PROVE  Sought(q)'
  <1>1. ASSUME q # r PROVE Sought(q)'
    <2>1. at'[q] = at[q] /\ frame'[q] = frame[q] /\ answer'[q] = answer[q] /\ phase'[q] = phase[q]
      BY <1>1, StoreApart DEF Apart, Shape, handlerVars
    <2>2. Sought(q)
      OBVIOUS
    <2> QED  BY <2>1, <2>2, Steadied DEF Sought, Err
  <1>2. ASSUME q = r PROVE Sought(r)'
    <2> DEFINE f == frame[r]
    <2>o. /\ TypeOK /\ StepOutcome(r) /\ Phased(r) /\ Sought(r) /\ ~MayFail
          /\ f \in Frame /\ f.email \in Emails /\ f.todo \subseteq Ids
          /\ steady[r] \subseteq Ids /\ phase'[r] = phase[r]
          /\ steady'[r] \subseteq steady[r]
          /\ \A id \in steady'[r] : users[id] # NoUser =>
                users'[id] # NoUser /\ users'[id].email = users[id].email
      BY StoreOutcome, Steadied, FrameFields
         DEF Shape, TypeOK, StoreTypeOK, handlerVars, MayFail, Plain
    <2>a. CASE at[r] \notin LookupAt
      <3>1. at'[r] \notin LookupAt
        BY <2>a, <2>o DEF StepOutcome, Refuses, Answers, GoesOn, Scans, Finds, Reads,
             FailReturns, FailIgnored, LookupAt, ReindexAt
      <3>2. at[r] # "returned"
        BY <2>o DEF StepOutcome, FailReturns, FailIgnored
      <3>3. phase'[r] \notin {"verify", "reload", "ensure"}
        BY <3>2, <2>a, <2>o DEF Phased
      <3> QED  BY <3>1, <3>3 DEF Sought, LookupAt
    <2>b. CASE at[r] \in LookupAt
      <3>1. at'[r] \in LookupAt => frame'[r].email = f.email
        BY <2>b, <2>o DEF StepOutcome, Refuses, Answers, GoesOn, Scans, Finds, Reads,
             FailReturns, FailIgnored, LookupAt, ReindexAt
      <3>2. \A id \in steady'[r] : users'[id] # NoUser /\ users'[id].email = f.email
        BY <2>b, <2>o DEF Sought
      <3>3. at'[r] = "lookup_user" => steady'[r] \subseteq {frame'[r].id}
        <4> SUFFICES ASSUME at'[r] = "lookup_user" PROVE steady'[r] \subseteq {frame'[r].id}
          OBVIOUS
        <4>1. at[r] = "lookup_index" /\ index[f.email] # NoId /\ frame'[r].id = index[f.email]
          BY <2>b, <2>o DEF StepOutcome, Refuses, Answers, GoesOn, Scans, Finds, Reads,
               FailReturns, FailIgnored, LookupAt, ReindexAt
        <4>2. \A id \in steady[r] : index[f.email] \in {id, NoId}
          BY SMTT(30), <2>b, <2>o, Leads DEF Sought
        <4> QED  BY <4>1, <4>2, <2>o
      <3>4. at'[r] = "scan_read" => steady'[r] \subseteq frame'[r].todo
        <4> SUFFICES ASSUME at'[r] = "scan_read" PROVE steady'[r] \subseteq frame'[r].todo
          OBVIOUS
        <4>1. CASE ScanList(r)
          <5>1. frame'[r].todo = {id \in Ids : users[id] # NoUser}
            <6>1. frame'[r] = [f EXCEPT !.todo = {id \in Ids : users[id] # NoUser}]
              BY <4>1, <2>o, Effects DEF ScanList, ListUsers
            <6> QED  BY <6>1, <2>o DEF Frame
          <5> QED  BY <5>1, <2>b, <2>o DEF Sought
        <4>2. CASE ScanRead(r)
          <5>1. PICK id \in f.todo :
                   /\ SkipUser(r, id)
                   /\ ~(users[id] # NoUser /\ normalizeEmail(users[id].email) = f.email)
            BY <4>2, <2>o, Effects DEF ScanRead
          <5>2. frame'[r].todo = f.todo \ {id}
            <6>1. frame'[r] = [f EXCEPT !.todo = @ \ {id}]
              BY <5>1, <2>o, Effects DEF SkipUser
            <6> QED  BY <6>1, <2>o DEF Frame
          <5>3. id \notin steady[r]
            <6>1. users[id] # NoUser => users[id].email.form = "lower" /\ users[id].email \in Emails
              BY <2>o, UserEmails DEF Indexed, Lower, TypeOK, StoreTypeOK
            <6>2. \A e \in Emails : e.form = "lower" => normalizeEmail(e) = e
              BY DEF Emails, normalizeEmail
            <6> QED  BY <5>1, <6>1, <6>2, <2>b, <2>o DEF Sought
          <5>4. at[r] = "scan_read"
            BY <4>2 DEF ScanRead
          <5> QED  BY <5>2, <5>3, <5>4, <2>o DEF Sought
        <4>3. at[r] \in {"scan_list", "scan_read"}
          BY <2>b, <2>o DEF StepOutcome, Refuses, Answers, GoesOn, Scans, Finds, Reads,
               FailReturns, FailIgnored, LookupAt, ReindexAt
        <4> QED
          BY <4>1, <4>2, <4>3, <2>o
             DEF StoreStep, CreateCheck, CreatePutUser, CreatePutIndex, CreateUndo, UpdateRead,
               UpdatePut, DeleteRead, DeleteUserDoc, DeleteIndex, LookupIndex, LookupUser,
               ReindexRead, ReindexPutUser, ReindexPutIndex, ReindexDeleteOld, CountList,
               CountRead, OperationFails
      <3>5. at'[r] = "returned" /\ answer'[r].err = "notfound" => steady'[r] = {}
        <4> SUFFICES ASSUME at'[r] = "returned", answer'[r].err = "notfound" PROVE steady'[r] = {}
          OBVIOUS
        <4>1. \A id, ro : Found(id, ro).err = "nil"
          BY DEF Found, NoAnswer
        <4>2. \/ at[r] = "lookup_user" /\ users[f.id] = NoUser
              \/ at[r] = "scan_read" /\ f.todo = {}
          <5>1. CASE LookupUser(r)
            BY <5>1, <4>1, <2>o, Effects DEF LookupUser
          <5>2. CASE ScanRead(r)
            BY <5>2, <4>1, <2>o, Effects DEF ScanRead
          <5>3. CASE LookupIndex(r) \/ ScanList(r)
            BY <5>3, <2>o, Effects DEF LookupIndex, ScanList
          <5>4. CASE \/ ReindexRead(r) \/ ReindexPutUser(r)
                     \/ ReindexPutIndex(r) \/ ReindexDeleteOld(r)
            BY <5>4, <4>1, <2>o, Effects
               DEF ReindexRead, ReindexPutUser, ReindexPutIndex, ReindexDeleteOld, ReindexDone
          <5> QED
            BY <5>1, <5>2, <5>3, <5>4, <2>b, <2>o
               DEF StoreStep, CreateCheck, CreatePutUser, CreatePutIndex, CreateUndo, UpdateRead,
                 UpdatePut, DeleteRead, DeleteUserDoc, DeleteIndex, CountList, CountRead,
                 OperationFails, LookupAt, ReindexAt
        <4> QED  BY <4>2, <2>b, <2>o DEF Sought
      <3> QED  BY <3>1, <3>2, <3>3, <3>4, <3>5 DEF Sought, Err
    <2> QED  BY <2>a, <2>b
  <1> QED  BY <1>1, <1>2

LEMMA HandlerSought ==
    ASSUME Plain, Shape, Owned, Indexed, NEW r \in Requests, HandlerStep(r),
           \A q \in Requests : Sought(q), NEW q \in Requests
    PROVE  Sought(q)'
  <1>o. /\ TypeOK /\ Outcome(r) /\ Apart(r) /\ UNCHANGED <<users, index>> /\ Phased(r)
        /\ Sought(q) /\ Lower /\ steady \in [Requests -> SUBSET Ids]
    BY HandlerOutcome, HandlerApart, HandlerDocs DEF Shape, Indexed, TypeOK, StoreTypeOK
  <1>1. ASSUME q # r PROVE Sought(q)'
    <2>1. \A s, f : Call(r, s, f) => steady'[q] = steady[q]
      BY <1>1, <1>o DEF Call
    <2>2. \A p : End(r, p) => steady'[q] = steady[q]
      BY <1>1, <1>o DEF End
    <2>3. /\ \A e, ro : CreateUser(r, e, ro) => steady'[q] = steady[q]
          /\ \A id : DeleteUser(r, id) => steady'[q] = steady[q]
          /\ \A id, ro : UpdateRole(r, id, ro) => steady'[q] = steady[q]
          /\ \A e : GetByEmail(r, e) => steady'[q] = steady[q]
          /\ \A ro : CountByRole(r, ro) => steady'[q] = steady[q]
      BY <2>1, Zenon DEF CreateUser, DeleteUser, UpdateRole, GetByEmail, CountByRole
    <2>4. NoCall \/ SameDocs => steady'[q] = steady[q]
      BY DEF NoCall, SameDocs
    <2>5. steady'[q] = steady[q]
      BY <2>1, <2>2, <2>3, <2>4
         DEF HandlerStep, Register, RegisteredOpen, RegisteredInvite, ConsumeRead, ConsumePut,
           ConsumeFails, Consumed, RolledBack, Login, Verified, Reloaded, OpenSession,
           ChangeRole, ChangeTo, ReadTarget, Counted, RoleUpdated, OpenPanel,
           SetRegistrationMode, CreateInvite, AdminCreate, Ensured, Promoted, HandlerFails
    <2> QED  BY <2>5, <1>1, <1>o DEF Apart, Sought, Err
  <1>2. ASSUME q = r PROVE Sought(r)'
    <2>1. CASE at'[r] \in LookupAt
      <3>1. at'[r] = "lookup_index" /\ frame'[r].email.form = "lower"
            /\ (phase[r] = "idle" \/ phase[r] = "verify")
            /\ phase'[r] \in {"verify", "reload", "ensure"}
        BY <2>1, <1>o, <1>2 DEF Outcome, LookupAt, ReindexAt, Waits, ConsumeAt, Owned, Asked
      <3>2. PICK e \in Emails : GetByEmail(r, e)
        BY <3>1, <1>o, Effects, HandlerPieces
           DEF HandlerStep, Register, RegisteredOpen, RegisteredInvite, ConsumeRead,
             ConsumePut, ConsumeFails, Consumed, RolledBack, Login, Verified, Reloaded,
             OpenSession, ChangeRole, ReadTarget, Counted, RoleUpdated, OpenPanel,
             SetRegistrationMode, CreateInvite, AdminCreate, Ensured, Promoted, HandlerFails,
             Returned, Phased, Ended, TypeOK, Input, LookupAt, ReindexAt
      <3>3. frame'[r].email = e
        BY <3>2, <1>o, Calls
      <3>4. steady'[r] = Owners(e)
        <4> DEFINE g == [NoFrame EXCEPT !.email = e]
        <4>1. g.email = e
          BY EmptyFrame DEF Frame
        <4>2. Call(r, "lookup_index", g)
          BY <3>2, Zenon DEF GetByEmail
        <4> HIDE DEF g
        <4> QED  BY <4>1, <4>2, <1>o DEF Call
      <3>5. \A id \in Owners(e) : users[id] # NoUser /\ users[id].email = e
        <4>1. \A d \in Emails : d.form = "lower" => normalizeEmail(d) = d
          BY DEF Emails, normalizeEmail
        <4>2. \A id \in Ids : users[id] # NoUser => users[id].email \in Emails
          BY <1>o, UserEmails DEF TypeOK, StoreTypeOK
        <4> QED  BY <4>1, <4>2, <1>o DEF Owners, Lower
      <3> QED  BY <3>1, <3>3, <3>4, <3>5, <1>o DEF Sought
    <2>2. CASE at'[r] \notin LookupAt
      <3>1. ~(phase'[r] \in {"verify", "reload", "ensure"})
        BY <2>2, <1>o DEF Outcome, LookupAt, Ended
      <3> QED  BY <2>2, <3>1 DEF Sought, LookupAt
    <2> QED  BY <2>1, <2>2
  <1> QED  BY <1>1, <1>2

LEMMA NextSought ==
    ASSUME Plain
    PROVE  Shape /\ Owned /\ Guarded /\ Indexed /\ (\A q \in Requests : Sought(q)) /\ [Next]_vars
               => (\A q \in Requests : Sought(q))'
  <1> SUFFICES ASSUME Shape, Owned, Guarded, Indexed, \A q \in Requests : Sought(q), [Next]_vars,
                      NEW q \in Requests
               PROVE  Sought(q)'
    OBVIOUS
  <1>1. CASE UNCHANGED vars \/ \E t \in Tokens : InviteExpires(t)
    BY <1>1 DEF vars, storeVars, handlerVars, InviteExpires, Sought, Err
  <1>2. \A p \in Procs : ~Crash(p)
    BY DEF Crash, Plain
  <1>3. ASSUME NEW r \in Requests, HandlerStep(r) PROVE Sought(q)'
    BY <1>3, HandlerSought
  <1>4. ASSUME NEW r \in Requests, StoreStep(r), UNCHANGED handlerVars PROVE Sought(q)'
    BY <1>4, StoreSought
  <1> QED
    BY <1>1, <1>2, <1>3, <1>4 DEF Next, Quiet

\* LookupFinds, for one process without failures over emails in normal form: a
\* lookup by email misses no user that was there from its start to its end.
THEOREM LookupMissesNobody == ASSUME Plain PROVE Spec => []LookupFinds
  <1>1. Init => Guarded  BY DEF Init, StoreInit, Guarded, Locked
  <1>2. Init => Indexed  BY InitIndexed
  <1>3. Init => \A q \in Requests : Sought(q)
    BY DEF Init, StoreInit, Sought, LookupAt, ReindexAt
  <1>4. (\A q \in Requests : Sought(q)) => LookupFinds
    BY DEF Sought, LookupFinds
  <1> QED
    BY <1>1, <1>2, <1>3, <1>4, InitShape, NextShape, InitOwned, NextOwned, NextGuarded,
       NextIndexed, NextSought, PTL DEF Spec

-----------------------------------------------------------------------------
(* Registrations and their invites, without failures and second processes. *)

Account(r) == users[r] # NoUser

\* How far a registration is decides whether its account is there, and whether
\* it has spent an invite.
Balanced(r) ==
    /\ phase[r] \in {"idle", "open", "invite", "consume", "rollback", "ok", "invited", "error"}
    /\ phase[r] \in {"idle", "error"} => ~Account(r)
    /\ phase[r] \in {"consume", "ok", "invited"} => Account(r)
    /\ phase[r] \in {"open", "invite"} =>
          (Account(r) <=> at[r] = "create_put_index" \/ (at[r] = "returned" /\ Err(r) = "nil"))
    /\ phase[r] = "rollback" => (Account(r) <=> at[r] \in {"delete_read", "delete_user"})
    /\ IF Spent(r) THEN \E t \in Tokens : UsedBy(r) = {t} ELSE UsedBy(r) = {}

\* The invite that a registration is about to spend is there, and nobody's.
Unspent(r) ==
    /\ phase[r] \in {"invite", "consume"} => input[r].token \in Tokens
    /\ at[r] = "consume_put" => /\ invites[input[r].token].usedBy = NoId
                                /\ invites[input[r].token].state # "absent"

Settled ==
    /\ \A r \in Registrations : Balanced(r)
    /\ \A r \in Requests : Unspent(r)
    /\ \A t \in Tokens : invites[t].state = "absent" => invites[t].usedBy = NoId

\* Accounts come and go only by their own registration.
LEMMA Accounted ==
    ASSUME Plain, Shape, Owned, Indexed, NEW r \in Requests, StoreStep(r)
    PROVE  /\ \A q \in Requests \ {r} : Account(q)' <=> Account(q)
           /\ Account(r)' <=> (at[r] = "create_put_user" \/ (Account(r) /\ at[r] # "delete_user"))
  <1>o. /\ TypeOK /\ Framed(r) /\ Holds(r) /\ frame[r] \in Frame /\ r \in Ids
        /\ NoUser \notin User /\ \A q \in Requests : q \in Ids
    BY Own, DocumentAssumption DEF Shape, Indexed, TypeOK, StoreTypeOK
  <1>1. CASE users' = users /\ at[r] \notin {"create_put_user", "delete_user"}
    BY <1>1 DEF Account
  <1>2. CASE CreatePutUser(r)
    <2> DEFINE u == [email |-> frame[r].email, role |-> frame[r].role]
    <2>1. at[r] = "create_put_user" /\ frame[r].id = r
      BY <1>2, <1>o DEF CreatePutUser, Framed, CreateAt
    <2>2. u \in User
      BY <1>o, FrameFields DEF User
    <2>3. SetUser(r, u)
      BY <2>1, <1>2, Zenon DEF CreatePutUser
    <2> HIDE DEF u
    <2> QED  BY <2>1, <2>2, <2>3, <1>o, Writes DEF Account
  <1>3. CASE UpdatePut(r)
    <2> DEFINE u == [frame[r].doc EXCEPT !.role = frame[r].role]
    <2>1. /\ at[r] = "update_put" /\ frame[r].id \in Ids /\ frame[r].doc \in User
          /\ users[frame[r].id] = frame[r].doc
      BY <1>3, <1>o DEF UpdatePut, Framed, UpdateAt, DocAt, Holds
    <2>2. u \in User
      BY <2>1, <1>o, FrameFields DEF User
    <2>3. SetUser(frame[r].id, u)
      BY <1>3, Zenon DEF UpdatePut
    <2> HIDE DEF u
    <2> QED  BY <2>1, <2>2, <2>3, <1>o, Writes DEF Account
  <1>4. CASE DeleteUserDoc(r)
    <2>1. at[r] = "delete_user" /\ frame[r].id = r /\ SetUser(r, NoUser)
      BY <1>4, <1>o DEF DeleteUserDoc, Framed, DeleteAt
    <2> QED  BY <2>1, <1>o, Writes DEF Account
  <1>5. ~CreateUndo(r) /\ ~ReindexPutUser(r) /\ ~OperationFails(r)
    BY <1>o DEF CreateUndo, ReindexPutUser, OperationFails, Holds, MayFail, Plain
  <1> QED
    BY <1>1, <1>2, <1>3, <1>4, <1>5
       DEF StoreStep, CreateCheck, CreatePutIndex, UpdateRead, DeleteRead, DeleteIndex,
         LookupIndex, LookupUser, ScanList, ScanRead, ReindexRead, ReindexPutIndex,
         ReindexDeleteOld, CountList, CountRead, SameDocs

\* The making and the taking back of an account, step by step.
LEMMA InOrder ==
    ASSUME Plain, Shape, Indexed, NEW r \in Requests, StoreStep(r), at[r] \in CreateAt \cup DeleteAt
    PROVE  \/ /\ at[r] = "create_check"
              /\ at'[r] = "create_put_user" \/ (at'[r] = "returned" /\ answer'[r].err # "nil")
           \/ at[r] = "create_put_user" /\ at'[r] = "create_put_index"
           \/ at[r] = "create_put_index" /\ at'[r] = "returned" /\ answer'[r].err = "nil"
           \/ /\ at[r] = "delete_read"
              /\ at'[r] = "delete_user" \/ (at'[r] = "returned" /\ ~Account(r))
           \/ at[r] = "delete_user" /\ at'[r] = "delete_index"
           \/ at[r] = "delete_index" /\ at'[r] = "returned"
  <1>o. /\ TypeOK /\ Framed(r) /\ Holds(r) /\ ~MayFail
        /\ \A err \in {"exists", "failed", "notfound"} : Failed(err).err # "nil"
        /\ \A id, ro : Found(id, ro).err = "nil"
    BY AnswerRecords DEF Shape, Indexed, MayFail, Plain, Found, NoAnswer
  <1>1. CASE CreateCheck(r)
    BY <1>1, <1>o, Effects DEF CreateCheck
  <1>2. CASE CreatePutUser(r)
    BY <1>2, <1>o, Effects DEF CreatePutUser
  <1>3. CASE CreatePutIndex(r)
    BY <1>3, <1>o, Effects DEF CreatePutIndex
  <1>4. CASE DeleteRead(r)
    BY <1>4, <1>o, Effects DEF DeleteRead, Framed, DeleteAt, Account
  <1>5. CASE DeleteUserDoc(r)
    BY <1>5, <1>o, Effects DEF DeleteUserDoc
  <1>6. CASE DeleteIndex(r)
    BY <1>6, <1>o, Effects DEF DeleteIndex
  <1>7. ~CreateUndo(r) /\ ~OperationFails(r)
    BY <1>o DEF CreateUndo, OperationFails, Holds
  <1> QED
    BY <1>1, <1>2, <1>3, <1>4, <1>5, <1>6, <1>7
       DEF StoreStep, UpdateRead, UpdatePut, LookupIndex, LookupUser, ScanList, ScanRead,
         ReindexRead, ReindexPutUser, ReindexPutIndex, ReindexDeleteOld, CountList, CountRead,
         CreateAt, DeleteAt

LEMMA StoreSettled ==
    ASSUME Plain, Shape, Owned, Indexed, Settled, NEW r \in Requests, StoreStep(r),
           UNCHANGED handlerVars
    PROVE  Settled'
  <1>o. /\ StepOutcome(r) /\ Apart(r) /\ Phased(r) /\ Holds(r)
        /\ UNCHANGED <<phase, invites, input>>
    BY StoreOutcome, StoreApart DEF Shape, handlerVars, Indexed
  <1>u. \A q : UsedBy(q)' = UsedBy(q)
    BY <1>o DEF UsedBy
  <1>1. ASSUME NEW q \in Registrations PROVE Balanced(q)'
    <2>o. q \in Requests /\ Balanced(q)
      BY KindAssumption DEF Settled
    <2>1. CASE q # r
      <3>1. (Account(q)' <=> Account(q)) /\ at'[q] = at[q] /\ answer'[q] = answer[q]
        BY <2>1, <2>o, <1>o, Accounted DEF Apart
      <3> QED  BY <3>1, <2>o, <1>o, <1>u DEF Balanced, Err, Spent
    <2>2. CASE q = r
      <3>1. /\ phase[r] \in {"open", "invite", "rollback"}
            /\ at[r] \in CreateAt \cup DeleteAt
            /\ phase[r] = "rollback" => at[r] \in DeleteAt
            /\ phase[r] \in {"open", "invite"} => at[r] \in CreateAt
        BY <2>o, <2>2, <1>o DEF Balanced, Phased, StepOutcome, FailReturns, FailIgnored, Ended,
             ConsumeAt
      <3>2. Account(r)' <=> (at[r] = "create_put_user" \/ (Account(r) /\ at[r] # "delete_user"))
        BY Accounted
      <3>3. ~Spent(r) /\ ~Spent(r)'
        BY <3>1, <1>o DEF Spent
      <3> QED
        BY <2>2, <2>o, <1>o, <1>u, <3>1, <3>2, <3>3, InOrder
           DEF Balanced, Err, CreateAt, DeleteAt
    <2> QED  BY <2>1, <2>2
  <1>2. ASSUME NEW q \in Requests PROVE Unspent(q)'
    <2>1. at'[q] = "consume_put" => at[q] = "consume_put"
      BY <1>o DEF Apart, StepOutcome, Refuses, Answers, GoesOn, Scans, Finds, Reads,
           FailReturns, FailIgnored
    <2> QED  BY <2>1, <1>o DEF Settled, Unspent
  <1> QED  BY <1>1, <1>2, <1>o DEF Settled

\* A handler spends an invite that is nobody's, and makes one from nothing.
LEMMA HandlerInvites ==
    ASSUME Plain, Shape, Settled, NEW r \in Requests, HandlerStep(r)
    PROVE  /\ \A q \in Requests \ {r} : UsedBy(q)' = UsedBy(q)
           /\ \/ UsedBy(r)' = UsedBy(r)
              \/ ConsumePut(r) /\ UsedBy(r)' = UsedBy(r) \cup {input[r].token}
           /\ \A t \in Tokens : invites'[t].state = "absent" => invites'[t].usedBy = NoId
           /\ \A t \in Tokens : invites'[t] # invites[t] =>
                  invites[t].state = "absent" \/ (ConsumePut(r) /\ t = input[r].token)
           /\ \A t \in Tokens : invites[t].state # "absent" => invites'[t].state # "absent"
  <1>o. /\ invites \in [Tokens -> Invite] /\ NoId \notin Requests
    BY StoreAssumption DEF Shape, TypeOK, Ids
  <1>1. CASE ConsumePut(r)
    <2>1. /\ at[r] = "consume_put" /\ frame[r].id = r /\ phase[r] = "consume"
          /\ invites' = [invites EXCEPT ![input[r].token].usedBy = frame[r].id]
      <3>1. at[r] = "consume_put"
        BY <1>1 DEF ConsumePut
      <3> QED
        BY <3>1, <1>1 DEF ConsumePut, Shape, Framed, Phased, Phases, Ended, CreateAt, UpdateAt,
             DeleteAt, LookupAt, ReindexAt, CountAt, ConsumeAt, TypeOK
    <2>2. input[r].token \in Tokens /\ invites[input[r].token].usedBy = NoId
          /\ invites[input[r].token].state # "absent"
      BY <2>1 DEF Settled, Unspent
    <2>3. \A t \in Tokens : /\ t # input[r].token => invites'[t] = invites[t]
                            /\ t = input[r].token => /\ invites'[t].usedBy = r
                                                     /\ invites'[t].state = invites[t].state
      BY <2>1, <2>2, <1>o DEF Invite
    <2> QED  BY <1>1, <2>2, <2>3, <1>o DEF UsedBy, Settled
  <1>2. CASE CreateInvite(r)
    <2>1. PICK t \in Tokens, ttl \in BOOLEAN :
             /\ invites[t].state = "absent"
             /\ invites' = [invites EXCEPT ![t] = [state |-> "live", ttl |-> ttl, usedBy |-> NoId]]
      BY <1>2 DEF CreateInvite
    <2>2. invites[t].usedBy = NoId
      BY <2>1 DEF Settled
    <2>3. /\ \A s \in Tokens \ {t} : invites'[s] = invites[s]
          /\ invites'[t].usedBy = NoId /\ invites'[t].state = "live"
      BY <2>1, <1>o
    <2> QED  BY <2>1, <2>2, <2>3, <1>o DEF UsedBy, Settled
  <1>3. CASE ~ConsumePut(r) /\ ~CreateInvite(r)
    <2>1. invites' = invites
      BY <1>3 DEF HandlerStep, Register, RegisteredOpen, RegisteredInvite, ConsumeRead,
           ConsumeFails, Consumed, RolledBack, Login, Verified, Reloaded, OpenSession,
           ChangeRole, ReadTarget, Counted, RoleUpdated, OpenPanel, SetRegistrationMode,
           AdminCreate, Ensured, Promoted, HandlerFails, SameSetup, handlerVars
    <2> QED  BY <2>1 DEF UsedBy, Settled
  <1> QED  BY <1>1, <1>2, <1>3

\* A registration goes through its handler, and through no other.
LEMMA RegisterSteps ==
    ASSUME Plain, Shape, NEW r \in Registrations, Balanced(r), HandlerStep(r)
    PROVE  \/ Register(r) \/ RegisteredOpen(r) \/ RegisteredInvite(r)
           \/ ConsumeRead(r) \/ ConsumePut(r) \/ Consumed(r) \/ RolledBack(r)
  <1>1. r \notin Logins \cup RoleChanges \cup PanelPosts \cup AdminCreates
    <2> DEFINE kinds == <<Registrations, Logins, RoleChanges, PanelPosts, AdminCreates>>
    <2>1. \A i, j \in 1..5 : i # j => kinds[i] \cap kinds[j] = {}
      BY KindAssumption, Zenon
    <2>2. /\ kinds[1] \cap kinds[2] = {} /\ kinds[1] \cap kinds[3] = {}
          /\ kinds[1] \cap kinds[4] = {} /\ kinds[1] \cap kinds[5] = {}
      <3> HIDE DEF kinds
      <3> QED  BY <2>1
    <2> QED  BY <2>2
  <1>2. ~ConsumeFails(r)
    BY DEF ConsumeFails, MayFail, Plain
  <1> QED
    BY <1>1, <1>2 DEF HandlerStep, Login, Verified, Reloaded, OpenSession, ChangeRole,
         ReadTarget, Counted, RoleUpdated, OpenPanel, SetRegistrationMode, CreateInvite,
         AdminCreate, Ensured, Promoted, HandlerFails, Returned, Balanced

LEMMA RegisterBalanced ==
    ASSUME Plain, Shape, Settled, NEW r \in Registrations, HandlerStep(r)
    PROVE  Balanced(r)'
  <1>o. /\ TypeOK /\ r \in Requests /\ Balanced(r) /\ users' = users /\ Phased(r)
        /\ (Account(r)' <=> Account(r))
        /\ answer[r] \in Answer
    BY KindAssumption, HandlerDocs DEF Settled, Shape, Account, TypeOK, StoreTypeOK
  <1>u. ~ConsumePut(r) => UsedBy(r)' = UsedBy(r)
    BY <1>o, HandlerInvites
  <1>n. /\ NoAnswer.err = "nil" /\ Failed("invite").err = "invite"
        /\ \A id : [NoAnswer EXCEPT !.id = id].err = "nil"
    BY AnswerRecords DEF NoAnswer
  <1>1. CASE Register(r)
    <2>1. /\ phase[r] = "idle" /\ ~ConsumePut(r)
          /\ \/ phase'[r] = "error"
             \/ phase'[r] \in {"open", "invite"} /\ at'[r] = "create_check"
      <3>1. \A e, ro : CreateUser(r, e, ro) => at'[r] = "create_check"
        <4> SUFFICES ASSUME NEW e, NEW ro, CreateUser(r, e, ro) PROVE at'[r] = "create_check"
          OBVIOUS
        <4>1. PICK g : Call(r, "create_check", g)  BY Zenon DEF CreateUser
        <4> QED  BY <4>1, <1>o, Effects
      <3> QED  BY <1>1, <3>1, <1>o, Effects DEF Register, ConsumePut, Phased, Ended
    <2> QED  BY <2>1, <1>o, <1>u DEF Balanced, Spent
  <1>2. CASE RegisteredOpen(r)
    <2>1. /\ phase[r] = "open" /\ at[r] = "returned"
          /\ phase'[r] = IF Err(r) = "nil" THEN "ok" ELSE "error"
      BY <1>2, <1>o, Effects DEF RegisteredOpen, Returned
    <2> QED  BY <2>1, <1>o, <1>u DEF Balanced, Spent, ConsumePut
  <1>3. CASE RegisteredInvite(r)
    <2>1. /\ phase[r] = "invite" /\ at[r] = "returned"
          /\ \/ Err(r) # "nil" /\ phase'[r] = "error"
             \/ Err(r) = "nil" /\ phase'[r] = "consume" /\ at'[r] = "consume_read"
      BY <1>3, <1>o, Effects DEF RegisteredInvite, Returned
    <2> QED  BY <2>1, <1>o, <1>u DEF Balanced, Spent, ConsumePut
  <1>4. CASE ConsumeRead(r)
    <2>1. /\ phase'[r] = phase[r] /\ at[r] = "consume_read"
          /\ at'[r] = "consume_put" \/ (at'[r] = "returned" /\ answer'[r].err = "invite")
      BY <1>4, <1>o, <1>n, Effects DEF ConsumeRead, handlerVars
    <2>2. phase[r] = "consume"
      BY <2>1, <1>o DEF Balanced, Phased, Ended, CreateAt, DeleteAt
    <2> QED  BY <2>1, <2>2, <1>o, <1>u DEF Balanced, Spent, ConsumePut
  <1>5. CASE ConsumePut(r)
    <2>1. /\ phase'[r] = phase[r] /\ at[r] = "consume_put"
          /\ at'[r] = "returned" /\ answer'[r].err = "nil"
      <3>1. PICK a : a.err = "nil" /\ Return(r, a)
        BY <1>5, <1>n, Zenon DEF ConsumePut
      <3> QED  BY <3>1, <1>5, <1>o, Effects DEF ConsumePut
    <2>2. phase[r] = "consume"
      BY <2>1, <1>o DEF Balanced, Phased, Ended, CreateAt, DeleteAt
    <2>3. UsedBy(r) = {} /\ input[r].token \in Tokens
      BY <2>1, <2>2, <1>o DEF Balanced, Spent, Settled, Unspent
    <2>4. UsedBy(r)' = {input[r].token}
      <3>1. /\ invites' = [invites EXCEPT ![input[r].token].usedBy = frame[r].id]
            /\ frame[r].id = r
        BY <1>5, <2>1, <1>o DEF ConsumePut, Shape, Framed, ConsumeAt
      <3>2. \A t \in Tokens : /\ t # input[r].token => invites'[t] = invites[t]
                              /\ t = input[r].token => invites'[t].usedBy = r
        BY <3>1, <2>3, <1>o DEF TypeOK, Invite
      <3> QED  BY <3>2, <2>3 DEF UsedBy
    <2> QED  BY <2>1, <2>2, <2>3, <2>4, <1>o DEF Balanced, Spent
  <1>6. CASE Consumed(r)
    <2>1. /\ phase[r] = "consume" /\ at[r] = "returned"
          /\ \/ Err(r) = "nil" /\ phase'[r] = "invited"
             \/ Err(r) # "nil" /\ phase'[r] = "rollback" /\ at'[r] = "delete_read"
      BY <1>6, <1>o, Effects DEF Consumed, Returned, DeleteUser
    <2> QED  BY <2>1, <1>o, <1>u DEF Balanced, Spent, ConsumePut, Err
  <1>7. CASE RolledBack(r)
    <2>1. phase[r] = "rollback" /\ at[r] = "returned" /\ phase'[r] = "error"
      BY <1>7, <1>o, Effects DEF RolledBack, Returned
    <2> QED  BY <2>1, <1>o, <1>u DEF Balanced, Spent, ConsumePut
  <1> QED  BY <1>1, <1>2, <1>3, <1>4, <1>5, <1>6, <1>7, <1>o, RegisterSteps

LEMMA HandlerSettled ==
    ASSUME Plain, Shape, Guarded, Settled, NEW r \in Requests, HandlerStep(r)
    PROVE  Settled'
  <1>o. /\ TypeOK /\ Outcome(r) /\ Apart(r) /\ users' = users /\ Phased(r)
        /\ input \in [Requests -> Input]
    BY HandlerOutcome, HandlerApart, HandlerDocs DEF Shape, TypeOK
  <1>1. ASSUME NEW q \in Registrations PROVE Balanced(q)'
    <2>1. CASE q = r
      BY <2>1, RegisterBalanced
    <2>2. CASE q # r
      <3>1. /\ q \in Requests /\ Balanced(q) /\ UsedBy(q)' = UsedBy(q)
            /\ (Account(q)' <=> Account(q))
        BY <2>2, <1>o, HandlerInvites, KindAssumption DEF Settled, Account
      <3> QED  BY <3>1, <2>2, <1>o DEF Apart, Balanced, Err, Spent
    <2> QED  BY <2>1, <2>2
  <1>2. ASSUME NEW q \in Requests PROVE Unspent(q)'
    <2>1. CASE q # r
      <3>1. /\ at'[q] = at[q] /\ phase'[q] = phase[q] /\ input'[q] = input[q] /\ Unspent(q)
        BY <2>1, <1>o DEF Apart, Settled
      <3>2. ASSUME at[q] = "consume_put"
            PROVE  invites'[input[q].token] = invites[input[q].token] /\ input[q].token \in Tokens
        <4>1. phase[q] = "consume"
          BY <3>2 DEF Shape, TypeOK, Phased, Phases, Ended, CreateAt, UpdateAt, DeleteAt,
               LookupAt, ReindexAt, CountAt
        <4>2. ~ConsumePut(r)
          BY <3>2, <2>1 DEF ConsumePut, Guarded, Plain, OneProcess, Locked
        <4> QED  BY <4>1, <4>2, <3>1, <3>2, HandlerInvites DEF Unspent
      <3> QED  BY <3>1, <3>2 DEF Unspent
    <2>2. CASE q = r
      <3>1. ASSUME phase'[r] \in {"invite", "consume"} PROVE input'[r].token \in Tokens
        <4>1. CASE Register(r)
          <5>1. PICK t \in Tokens : \E e : Form(r, e, t, NoId, "member")
            BY <4>1, <3>1, <1>o, Effects DEF Register
          <5>2. PICK e : input' = [input EXCEPT ![r] = [email |-> e, token |-> t, id |-> NoId,
                                                        role |-> "member"]]
            BY <5>1, Zenon DEF Form
          <5> QED  BY <5>2, <1>o
        <4>2. CASE ~Register(r)
          <5>1. phase[r] \in {"invite", "consume"} /\ input' = input
            BY <4>2, <3>1, <1>o, Effects
               DEF HandlerStep, RegisteredOpen, RegisteredInvite, ConsumeRead, ConsumePut,
                 ConsumeFails, Consumed, RolledBack, Login, Verified, Reloaded, OpenSession,
                 ChangeRole, ChangeTo, ReadTarget, Counted, RoleUpdated, OpenPanel,
                 SetRegistrationMode, CreateInvite, AdminCreate, Ensured, Promoted,
                 HandlerFails, Returned, handlerVars, Phased, Phases, Ended, CreateAt, UpdateAt,
                 DeleteAt, LookupAt, ReindexAt, CountAt, ConsumeAt, TypeOK
          <5> QED  BY <5>1 DEF Settled, Unspent
        <4> QED  BY <4>1, <4>2
      <3>2. ASSUME at'[r] = "consume_put"
            PROVE  /\ invites'[input'[r].token].usedBy = NoId
                   /\ invites'[input'[r].token].state # "absent"
        <4>1. at[r] \in ConsumeAt
          BY <3>2, <1>o DEF Outcome, Waits, ConsumeAt
        <4>2. ConsumeRead(r)
          <5>1. phase[r] = "consume" /\ at[r] # "returned"
            BY <4>1, <1>o DEF Shape, TypeOK, Phased, Phases, Ended, CreateAt, UpdateAt,
                 DeleteAt, LookupAt, ReindexAt, CountAt, ConsumeAt
          <5> QED
            BY <5>1, <4>1, <3>2, <1>o, Effects
               DEF HandlerStep, Register, RegisteredOpen, RegisteredInvite, ConsumePut,
                 ConsumeFails, Consumed, RolledBack, Login, Verified, Reloaded, OpenSession,
                 ChangeRole, ReadTarget, Counted, RoleUpdated, OpenPanel, SetRegistrationMode,
                 CreateInvite, AdminCreate, Ensured, Promoted, HandlerFails, Returned
        <4> QED  BY <4>2, <3>2, <1>o, Effects DEF ConsumeRead, handlerVars
      <3> QED  BY <2>2, <3>1, <3>2 DEF Unspent
    <2> QED  BY <2>1, <2>2
  <1> QED  BY <1>1, <1>2, HandlerInvites DEF Settled

LEMMA NextSettled ==
    ASSUME Plain
    PROVE  Shape /\ Owned /\ Guarded /\ Indexed /\ Settled /\ [Next]_vars => Settled'
  <1> SUFFICES ASSUME Shape, Owned, Guarded, Indexed, Settled, [Next]_vars PROVE Settled'
    OBVIOUS
  <1>1. CASE UNCHANGED vars
    BY <1>1 DEF vars, storeVars, handlerVars, Settled, Balanced, Unspent, Account, Spent, Err,
         UsedBy
  <1>2. ASSUME NEW s \in Tokens, InviteExpires(s) PROVE Settled'
    <2>1. UNCHANGED <<users, at, answer, phase, input>>
      BY <1>2 DEF InviteExpires, storeVars
    <2>2. \A t \in Tokens : /\ invites'[t].usedBy = invites[t].usedBy
                            /\ invites'[t].state = "absent" <=> invites[t].state = "absent"
      BY <1>2 DEF InviteExpires, Shape, TypeOK, Invite
    <2>3. \A q : UsedBy(q)' = UsedBy(q)
      BY <2>2 DEF UsedBy
    <2>4. ASSUME NEW r \in Registrations PROVE Balanced(r)'
      BY <2>1, <2>3 DEF Settled, Balanced, Account, Spent, Err
    <2>5. ASSUME NEW r \in Requests PROVE Unspent(r)'
      <3>1. at[r] = "consume_put" => phase[r] = "consume"
        BY DEF Shape, TypeOK, Phased, Phases, Ended, CreateAt, UpdateAt, DeleteAt, LookupAt,
             ReindexAt, CountAt
      <3> QED  BY <3>1, <2>1, <2>2 DEF Settled, Unspent
    <2> QED  BY <2>2, <2>4, <2>5 DEF Settled
  <1>3. \A p \in Procs : ~Crash(p)
    BY DEF Crash, Plain
  <1>4. ASSUME NEW r \in Requests, HandlerStep(r) PROVE Settled'
    BY <1>4, HandlerSettled
  <1>5. ASSUME NEW r \in Requests, StoreStep(r), UNCHANGED handlerVars PROVE Settled'
    BY <1>5, StoreSettled
  <1> QED  BY <1>1, <1>2, <1>3, <1>4, <1>5 DEF Next, Quiet

LEMMA InitSettled == Init => Settled
  <1> SUFFICES ASSUME Init PROVE Settled
    OBVIOUS
  <1>1. \A r \in Requests : phase[r] = "idle" /\ at[r] = "none" /\ users[r] = NoUser
    BY DEF Init, StoreInit
  <1>2. \A t \in Tokens : invites[t].usedBy = NoId
    BY DEF Init
  <1>3. \A r \in Registrations : r \in Requests /\ UsedBy(r) = {}
    BY <1>2, KindAssumption, StoreAssumption DEF UsedBy, Ids
  <1> QED  BY <1>1, <1>2, <1>3 DEF Settled, Balanced, Unspent, Spent, Account

\* InviteBacked, for one process without failures: under invite_only a request
\* ends with an account and one invite spent on it, or with neither.
THEOREM AllOrNothing == ASSUME Plain PROVE Spec => []InviteBacked
  <1>1. Init => Guarded  BY DEF Init, StoreInit, Guarded, Locked
  <1>2. Init => Indexed  BY InitIndexed
  <1>3. Settled => InviteBacked
    <2>1. \A t : Cardinality({t}) = 1
      BY FS_Singleton
    <2> QED  BY <2>1 DEF Settled, Balanced, Account, Spent, InviteBacked
  <1> QED
    BY <1>1, <1>2, <1>3, InitSettled, InitShape, NextShape, InitOwned, NextOwned, NextGuarded,
       NextIndexed, NextSettled, PTL DEF Spec

-----------------------------------------------------------------------------
(* The SQLite stores implement the in-memory ones, without failures, second *)
(* processes and `admin create`.                                            *)

Has(id, e) == users[id] # NoUser /\ users[id].email = e
OneOwner == \A e \in Emails, id, jd \in Ids : Has(id, e) /\ Has(jd, e) => id = jd

Alone == Plain /\ AdminCreates = {}

\* What the in-memory stores have for the index and the invites.
ByEmail == [e \in MemoryEmails |-> OwnerOf(e)]
AsTaken == [t \in Tokens |-> InviteAsTaken(t)]

LEMMA OwnedByOne == Plain /\ Shape /\ Guarded /\ Indexed => OneOwner
  <1> SUFFICES ASSUME Plain, Shape, Guarded, Indexed, NEW e \in Emails, NEW id \in Ids,
                      NEW jd \in Ids, Has(id, e), Has(jd, e), id # jd
               PROVE  FALSE
    BY DEF OneOwner
  <1>1. NoId \notin Ids /\ index[e] = NoId
    BY Leads, StoreAssumption DEF Has
  <1>2. PICK q, r \in Requests : Between(q, e, id) /\ Between(r, e, jd)
    BY <1>1 DEF Indexed, Agree, Has
  <1>3. q = r
    BY <1>2 DEF Between, Guarded, Plain, OneProcess, Locked
  <1> QED  BY <1>2, <1>3 DEF Between

LEMMA Owner ==
    ASSUME OneOwner
    PROVE  \A e \in Emails : \/ OwnerOf(e) = NoId /\ \A id \in Ids : ~Has(id, e)
                             \/ \E id \in Ids : OwnerOf(e) = id /\ Has(id, e)
  <1> SUFFICES ASSUME NEW e \in Emails, NEW jd \in Ids, Has(jd, e)
               PROVE  \E id \in Ids : OwnerOf(e) = id /\ Has(id, e)
    BY Zenon DEF OwnerOf, Has
  <1>1. \E id \in Ids : users[id] # NoUser /\ users[id].email = e
    BY DEF Has
  <1>2. OwnerOf(e) = CHOOSE id \in Ids : users[id] # NoUser /\ users[id].email = e
    BY <1>1, Zenon DEF OwnerOf
  <1>3. OwnerOf(e) \in Ids /\ users[OwnerOf(e)] # NoUser /\ users[OwnerOf(e)].email = e
    BY <1>1, <1>2, Zenon
  <1> QED  BY <1>3 DEF Has

LEMMA OwnerNext ==
    ASSUME OneOwner'
    PROVE  \A e \in Emails : \/ OwnerOf(e)' = NoId /\ \A id \in Ids : ~Has(id, e)'
                             \/ \E id \in Ids : OwnerOf(e)' = id /\ Has(id, e)'
  <1> SUFFICES ASSUME NEW e \in Emails, NEW jd \in Ids, Has(jd, e)'
               PROVE  \E id \in Ids : OwnerOf(e)' = id /\ Has(id, e)'
    BY Zenon DEF OwnerOf, Has
  <1>1. \E id \in Ids : users'[id] # NoUser /\ users'[id].email = e
    BY DEF Has
  <1>2. OwnerOf(e)' = CHOOSE id \in Ids : users'[id] # NoUser /\ users'[id].email = e
    BY <1>1, Zenon DEF OwnerOf
  <1>3. PICK id \in Ids : OwnerOf(e)' = id /\ users'[id] # NoUser /\ users'[id].email = e
    BY <1>1, <1>2, Zenon
  <1> QED  BY <1>3 DEF Has

\* An email whose owner stays is looked up as before.
LEMMA OwnerKept ==
    ASSUME OneOwner, OneOwner', NEW e \in Emails, \A id \in Ids : Has(id, e)' <=> Has(id, e)
    PROVE  OwnerOf(e)' = OwnerOf(e)
  BY Owner, OwnerNext DEF OneOwner

LEMMA TakenKept ==
    ASSUME \A q \in Requests :
               /\ at'[q] = "consume_put" <=> at[q] = "consume_put"
               /\ at[q] = "consume_put" => frame'[q] = frame[q] /\ input'[q] = input[q],
           invites' = invites
    PROVE  AsTaken' = AsTaken
  <1> SUFFICES ASSUME NEW t \in Tokens PROVE InviteAsTaken(t)' = InviteAsTaken(t)
    BY DEF AsTaken
  <1>1. Taking(t)' = Taking(t)
    BY DEF Taking
  <1>2. ASSUME Taking(t) # {}
        PROVE  frame'[CHOOSE r \in Taking(t) : TRUE] = frame[CHOOSE r \in Taking(t) : TRUE]
    <2>1. (CHOOSE r \in Taking(t) : TRUE) \in Taking(t)
      BY <1>2
    <2> QED  BY <2>1 DEF Taking
  <1> QED  BY <1>1, <1>2 DEF InviteAsTaken

\* A step of the in-memory stores, or none.
MemoryStep == (UNCHANGED <<users, ByEmail, mode, AsTaken>>) \/ Memory!Next

LEMMA StoreRefines ==
    ASSUME Alone, Shape, Owned, Guarded, Indexed, Members, OneOwner, OneOwner',
           NEW r \in Requests, StoreStep(r), UNCHANGED handlerVars
    PROVE  MemoryStep
  <1> DEFINE f == frame[r]
  <1>o. /\ TypeOK /\ StepOutcome(r) /\ Apart(r) /\ Framed(r) /\ Holds(r) /\ Lower
        /\ f \in Frame /\ f.email \in Emails /\ f.role \in Roles /\ r \in Ids
        /\ users \in [Ids -> User \cup {NoUser}] /\ NoUser \notin User
        /\ ~MayFail
        /\ UNCHANGED <<mode, input, invites>>
        /\ MemoryEmails \subseteq Emails
    BY StoreOutcome, StoreApart, Own, FrameFields, DocumentAssumption
       DEF Shape, Indexed, TypeOK, StoreTypeOK, MayFail, Alone, Plain, handlerVars, MemoryEmails
  <1>t. AsTaken' = AsTaken
    <2>1. at[r] # "consume_put" /\ at'[r] # "consume_put"
      BY <1>o DEF StepOutcome, Refuses, Answers, GoesOn, Scans, Finds, Reads, FailReturns,
           FailIgnored
    <2> QED  BY <2>1, <1>o, TakenKept DEF Apart
  <1>e. ASSUME \A e \in MemoryEmails : \A id \in Ids : Has(id, e)' <=> Has(id, e)
        PROVE  ByEmail' = ByEmail
    BY <1>e, <1>o, OwnerKept DEF ByEmail
  <1>1. CASE users' = users
    <2>1. ByEmail' = ByEmail
      BY <1>1, <1>e DEF Has
    <2> QED  BY <1>1, <2>1, <1>t, <1>o DEF MemoryStep
  <1>2. CASE CreatePutUser(r)
    <2>e. PICK e \in Emails : e = f.email
      BY <1>o
    <2> DEFINE u == [email |-> f.email, role |-> "member"]
    <2>1. /\ at[r] = "create_put_user" /\ f.id = r /\ f.role = "member"
          /\ f.email.form = "lower"
      BY <1>2, <1>o DEF CreatePutUser, Framed, CreateAt, Members, Lower
    <2>2. SetUser(r, u)
      BY <2>1, <1>2, Zenon DEF CreatePutUser
    <2>3. u \in User /\ u.email = f.email
      BY <1>o DEF User, Roles
    <2>4. users[r] = NoUser
      <3>1. ~Claim(r, users[r].email.name)  BY <2>1 DEF Owned, Unborn
      <3> QED  BY <3>1 DEF Claim, ClaimDoc
    <2>5. users' = [users EXCEPT ![r] = u] /\ users'[r] = u
          /\ \A id \in Ids \ {r} : users'[id] = users[id]
      BY <2>2, <1>o DEF SetUser
    <2> HIDE DEF u
    <2>6. \A id \in Ids : ~Has(id, e)
      <3> SUFFICES ASSUME NEW id \in Ids, Has(id, e) PROVE FALSE
        OBVIOUS
      <3>1. Has(r, e)'
        BY <2>e, <2>3, <2>5, <1>o DEF Has
      <3>2. id # r /\ Has(id, e)'
        BY <2>4, <2>5 DEF Has
      <3> QED  BY <3>1, <3>2, <1>o DEF OneOwner
    <2>7. e \in MemoryEmails /\ OwnerOf(e) = NoId /\ OwnerOf(e)' = r
      <3>1. Has(r, e)'
        BY <2>e, <2>3, <2>5, <1>o DEF Has
      <3> QED  BY <3>1, <2>e, <2>1, <2>6, <1>o, Owner, OwnerNext DEF OneOwner, MemoryEmails
    <2>8. \A d \in MemoryEmails \ {e} : OwnerOf(d)' = OwnerOf(d)
      <3> SUFFICES ASSUME NEW d \in MemoryEmails \ {e}, NEW id \in Ids
                   PROVE  Has(id, d)' <=> Has(id, d)
        BY <1>o, OwnerKept
      <3> QED  BY <2>e, <2>3, <2>4, <2>5 DEF Has
    <2>9. ByEmail' = [ByEmail EXCEPT ![e] = r] /\ ByEmail[e] = NoId
      BY <2>7, <2>8 DEF ByEmail
    <2>10. Memory!CreateUser(r, e)
      BY <2>e, <2>4, <2>5, <2>9, <1>o, <1>t
         DEF Memory!CreateUser, Memory!GetByEmail, Memory!GetByID, ByEmail, AsTaken, u
    <2> QED  BY <2>7, <2>10, <1>o DEF Memory!Next, MemoryStep
  <1>3. CASE UpdatePut(r)
    <2> DEFINE u == [f.doc EXCEPT !.role = f.role]
    <2>1. /\ at[r] = "update_put" /\ f.id \in Ids /\ f.doc \in User
          /\ users[f.id] = f.doc
      BY <1>3, <1>o DEF UpdatePut, Framed, UpdateAt, DocAt, Holds
    <2>2. SetUser(f.id, u)
      BY <1>3, Zenon DEF UpdatePut
    <2>3. u \in User /\ u.email = f.doc.email
      BY <2>1, <1>o DEF User
    <2>4. users' = [users EXCEPT ![f.id].role = f.role]
      BY <2>1, <2>2, <1>o DEF SetUser
    <2>5. users'[f.id] = u /\ \A id \in Ids \ {f.id} : users'[id] = users[id]
      BY <2>1, <2>2, <1>o DEF SetUser
    <2> HIDE DEF u
    <2>6. ByEmail' = ByEmail
      <3> SUFFICES ASSUME NEW e \in MemoryEmails, NEW id \in Ids PROVE Has(id, e)' <=> Has(id, e)
        BY <1>e
      <3> QED  BY <2>1, <2>3, <2>5, <1>o DEF Has
    <2>r. f.role \in Memory!Roles
      BY <1>o DEF Memory!Roles, Roles
    <2>7. Memory!UpdateRole(f.id, f.role)
      BY <2>r, <2>1, <2>4, <2>6, <1>o, <1>t
         DEF Memory!UpdateRole, Memory!GetByID, ByEmail, AsTaken
    <2> QED  BY <2>1, <2>7, <2>r DEF Memory!Next, MemoryStep
  <1>4. CASE DeleteUserDoc(r)
    <2>1. /\ at[r] = "delete_user" /\ f.id = r /\ f.doc \in User /\ users[r] = f.doc
          /\ SetUser(r, NoUser)
      BY <1>4, <1>o DEF DeleteUserDoc, Framed, DeleteAt, DocAt, Holds
    <2>e. PICK e \in Emails : e = f.doc.email
      BY <2>1, UserEmails
    <2>2. users' = [users EXCEPT ![r] = NoUser] /\ users'[r] = NoUser
          /\ \A id \in Ids \ {r} : users'[id] = users[id]
      BY <2>1, <1>o DEF SetUser
    <2>3. e \in MemoryEmails /\ Has(r, e)
      BY <2>e, <2>1, <1>o, UserEmails DEF Lower, MemoryEmails, Has
    <2>4. OwnerOf(e)' = NoId
      <3> SUFFICES ASSUME NEW id \in Ids, Has(id, e)' PROVE FALSE
        BY <2>3, <1>o, OwnerNext
      <3>1. id # r /\ Has(id, e)
        BY <2>2 DEF Has
      <3> QED  BY <3>1, <2>3, <1>o DEF OneOwner
    <2>5. \A d \in MemoryEmails \ {e} : OwnerOf(d)' = OwnerOf(d)
      <3> SUFFICES ASSUME NEW d \in MemoryEmails \ {e}, NEW id \in Ids
                   PROVE  Has(id, d)' <=> Has(id, d)
        BY <1>o, OwnerKept
      <3> QED  BY <2>e, <2>1, <2>2 DEF Has
    <2>6. ByEmail' = [ByEmail EXCEPT ![users[r].email] = NoId]
      BY <2>e, <2>1, <2>3, <2>4, <2>5 DEF ByEmail
    <2>7. Memory!DeleteUser(r)
      BY <2>1, <2>2, <2>6, <1>o, <1>t
         DEF Memory!DeleteUser, Memory!GetByID, ByEmail, AsTaken
    <2> QED  BY <2>7, <1>o DEF Memory!Next, MemoryStep
  <1>5. ~CreateUndo(r) /\ ~ReindexPutUser(r)
    BY <1>o DEF CreateUndo, ReindexPutUser, Holds
  <1> QED
    BY <1>1, <1>2, <1>3, <1>4, <1>5, UserWriters

\* The handlers: an invite is used from the reading of ConsumeInvite on.
LEMMA HandlerRefines ==
    ASSUME Alone, Shape, Guarded, Settled, OneOwner, OneOwner', NEW r \in Requests,
           HandlerStep(r)
    PROVE  MemoryStep
  <1>o. /\ TypeOK /\ Outcome(r) /\ Apart(r) /\ Phased(r) /\ Framed(r) /\ users' = users
        /\ invites \in [Tokens -> Invite] /\ r \in Ids /\ NoId \notin Ids
        /\ MemoryEmails \subseteq Emails
    BY HandlerOutcome, HandlerApart, HandlerDocs, Own, StoreAssumption
       DEF Shape, TypeOK, MemoryEmails
  <1>e. ByEmail' = ByEmail
    BY <1>o, OwnerKept DEF ByEmail, Has
  <1>p. \A q \in Requests : at[q] = "consume_put" => phase[q] = "consume" /\ frame[q].id = q
    BY DEF Shape, TypeOK, Framed, Phased, Phases, Ended, CreateAt, UpdateAt, DeleteAt,
         LookupAt, ReindexAt, CountAt, ConsumeAt
  <1>m. ASSUME at[r] = "consume_put" PROVE ConsumePut(r)
    BY <1>m, <1>o, <1>p
       DEF HandlerStep, Register, RegisteredOpen, RegisteredInvite, ConsumeRead, ConsumeFails,
         Consumed, RolledBack, Login, Verified, Reloaded, OpenSession, ChangeRole, ReadTarget,
         Counted, RoleUpdated, OpenPanel, SetRegistrationMode, CreateInvite, AdminCreate,
         Ensured, Promoted, HandlerFails, Returned, MayFail, Alone, Plain
  <1>1. CASE ConsumePut(r)
    <2>1. /\ at[r] = "consume_put" /\ at'[r] = "returned" /\ mode' = mode
          /\ invites' = [invites EXCEPT ![input[r].token].usedBy = frame[r].id]
          /\ input[r].token \in Tokens /\ frame[r].id = r /\ input' = input
      BY <1>1, <1>o, <1>p, Effects DEF ConsumePut, Settled, Unspent
    <2>2. \A q \in Requests \ {r} : at[q] # "consume_put" /\ at'[q] # "consume_put"
      BY <2>1, <1>o DEF Guarded, Alone, Plain, OneProcess, Locked, Apart
    <2>3. ASSUME NEW t \in Tokens PROVE InviteAsTaken(t)' = InviteAsTaken(t)
      <3>1. Taking(t)' = {}
        BY <2>1, <2>2 DEF Taking
      <3>2. CASE t = input[r].token
        <4>1. Taking(t) = {r}
          BY <3>2, <2>1, <2>2 DEF Taking
        <4>2. (CHOOSE q \in Taking(t) : TRUE) = r
          BY <4>1
        <4> QED  BY <3>1, <3>2, <4>1, <4>2, <2>1, <1>o DEF InviteAsTaken, Invite
      <3>3. CASE t # input[r].token
        <4>1. Taking(t) = {}
          BY <3>3, <2>1, <2>2 DEF Taking
        <4> QED  BY <3>1, <3>3, <4>1, <2>1, <1>o DEF InviteAsTaken
      <3> QED  BY <3>2, <3>3
    <2>4. AsTaken' = AsTaken
      BY <2>3 DEF AsTaken
    <2> QED  BY <2>1, <2>4, <1>e, <1>o DEF MemoryStep
  <1>2. CASE ConsumeRead(r) /\ at'[r] = "consume_put"
    <2>p. at[r] = "consume_read" /\ phase[r] = "consume"
      <3>1. at[r] = "consume_read"
        BY <1>2 DEF ConsumeRead
      <3> QED
        BY <3>1 DEF Shape, TypeOK, Phased, Phases, Ended, CreateAt, UpdateAt, DeleteAt, LookupAt,
             ReindexAt, CountAt, ConsumeAt
    <2>s. PICK s \in Tokens : s = input[r].token
      BY <2>p DEF Settled, Unspent
    <2>1. /\ at[r] = "consume_read" /\ MutexFree(r) /\ frame' = frame
          /\ UNCHANGED <<mode, invites, input, phase>>
          /\ invites[s].state = "live" /\ invites[s].usedBy = NoId
      BY <2>s, <1>2, <1>o, Effects DEF ConsumeRead, handlerVars
    <2>2. \A q \in Requests : /\ at[q] # "consume_put"
                              /\ at'[q] = "consume_put" <=> q = r
      BY <2>1, <1>2, <1>o, StoreAssumption DEF Guarded, Alone, Plain, OneProcess, Locked,
           Apart, MutexFree
    <2>3. frame[r].id = r
      BY <2>p, <1>o DEF Framed, ConsumeAt
    <2>4. \A t \in Tokens : Taking(t) = {} /\ Taking(t)' = IF t = s THEN {r} ELSE {}
      BY <2>s, <2>1, <2>2 DEF Taking
    <2>5. \A t \in Tokens : InviteAsTaken(t) = invites[t]
      BY <2>4 DEF InviteAsTaken
    <2>6. \A t \in Tokens \ {s} : InviteAsTaken(t)' = invites[t]
      BY <2>1, <2>4 DEF InviteAsTaken
    <2>7. InviteAsTaken(s)' = [invites[s] EXCEPT !.usedBy = r]
      <3>1. (CHOOSE q \in Taking(s)' : TRUE) = r
        BY <2>4
      <3> QED  BY <3>1, <2>1, <2>3, <2>4 DEF InviteAsTaken
    <2>8. AsTaken = invites /\ AsTaken' = [AsTaken EXCEPT ![s].usedBy = r]
      <3>1. AsTaken = invites
        BY <2>5, <1>o DEF AsTaken
      <3> QED  BY <3>1, <2>3, <2>6, <2>7, <1>o DEF AsTaken
    <2>9. Memory!ConsumeInvite(s, r)
      BY <2>1, <2>8, <1>e, <1>o DEF Memory!ConsumeInvite, ByEmail, AsTaken
    <2> QED  BY <2>3, <2>9, <1>o DEF Memory!Next, MemoryStep
  <1>3. ASSUME ~ConsumePut(r), ~(ConsumeRead(r) /\ at'[r] = "consume_put")
        PROVE  \A q \in Requests :
                   /\ at'[q] = "consume_put" <=> at[q] = "consume_put"
                   /\ at[q] = "consume_put" => frame'[q] = frame[q] /\ input'[q] = input[q]
    <2>1. at[r] # "consume_put"
      BY <1>3, <1>m
    <2>2. at'[r] # "consume_put"
      <3> SUFFICES ASSUME at'[r] = "consume_put" PROVE ConsumeRead(r)
        BY <1>3
      <3>1. at[r] = "consume_read" /\ phase[r] = "consume"
        BY <2>1, <1>o DEF Outcome, Waits, ConsumeAt
      <3> QED
        BY <3>1, <1>o
           DEF HandlerStep, Register, RegisteredOpen, RegisteredInvite, ConsumePut,
             ConsumeFails, Consumed, RolledBack, Login, Verified, Reloaded, OpenSession,
             ChangeRole, ReadTarget, Counted, RoleUpdated, OpenPanel, SetRegistrationMode,
             CreateInvite, AdminCreate, Ensured, Promoted, HandlerFails, Returned, MayFail,
             Alone, Plain
    <2> QED  BY <2>1, <2>2, <1>o DEF Apart
  <1>4. CASE CreateInvite(r)
    <2>1. /\ at[r] # "consume_put" /\ at'[r] # "consume_put"
          /\ mode' = mode
      BY <1>4, <1>o, <1>p, Effects DEF CreateInvite
    <2>2. PICK t \in Tokens, ttl \in BOOLEAN :
             /\ invites[t].state = "absent"
             /\ invites' = [invites EXCEPT ![t] = [state |-> "live", ttl |-> ttl, usedBy |-> NoId]]
      BY <1>4 DEF CreateInvite
    <2>3. \A q \in Requests : /\ at'[q] = "consume_put" <=> at[q] = "consume_put"
                              /\ at[q] = "consume_put" =>
                                    frame'[q] = frame[q] /\ input'[q] = input[q]
      BY <2>1, <1>o DEF Apart
    <2>4. \A u \in Tokens : Taking(u)' = Taking(u)
      BY <2>3 DEF Taking
    <2>5. Taking(t) = {}
      BY <2>2 DEF Taking, Settled, Unspent
    <2>6. ASSUME NEW u \in Tokens \ {t} PROVE InviteAsTaken(u)' = InviteAsTaken(u)
      <3>1. invites'[u] = invites[u] /\ Taking(u)' = Taking(u)
        BY <2>2, <2>4, <1>o
      <3>2. ASSUME Taking(u) # {}
            PROVE  frame'[CHOOSE q \in Taking(u) : TRUE] = frame[CHOOSE q \in Taking(u) : TRUE]
        <4>1. (CHOOSE q \in Taking(u) : TRUE) \in Taking(u)
          BY <3>2
        <4> QED  BY <4>1, <2>3 DEF Taking
      <3> QED  BY <3>1, <3>2 DEF InviteAsTaken
    <2>7. /\ InviteAsTaken(t) = invites[t]
          /\ InviteAsTaken(t)' = [state |-> "live", ttl |-> ttl, usedBy |-> NoId]
      BY <2>2, <2>4, <2>5, <1>o DEF InviteAsTaken
    <2>8. AsTaken' = [AsTaken EXCEPT ![t] = [state |-> "live", ttl |-> ttl, usedBy |-> NoId]]
          /\ AsTaken[t].state = "absent"
      BY <2>2, <2>6, <2>7 DEF AsTaken
    <2>9. Memory!CreateInvite(t, ttl)
      BY <2>1, <2>8, <1>e, <1>o DEF Memory!CreateInvite, ByEmail, AsTaken
    <2> QED  BY <2>9 DEF Memory!Next, MemoryStep
  <1>5. CASE SetRegistrationMode(r)
    <2>1. /\ ~ConsumePut(r) /\ ~ConsumeRead(r) /\ invites' = invites
          /\ \E m \in Modes : mode' = m
      BY <1>5, <1>o DEF SetRegistrationMode, ConsumePut, ConsumeRead, Phased, Ended
    <2>2. AsTaken' = AsTaken
      BY <2>1, <1>3, TakenKept
    <2>3. \E m \in Modes : Memory!SetRegistrationMode(m)
      BY <2>1, <2>2, <1>e, <1>o DEF Memory!SetRegistrationMode, ByEmail, AsTaken
    <2> QED  BY <2>3 DEF Memory!Next, MemoryStep
  <1>6. CASE /\ ~ConsumePut(r) /\ ~(ConsumeRead(r) /\ at'[r] = "consume_put")
             /\ ~CreateInvite(r) /\ ~SetRegistrationMode(r)
    <2>1. UNCHANGED <<mode, invites>>
      BY <1>6 DEF HandlerStep, Register, RegisteredOpen, RegisteredInvite, ConsumeRead,
           ConsumeFails, Consumed, RolledBack, Login, Verified, Reloaded, OpenSession,
           ChangeRole, ReadTarget, Counted, RoleUpdated, OpenPanel, AdminCreate, Ensured,
           Promoted, HandlerFails, SameSetup, handlerVars
    <2>2. AsTaken' = AsTaken
      BY <2>1, <1>3, <1>6, TakenKept
    <2> QED  BY <2>1, <2>2, <1>e, <1>o DEF MemoryStep
  <1> QED  BY <1>1, <1>2, <1>4, <1>5, <1>6

LEMMA ExpiryRefines ==
    ASSUME Shape, OneOwner, OneOwner', NEW s \in Tokens, InviteExpires(s) PROVE MemoryStep
  <1>1. /\ UNCHANGED <<users, at, frame, mode, input>> /\ invites \in [Tokens -> Invite]
        /\ invites[s].state = "live" /\ invites[s].ttl
        /\ invites' = [invites EXCEPT ![s].state = "expired"]
        /\ MemoryEmails \subseteq Emails
    BY DEF InviteExpires, storeVars, Shape, TypeOK, MemoryEmails
  <1>2. ByEmail' = ByEmail
    BY <1>1, OwnerKept DEF ByEmail, Has
  <1>3. \A t \in Tokens : Taking(t)' = Taking(t)
    BY <1>1 DEF Taking
  <1>4. \A t \in Tokens \ {s} : InviteAsTaken(t)' = InviteAsTaken(t)
    BY <1>1, <1>3 DEF InviteAsTaken
  <1>5. /\ InviteAsTaken(s).state = "live" /\ InviteAsTaken(s).ttl
        /\ InviteAsTaken(s)' = [InviteAsTaken(s) EXCEPT !.state = "expired"]
    BY <1>1, <1>3 DEF InviteAsTaken, Invite
  <1>6. /\ AsTaken' = [AsTaken EXCEPT ![s].state = "expired"]
        /\ AsTaken[s].state = "live" /\ AsTaken[s].ttl
    BY <1>4, <1>5 DEF AsTaken
  <1>7. Memory!Expire(s)
    BY <1>1, <1>2, <1>6 DEF Memory!Expire, ByEmail, AsTaken
  <1> QED  BY <1>7 DEF Memory!Next, MemoryStep

LEMMA InitRefines == ASSUME Alone, Init, OneOwner PROVE Memory!Init
  <1>1. /\ \A r \in Requests : at[r] = "none"
        /\ users \in [Ids -> User \cup {NoUser}]
        /\ \A id \in Ids : users[id] # NoUser => users[id].email.form = "lower"
        /\ mode \in Modes /\ invites \in [Tokens -> Invite]
        /\ MemoryEmails \subseteq Emails
    BY KindAssumption DEF Init, StoreInit, Alone, Plain, Modes, Ids, MemoryEmails
  <1>2. users \in [Ids -> [email : MemoryEmails, role : Roles] \cup {NoUser}]
    <2> SUFFICES ASSUME NEW id \in Ids, users[id] # NoUser
                 PROVE  users[id] \in [email : MemoryEmails, role : Roles]
      BY <1>1
    <2> QED  BY <1>1 DEF User, MemoryEmails
  <1>3. \A e \in MemoryEmails : OwnerOf(e) \in Ids \cup {NoId}
    BY <1>1, Owner
  <1>4. \A e \in MemoryEmails, id \in Ids :
            OwnerOf(e) = id <=> users[id] # NoUser /\ users[id].email = e
    BY <1>1, Owner, StoreAssumption DEF OneOwner, Has
  <1>5. \A t \in Tokens : InviteAsTaken(t) = invites[t]
    BY <1>1 DEF InviteAsTaken, Taking
  <1> QED
    BY <1>1, <1>2, <1>3, <1>4, <1>5
       DEF Memory!Init, Memory!Agree, Memory!Users, Memory!Roles, Memory!Invites, Roles, Invite

\* ImplementsMemoryStore, for one process without failures, emails from before
\* normalisation and `admin create`: every step under a handler is one call on
\* the in-memory stores, or none.
THEOREM StoresAgree == ASSUME Alone PROVE Spec => ImplementsMemoryStore
  <1> DEFINE Inv == Shape /\ Owned /\ Guarded /\ Indexed /\ Settled /\ Members
  <1>1. Init => Guarded  BY DEF Init, StoreInit, Guarded, Locked
  <1>2. Init => Indexed  BY InitIndexed DEF Alone
  <1>3. Init => Members  BY DEF Init, StoreInit, Members, CreateAt
  <1>4. Inv /\ [Next]_vars => Inv'
    BY NextShape, NextOwned, NextGuarded, NextIndexed, NextSettled, NextMembers DEF Alone
  <1>5. Inv => OneOwner
    BY OwnedByOne DEF Alone
  <1>6. Init /\ OneOwner => Memory!Init
    BY InitRefines
  <1>7. Inv /\ OneOwner /\ OneOwner' /\ [Next]_vars
            => [UNCHANGED Memory!memoryVars \/ Memory!Next]_(Memory!memoryVars)
    <2> SUFFICES ASSUME Inv, OneOwner, OneOwner', [Next]_vars PROVE MemoryStep
      BY DEF MemoryStep, Memory!memoryVars, ByEmail, AsTaken
    <2>1. CASE UNCHANGED vars
      BY <2>1 DEF vars, storeVars, handlerVars, MemoryStep, ByEmail, AsTaken, OwnerOf,
           InviteAsTaken, Taking
    <2>2. ASSUME NEW r \in Requests, HandlerStep(r) PROVE MemoryStep
      BY <2>2, HandlerRefines
    <2>3. ASSUME NEW r \in Requests, StoreStep(r), UNCHANGED handlerVars PROVE MemoryStep
      BY <2>3, StoreRefines
    <2>4. ASSUME NEW t \in Tokens, InviteExpires(t) PROVE MemoryStep
      BY <2>4, ExpiryRefines
    <2>5. \A p \in Procs : ~Crash(p)
      BY DEF Crash, Alone, Plain
    <2> QED  BY <2>1, <2>2, <2>3, <2>4, <2>5 DEF Next, Quiet
  <1>8. Init => Inv
    BY <1>1, <1>2, <1>3, InitShape, InitOwned, InitSettled
  <1> HIDE DEF Inv
  <1> QED
    BY <1>4, <1>5, <1>6, <1>7, <1>8, PTL DEF Spec, ImplementsMemoryStore
=============================================================================
