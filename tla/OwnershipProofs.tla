--------------------------- MODULE OwnershipProofs ---------------------------
(***************************************************************************)
(* Proofs about Accounts, for any requests, processes and faults:          *)
(*   - the address of an account, in its document, in the index and in the *)
(*     calls under way: IndexHonest, SessionsForOwners;                    *)
(*   - the invites spent on accounts: InvitesBacked;                       *)
(*   - the mutex and what it protects: OneWriterAtATime and, for one       *)
(*     process, RolesByUpdateRoleOnly;                                     *)
(*   - the last admin, for one change of a role: AnAdminRemains.           *)
(***************************************************************************)
EXTENDS AccountsProofs

\* What is said of the address of account id, and where: in its document, in the
\* index, by a call under way, by a login that has been answered.
ClaimDoc(id, n) == users[id] # NoUser /\ users[id].email.name = n
ClaimIndex(id, n) == \E e \in Emails : index[e] = id /\ e.name = n
ClaimCall(r, id, n) ==
    /\ frame[r].id = id
    /\ \/ /\ at[r] \in {"create_put_index", "create_undo", "lookup_user"} \cup ReindexAt
          /\ frame[r].email.name = n
       \/ at[r] \in DocAt /\ frame[r].doc.email.name = n
ClaimLogin(r, id, n) ==
    /\ input[r].email.name = n
    /\ \/ /\ phase[r] \in {"verify", "reload", "ensure"} /\ at[r] = "returned"
          /\ answer[r].err = "nil" /\ answer[r].id = id
       \/ phase[r] = "session" /\ input[r].id = id

Claim(id, n) ==
    \/ ClaimDoc(id, n) \/ ClaimIndex(id, n)
    \/ \E r \in Requests : ClaimCall(r, id, n) \/ ClaimLogin(r, id, n)

\* The account of request r is not made yet.
Unborn(r) ==
    \/ phase[r] \in {"idle", "verify", "reload", "session", "target", "count", "update", "panel", "ensure"}
    \/ at[r] \in {"create_check", "create_put_user"}

\* A lookup is about the address of the form.
Asked(r) ==
    /\ phase[r] \in {"verify", "reload", "ensure"} /\ at[r] \in LookupAt => frame[r].email = input[r].email
    /\ phase[r] \in {"verify", "reload", "session", "ensure"} => input[r].email.form = "lower"
    /\ phase[r] \in {"verify", "reload", "session"} => r \in Logins
    /\ phase[r] \in {"ensure", "promote"} => r \in AdminCreates

Owned ==
    /\ \A id \in Ids : \A n, m : Claim(id, n) /\ Claim(id, m) => n = m
    /\ \A r \in Requests : Unborn(r) => \A n : ~Claim(r, n)
    /\ \A r \in Requests : Asked(r)

-----------------------------------------------------------------------------
LEMMA Normal ==
    \A e \in Emails :
        /\ normalizeEmail(e).name = e.name /\ normalizeEmail(e).form = "lower"
        /\ \A d \in Emails : normalizeEmail(e) = normalizeEmail(d) <=> e.name = d.name
        /\ \A d \in Emails : d.form = "lower" => (normalizeEmail(e) = d <=> e.name = d.name)
  BY DEF Emails, normalizeEmail

LEMMA UserEmails ==
    \A u \in User :
        /\ u.email \in Emails
        /\ \A ro : [u EXCEPT !.role = ro].email = u.email /\ [u EXCEPT !.role = ro].role = ro
        /\ \A e : [u EXCEPT !.email = e].email = e /\ [u EXCEPT !.email = e].role = u.role
  BY DEF User

\* Documents a step writes.
LEMMA Writes ==
    ASSUME TypeOK
    PROVE  /\ \A id \in Ids : \A u : SetUser(id, u) =>
                 users'[id] = u /\ \A jd \in Ids \ {id} : users'[jd] = users[jd]
           /\ \A e \in Emails : \A id : SetIndex(e, id) =>
                 index'[e] = id /\ \A d \in Emails \ {e} : index'[d] = index[d]
  BY DEF TypeOK, StoreTypeOK, SetUser, SetIndex

\* A step of a call writes of an account what was said of it before, but for
\* the making of it.
Made(r, id, n) == at[r] = "create_put_user" /\ id = r /\ n = frame[r].email.name

LEMMA StoreDocs ==
    ASSUME Shape, NEW r \in Requests, StoreStep(r), NEW id \in Ids, NEW n,
           ClaimDoc(id, n)' \/ ClaimIndex(id, n)'
    PROVE  Claim(id, n) \/ Made(r, id, n)
  <1>o. /\ TypeOK /\ Framed(r) /\ frame[r].email \in Emails
        /\ frame[r].id \in Ids \cup {NoId} /\ NoId \notin Ids
        /\ NoUser \notin User
    BY FrameFields, StoreAssumption, DocumentAssumption DEF Shape, TypeOK, StoreTypeOK
  <1>u. ASSUME users' = users, ClaimDoc(id, n)' PROVE Claim(id, n)
    BY <1>u DEF ClaimDoc, Claim
  <1>i. ASSUME index' = index, ClaimIndex(id, n)' PROVE Claim(id, n)
    BY <1>i DEF ClaimIndex, Claim
  <1>2. CASE CreatePutUser(r)
    <2>1. /\ at[r] = "create_put_user" /\ frame[r].id = r /\ index' = index
          /\ SetUser(r, [email |-> frame[r].email, role |-> frame[r].role])
      BY <1>2, <1>o DEF CreatePutUser, Framed, CreateAt
    <2>2. ASSUME ClaimDoc(id, n)' PROVE Claim(id, n) \/ Made(r, id, n)
      BY <2>1, <2>2, <1>o, Writes, Own DEF ClaimDoc, Claim, Made
    <2> QED  BY <2>1, <2>2, <1>i
  <1>3. CASE CreatePutIndex(r)
    <2>1. at[r] = "create_put_index" /\ frame[r].id = r /\ users' = users
      BY <1>3, <1>o DEF CreatePutIndex, Framed, CreateAt
    <2>2. CASE SetIndex(frame[r].email, frame[r].id)
      BY <2>1, <2>2, <1>o, <1>u, Writes DEF ClaimIndex, ClaimCall, Claim
    <2> QED  BY <1>3, <2>1, <2>2, <1>u, <1>i DEF CreatePutIndex
  <1>4. CASE CreateUndo(r)
    <2>1. at[r] = "create_undo" /\ frame[r].id = r /\ index' = index
      BY <1>4, <1>o DEF CreateUndo, Framed, CreateAt
    <2>2. CASE SetUser(frame[r].id, NoUser)
      BY <2>1, <2>2, <1>o, <1>i, Writes, Own DEF ClaimDoc, Claim
    <2> QED  BY <1>4, <2>1, <2>2, <1>u, <1>i DEF CreateUndo
  <1>6. CASE UpdatePut(r)
    <2>1. /\ at[r] = "update_put" /\ frame[r].id \in Ids /\ frame[r].doc \in User /\ index' = index
          /\ SetUser(frame[r].id, [frame[r].doc EXCEPT !.role = frame[r].role])
      BY <1>6, <1>o DEF UpdatePut, Framed, UpdateAt, DocAt
    <2>a. [frame[r].doc EXCEPT !.role = frame[r].role].email = frame[r].doc.email
      BY <2>1, UserEmails
    <2>2. PICK u : SetUser(frame[r].id, u) /\ u.email = frame[r].doc.email
      BY <2>1, <2>a, Zenon
    <2>3. ASSUME ClaimDoc(id, n)' PROVE Claim(id, n)
      <3>1. CASE id # frame[r].id
        BY <2>1, <2>2, <2>3, <3>1, <1>o, Writes DEF ClaimDoc, Claim
      <3>2. CASE id = frame[r].id
        <4>1. users'[id].email = frame[r].doc.email  BY <2>1, <2>2, <3>2, <1>o, Writes
        <4>2. ClaimCall(r, id, n)  BY <2>1, <2>3, <3>2, <4>1 DEF ClaimDoc, ClaimCall, DocAt
        <4> QED  BY <4>2 DEF Claim
      <3> QED  BY <3>1, <3>2
    <2> QED  BY <2>1, <2>3, <1>i
  <1>8. CASE DeleteUserDoc(r)
    <2>1. /\ at[r] = "delete_user" /\ frame[r].id = r /\ index' = index
          /\ SetUser(frame[r].id, NoUser)
      BY <1>8, <1>o DEF DeleteUserDoc, Framed, DeleteAt
    <2> QED  BY <2>1, <1>o, <1>i, Writes, Own DEF ClaimDoc, Claim
  <1>9. CASE DeleteIndex(r)
    <2>1. /\ at[r] = "delete_index" /\ frame[r].doc \in User /\ users' = users
          /\ SetIndex(frame[r].doc.email, NoId)
      BY <1>9, <1>o DEF DeleteIndex, Framed, DocAt
    <2> QED  BY <2>1, <1>o, <1>u, Writes, UserEmails DEF ClaimIndex, Claim
  <1>15. CASE ReindexPutUser(r)
    <2>1. /\ at[r] = "reindex_put_user" /\ frame[r].id \in Ids /\ frame[r].doc \in User /\ index' = index
          /\ SetUser(frame[r].id, [frame[r].doc EXCEPT !.email = frame[r].email])
      BY <1>15, <1>o DEF ReindexPutUser, Framed, ReindexAt, DocAt
    <2>a. [frame[r].doc EXCEPT !.email = frame[r].email].email = frame[r].email
      BY <2>1, UserEmails
    <2>2. PICK u : SetUser(frame[r].id, u) /\ u.email = frame[r].email
      BY <2>1, <2>a, Zenon
    <2>3. ASSUME ClaimDoc(id, n)' PROVE Claim(id, n)
      <3>1. CASE id # frame[r].id
        BY <2>1, <2>2, <2>3, <3>1, <1>o, Writes DEF ClaimDoc, Claim
      <3>2. CASE id = frame[r].id
        <4>1. users'[id].email = frame[r].email  BY <2>1, <2>2, <3>2, <1>o, Writes
        <4>2. ClaimCall(r, id, n)  BY <2>1, <2>3, <3>2, <4>1 DEF ClaimDoc, ClaimCall, ReindexAt
        <4> QED  BY <4>2 DEF Claim
      <3> QED  BY <3>1, <3>2
    <2> QED  BY <2>1, <2>3, <1>i
  <1>16. CASE ReindexPutIndex(r)
    <2>1. /\ at[r] = "reindex_put_index" /\ users' = users
          /\ SetIndex(frame[r].email, frame[r].id)
      BY <1>16 DEF ReindexPutIndex
    <2>2. ASSUME ClaimIndex(id, n)' PROVE Claim(id, n)
      BY <2>1, <2>2, <1>o, Writes DEF ClaimIndex, ClaimCall, Claim, ReindexAt
    <2> QED  BY <2>1, <2>2, <1>u
  <1>17. CASE ReindexDeleteOld(r)
    <2>1. /\ at[r] = "reindex_delete_old" /\ frame[r].doc \in User /\ users' = users
          /\ SetIndex(frame[r].doc.email, NoId)
      BY <1>17, <1>o DEF ReindexDeleteOld, Framed, DocAt
    <2> QED  BY <2>1, <1>o, <1>u, Writes, UserEmails DEF ClaimIndex, Claim
  <1>21. CASE CreateCheck(r) \/ UpdateRead(r) \/ DeleteRead(r) \/ LookupIndex(r) \/ LookupUser(r)
          \/ ScanList(r) \/ ScanRead(r) \/ ReindexRead(r) \/ CountList(r) \/ CountRead(r) \/ OperationFails(r)
    <2>1. users' = users /\ index' = index
      BY <1>21 DEF SameDocs, CreateCheck, UpdateRead, DeleteRead, LookupIndex, LookupUser,
           ScanList, ScanRead, ReindexRead, CountList, CountRead, OperationFails
    <2> QED  BY <2>1, <1>u, <1>i
  <1> QED
    BY StoreStep(r), <1>2, <1>3, <1>4, <1>6, <1>8, <1>9, <1>15, <1>16, <1>17, <1>21
         DEF StoreStep

LEMMA StoreCall ==
    ASSUME Shape, NEW r \in Requests, StoreStep(r), NEW id \in Ids, NEW n, ClaimCall(r, id, n)'
    PROVE  Claim(id, n) \/ Made(r, id, n)
  <1>1. /\ StepOutcome(r) /\ Framed(r) /\ frame[r].email \in Emails
        /\ \A jd \in Ids : users[jd] \in User \cup {NoUser}
        /\ NoId \notin Ids
    BY StoreOutcome, FrameFields, StoreAssumption DEF Shape, TypeOK, StoreTypeOK
  <1> SUFFICES ASSUME ~Made(r, id, n) PROVE ClaimDoc(id, n) \/ ClaimIndex(id, n) \/ ClaimCall(r, id, n)
    BY DEF Claim
  <1>2. CASE at[r] \in {"create_check", "create_put_index", "delete_user", "reindex_put_user", "reindex_put_index"}
    BY <1>1, <1>2 DEF StepOutcome, Refuses, Answers, GoesOn, FailReturns, FailIgnored,
                      ClaimCall, ReindexAt, DocAt
  <1>3. CASE at[r] = "create_put_user"
    BY <1>1, <1>3 DEF StepOutcome, Refuses, GoesOn, FailReturns, FailIgnored, Framed, CreateAt,
         ClaimCall, Made, ReindexAt, DocAt
  <1>4. CASE at[r] = "scan_read"
    <2>1. at'[r] = "reindex_read"
      BY <1>1, <1>4 DEF StepOutcome, Refuses, Scans, Finds, FailReturns, FailIgnored,
           ClaimCall, ReindexAt, DocAt
    <2>2. users[id] # NoUser /\ normalizeEmail(users[id].email) = frame[r].email /\ n = frame[r].email.name
      BY <1>1, <1>4, <2>1 DEF StepOutcome, Refuses, Scans, Finds, FailReturns, FailIgnored,
           ClaimCall, ReindexAt, DocAt
    <2> QED  BY <2>2, <1>1, Normal, UserEmails DEF ClaimDoc
  <1>5. CASE at[r] = "lookup_index"
    BY <1>1, <1>5 DEF StepOutcome, Refuses, Scans, Finds, FailReturns, FailIgnored, ClaimCall,
         ClaimIndex, ReindexAt, DocAt
  <1>6. CASE at[r] = "lookup_user"
    BY <1>1, <1>6 DEF StepOutcome, Refuses, Answers, Scans, Finds, FailReturns, FailIgnored,
         ClaimCall, ReindexAt, DocAt
  <1>7. CASE at[r] \in {"update_read", "delete_read", "reindex_read"}
    BY <1>1, <1>7 DEF StepOutcome, Refuses, Answers, Reads, Scans, Finds, FailReturns,
         FailIgnored, ClaimCall, ClaimDoc, ReindexAt, DocAt
  <1> QED
    BY <1>1, <1>2, <1>3, <1>4, <1>5, <1>6, <1>7
       DEF StepOutcome, Refuses, Answers, GoesOn, Scans, FailReturns, FailIgnored, ClaimCall,
            ReindexAt, DocAt

LEMMA StoreLogin ==
    ASSUME Shape, NEW r \in Requests, StoreStep(r), UNCHANGED handlerVars, Asked(r),
           NEW id \in Ids, NEW n, ClaimLogin(r, id, n)'
    PROVE  ClaimCall(r, id, n)
  <1>1. /\ StepOutcome(r) /\ Phased(r) /\ phase'[r] = phase[r] /\ input'[r] = input[r]
    BY StoreOutcome DEF Shape, handlerVars
  <1>2. at[r] \in LookupAt /\ phase[r] \in {"verify", "reload", "ensure"} /\ at'[r] = "returned"
        /\ answer'[r].err = "nil" /\ answer'[r].id = id /\ input[r].email.name = n
    BY <1>1 DEF ClaimLogin, Phased, StepOutcome, FailReturns, FailIgnored
  <1>3. Answers(r) /\ at[r] \in {"lookup_user"} \cup ReindexAt
    BY <1>1, <1>2 DEF StepOutcome, Refuses, GoesOn, Scans, Finds, Reads, Answers, FailReturns,
         FailIgnored, LookupAt, ReindexAt
  <1> QED  BY <1>2, <1>3 DEF Answers, Asked, ClaimCall

LEMMA StoreClaims ==
    ASSUME Shape, Owned, NEW r \in Requests, StoreStep(r), UNCHANGED handlerVars,
           NEW id \in Ids, NEW n, Claim(id, n)'
    PROVE  Claim(id, n) \/ Made(r, id, n)
  <1>1. CASE ClaimDoc(id, n)' \/ ClaimIndex(id, n)'
    BY <1>1, StoreDocs
  <1>2. CASE ClaimCall(r, id, n)'
    BY <1>2, StoreCall
  <1>3. CASE ClaimLogin(r, id, n)'
    BY <1>3, StoreLogin DEF Owned, Claim
  <1>4. ASSUME NEW q \in Requests \ {r}, ClaimCall(q, id, n)' \/ ClaimLogin(q, id, n)'
        PROVE  Claim(id, n)
    <2>1. /\ at'[q] = at[q] /\ frame'[q] = frame[q] /\ answer'[q] = answer[q]
          /\ phase'[q] = phase[q] /\ input'[q] = input[q]
      BY StoreApart DEF Apart, Shape
    <2>2. ClaimCall(q, id, n) \/ ClaimLogin(q, id, n)
      BY <1>4, <2>1 DEF ClaimCall, ClaimLogin
    <2> QED  BY <2>2 DEF Claim
  <1> QED  BY <1>1, <1>2, <1>3, <1>4 DEF Claim

-----------------------------------------------------------------------------
(* The handlers, and the steps of others.                                  *)

LEMMA HandlerDocs ==
    ASSUME NEW r \in Requests, HandlerStep(r) PROVE UNCHANGED <<users, index>>
  BY DEF HandlerStep, Register, RegisteredOpen, RegisteredInvite, ConsumeRead, ConsumePut,
       ConsumeFails,
         Consumed, RolledBack, Login, Verified, Reloaded, OpenSession, ChangeRole, ReadTarget,
         Counted,
         RoleUpdated, OpenPanel, SetRegistrationMode, CreateInvite, AdminCreate, Ensured,
         Promoted,
         HandlerFails, SameStore, SameDocs

LEMMA HandlerClaims ==
    ASSUME Shape, NEW r \in Requests, HandlerStep(r), NEW id \in Ids, NEW n, Claim(id, n)'
    PROVE  Claim(id, n)
  <1>o. Outcome(r) /\ Apart(r) /\ UNCHANGED <<users, index>> /\ NoId \notin Ids
    BY HandlerOutcome, HandlerApart, HandlerDocs, StoreAssumption DEF Shape
  <1>1. CASE ClaimDoc(id, n)' \/ ClaimIndex(id, n)'
    BY <1>1, <1>o DEF ClaimDoc, ClaimIndex, Claim
  <1>2. ~ClaimCall(r, id, n)'
    BY <1>o DEF Outcome, ClaimCall, Waits, ConsumeAt, ReindexAt, DocAt
  <1>3. CASE ClaimLogin(r, id, n)'
    <2>1. ClaimLogin(r, id, n)
      BY <1>3, <1>o DEF Outcome, ClaimLogin, Ended
    <2> QED  BY <2>1 DEF Claim
  <1>4. ASSUME NEW q \in Requests \ {r}, ClaimCall(q, id, n)' \/ ClaimLogin(q, id, n)'
        PROVE  Claim(id, n)
    <2>1. /\ at'[q] = at[q] /\ frame'[q] = frame[q] /\ answer'[q] = answer[q]
          /\ phase'[q] = phase[q] /\ input'[q] = input[q]
      BY <1>o DEF Apart
    <2>2. ClaimCall(q, id, n) \/ ClaimLogin(q, id, n)
      BY <1>4, <2>1 DEF ClaimCall, ClaimLogin
    <2> QED  BY <2>2 DEF Claim
  <1> QED  BY <1>1, <1>2, <1>3, <1>4 DEF Claim

\* Nobody becomes unborn, and who makes an account is.
LEMMA UnbornSteps ==
    ASSUME Shape, NEW r \in Requests,
           HandlerStep(r) \/ (StoreStep(r) /\ UNCHANGED handlerVars)
    PROVE  /\ \A q \in Requests : Unborn(q)' => Unborn(q)
           /\ at[r] = "create_put_user" /\ ~HandlerStep(r) => ~Unborn(r)'
  <1>1. CASE HandlerStep(r)
    <2>1. Outcome(r) /\ Apart(r) /\ Phased(r)
      BY <1>1, HandlerOutcome, HandlerApart DEF Shape
    <2>2. Unborn(r)' => Unborn(r)
      BY <2>1 DEF Outcome, Unborn, Ended, Waits, ConsumeAt
    <2>3. \A q \in Requests \ {r} : Unborn(q)' => Unborn(q)
      BY <2>1 DEF Apart, Unborn
    <2> QED  BY <1>1, <2>2, <2>3
  <1>2. CASE StoreStep(r) /\ UNCHANGED handlerVars
    <2>1. StepOutcome(r) /\ Apart(r) /\ phase'[r] = phase[r] /\ Phased(r)
      BY <1>2, StoreOutcome, StoreApart DEF Shape, handlerVars
    <2>2. Unborn(r)' => Unborn(r)
      BY <2>1 DEF Unborn, StepOutcome, Refuses, Answers, GoesOn, Scans, Finds, Reads,
           FailReturns, FailIgnored
    <2>3. \A q \in Requests \ {r} : Unborn(q)' => Unborn(q)
      BY <2>1 DEF Apart, Unborn
    <2>4. at[r] = "create_put_user" => ~Unborn(r)'
      BY <2>1 DEF Unborn, StepOutcome, Refuses, GoesOn, FailReturns, FailIgnored, Phased,
           Ended, CreateAt,
                  DeleteAt, LookupAt, ReindexAt, CountAt, UpdateAt
    <2> QED  BY <2>2, <2>3, <2>4
  <1> QED  BY <1>1, <1>2

LEMMA AskedSteps ==
    ASSUME Shape, NEW r \in Requests, Asked(r),
           HandlerStep(r) \/ (StoreStep(r) /\ UNCHANGED handlerVars)
    PROVE  Asked(r)'
  <1>1. CASE HandlerStep(r)
    BY <1>1, HandlerOutcome DEF Outcome, Asked, Ended, Waits, LookupAt, ReindexAt
  <1>2. CASE StoreStep(r) /\ UNCHANGED handlerVars
    <2>1. StepOutcome(r) /\ Phased(r) /\ phase'[r] = phase[r] /\ input'[r] = input[r]
      BY <1>2, StoreOutcome DEF Shape, handlerVars
    <2>2. at'[r] \in LookupAt => at[r] \in LookupAt /\ frame'[r].email = frame[r].email
      BY <2>1 DEF StepOutcome, Refuses, Answers, GoesOn, Scans, Finds, Reads, FailReturns,
           FailIgnored,
                  LookupAt, ReindexAt
    <2> QED  BY <2>1, <2>2 DEF Asked
  <1> QED  BY <1>1, <1>2

LEMMA InitOwned == Init => Owned
  <1> SUFFICES ASSUME Init PROVE Owned
    OBVIOUS
  <1>1. Shape  BY InitShape
  <1>2. \A r \in Requests : /\ phase[r] = "idle" /\ at[r] = "none" /\ users[r] = NoUser
    BY DEF Init, StoreInit
  <1>3. \A r \in Requests : \A id, n : ~ClaimCall(r, id, n) /\ ~ClaimLogin(r, id, n)
    BY <1>2 DEF ClaimCall, ClaimLogin, ReindexAt, DocAt
  <1>4. \A id \in Ids, e \in Emails : index[e] = id => id \in LegacyIds /\ users[id].email = e
    <2> SUFFICES ASSUME NEW id \in Ids, NEW e \in Emails, index[e] = id
                 PROVE  id \in LegacyIds /\ users[id].email = e
      OBVIOUS
    <2>1. index[e] = IF \E jd \in LegacyIds : users[jd].email = e
                     THEN CHOOSE jd \in LegacyIds : users[jd].email = e ELSE NoId
      BY DEF Init, StoreInit
    <2>2. \E jd \in LegacyIds : users[jd].email = e
      BY <2>1, StoreAssumption
    <2> QED  BY <2>1, <2>2
  <1>5. \A id \in Ids : \A n : Claim(id, n) => id \in LegacyIds /\ users[id].email.name = n
    BY <1>2, <1>3, <1>4 DEF Claim, ClaimDoc, ClaimIndex, Ids
  <1>6. \A r \in Requests : \A n : ~Claim(r, n)
    BY <1>5, StoreAssumption DEF Ids
  <1>7. \A r \in Requests : Asked(r)
    BY <1>2 DEF Asked
  <1> QED  BY <1>5, <1>6, <1>7 DEF Owned

LEMMA StepOwned ==
    ASSUME Shape, Owned, NEW r \in Requests,
           HandlerStep(r) \/ (StoreStep(r) /\ UNCHANGED handlerVars)
    PROVE  Owned'
  <1>1. ASSUME NEW id \in Ids, NEW n, Claim(id, n)'
        PROVE  Claim(id, n) \/ (~HandlerStep(r) /\ Made(r, id, n))
    BY <1>1, HandlerClaims, StoreClaims
  <1>2. \A id \in Ids : \A n : Made(r, id, n) => id = r /\ Unborn(r)
    BY DEF Made, Unborn
  <1>3. \A m : Unborn(r) => ~Claim(r, m)
    BY DEF Owned
  <1>4. ASSUME NEW id \in Ids, NEW n, NEW m, Claim(id, n)', Claim(id, m)' PROVE n = m
    <2>1. CASE Claim(id, n) /\ Claim(id, m)
      BY <2>1 DEF Owned
    <2>2. CASE Made(r, id, n) /\ Made(r, id, m)
      BY <2>2 DEF Made
    <2> QED  BY <1>1, <1>2, <1>3, <1>4, <2>1, <2>2
  <1>5. ASSUME NEW q \in Requests, Unborn(q)', NEW n PROVE ~Claim(q, n)'
    <2>1. Unborn(q) /\ (at[r] = "create_put_user" /\ ~HandlerStep(r) => q # r)
      BY <1>5, UnbornSteps
    <2>2. ~Claim(q, n)  BY <2>1 DEF Owned
    <2>3. ~(~HandlerStep(r) /\ Made(r, q, n))  BY <2>1 DEF Made
    <2>4. q \in Ids  BY Own
    <2> QED  BY <1>1, <2>2, <2>3, <2>4
  <1>6. ASSUME NEW q \in Requests PROVE Asked(q)'
    <2>1. CASE q = r
      BY <2>1, AskedSteps DEF Owned
    <2>2. CASE q # r
      <3>1. Apart(r)  BY HandlerApart, StoreApart DEF Shape
      <3>2. Asked(q)  BY DEF Owned
      <3> QED  BY <2>2, <3>1, <3>2 DEF Apart, Asked
    <2> QED  BY <2>1, <2>2
  <1> QED  BY <1>4, <1>5, <1>6 DEF Owned

LEMMA CrashOwned ==
    ASSUME Shape, Owned, NEW p \in Procs, Crash(p) PROVE Owned'
  <1> DEFINE lost == {r \in Requests : ProcOf[r] = p /\ Running(r)}
  <1>1. ASSUME NEW r \in lost
        PROVE  phase'[r] = "dead" /\ at'[r] = "dead"
    BY DEF Crash
  <1>2. ASSUME NEW r \in Requests \ lost
        PROVE  /\ at'[r] = at[r] /\ frame'[r] = frame[r] /\ answer'[r] = answer[r]
               /\ phase'[r] = phase[r] /\ input'[r] = input[r]
    BY DEF Crash
  <1>3. ASSUME NEW id, NEW n, Claim(id, n)' PROVE Claim(id, n)
    <2>1. UNCHANGED <<users, index>>  BY DEF Crash
    <2>2. CASE ClaimDoc(id, n)' \/ ClaimIndex(id, n)'
      BY <2>1, <2>2 DEF ClaimDoc, ClaimIndex, Claim
    <2>3. ASSUME NEW r \in Requests, ClaimCall(r, id, n)' \/ ClaimLogin(r, id, n)'
          PROVE  Claim(id, n)
      <3>1. r \notin lost  BY <2>3, <1>1 DEF ClaimCall, ClaimLogin, ReindexAt, DocAt
      <3>2. ClaimCall(r, id, n) \/ ClaimLogin(r, id, n)
        BY <2>3, <3>1, <1>2 DEF ClaimCall, ClaimLogin
      <3> QED  BY <3>2 DEF Claim
    <2> QED  BY <1>3, <2>2, <2>3 DEF Claim
  <1>4. \A r \in Requests : Unborn(r)' => Unborn(r)
    BY <1>1, <1>2 DEF Unborn
  <1>5. \A r \in Requests : Asked(r)'
    <2> SUFFICES ASSUME NEW r \in Requests PROVE Asked(r)'
      OBVIOUS
    <2>1. CASE r \in lost
      BY <1>1, <2>1 DEF Asked
    <2>2. CASE r \notin lost
      BY <1>2, <2>2 DEF Asked, Owned
    <2> QED  BY <2>1, <2>2
  <1> QED  BY <1>3, <1>4, <1>5, Own DEF Owned

LEMMA NextOwned == Shape /\ Owned /\ [Next]_vars => Owned'
  <1> SUFFICES ASSUME Shape, Owned, [Next]_vars PROVE Owned'
    OBVIOUS
  <1>1. CASE UNCHANGED vars \/ \E t \in Tokens : InviteExpires(t)
    <2>1. UNCHANGED <<users, index, at, frame, answer, phase, input>>
      BY <1>1 DEF vars, storeVars, handlerVars, InviteExpires
    <2> QED
      BY <2>1 DEF Owned, Claim, ClaimDoc, ClaimIndex, ClaimCall, ClaimLogin, Unborn, Asked
  <1> QED
    BY <1>1, StepOwned, CrashOwned DEF Next, Quiet

\* IndexNeverLies: an account has one address for all its time, in its document,
\* in the index and in every call that is about to write either, whatever fails,
\* crashes or runs in other processes.
THEOREM IndexHonest == Spec => []IndexNeverLies
  <1>1. Shape /\ Owned => IndexNeverLies
    <2> SUFFICES ASSUME Shape, Owned, NEW e \in Emails, NEW id \in Ids, index[e] = id, users[id] # NoUser
                 PROVE  normalizeEmail(users[id].email) = normalizeEmail(e)
      BY DEF IndexNeverLies
    <2>1. users[id].email \in Emails
      BY UserEmails DEF Shape, TypeOK, StoreTypeOK
    <2>2. Claim(id, e.name) /\ Claim(id, users[id].email.name)
      BY DEF Claim, ClaimIndex, ClaimDoc
    <2>3. users[id].email.name = e.name  BY <2>2 DEF Owned
    <2> QED  BY <2>1, <2>3, Normal
  <1> QED
    BY <1>1, InitShape, NextShape, InitOwned, NextOwned, PTL DEF Spec

LEMMA Subjects ==
    ASSUME NEW r \in Requests, HandlerStep(r)
    PROVE  \/ subject' = subject
           \/ phase[r] = "session" /\ subject' = [subject EXCEPT ![r] = input[r].id]
           \/ /\ phase[r] \in {"ensure", "promote"}
              /\ \E id : subject' = [subject EXCEPT ![r] = id]
  BY DEF HandlerStep, Register, RegisteredOpen, RegisteredInvite, ConsumeRead, ConsumePut,
       ConsumeFails,
         Consumed, RolledBack, Login, Verified, Reloaded, OpenSession, ChangeRole, ReadTarget,
         Counted,
         RoleUpdated, OpenPanel, SetRegistrationMode, CreateInvite, AdminCreate, Ensured,
         Promoted,
         HandlerFails,
         Returned, SameStore, SameDocs, handlerVars

\* SessionForOwner: the account a login opens a session for has the address that
\* was typed, although the login reads index and users several times and others
\* register, delete and repair in between.
THEOREM SessionsForOwners == Spec => SessionForOwner
  <1>1. Shape /\ Owned /\ [Next]_vars =>
            [\A r \in Logins : subject'[r] # subject[r] /\ users[subject'[r]] # NoUser
                  => normalizeEmail(users[subject'[r]].email) = input[r].email]_vars
    <2> SUFFICES ASSUME Shape, Owned, [Next]_vars, NEW r \in Logins,
                        subject'[r] # subject[r], users[subject'[r]] # NoUser
                 PROVE  normalizeEmail(users[subject'[r]].email) = input[r].email
      OBVIOUS
    <2>1. r \in Requests /\ r \notin AdminCreates
      BY KindAssumption
    <2>2. PICK q \in Requests : HandlerStep(q)
      BY DEF Next, Quiet, vars, handlerVars, InviteExpires, Crash
    <2>3. q = r /\ phase[r] = "session" /\ subject'[r] = input[r].id
      BY <2>1, <2>2, Subjects DEF Owned, Asked, Shape, TypeOK
    <2> DEFINE id == input[r].id
    <2>4. id \in Ids /\ users[id] \in User /\ input[r].email \in Emails
      BY <2>1, <2>3 DEF Shape, Framed, TypeOK, StoreTypeOK, Input
    <2>5. users[id].email.name = input[r].email.name
      <3>1. ClaimDoc(id, users[id].email.name) /\ ClaimLogin(r, id, input[r].email.name)
        BY <2>3 DEF ClaimDoc, ClaimLogin
      <3>2. Claim(id, users[id].email.name) /\ Claim(id, input[r].email.name)
        BY <2>1, <3>1 DEF Claim
      <3> QED  BY <2>4, <3>2 DEF Owned
    <2>6. input[r].email.form = "lower"  BY <2>1, <2>3 DEF Owned, Asked
    <2> QED  BY <2>3, <2>4, <2>5, <2>6, Normal, UserEmails
  <1> QED
    BY <1>1, InitShape, NextShape, InitOwned, NextOwned, PTL DEF Spec, SessionForOwner

-----------------------------------------------------------------------------
(* Accounts and the invites spent on them.                                 *)

\* The registration of account r is over, and will not take the account back.
Spent(r) ==
    \/ phase[r] = "consume" /\ at[r] = "returned" /\ answer[r].err = "nil"
    \/ phase[r] \in {"invited", "dead"}

Backed ==
    /\ \A r \in Requests :
          \/ at[r] \in {"create_put_index", "create_undo"}
          \/ phase[r] = "invite" /\ at[r] = "returned" /\ answer[r].err = "nil"
          \/ phase[r] = "consume"
          => users[r] # NoUser
    /\ \A t \in Tokens : invites[t].usedBy # NoId =>
          /\ invites[t].usedBy \in Requests
          /\ users[invites[t].usedBy] # NoUser /\ Spent(invites[t].usedBy)

\* Only the request that makes an account deletes it.
LEMMA UserKept ==
    ASSUME Shape, NEW r \in Requests, StoreStep(r)
    PROVE  /\ \A id \in Ids : users[id] # NoUser /\ users'[id] = NoUser =>
                 id = r /\ at[r] \in {"create_undo", "delete_user"}
           /\ at'[r] = "create_put_index" => users'[r] # NoUser
  <1>o. /\ TypeOK /\ Framed(r) /\ frame[r] \in Frame /\ r \in Ids
        /\ frame[r].email \in Emails /\ frame[r].role \in Roles
        /\ NoUser \notin User
    BY FrameFields, DocumentAssumption, Own DEF Shape, TypeOK, StoreTypeOK
  <1>2. CASE CreatePutUser(r)
    <2>1. /\ at[r] = "create_put_user" /\ frame[r].id = r
          /\ SetUser(r, [email |-> frame[r].email, role |-> frame[r].role])
      BY <1>2, <1>o DEF CreatePutUser, Framed, CreateAt
    <2>2. [email |-> frame[r].email, role |-> frame[r].role] \in User
      BY <1>o, UserRecords
    <2>3. PICK u \in User : SetUser(r, u)  BY <2>1, <2>2, Zenon
    <2> QED  BY <2>3, <1>o, Writes
  <1>4. CASE CreateUndo(r)
    <2>1. at[r] = "create_undo" /\ frame[r].id = r /\ at'[r] = "returned"
      BY <1>4, <1>o, Effects DEF CreateUndo, Framed, CreateAt
    <2>2. SetUser(r, NoUser) \/ users' = users  BY <1>4, <2>1 DEF CreateUndo
    <2> QED  BY <2>1, <2>2, <1>o, Writes
  <1>6. CASE UpdatePut(r)
    <2>1. /\ at[r] = "update_put" /\ frame[r].id \in Ids /\ frame[r].doc \in User
          /\ SetUser(frame[r].id, [frame[r].doc EXCEPT !.role = frame[r].role])
          /\ at'[r] = "returned"
      BY <1>6, <1>o, Effects DEF UpdatePut, Framed, UpdateAt, DocAt
    <2>2. [frame[r].doc EXCEPT !.role = frame[r].role] \in User
      BY <1>o, <2>1, UserRecords
    <2>3. PICK u \in User : SetUser(frame[r].id, u)  BY <2>1, <2>2, Zenon
    <2> QED  BY <2>1, <2>3, <1>o, Writes
  <1>8. CASE DeleteUserDoc(r)
    <2>1. /\ at[r] = "delete_user" /\ frame[r].id = r /\ at'[r] = "delete_index"
          /\ SetUser(r, NoUser)
      BY <1>8, <1>o, Effects DEF DeleteUserDoc, Framed, DeleteAt
    <2> QED  BY <2>1, <1>o, Writes
  <1>15. CASE ReindexPutUser(r)
    <2>1. /\ at[r] = "reindex_put_user" /\ frame[r].id \in Ids /\ frame[r].doc \in User
          /\ SetUser(frame[r].id, [frame[r].doc EXCEPT !.email = frame[r].email])
          /\ at'[r] = "reindex_put_index"
      BY <1>15, <1>o, Effects DEF ReindexPutUser, Framed, ReindexAt, DocAt
    <2>2. [frame[r].doc EXCEPT !.email = frame[r].email] \in User
      BY <1>o, <2>1, UserRecords
    <2>3. PICK u \in User : SetUser(frame[r].id, u)  BY <2>1, <2>2, Zenon
    <2> QED  BY <2>1, <2>3, <1>o, Writes
  <1>21. CASE CreateCheck(r) \/ CreatePutIndex(r) \/ UpdateRead(r) \/ DeleteRead(r) \/ DeleteIndex(r)
          \/ LookupIndex(r) \/ LookupUser(r) \/ ScanList(r) \/ ScanRead(r) \/ ReindexRead(r)
          \/ ReindexPutIndex(r) \/ ReindexDeleteOld(r) \/ CountList(r) \/ CountRead(r) \/ OperationFails(r)
    <2>1. users' = users
      BY <1>21 DEF SameDocs, CreateCheck, CreatePutIndex, UpdateRead, DeleteRead, DeleteIndex,
           LookupIndex, LookupUser, ScanList, ScanRead, ReindexRead, ReindexPutIndex,
           ReindexDeleteOld, CountList, CountRead, OperationFails
    <2>2. at'[r] # "create_put_index"
      <3>1. (StepOutcome(r) /\ at[r] # "create_put_user") \/ OperationFails(r)
        BY <1>21, StoreOutcome DEF CreateCheck, CreatePutIndex, UpdateRead, DeleteRead,
             DeleteIndex, LookupIndex, LookupUser, ScanList, ScanRead, ReindexRead,
             ReindexPutIndex, ReindexDeleteOld, CountList, CountRead, Shape
      <3>2. OperationFails(r) => at'[r] = "returned"
        BY <1>o, Effects DEF OperationFails, ReindexDone
      <3> QED
        BY <3>1, <3>2 DEF StepOutcome, Refuses, Answers, GoesOn, Scans, Finds, Reads,
             FailReturns, FailIgnored
    <2> QED  BY <2>1, <2>2
  <1> QED
    BY StoreStep(r), <1>2, <1>4, <1>6, <1>8, <1>15, <1>21 DEF StoreStep

\* Who spends an invite.
LEMMA InviteSteps ==
    ASSUME TypeOK, NEW r \in Requests, HandlerStep(r), NEW t \in Tokens
    PROVE  \/ invites'[t].usedBy = invites[t].usedBy
           \/ invites'[t].usedBy = NoId
           \/ /\ at[r] = "consume_put" /\ invites'[t].usedBy = frame[r].id
              /\ at'[r] = "returned" /\ answer'[r].err = "nil" /\ phase' = phase
  <1>o. invites \in [Tokens -> Invite]  BY DEF TypeOK
  <1>1. CASE ConsumePut(r)
    <2>1. /\ at[r] = "consume_put" /\ phase' = phase
          /\ Return(r, [NoAnswer EXCEPT !.id = frame[r].id])
          /\ invites' = [invites EXCEPT ![input[r].token].usedBy = frame[r].id]
      BY <1>1, Zenon DEF ConsumePut
    <2>2. [NoAnswer EXCEPT !.id = frame[r].id].err = "nil"  BY DEF NoAnswer
    <2>3. at'[r] = "returned" /\ answer'[r].err = "nil"  BY <2>1, <2>2, Effects, Zenon
    <2>4. invites'[t].usedBy = IF t = input[r].token THEN frame[r].id ELSE invites[t].usedBy
      BY <2>1, <1>o DEF Invite
    <2> QED  BY <2>1, <2>3, <2>4
  <1>2. CASE CreateInvite(r)
    BY <1>2, <1>o DEF CreateInvite, Invite
  <1>3. CASE ~ConsumePut(r) /\ ~CreateInvite(r)
    <2>1. invites' = invites
      BY <1>3 DEF HandlerStep, Register, RegisteredOpen, RegisteredInvite, ConsumeRead,
           ConsumeFails,
         Consumed, RolledBack, Login, Verified, Reloaded, OpenSession, ChangeRole, ReadTarget,
         Counted,
         RoleUpdated, OpenPanel, SetRegistrationMode, AdminCreate, Ensured, Promoted,
         HandlerFails, SameSetup, handlerVars
    <2> QED  BY <2>1
  <1> QED  BY <1>1, <1>2, <1>3

\* A registration that has spent its invite stays.
LEMMA SpentStays ==
    ASSUME Shape, NEW r \in Requests, Spent(r), HandlerStep(r) PROVE Spent(r)'
  <1>1. phase[r] = "consume" /\ Consumed(r)
    <2>1. /\ at[r] \notin ConsumeAt
      BY DEF Spent, Shape, Phased, Ended, ConsumeAt
    <2> QED
      BY <2>1 DEF Spent, ConsumeAt, Returned, HandlerStep, Register, RegisteredOpen,
           RegisteredInvite, ConsumeRead, ConsumePut, ConsumeFails,
         Consumed, RolledBack, Login, Verified, Reloaded, OpenSession, ChangeRole, ReadTarget,
         Counted,
         RoleUpdated, OpenPanel, SetRegistrationMode, CreateInvite, AdminCreate, Ensured,
         Promoted,
         HandlerFails
  <1>2. answer[r].err = "nil"  BY <1>1 DEF Spent
  <1> QED
    BY <1>1, <1>2, Effects DEF Consumed, Err, Spent, Shape

LEMMA SpentRests ==
    ASSUME Shape, NEW r \in Requests, Spent(r)
    PROVE  ~StoreStep(r) /\ at[r] \notin CreateAt \cup DeleteAt
  <1>1. at[r] \in Waits  BY DEF Shape, Phased, Spent, Ended, Waits
  <1>2. StoreStep(r) => StepOutcome(r)  BY StoreOutcome DEF Shape
  <1> QED
    BY <1>1, <1>2 DEF StepOutcome, Waits, FailReturns, FailIgnored, CreateAt, DeleteAt

LEMMA InitBacked == Init => Backed
  <1> SUFFICES ASSUME Init PROVE Backed
    OBVIOUS
  <1>1. \A r \in Requests : phase[r] = "idle" /\ at[r] = "none"
    BY DEF Init, StoreInit
  <1>2. \A t \in Tokens : invites[t].usedBy = NoId
    BY DEF Init
  <1> QED  BY <1>1, <1>2 DEF Backed

LEMMA StoreBacked ==
    ASSUME Shape, Backed, NEW r \in Requests, StoreStep(r), UNCHANGED handlerVars PROVE Backed'
  <1>o. /\ StepOutcome(r) /\ Apart(r) /\ Phased(r) /\ UNCHANGED <<phase, invites>>
        /\ \A q \in Requests : q \in Ids
    BY StoreOutcome, StoreApart, Own DEF Shape, handlerVars
  <1>k. \A q \in Requests \ {r} : users[q] # NoUser => users'[q] # NoUser
    BY <1>o, UserKept
  <1>1. ASSUME NEW q \in Requests \ {r},
               \/ at'[q] \in {"create_put_index", "create_undo"}
               \/ phase'[q] = "invite" /\ at'[q] = "returned" /\ answer'[q].err = "nil"
               \/ phase'[q] = "consume"
        PROVE  users'[q] # NoUser
    BY <1>o, <1>k, <1>1 DEF Apart, Backed
  <1>2. ASSUME \/ at'[r] \in {"create_put_index", "create_undo"}
               \/ phase'[r] = "invite" /\ at'[r] = "returned" /\ answer'[r].err = "nil"
               \/ phase'[r] = "consume"
        PROVE  users'[r] # NoUser
    <2>1. phase[r] # "consume"
      BY <1>o DEF Phased, StepOutcome, FailReturns, FailIgnored, ConsumeAt
    <2>2. CASE at'[r] = "create_put_index"
      BY <2>2, UserKept
    <2>3. CASE at[r] = "create_put_index" /\ at'[r] # "create_put_index"
      BY <2>3, <1>o, UserKept DEF Backed
    <2>4. CASE at[r] # "create_put_index" /\ at'[r] # "create_put_index"
      BY <1>2, <2>1, <2>4, <1>o
         DEF Phased, CreateAt, StepOutcome, Refuses, Answers, GoesOn, Scans, Finds, Reads,
              FailReturns, FailIgnored
    <2> QED  BY <2>2, <2>3, <2>4
  <1>3. ASSUME NEW t \in Tokens, invites'[t].usedBy # NoId
        PROVE  /\ invites'[t].usedBy \in Requests
               /\ users'[invites'[t].usedBy] # NoUser /\ Spent(invites[t].usedBy)'
    <2>1. PICK q \in Requests :
            q = invites[t].usedBy /\ users[q] # NoUser /\ Spent(q) /\ invites' = invites
      BY <1>3, <1>o DEF Backed
    <2>2. q # r  BY <2>1, SpentRests
    <2>3. Spent(q)'  BY <2>1, <2>2, <1>o DEF Spent, Apart
    <2> QED  BY <2>1, <2>2, <2>3, <1>k
  <1> QED  BY <1>1, <1>2, <1>3 DEF Backed

LEMMA HandlerBacked ==
    ASSUME Shape, Backed, NEW r \in Requests, HandlerStep(r) PROVE Backed'
  <1>o. /\ Outcome(r) /\ Apart(r) /\ Phased(r) /\ Framed(r) /\ users' = users
        /\ NoId \notin Ids /\ phase[r] \in Phases
    BY HandlerOutcome, HandlerApart, HandlerDocs, StoreAssumption DEF Shape, TypeOK
  <1>1. ASSUME NEW q \in Requests,
               \/ at'[q] \in {"create_put_index", "create_undo"}
               \/ phase'[q] = "invite" /\ at'[q] = "returned" /\ answer'[q].err = "nil"
               \/ phase'[q] = "consume"
        PROVE  users'[q] # NoUser
    <2>1. CASE q = r
      BY <2>1, <1>1, <1>o DEF Outcome, Ended, Waits, ConsumeAt, Backed
    <2>2. CASE q # r
      BY <2>2, <1>1, <1>o DEF Apart, Backed
    <2> QED  BY <2>1, <2>2
  <1>2. ASSUME NEW t \in Tokens, invites'[t].usedBy # NoId
        PROVE  /\ invites'[t].usedBy \in Requests
               /\ users'[invites'[t].usedBy] # NoUser /\ Spent(invites[t].usedBy)'
    <2>1. CASE invites'[t].usedBy = invites[t].usedBy
      <3>1. PICK q \in Requests :
              q = invites[t].usedBy /\ q = invites'[t].usedBy /\ users[q] # NoUser /\ Spent(q)
        BY <1>2, <2>1 DEF Backed
      <3>2. CASE q = r
        <4>1. Spent(r)  BY <3>1, <3>2
        <4>2. Spent(r)'  BY <4>1, SpentStays
        <4> QED  BY <3>1, <3>2, <4>2, <2>1, <1>o
      <3>3. CASE q # r
        <4>1. at'[q] = at[q] /\ answer'[q] = answer[q] /\ phase'[q] = phase[q]
          BY <3>1, <3>3, <1>o DEF Apart
        <4>2. Spent(q)'  BY <3>1, <4>1 DEF Spent
        <4> QED  BY <3>1, <4>2, <2>1, <1>o
      <3> QED  BY <3>2, <3>3
    <2>2. CASE /\ at[r] = "consume_put" /\ invites'[t].usedBy = frame[r].id
               /\ at'[r] = "returned" /\ answer'[r].err = "nil" /\ phase' = phase
      <3>1. phase[r] = "consume"
        BY <2>2, <1>o DEF Phased, Phases, Ended, CreateAt, UpdateAt, DeleteAt, LookupAt,
             ReindexAt, CountAt
      <3>2. frame[r].id = r  BY <2>2, <1>o DEF Framed, ConsumeAt
      <3> QED  BY <2>2, <3>1, <3>2, <1>o DEF Spent, Backed
    <2> QED  BY <1>2, <2>1, <2>2, InviteSteps DEF Shape
  <1> QED  BY <1>1, <1>2 DEF Backed

LEMMA CrashBacked ==
    ASSUME Shape, Backed, NEW p \in Procs, Crash(p) PROVE Backed'
  <1> DEFINE lost == {r \in Requests : ProcOf[r] = p /\ Running(r)}
  <1>1. ASSUME NEW r \in lost
        PROVE  phase'[r] = "dead" /\ at'[r] = "dead"
    BY DEF Crash
  <1>2. ASSUME NEW r \in Requests \ lost
        PROVE  at'[r] = at[r] /\ answer'[r] = answer[r] /\ phase'[r] = phase[r]
    BY DEF Crash
  <1>3. users' = users /\ invites' = invites  BY DEF Crash
  <1>4. ASSUME NEW r \in Requests,
               \/ at'[r] \in {"create_put_index", "create_undo"}
               \/ phase'[r] = "invite" /\ at'[r] = "returned" /\ answer'[r].err = "nil"
               \/ phase'[r] = "consume"
        PROVE  users'[r] # NoUser
    <2>1. r \notin lost  BY <1>1, <1>4
    <2> QED  BY <2>1, <1>2, <1>3, <1>4 DEF Backed
  <1>5. ASSUME NEW t \in Tokens, invites'[t].usedBy # NoId
        PROVE  /\ invites'[t].usedBy \in Requests
               /\ users'[invites'[t].usedBy] # NoUser /\ Spent(invites[t].usedBy)'
    <2>1. PICK q \in Requests :
            q = invites[t].usedBy /\ q = invites'[t].usedBy /\ users[q] # NoUser /\ Spent(q)
      BY <1>5, <1>3 DEF Backed
    <2>2. Spent(q)'
      BY <2>1, <1>1, <1>2 DEF Spent
    <2> QED  BY <2>1, <2>2, <1>3
  <1> QED  BY <1>4, <1>5 DEF Backed

LEMMA NextBacked == Shape /\ Backed /\ [Next]_vars => Backed'
  <1> SUFFICES ASSUME Shape, Backed, [Next]_vars PROVE Backed'
    OBVIOUS
  <1>1. CASE UNCHANGED vars
    BY <1>1 DEF vars, storeVars, handlerVars, Backed, Spent
  <1>2. ASSUME NEW s \in Tokens, InviteExpires(s) PROVE Backed'
    <2>1. UNCHANGED <<users, at, answer, phase>>
      BY <1>2 DEF InviteExpires, storeVars
    <2>2. \A t \in Tokens : invites'[t].usedBy = invites[t].usedBy
      BY <1>2 DEF InviteExpires, Shape, TypeOK, Invite
    <2> QED  BY <2>1, <2>2 DEF Backed, Spent
  <1> QED
    BY <1>1, <1>2, StoreBacked, HandlerBacked, CrashBacked DEF Next, Quiet

\* InviteNeverWasted: an invite is spent on an account that exists and stays,
\* since only its registration deletes it, and only when the invite was refused;
\* whatever fails, crashes or runs in other processes.
THEOREM InvitesBacked == Spec => []InviteNeverWasted
  <1>1. Backed => InviteNeverWasted
    BY DEF Backed, InviteNeverWasted
  <1> QED
    BY <1>1, InitShape, NextShape, InitBacked, NextBacked, PTL DEF Spec

-----------------------------------------------------------------------------
(* The mutex of the store, and what it is for.                             *)

\* Who is between the reading and the last writing of a method holds the mutex
\* of its process.
Guarded == \A r \in Requests : at[r] \in Locked => mu[ProcOf[r]] = r

\* A step takes the mutex when it is free and gives back its own.
OwnMutex(r) ==
    /\ \A p \in Procs : mu'[p] # mu[p] => p = ProcOf[r] /\ mu[p] \in {NoOne, r}
    /\ at'[r] \in Locked => mu'[ProcOf[r]] = r

LEMMA Mutexes ==
    ASSUME TypeOK, NEW r \in Requests
    PROVE  /\ Lock(r) => /\ mu'[ProcOf[r]] = r
                         /\ \A p \in Procs : mu'[p] # mu[p] => p = ProcOf[r]
           /\ Unlock(r) => \A p \in Procs : mu'[p] # mu[p] => p = ProcOf[r] /\ mu[p] = r
           /\ ProcOf[r] \in Procs
  BY StoreAssumption DEF TypeOK, StoreTypeOK, Lock, Unlock

LEMMA StoreMutex ==
    ASSUME TypeOK, Guarded, NEW r \in Requests, StoreStep(r) PROVE OwnMutex(r)
  <1>o. /\ \A a : Return(r, a) => at'[r] \notin Locked
        /\ \A s : Goto(r, s) => at'[r] = s
        /\ at[r] \in Locked => mu[ProcOf[r]] = r
    BY Effects DEF Guarded, Locked
  <1> USE <1>o, Mutexes DEF OwnMutex, MutexFree, Locked
  <1>1. CASE CreateCheck(r)
    BY <1>1 DEF CreateCheck
  <1>2. CASE CreatePutUser(r)
    BY <1>2 DEF CreatePutUser
  <1>3. CASE CreatePutIndex(r)
    BY <1>3 DEF CreatePutIndex
  <1>4. CASE CreateUndo(r)
    BY <1>4 DEF CreateUndo
  <1>5. CASE UpdateRead(r)
    BY <1>5 DEF UpdateRead
  <1>6. CASE UpdatePut(r)
    BY <1>6 DEF UpdatePut
  <1>7. CASE DeleteRead(r)
    BY <1>7 DEF DeleteRead
  <1>8. CASE DeleteUserDoc(r)
    BY <1>8 DEF DeleteUserDoc
  <1>9. CASE DeleteIndex(r)
    BY <1>9 DEF DeleteIndex
  <1>10. CASE LookupIndex(r)
    BY <1>10 DEF LookupIndex
  <1>11. CASE LookupUser(r)
    BY <1>11 DEF LookupUser
  <1>12. CASE ScanList(r)
    BY <1>12 DEF ScanList
  <1>13. CASE ScanRead(r)
    BY <1>13 DEF ScanRead
  <1>14. CASE ReindexRead(r)
    BY <1>14 DEF ReindexRead, ReindexDone
  <1>15. CASE ReindexPutUser(r)
    BY <1>15 DEF ReindexPutUser
  <1>16. CASE ReindexPutIndex(r)
    BY <1>16 DEF ReindexPutIndex, ReindexDone
  <1>17. CASE ReindexDeleteOld(r)
    BY <1>17 DEF ReindexDeleteOld, ReindexDone
  <1>18. CASE CountList(r)
    BY <1>18 DEF CountList
  <1>19. CASE CountRead(r)
    BY <1>19 DEF CountRead
  <1>20. CASE OperationFails(r)
    BY <1>20 DEF OperationFails, ReindexDone
  <1> QED
    BY StoreStep(r), <1>1, <1>2, <1>3, <1>4, <1>5, <1>6, <1>7, <1>8, <1>9, <1>10, <1>11, <1>12,
         <1>13, <1>14, <1>15, <1>16, <1>17, <1>18, <1>19, <1>20 DEF StoreStep

LEMMA HandlerMutex ==
    ASSUME Shape, Guarded, NEW r \in Requests, HandlerStep(r) PROVE OwnMutex(r)
  <1>o. TypeOK /\ Outcome(r) /\ (at[r] \in Locked => mu[ProcOf[r]] = r)
    BY HandlerOutcome DEF Guarded, Shape
  <1>1. CASE ConsumeRead(r)
    BY <1>1, <1>o, Effects, Mutexes DEF OwnMutex, MutexFree, Locked, ConsumeRead
  <1>2. CASE ConsumePut(r)
    BY <1>2, <1>o, Effects, Mutexes DEF OwnMutex, Locked, ConsumePut
  <1>3. CASE ConsumeFails(r)
    BY <1>3, <1>o, Effects, Mutexes DEF OwnMutex, Locked, ConsumeFails
  <1>4. CASE ~ConsumeRead(r) /\ ~ConsumePut(r) /\ ~ConsumeFails(r)
    <2>1. mu' = mu
      BY <1>4 DEF HandlerStep, Register, RegisteredOpen, RegisteredInvite, Consumed,
           RolledBack, Login,
         Verified, Reloaded, OpenSession, ChangeRole, ReadTarget, Counted, RoleUpdated,
         OpenPanel,
         SetRegistrationMode, CreateInvite, AdminCreate, Ensured, Promoted, HandlerFails,
         SameStore
    <2>2. at[r] \notin ConsumeAt
      BY <1>4, <1>o DEF HandlerStep, Register, RegisteredOpen, RegisteredInvite, Consumed,
           RolledBack,
         Login, Verified, Reloaded, OpenSession, ChangeRole, ReadTarget, Counted, RoleUpdated,
         OpenPanel,
         SetRegistrationMode, CreateInvite, AdminCreate, Ensured, Promoted, HandlerFails,
         Returned,
         ConsumeAt, Shape, Phased, Ended
    <2>3. at'[r] \notin Locked
      BY <1>o, <2>2 DEF Outcome, Locked, Waits, ConsumeAt
    <2> QED  BY <2>1, <2>3 DEF OwnMutex
  <1> QED  BY <1>1, <1>2, <1>3, <1>4

LEMMA NextGuarded == Shape /\ Guarded /\ [Next]_vars => Guarded'
  <1> SUFFICES ASSUME Shape, Guarded, [Next]_vars PROVE Guarded'
    OBVIOUS
  <1>1. CASE UNCHANGED vars \/ \E t \in Tokens : InviteExpires(t)
    BY <1>1 DEF vars, storeVars, InviteExpires, Guarded
  <1>2. ASSUME NEW r \in Requests, OwnMutex(r), Apart(r) PROVE Guarded'
    <2> SUFFICES ASSUME NEW q \in Requests \ {r}, at'[q] \in Locked PROVE mu'[ProcOf[q]] = q
      BY <1>2 DEF Guarded, OwnMutex
    <2>1. mu[ProcOf[q]] = q /\ ProcOf[q] \in Procs
      BY <1>2, Mutexes DEF Apart, Guarded, Shape
    <2> QED  BY <2>1, <1>2, StoreAssumption DEF OwnMutex
  <1>3. ASSUME NEW p \in Procs, Crash(p) PROVE Guarded'
    <2> SUFFICES ASSUME NEW q \in Requests, at'[q] \in Locked PROVE mu'[ProcOf[q]] = q
      BY DEF Guarded
    <2>1. at'[q] = at[q] /\ (ProcOf[q] = p => ~Running(q))
      BY <1>3 DEF Crash, Locked
    <2>2. Running(q)
      BY <2>1 DEF Running, Shape, Phased, Locked, Ended
    <2>3. mu' = [mu EXCEPT ![p] = NoOne]  BY <1>3 DEF Crash
    <2> QED
      BY <2>1, <2>2, <2>3, Mutexes DEF Guarded, Shape, TypeOK, StoreTypeOK
  <1> QED
    BY <1>1, <1>2, <1>3, StoreMutex, HandlerMutex, StoreApart, HandlerApart DEF Next, Quiet,
         Shape

\* Of two requests of one process, at most one is between the reading and the
\* last writing of a method of the store: no early return keeps the mutex, and
\* a process that dies takes its mutex with it.
THEOREM OneWriterAtATime ==
    Spec => [](\A q, r \in Requests :
                  ProcOf[q] = ProcOf[r] /\ at[q] \in Locked /\ at[r] \in Locked => q = r)
  <1>1. Init => Guarded  BY DEF Init, StoreInit, Guarded, Locked
  <1>2. Guarded => \A q, r \in Requests :
                       ProcOf[q] = ProcOf[r] /\ at[q] \in Locked /\ at[r] \in Locked => q = r
    BY DEF Guarded
  <1> QED  BY <1>1, <1>2, InitShape, NextShape, NextGuarded, PTL DEF Spec

\* What a lookup is about to write back is what the user document says.
OneProcess == \A q, r \in Requests : ProcOf[q] = ProcOf[r]
Fresh == \A r \in Requests : at[r] = "reindex_put_user" => users[frame[r].id] = frame[r].doc

\* Users are written under the mutex only.
LEMMA UserWriters ==
    ASSUME NEW r \in Requests, StoreStep(r), users' # users
    PROVE  at[r] \in Locked
           /\ (CreatePutUser(r) \/ CreateUndo(r) \/ UpdatePut(r) \/ DeleteUserDoc(r) \/ ReindexPutUser(r))
  BY DEF StoreStep, CreateCheck, CreatePutUser, CreatePutIndex, CreateUndo, UpdateRead,
       UpdatePut, DeleteRead, DeleteUserDoc, DeleteIndex, LookupIndex, LookupUser, ScanList,
       ScanRead, ReindexRead, ReindexPutUser, ReindexPutIndex, ReindexDeleteOld, CountList,
       CountRead, OperationFails, SameDocs, Locked

LEMMA NextFresh ==
    ASSUME OneProcess PROVE Shape /\ Guarded /\ Fresh /\ [Next]_vars => Fresh'
  <1> SUFFICES ASSUME Shape, Guarded, Fresh, [Next]_vars, NEW q \in Requests, at'[q] = "reindex_put_user"
               PROVE  users'[frame'[q].id] = frame'[q].doc
    BY DEF Fresh
  <1>1. CASE UNCHANGED vars \/ (\E t \in Tokens : InviteExpires(t))
    BY <1>1 DEF vars, storeVars, InviteExpires, Fresh
  <1>2. ASSUME NEW p \in Procs, Crash(p) PROVE users'[frame'[q].id] = frame'[q].doc
    BY <1>2 DEF Crash, Fresh
  <1>3. ASSUME NEW r \in Requests, HandlerStep(r) PROVE users'[frame'[q].id] = frame'[q].doc
    <2>1. q # r /\ Apart(r) /\ users' = users
      BY <1>3, HandlerOutcome, HandlerApart, HandlerDocs DEF Outcome, Waits, ConsumeAt, Shape
    <2> QED  BY <2>1 DEF Apart, Fresh
  <1>4. ASSUME NEW r \in Requests, StoreStep(r), q = r PROVE users'[frame'[q].id] = frame'[q].doc
    <2>1. at[r] = "reindex_read"
      BY <1>4, StoreOutcome DEF Shape, StepOutcome, Refuses, Answers, GoesOn, Scans, Finds,
           Reads, FailReturns, FailIgnored
    <2>2. ReindexRead(r)
      BY <1>4, <2>1, Effects DEF StoreStep, CreateCheck, CreatePutUser, CreatePutIndex,
           CreateUndo, UpdateRead, UpdatePut, DeleteRead, DeleteUserDoc, DeleteIndex,
           LookupIndex, LookupUser, ScanList, ScanRead, ReindexRead, ReindexPutUser,
           ReindexPutIndex, ReindexDeleteOld, CountList, CountRead, OperationFails,
           ReindexDone, Shape
    <2> QED
      BY <1>4, <2>2, Effects DEF ReindexRead, ReindexDone, SameDocs, Shape
  <1>5. ASSUME NEW r \in Requests, StoreStep(r), UNCHANGED handlerVars, q # r
        PROVE  users'[frame'[q].id] = frame'[q].doc
    <2>1. at'[q] = at[q] /\ frame'[q] = frame[q]
      BY <1>5, StoreApart DEF Apart, Shape
    <2>2. users' = users
      BY <1>5, <2>1, UserWriters DEF Guarded, OneProcess, Locked
    <2> QED  BY <2>1, <2>2 DEF Fresh
  <1> QED
    BY <1>1, <1>2, <1>3, <1>4, <1>5 DEF Next, Quiet

\* RolesOnlyByUpdateRole, where one process serves all requests: a lookup that
\* repairs an email reads the user again under the mutex, so the role it writes
\* back is the one that stands; and a new account overwrites no other.
THEOREM RolesByUpdateRoleOnly == ASSUME OneProcess PROVE Spec => RolesOnlyByUpdateRole
  <1>1. Init => Guarded /\ Fresh  BY DEF Init, StoreInit, Guarded, Fresh, Locked
  <1>2. Shape /\ Owned /\ Fresh /\ [Next]_vars =>
            [\A id \in Ids :
                users[id] # NoUser /\ users'[id] # NoUser /\ users'[id].role # users[id].role
                    => \E r \in Requests : at[r] = "update_put"]_vars
    <2> SUFFICES ASSUME Shape, Owned, Fresh, [Next]_vars, NEW id \in Ids,
                        users[id] # NoUser, users'[id] # NoUser,
                        users'[id].role # users[id].role
                 PROVE  \E r \in Requests : at[r] = "update_put"
      OBVIOUS
    <2>1. PICK r \in Requests : StoreStep(r) /\ users' # users
      BY HandlerDocs DEF Next, Quiet, vars, storeVars, InviteExpires, Crash
    <2>o. TypeOK /\ Framed(r) /\ r \in Ids  BY Own DEF Shape
    <2>2. ~CreatePutUser(r)
      <3> SUFFICES ASSUME CreatePutUser(r) PROVE FALSE
        OBVIOUS
      <3>1. at[r] = "create_put_user" /\ frame[r].id = r
        BY <2>o DEF CreatePutUser, Framed, CreateAt
      <3>2. ~Claim(r, users[r].email.name)  BY <3>1 DEF Owned, Unborn
      <3>3. users[r] = NoUser  BY <3>2 DEF Claim, ClaimDoc
      <3>4. PICK u : SetUser(r, u)  BY <3>1, Zenon DEF CreatePutUser
      <3> QED  BY <3>3, <3>4, <2>o, Writes
    <2>3. CASE CreateUndo(r) \/ DeleteUserDoc(r)
      <3>1. SetUser(r, NoUser)
        BY <2>1, <2>3, <2>o DEF CreateUndo, DeleteUserDoc, Framed, CreateAt, DeleteAt
      <3> QED  BY <3>1, <2>o, Writes
    <2>4. CASE UpdatePut(r)
      BY <2>4 DEF UpdatePut
    <2>5. CASE ReindexPutUser(r)
      <3>1. /\ at[r] = "reindex_put_user" /\ frame[r].id \in Ids /\ frame[r].doc \in User
            /\ SetUser(frame[r].id, [frame[r].doc EXCEPT !.email = frame[r].email])
        BY <2>5, <2>o DEF ReindexPutUser, Framed, ReindexAt, DocAt
      <3>2. users[frame[r].id] = frame[r].doc  BY <3>1 DEF Fresh
      <3>3. PICK u : /\ u = [frame[r].doc EXCEPT !.email = frame[r].email]
                     /\ SetUser(frame[r].id, u)
        BY <3>1, Zenon
      <3>4. u.role = frame[r].doc.role  BY <3>1, <3>3, UserEmails
      <3>5. users'[frame[r].id] = u /\ \A jd \in Ids \ {frame[r].id} : users'[jd] = users[jd]
        BY <3>1, <3>3, <2>o, Writes
      <3> QED  BY <3>1, <3>2, <3>4, <3>5
    <2> QED  BY <2>1, <2>2, <2>3, <2>4, <2>5, UserWriters
  <1> QED
    BY <1>1, <1>2, InitShape, NextShape, InitOwned, NextOwned, NextGuarded, NextFresh, PTL
       DEF Spec, RolesOnlyByUpdateRole

-----------------------------------------------------------------------------
(* The last admin, with one change of a role at a time.                     *)

\* Registrations make members.
Members == \A r \in Requests : at[r] \in CreateAt => frame[r].role = "member"

LEMMA StoreMembers ==
    ASSUME Shape, Members, NEW r \in Requests, StoreStep(r), UNCHANGED handlerVars PROVE Members'
  <1>1. Apart(r) /\ StepOutcome(r)
    BY StoreApart, StoreOutcome DEF Shape
  <1>2. at'[r] \in CreateAt => at[r] \in CreateAt /\ frame'[r] = frame[r]
    BY <1>1 DEF StepOutcome, Refuses, Answers, GoesOn, Scans, Finds, Reads, FailReturns,
         FailIgnored, CreateAt
  <1> QED  BY <1>1, <1>2 DEF Members, Apart

LEMMA HandlerMembers ==
    ASSUME AdminCreates = {}, Shape, Owned, Members, NEW r \in Requests, HandlerStep(r)
    PROVE  Members'
  <1>o. /\ TypeOK /\ Apart(r) /\ Outcome(r) /\ Phased(r) /\ Asked(r)
    BY HandlerApart, HandlerOutcome DEF Shape, Owned
  <1>1. ASSUME at'[r] \in CreateAt PROVE frame'[r].role = "member"
    <2>1. at'[r] = "create_check" /\ phase[r] = "idle" /\ phase'[r] \in {"open", "invite"}
      BY <1>1, <1>o DEF Outcome, Waits, ConsumeAt, CreateAt, Asked
    <2>2. Register(r)
      BY <2>1, <1>o, Effects
         DEF HandlerStep, Register, RegisteredOpen, RegisteredInvite, ConsumeRead, ConsumePut,
           ConsumeFails, Consumed, RolledBack, Login, Verified, Reloaded, OpenSession,
           ChangeRole, ReadTarget, Counted, RoleUpdated, OpenPanel, SetRegistrationMode,
           CreateInvite, AdminCreate, Ensured, Promoted, HandlerFails, Returned, Phased, Ended,
           ConsumeAt
    <2>3. \E e : CreateUser(r, e, "member")
      BY <2>1, <2>2, <1>o, Effects DEF Register
    <2>4. PICK e : Call(r, "create_check",
                        [NoFrame EXCEPT !.email = e, !.role = "member", !.id = r])
      BY <2>3, Zenon DEF CreateUser
    <2> DEFINE g == [NoFrame EXCEPT !.email = e, !.role = "member", !.id = r]
    <2>5. g.role = "member"
      BY DEF NoFrame
    <2>6. Call(r, "create_check", g)
      BY <2>4
    <2> HIDE DEF g
    <2>7. frame'[r] = g
      BY <2>6, <1>o, Effects
    <2> QED  BY <2>5, <2>7
  <1> QED  BY <1>1, <1>o DEF Members, Apart

LEMMA NextMembers ==
    ASSUME AdminCreates = {} PROVE Shape /\ Owned /\ Members /\ [Next]_vars => Members'
  <1> SUFFICES ASSUME Shape, Owned, Members, [Next]_vars PROVE Members'
    OBVIOUS
  <1>1. CASE UNCHANGED vars \/ \E t \in Tokens : InviteExpires(t)
    BY <1>1 DEF vars, storeVars, InviteExpires, Members
  <1>2. ASSUME NEW p \in Procs, Crash(p) PROVE Members'
    BY <1>2 DEF Crash, Members, CreateAt
  <1>3. ASSUME NEW r \in Requests, HandlerStep(r) PROVE Members'
    BY <1>3, HandlerMembers
  <1>4. ASSUME NEW r \in Requests, StoreStep(r), UNCHANGED handlerVars PROVE Members'
    BY <1>4, StoreMembers
  <1> QED  BY <1>1, <1>2, <1>3, <1>4 DEF Next, Quiet

\* One process, and one change of a role: no `admin create`, one post of the panel.
OneChange ==
    /\ OneProcess /\ AdminCreates = {}
    /\ \A q, r \in RoleChanges : q = r

\* An admin whose account no registration under way can take back.
Elder(a) == a \in LegacyIds /\ IsAdmin(a)

\* As many admins as counted, among those that the count has read.
Counts(n, todo) ==
    /\ n >= 1 => \E a : Elder(a) /\ a \notin todo
    /\ n >= 2 => \E a, b : a # b /\ Elder(a) /\ Elder(b) /\ a \notin todo /\ b \notin todo

\* The change of r has not been written.
Before(r) ==
    phase[r] \in {"idle", "target", "count"} \/ (phase[r] = "update" /\ at[r] \in UpdateAt)

\* What the change of r goes by is so when it writes: until then nobody makes
\* an admin or ends one.
Watched(r) ==
    /\ Before(r) => \A q \in Requests : ~IsAdmin(q)
    /\ Before(r) /\ phase[r] # "idle" => \E a : Elder(a)
    /\ at[r] = "count_list" => frame[r].role = "admin" /\ frame[r].n = 0
    /\ at[r] = "count_read" => frame[r].role = "admin" /\ Counts(frame[r].n, frame[r].todo)
    /\ phase[r] = "count" /\ at[r] = "returned" /\ Err(r) = "nil" => Counts(answer[r].n, {})
    /\ at[r] \in UpdateAt => frame[r].role = "admin" \/ \E a : Elder(a) /\ a # frame[r].id

Manned ==
    /\ \A r \in Requests : phase[r] \in {"target", "count", "update"} => r \in RoleChanges
    /\ \A r \in RoleChanges : Watched(r)
    /\ SomeAdmin => \E a : Elder(a)

LEMMA Changing ==
    ASSUME OneChange, Shape, Owned, Manned, NEW r \in Requests
    PROVE  /\ at[r] \in UpdateAt => phase[r] = "update" /\ r \in RoleChanges
           /\ at[r] \in CountAt => phase[r] = "count" /\ r \in RoleChanges
           /\ RoleChanges \subseteq Requests
  <1>1. Phased(r) /\ Asked(r) /\ phase[r] \in Phases
    BY DEF Shape, Owned, TypeOK
  <1>2. RoleChanges \subseteq Requests
    BY KindAssumption
  <1> QED
    BY <1>1, <1>2 DEF OneChange, Manned, Phased, Asked, Phases, Ended, UpdateAt, CountAt, CreateAt,
         DeleteAt, LookupAt, ReindexAt, ConsumeAt

\* Nothing but UpdateRole makes an admin, and nothing but UpdateRole ends an elder.
LEMMA StoreAdmins ==
    ASSUME Shape, Owned, Fresh, Members, NEW r \in Requests, StoreStep(r), ~UpdatePut(r)
    PROVE  \A id \in Ids : /\ IsAdmin(id)' => IsAdmin(id)
                           /\ Elder(id)' <=> Elder(id)
  <1>o. /\ TypeOK /\ Framed(r) /\ r \in Ids /\ r \notin LegacyIds /\ NoUser \notin User
        /\ \A id \in Ids : users[id] \in User \cup {NoUser}
    BY Own, StoreAssumption, DocumentAssumption DEF Shape, TypeOK, StoreTypeOK
  <1>1. CASE users' = users
    BY <1>1 DEF IsAdmin, Elder
  <1>2. CASE CreatePutUser(r)
    <2> DEFINE u == [email |-> frame[r].email, role |-> frame[r].role]
    <2>1. at[r] = "create_put_user" /\ frame[r].id = r
      BY <1>2, <1>o DEF CreatePutUser, Framed, CreateAt
    <2>2. u.role = "member"
      BY <2>1 DEF Members, CreateAt
    <2>3. SetUser(r, u)
      BY <2>1, <1>2, Zenon DEF CreatePutUser
    <2> HIDE DEF u
    <2> QED  BY <2>2, <2>3, <1>o, Writes DEF IsAdmin, Elder
  <1>3. CASE CreateUndo(r) \/ DeleteUserDoc(r)
    <2>1. users' = users \/ SetUser(r, NoUser)
      BY <1>3, <1>o DEF CreateUndo, DeleteUserDoc, Framed, CreateAt, DeleteAt
    <2> QED  BY <2>1, <1>1, <1>o, Writes DEF IsAdmin, Elder
  <1>4. CASE ReindexPutUser(r)
    <2>1. /\ at[r] = "reindex_put_user" /\ frame[r].id \in Ids /\ frame[r].doc \in User
          /\ users[frame[r].id] = frame[r].doc
      BY <1>4, <1>o DEF ReindexPutUser, Framed, ReindexAt, DocAt, Fresh
    <2>2. PICK u : /\ u = [frame[r].doc EXCEPT !.email = frame[r].email]
                   /\ SetUser(frame[r].id, u)
      BY <1>4, Zenon DEF ReindexPutUser
    <2>3. u.role = frame[r].doc.role /\ u # NoUser /\ frame[r].doc # NoUser
      BY <2>1, <2>2, <1>o, UserEmails, UserRecords, FrameFields DEF TypeOK, StoreTypeOK
    <2>4. users'[frame[r].id] = u /\ \A jd \in Ids \ {frame[r].id} : users'[jd] = users[jd]
      BY <2>1, <2>2, <1>o, Writes
    <2> QED  BY <2>1, <2>3, <2>4, <1>o DEF IsAdmin, Elder
  <1> QED  BY <1>1, <1>2, <1>3, <1>4, UserWriters

\* The write of the change leaves an elder.
LEMMA ChangePut ==
    ASSUME OneChange, Shape, Owned, Manned, NEW r \in Requests, UpdatePut(r)
    PROVE  /\ SomeAdmin => \E a : Elder(a)'
           /\ at'[r] = "returned" /\ phase[r] = "update" /\ r \in RoleChanges
  <1>o. /\ TypeOK /\ Framed(r) /\ at[r] = "update_put" /\ frame[r].id \in Ids
        /\ frame[r].doc \in User /\ frame[r].role \in Roles
        /\ phase[r] = "update" /\ r \in RoleChanges
    BY Changing, FrameFields DEF Shape, UpdatePut, Framed, UpdateAt, DocAt, TypeOK, StoreTypeOK
  <1>1. at'[r] = "returned"
    BY <1>o, Effects DEF UpdatePut
  <1>2. PICK u : /\ u = [frame[r].doc EXCEPT !.role = frame[r].role]
                 /\ SetUser(frame[r].id, u)
    BY Zenon DEF UpdatePut
  <1>3. u.role = frame[r].role /\ u \in User
    BY <1>o, <1>2, UserEmails, UserRecords
  <1>4. users'[frame[r].id] = u /\ \A jd \in Ids \ {frame[r].id} : users'[jd] = users[jd]
    BY <1>o, <1>2, Writes
  <1>5. \E a : Elder(a) /\ (a # frame[r].id \/ frame[r].role = "admin")
    BY <1>o DEF Manned, Watched, Before, UpdateAt
  <1>6. PICK a : Elder(a) /\ (a # frame[r].id \/ frame[r].role = "admin")
    BY <1>5
  <1>7. Elder(a)'
    BY <1>3, <1>4, <1>6, DocumentAssumption DEF Elder, IsAdmin
  <1> QED  BY <1>o, <1>1, <1>7

\* Steps that change neither admins nor the request keep what it goes by.
LEMMA WatchedKept ==
    ASSUME NEW q, Watched(q),
           \A id \in Ids : (IsAdmin(id)' => IsAdmin(id)) /\ (Elder(id)' <=> Elder(id)),
           at'[q] = at[q], frame'[q] = frame[q], answer'[q] = answer[q], phase'[q] = phase[q]
    PROVE  Watched(q)'
  <1>1. \A a : Elder(a) => a \in Ids /\ Elder(a)'
    BY DEF Elder, IsAdmin
  <1>2. \A r \in Requests : IsAdmin(r)' => IsAdmin(r)
    BY Own
  <1> QED  BY <1>1, <1>2 DEF Watched, Before, Err, Counts

\* The count counts elders.
LEMMA Counting ==
    ASSUME OneChange, Shape, Owned, Manned, NEW r \in RoleChanges, StoreStep(r), at[r] \in CountAt,
           UNCHANGED phase, \A a : Elder(a) => Elder(a)'
    PROVE  /\ at'[r] = "count_read" =>
                  frame'[r].role = "admin" /\ Counts(frame[r].n, frame[r].todo)'
           /\ at'[r] = "returned" /\ Err(r)' = "nil" => Counts(answer[r].n, {})'
  <1> DEFINE f == frame[r]
  <1>o. /\ TypeOK /\ r \in Requests /\ phase[r] = "count" /\ f \in Frame
        /\ f.n \in Nat /\ f.todo \in SUBSET Ids /\ Watched(r)
        /\ \A id \in Ids : IsAdmin(id) => Elder(id)
    <2>0. r \in Requests
      BY KindAssumption
    <2>1. r \in Requests /\ phase[r] = "count"
      BY <2>0, Changing
    <2>2. f \in Frame /\ TypeOK
      BY <2>1 DEF Shape, TypeOK, StoreTypeOK
    <2>3. Watched(r) /\ \A q \in Requests : ~IsAdmin(q)
      BY <2>1 DEF Manned, Watched, Before
    <2>4. \A id \in Ids : IsAdmin(id) => Elder(id)
      BY <2>3 DEF Elder, Ids
    <2> QED  BY <2>1, <2>2, <2>3, <2>4, FrameFields
  <1>c. ASSUME NEW n, NEW todo, NEW m, NEW left, m = n, left \subseteq todo, Counts(n, todo)
        PROVE  /\ m >= 1 => \E a : Elder(a)' /\ a \notin left
               /\ m >= 2 => \E a, b : a # b /\ Elder(a)' /\ Elder(b)' /\ a \notin left /\ b \notin left
    BY <1>c DEF Counts
  <1>1. CASE CountList(r)
    <2> DEFINE todo == {id \in Ids : users[id] # NoUser}
    <2>1. PICK g : g = [f EXCEPT !.todo = todo] /\ frame'[r] = g
      BY <1>1, <1>o, Effects DEF CountList, ListUsers
    <2>2. g.n = 0 /\ g.role = "admin"
      BY <2>1, <1>1, <1>o DEF CountList, Watched, Frame
    <2>3. at'[r] = "count_read"
      BY <1>1, <1>o, Effects DEF CountList
    <2> QED  BY <2>1, <2>2, <2>3 DEF Counts
  <1>2. CASE OperationFails(r)
    <2>1. PICK err : err # "nil" /\ Return(r, Failed(err))
      BY <1>2 DEF OperationFails, FailReturns, FailIgnored, CountAt
    <2> QED  BY <2>1, <1>o, Effects, AnswerKept DEF Err
  <1>3. CASE CountRead(r)
    <2>o. f.role = "admin" /\ Counts(f.n, f.todo)
      BY <1>3, <1>o DEF CountRead, Watched
    <2>1. CASE /\ f.todo = {} /\ Return(r, [NoAnswer EXCEPT !.n = f.n])
      <3>1. PICK a : a = [NoAnswer EXCEPT !.n = f.n] /\ answer'[r] = a /\ at'[r] = "returned"
        BY <2>1, <1>o, Effects
      <3>2. a.n = f.n
        BY <3>1 DEF NoAnswer
      <3>3. /\ f.n >= 1 => \E b : Elder(b)' /\ b \notin {}
            /\ f.n >= 2 => \E b, c : b # c /\ Elder(b)' /\ Elder(c)' /\ b \notin {} /\ c \notin {}
        BY <1>c, <2>o, <2>1
      <3> HIDE DEF f
      <3> QED  BY <3>1, <3>2, <3>3 DEF Counts
    <2>2. CASE \E id \in f.todo :
                  /\ SetFrame(r, [f EXCEPT !.todo = @ \ {id},
                         !.n = IF users[id] # NoUser /\ users[id].role = f.role
                               THEN @ + 1 ELSE @])
                  /\ UNCHANGED <<at, answer, faults>>
      <3>1. PICK id \in f.todo :
                  /\ SetFrame(r, [f EXCEPT !.todo = @ \ {id},
                         !.n = IF users[id] # NoUser /\ users[id].role = f.role
                               THEN @ + 1 ELSE @])
                  /\ UNCHANGED <<at, answer, faults>>
        BY <2>2
      <3>2. PICK g : /\ g = [f EXCEPT !.todo = @ \ {id},
                               !.n = IF users[id] # NoUser /\ users[id].role = f.role
                                     THEN @ + 1 ELSE @]
                     /\ frame'[r] = g
        BY <3>1, <1>o, Effects
      <3>3. /\ g.todo = f.todo \ {id} /\ g.role = "admin"
            /\ g.n = IF IsAdmin(id) THEN f.n + 1 ELSE f.n
        BY <3>2, <2>o, <1>o DEF Frame, IsAdmin
      <3>4. IsAdmin(id) => Elder(id)
        BY <1>o
      <3>5. /\ g.n >= 1 => \E a : Elder(a)' /\ a \notin g.todo
            /\ g.n >= 2 => \E a, b : a # b /\ Elder(a)' /\ Elder(b)' /\ a \notin g.todo /\ b \notin g.todo
        <4>1. CASE IsAdmin(id)
          <5>1. g.n = f.n + 1 /\ Elder(id)' /\ id \notin g.todo /\ id \in f.todo
            BY <3>1, <3>3, <3>4, <4>1
          <5>2. f.n >= 1 => \E a : Elder(a)' /\ a \notin f.todo
            BY <2>o DEF Counts
          <5>3. g.n >= 2 => f.n >= 1
            BY <5>1, <1>o
          <5> HIDE DEF f
          <5> QED  BY <5>1, <5>2, <5>3, <3>3
        <4>2. CASE ~IsAdmin(id)
          BY <1>c, <2>o, <3>3, <4>2
        <4> QED  BY <4>1, <4>2
      <3> QED  BY <3>1, <3>2, <3>3, <3>5, <1>3 DEF Counts, CountRead
    <2>3. CASE \E id \in f.todo : SkipUser(r, id) /\ UNCHANGED <<at, answer>>
      <3>1. PICK id \in f.todo : SkipUser(r, id) /\ UNCHANGED <<at, answer>>
        BY <2>3
      <3>2. PICK g : g = [f EXCEPT !.todo = @ \ {id}] /\ frame'[r] = g
        BY <3>1, <1>o, Effects DEF SkipUser
      <3>3. g.todo = f.todo \ {id} /\ g.role = "admin" /\ g.n = f.n
        BY <3>2, <2>o, <1>o DEF Frame
      <3>4. /\ g.n >= 1 => \E a : Elder(a)' /\ a \notin g.todo
            /\ g.n >= 2 => \E a, b : a # b /\ Elder(a)' /\ Elder(b)' /\ a \notin g.todo /\ b \notin g.todo
        BY <1>c, <2>o, <3>3
      <3> QED  BY <3>1, <3>2, <3>3, <3>4, <1>3 DEF Counts, CountRead
    <2> QED  BY <1>3, <2>1, <2>2, <2>3 DEF CountRead
  <1> QED
    BY <1>1, <1>2, <1>3 DEF StoreStep, CreateCheck, CreatePutUser, CreatePutIndex, CreateUndo,
         UpdateRead, UpdatePut, DeleteRead, DeleteUserDoc, DeleteIndex, LookupIndex, LookupUser,
         ScanList, ScanRead, ReindexRead, ReindexPutUser, ReindexPutIndex, ReindexDeleteOld, CountAt

LEMMA StoreManned ==
    ASSUME OneChange, Shape, Owned, Fresh, Members, Manned, NEW r \in Requests, StoreStep(r),
           UNCHANGED handlerVars
    PROVE  Manned' /\ (SomeAdmin => SomeAdmin')
  <1>o. /\ TypeOK /\ Apart(r) /\ StepOutcome(r) /\ UNCHANGED <<phase, input>>
        /\ frame[r] \in Frame /\ RoleChanges \subseteq Requests
    BY StoreApart, StoreOutcome, Changing DEF Shape, handlerVars, TypeOK, StoreTypeOK
  <1>s. (\E a : Elder(a)') => SomeAdmin'
    BY DEF SomeAdmin, Elder, IsAdmin
  <1>1. CASE UpdatePut(r)
    <2>1. /\ SomeAdmin => \E a : Elder(a)'
          /\ at'[r] = "returned" /\ phase[r] = "update" /\ r \in RoleChanges
      BY <1>1, ChangePut
    <2>2. Watched(r)'
      BY <2>1, <1>o DEF Watched, Before, UpdateAt
    <2>3. SomeAdmin
      BY <1>1, <2>1 DEF Manned, Watched, Before, UpdateAt, UpdatePut, SomeAdmin, Elder, IsAdmin
    <2> QED  BY <2>1, <2>2, <2>3, <1>s, <1>o DEF Manned, OneChange
  <1>2. CASE ~UpdatePut(r)
    <2>1. \A id \in Ids : (IsAdmin(id)' => IsAdmin(id)) /\ (Elder(id)' <=> Elder(id))
      BY <1>2, StoreAdmins
    <2>2. \A a : Elder(a) => a \in Ids /\ Elder(a)'
      BY <2>1 DEF Elder, IsAdmin
    <2>3. SomeAdmin' => \E a : Elder(a)'
      BY <2>1, <2>2 DEF SomeAdmin, Manned
    <2>4. SomeAdmin => SomeAdmin'
      BY <2>2, <1>s DEF Manned
    <2>5. ASSUME r \in RoleChanges PROVE Watched(r)'
      <3>w. Watched(r)
        BY <2>5 DEF Manned
      <3>a. Before(r)' => Before(r)
        BY <1>o DEF Before, StepOutcome, Refuses, Answers, GoesOn, Scans, Finds, Reads,
             FailReturns, FailIgnored, UpdateAt
      <3>b. \A q \in Requests : IsAdmin(q)' => IsAdmin(q)
        BY <2>1, Own
      <3>1. Before(r)' => \A q \in Requests : ~IsAdmin(q)'
        BY <3>w, <3>a, <3>b DEF Watched
      <3>2. Before(r)' /\ phase'[r] # "idle" => \E a : Elder(a)'
        BY <3>w, <3>a, <2>2, <1>o DEF Watched
      <3>3. at'[r] # "count_list"
        BY <1>o DEF StepOutcome, Refuses, Answers, GoesOn, Scans, Finds, Reads, FailReturns,
             FailIgnored
      <3>4. /\ at'[r] = "count_read" =>
                  frame'[r].role = "admin" /\ Counts(frame[r].n, frame[r].todo)'
            /\ phase'[r] = "count" /\ at'[r] = "returned" /\ Err(r)' = "nil" =>
                  Counts(answer[r].n, {})'
        <4>1. at'[r] = "count_read" => at[r] \in CountAt
          BY <1>o DEF StepOutcome, Refuses, Answers, GoesOn, Scans, Finds, Reads, FailReturns,
               FailIgnored, CountAt
        <4>2. phase[r] = "count" => at[r] \in CountAt
          BY <1>o DEF StepOutcome, Shape, Phased, CountAt, FailReturns, FailIgnored
        <4> QED  BY <4>1, <4>2, <2>2, <2>5, <1>o, Counting
      <3>5. at'[r] \in UpdateAt => frame'[r].role = "admin" \/ \E a : Elder(a)' /\ a # frame'[r].id
        <4> SUFFICES ASSUME at'[r] \in UpdateAt
                     PROVE  frame'[r].role = frame[r].role /\ frame'[r].id = frame[r].id
                            /\ at[r] \in UpdateAt
          BY <3>w, <2>2 DEF Watched
        <4>1. at[r] = "update_read" /\ at'[r] = "update_put"
          BY <1>o DEF StepOutcome, Refuses, Answers, GoesOn, Scans, Finds, Reads, FailReturns,
               FailIgnored, UpdateAt
        <4>2. UpdateRead(r)
          BY <4>1, <1>o, Effects DEF StoreStep, CreateCheck, CreatePutUser, CreatePutIndex,
               CreateUndo, UpdatePut, DeleteRead, DeleteUserDoc, DeleteIndex, LookupIndex,
               LookupUser, ScanList, ScanRead, ReindexRead, ReindexPutUser, ReindexPutIndex,
               ReindexDeleteOld, CountList, CountRead, OperationFails, ReindexDone
        <4>3. SetDoc(r, users[frame[r].id])
          BY <4>1, <4>2, <1>o, Effects DEF UpdateRead
        <4>4. PICK g : g = [frame[r] EXCEPT !.doc = users[frame[r].id]] /\ frame'[r] = g
          BY <4>3, <1>o, Effects DEF SetDoc
        <4> QED  BY <4>1, <4>4, <1>o DEF Frame, UpdateAt
      <3> QED  BY <3>1, <3>2, <3>3, <3>4, <3>5 DEF Watched, Err
    <2>6. ASSUME NEW q \in RoleChanges \ {r} PROVE Watched(q)'
      BY <2>1, <2>6, <1>o, WatchedKept DEF Apart, Manned
    <2> QED  BY <2>3, <2>4, <2>5, <2>6, <1>o DEF Manned
  <1> QED  BY <1>1, <1>2

\* Who goes on with a change.
LEMMA Changers ==
    ASSUME Shape, NEW r \in Requests, HandlerStep(r), phase'[r] \in {"target", "count", "update"}
    PROVE  /\ phase'[r] = "target" => phase[r] = "idle"
           /\ phase'[r] = "count" => phase[r] = "target"
           /\ phase'[r] = "update" => phase[r] \in {"target", "count"}
           /\ ChangeRole(r) \/ ReadTarget(r) \/ Counted(r)
  <1>o. TypeOK /\ Outcome(r) /\ Phased(r)
    BY HandlerOutcome DEF Shape
  <1>1. /\ phase'[r] = "target" => phase[r] = "idle"
        /\ phase'[r] = "count" => phase[r] = "target"
        /\ phase'[r] = "update" => phase[r] \in {"target", "count"}
    BY <1>o DEF Outcome, Ended
  <1>2. at[r] \notin ConsumeAt
    BY <1>1, <1>o DEF Phased, ConsumeAt, Ended, CountAt
  <1>3. \/ ChangeRole(r) \/ ReadTarget(r) \/ Counted(r)
        \/ Register(r) \/ Login(r) \/ OpenPanel(r) \/ AdminCreate(r) \/ HandlerFails(r)
    BY <1>1, <1>2
       DEF HandlerStep, RegisteredOpen, RegisteredInvite, ConsumeRead, ConsumePut, ConsumeFails,
         Consumed, RolledBack, Verified, Reloaded, OpenSession, RoleUpdated,
         SetRegistrationMode, CreateInvite, Ensured, Promoted, Returned, ConsumeAt
  <1>4. ~Register(r) /\ ~Login(r) /\ ~OpenPanel(r) /\ ~AdminCreate(r) /\ ~HandlerFails(r)
    <2>1. \A p : Enter(r, p) \/ End(r, p) => phase'[r] = p
      BY <1>o, Effects
    <2>2. ~Enter(r, "open") /\ ~Enter(r, "invite") /\ ~End(r, "error")
      BY <2>1
    <2>3. ~Enter(r, "verify") /\ ~Enter(r, "panel") /\ ~Enter(r, "ensure")
      BY <2>1
    <2> QED  BY <2>2, <2>3, Zenon DEF Register, Login, OpenPanel, AdminCreate, HandlerFails
  <1> QED  BY <1>1, <1>3, <1>4

\* What the handler of a change asks for, and what it knows then.
LEMMA Asking ==
    ASSUME OneChange, Shape, Owned, Manned, NEW r \in RoleChanges, HandlerStep(r)
    PROVE  /\ phase'[r] = "target" => phase[r] = "idle" /\ SomeAdmin
           /\ phase'[r] = "count" =>
                 /\ phase[r] = "target" /\ at'[r] = "count_list"
                 /\ frame'[r].role = "admin" /\ frame'[r].n = 0
           /\ phase'[r] = "update" =>
                 /\ phase[r] \in {"target", "count"} /\ at'[r] = "update_read"
                 /\ frame'[r].role = "admin" \/ \E a : Elder(a) /\ a # frame'[r].id
  <1>o. /\ TypeOK /\ r \in Requests /\ Outcome(r) /\ Phased(r) /\ Framed(r) /\ Watched(r)
        /\ input[r].role \in FormRoles /\ phase[r] \in Phases
    BY KindAssumption, HandlerOutcome DEF Shape, Manned, TypeOK, Input
  <1>i. ASSUME phase'[r] \in {"target", "count", "update"}
        PROVE  /\ phase[r] \in {"idle", "target", "count"}
               /\ ChangeRole(r) \/ ReadTarget(r) \/ Counted(r)
    BY <1>i, <1>o, Changers DEF Shape
  <1>u. ASSUME ChangeTo(r), phase'[r] = "update"
        PROVE  /\ input[r].role # "other" /\ at'[r] = "update_read"
               /\ frame'[r].role = normalizeRole(input[r].role) /\ frame'[r].id = input[r].id
    <2>1. input[r].role # "other" /\ UpdateRole(r, input[r].id, input[r].role)
      BY <1>u, <1>o, Effects DEF ChangeTo
    <2>2. PICK g : /\ g = [NoFrame EXCEPT !.id = input[r].id, !.role = normalizeRole(input[r].role)]
                   /\ Call(r, "update_read", g)
      BY <2>1, Zenon DEF UpdateRole
    <2>3. /\ g.role = normalizeRole(input[r].role) /\ g.id = input[r].id
          /\ Call(r, "update_read", g)
      BY <2>2 DEF NoFrame
    <2> QED  BY <2>1, <2>3, <1>o, Effects
  <1>1. ASSUME phase'[r] = "target" PROVE phase[r] = "idle" /\ SomeAdmin
    <2>1. ChangeRole(r)
      BY <1>1, <1>i, <1>o, Effects DEF ReadTarget, Counted, ChangeTo, Returned
    <2> QED  BY <2>1 DEF ChangeRole, SomeAdmin
  <1>2. ASSUME phase'[r] = "count"
        PROVE  /\ phase[r] = "target" /\ at'[r] = "count_list"
               /\ frame'[r].role = "admin" /\ frame'[r].n = 0
    <2>1. phase[r] = "target" /\ CountByRole(r, "admin")
      BY <1>2, <1>i, <1>o, Effects DEF ChangeRole, ReadTarget, Counted, ChangeTo, Returned
    <2>2. PICK g : g = [NoFrame EXCEPT !.role = "admin"] /\ Call(r, "count_list", g)
      BY <2>1, Zenon DEF CountByRole
    <2>3. g.role = "admin" /\ g.n = 0 /\ Call(r, "count_list", g)
      BY <2>2 DEF NoFrame
    <2> QED  BY <2>1, <2>3, <1>o, Effects
  <1>3. ASSUME phase'[r] = "update"
        PROVE  /\ phase[r] \in {"target", "count"} /\ at'[r] = "update_read"
               /\ frame'[r].role = "admin" \/ \E a : Elder(a) /\ a # frame'[r].id
    <2>1. ReadTarget(r) \/ Counted(r)
      BY <1>3, <1>i, <1>o, Effects DEF ChangeRole
    <2>2. CASE ReadTarget(r)
      <3>1. /\ phase[r] = "target" /\ ChangeTo(r)
            /\ users[input[r].id].role # "admin" \/ input[r].role = "admin"
        BY <1>3, <2>2, <1>o, Effects DEF ReadTarget
      <3>2. CASE input[r].role = "admin"
        BY <1>3, <1>u, <3>1, <3>2 DEF normalizeRole
      <3>3. CASE users[input[r].id].role # "admin"
        <4>1. PICK a : Elder(a)
          BY <3>1, <1>o DEF Watched, Before
        <4>2. a # input[r].id
          BY <4>1, <3>3 DEF Elder, IsAdmin
        <4> QED  BY <1>3, <1>u, <3>1, <4>1, <4>2
      <3> QED  BY <3>1, <3>2, <3>3
    <2>3. CASE Counted(r)
      <3>1. phase[r] = "count" /\ at[r] = "returned" /\ Err(r) = "nil" /\ answer[r].n > 1 /\ ChangeTo(r)
        BY <1>3, <2>3, <1>o, Effects DEF Counted, Returned
      <3>2. answer[r].n \in Nat
        BY <1>o DEF TypeOK, StoreTypeOK, Answer
      <3>3. PICK a, b : a # b /\ Elder(a) /\ Elder(b)
        BY <3>1, <3>2, <1>o DEF Watched, Counts
      <3> QED  BY <1>3, <1>u, <3>1, <3>3
    <2> QED  BY <2>1, <2>2, <2>3
  <1> QED  BY <1>1, <1>2, <1>3

LEMMA HandlerManned ==
    ASSUME OneChange, Shape, Owned, Manned, NEW r \in Requests, HandlerStep(r)
    PROVE  Manned' /\ (SomeAdmin => SomeAdmin')
  <1>o. /\ TypeOK /\ Apart(r) /\ Outcome(r) /\ users' = users /\ RoleChanges \subseteq Requests
        /\ Asked(r) /\ Phased(r) /\ phase[r] \in Phases
    BY HandlerApart, HandlerOutcome, HandlerDocs, Changing DEF Shape, Owned, TypeOK
  <1>1. \A id : (IsAdmin(id)' <=> IsAdmin(id)) /\ (Elder(id)' <=> Elder(id))
    BY <1>o DEF IsAdmin, Elder
  <1>2. SomeAdmin' <=> SomeAdmin
    BY <1>1 DEF SomeAdmin
  <1>3. ASSUME NEW q \in RoleChanges \ {r} PROVE Watched(q)'
    BY <1>1, <1>3, <1>o, WatchedKept DEF Apart, Manned
  <1>4. ASSUME r \in RoleChanges PROVE Watched(r)'
    <2>w. Watched(r)
      BY <1>4 DEF Manned
    <2>1. /\ at'[r] \in CountAt => phase'[r] = "count"
          /\ at'[r] \in UpdateAt => phase'[r] = "update"
          /\ phase'[r] = "count" => at'[r] = "count_list"
          /\ phase'[r] # "idle"
      BY <1>o DEF Outcome, Waits, ConsumeAt, CountAt, UpdateAt, Ended, Asked, OneChange
    <2>2. /\ phase'[r] = "target" => phase[r] = "idle" /\ SomeAdmin
          /\ phase'[r] = "count" =>
                /\ phase[r] = "target" /\ frame'[r].role = "admin" /\ frame'[r].n = 0
          /\ phase'[r] = "update" =>
                /\ phase[r] \in {"target", "count"}
                /\ frame'[r].role = "admin" \/ \E a : Elder(a) /\ a # frame'[r].id
      BY <1>4, Asking
    <2>3. Before(r)' => Before(r) /\ (phase[r] # "idle" \/ SomeAdmin)
      BY <2>1, <2>2 DEF Before
    <2>4. Before(r)' => (\A q \in Requests : ~IsAdmin(q)') /\ \E a : Elder(a)'
      BY <2>w, <2>3, <1>1 DEF Watched, Manned
    <2>5. /\ at'[r] = "count_list" => frame'[r].role = "admin" /\ frame'[r].n = 0
          /\ at'[r] # "count_read"
          /\ ~(phase'[r] = "count" /\ at'[r] = "returned")
          /\ at'[r] \in UpdateAt => frame'[r].role = "admin" \/ \E a : Elder(a)' /\ a # frame'[r].id
      BY <2>1, <2>2, <1>1 DEF CountAt
    <2> QED  BY <2>4, <2>5 DEF Watched
  <1>5. phase'[r] \in {"target", "count", "update"} => r \in RoleChanges
    <2>1. phase'[r] \in {"count", "update"} => phase[r] \in {"target", "count"}
      BY <1>o DEF Outcome, Ended
    <2>2. phase'[r] = "target" => ChangeRole(r)
      BY Changers DEF ReadTarget, Counted, Returned
    <2> QED  BY <2>1, <2>2 DEF ChangeRole, Manned
  <1>6. SomeAdmin' => \E a : Elder(a)'
    BY <1>1, <1>2 DEF Manned
  <1> QED  BY <1>2, <1>3, <1>4, <1>5, <1>6, <1>o DEF Manned, Apart

LEMMA NextManned ==
    ASSUME OneChange
    PROVE  Shape /\ Owned /\ Fresh /\ Members /\ Manned /\ [Next]_vars
               => Manned' /\ (SomeAdmin => SomeAdmin')
  <1> SUFFICES ASSUME Shape, Owned, Fresh, Members, Manned, [Next]_vars
               PROVE  Manned' /\ (SomeAdmin => SomeAdmin')
    OBVIOUS
  <1>1. ASSUME users' = users,
               \A q \in Requests :
                   \/ phase'[q] = "dead" /\ at'[q] = "dead"
                   \/ /\ at'[q] = at[q] /\ frame'[q] = frame[q] /\ answer'[q] = answer[q]
                      /\ phase'[q] = phase[q]
        PROVE  Manned' /\ (SomeAdmin => SomeAdmin')
    <2>1. \A id : (IsAdmin(id)' <=> IsAdmin(id)) /\ (Elder(id)' <=> Elder(id))
      BY <1>1 DEF IsAdmin, Elder
    <2>2. ASSUME NEW q \in RoleChanges PROVE Watched(q)'
      <3>1. q \in Requests /\ Watched(q)
        BY <2>2, KindAssumption DEF Manned
      <3>2. CASE phase'[q] = "dead" /\ at'[q] = "dead"
        BY <3>2 DEF Watched, Before, UpdateAt
      <3> QED  BY <3>1, <3>2, <2>1, <1>1, WatchedKept
    <2> QED  BY <2>1, <2>2, <1>1 DEF Manned, SomeAdmin
  <1>2. CASE UNCHANGED vars \/ \E t \in Tokens : InviteExpires(t)
    BY <1>1, <1>2 DEF vars, storeVars, handlerVars, InviteExpires
  <1>3. ASSUME NEW p \in Procs, Crash(p) PROVE Manned' /\ (SomeAdmin => SomeAdmin')
    BY <1>1, <1>3 DEF Crash
  <1>4. ASSUME NEW r \in Requests, HandlerStep(r) PROVE Manned' /\ (SomeAdmin => SomeAdmin')
    BY <1>4, HandlerManned
  <1>5. ASSUME NEW r \in Requests, StoreStep(r), UNCHANGED handlerVars
        PROVE  Manned' /\ (SomeAdmin => SomeAdmin')
    BY <1>5, StoreManned
  <1> QED  BY <1>2, <1>3, <1>4, <1>5 DEF Next, Quiet

LEMMA InitManned == Init => Manned
  <1> SUFFICES ASSUME Init PROVE Manned
    OBVIOUS
  <1>1. \A r \in Requests : at[r] = "none" /\ phase[r] = "idle" /\ ~IsAdmin(r)
    BY DEF Init, StoreInit, IsAdmin
  <1>2. RoleChanges \subseteq Requests
    BY KindAssumption
  <1>3. \A r \in RoleChanges : Watched(r)
    BY <1>1, <1>2 DEF Watched, UpdateAt
  <1>4. SomeAdmin => \E a : Elder(a)
    BY <1>1 DEF SomeAdmin, Elder, Ids
  <1> QED  BY <1>1, <1>3, <1>4 DEF Manned

\* AdminRemains, for one process, one change of a role and no `admin create`,
\* whatever fails or crashes: the count may be of a moment that is gone and be
\* short of users that could not be read, but it never counts an admin who will
\* not be there when userRoleHandler demotes another.
THEOREM AnAdminRemains == ASSUME OneChange PROVE Spec => AdminRemains
  <1> DEFINE Inv == Shape /\ Owned /\ Guarded /\ Fresh /\ Members /\ Manned
  <1>1. Init => Guarded /\ Fresh /\ Members
    BY DEF Init, StoreInit, Guarded, Fresh, Members, Locked, CreateAt
  <1>2. Init => Inv
    BY <1>1, InitShape, InitOwned, InitManned
  <1>3. Inv /\ [Next]_vars => Inv'
    BY NextShape, NextOwned, NextGuarded, NextFresh, NextMembers, NextManned DEF OneChange
  <1>4. Inv /\ [Next]_vars => [SomeAdmin => SomeAdmin']_vars
    BY NextManned
  <1> HIDE DEF Inv
  <1> QED  BY <1>2, <1>3, <1>4, PTL DEF Spec, AdminRemains

=============================================================================
