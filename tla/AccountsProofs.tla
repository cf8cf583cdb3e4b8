--------------------------- MODULE AccountsProofs ---------------------------
(***************************************************************************)
(* Proofs about Accounts, for any requests, users, processes and faults.   *)
(***************************************************************************)
EXTENDS Accounts, TLAPS

CreateAt == {"create_check", "create_put_user", "create_put_index", "create_undo"}
UpdateAt == {"update_read", "update_put"}
DeleteAt == {"delete_read", "delete_user", "delete_index"}
ReindexAt == {"reindex_read", "reindex_put_user", "reindex_put_index", "reindex_delete_old"}
LookupAt == {"lookup_index", "lookup_user", "scan_list", "scan_read"} \cup ReindexAt
CountAt == {"count_list", "count_read"}
ConsumeAt == {"consume_read", "consume_put"}
DocAt == {"update_put", "delete_user", "delete_index",
          "reindex_put_user", "reindex_put_index", "reindex_delete_old"}

\* A handler waits for the call it has made.
Phased(r) ==
    /\ phase[r] \in {"open", "invite"} => at[r] \in CreateAt \cup {"returned"}
    /\ phase[r] = "consume" => at[r] \in ConsumeAt \cup {"returned"}
    /\ phase[r] = "rollback" => at[r] \in DeleteAt \cup {"returned"}
    /\ phase[r] \in {"verify", "reload", "ensure"} => at[r] \in LookupAt \cup {"returned"}
    /\ phase[r] = "count" => at[r] \in CountAt \cup {"returned"}
    /\ phase[r] = "update" => at[r] \in UpdateAt \cup {"returned"}
    /\ phase[r] = "promote" => at[r] \in UpdateAt \cup CreateAt \cup {"returned"}
    /\ phase[r] \in {"idle", "target", "session", "panel"} \cup Ended =>
          at[r] \in {"none", "returned", "dead"}

\* A call has what its next step needs; only its own account is made or deleted.
Framed(r) ==
    /\ at[r] \in CreateAt \cup DeleteAt \cup ConsumeAt => frame[r].id = r
    /\ at[r] \in UpdateAt \cup ReindexAt \cup {"lookup_user"} => frame[r].id \in Ids
    /\ at[r] \in DocAt => frame[r].doc \in User
    /\ phase[r] \in {"verify", "reload", "ensure"} /\ at[r] = "returned" /\ answer[r].err = "nil" =>
          answer[r].id \in Ids
    /\ phase[r] = "invite" /\ at[r] = "returned" /\ answer[r].err = "nil" => answer[r].id = r
    /\ phase[r] \in {"target", "count", "session"} => input[r].id \in Ids

Shape == TypeOK /\ \A r \in Requests : Phased(r) /\ Framed(r)

-----------------------------------------------------------------------------
(* What requests and documents are made of.                                *)

AtSet == Locked \cup Unlocked \cup {"none", "returned", "dead"}

LEMMA Own == \A r \in Requests : r \in Ids
  BY DEF Ids

LEMMA Emailed == SomeEmail \in Emails
  <1>1. PICK n \in Names : TRUE  BY DocumentAssumption
  <1>2. [name |-> n, form |-> "lower"] \in Emails  BY DEF Emails
  <1>3. \E e \in Emails : e.form = "lower"  BY <1>2
  <1> QED  BY <1>3 DEF SomeEmail

LEMMA UserRecords ==
    /\ \A e \in Emails, ro \in Roles : [email |-> e, role |-> ro] \in User
    /\ \A u \in User :
          /\ u.email \in Emails /\ u.role \in Roles
          /\ \A ro \in Roles : [u EXCEPT !.role = ro] \in User
          /\ \A e \in Emails : [u EXCEPT !.email = e] \in User
  BY DEF User

LEMMA FrameFields ==
    \A f \in Frame :
          /\ f.email \in Emails /\ f.id \in Ids \cup {NoId} /\ f.role \in Roles
          /\ f.doc \in User \cup {NoUser} /\ f.todo \in SUBSET Ids /\ f.n \in Nat
  BY DEF Frame

LEMMA FrameRecords ==
    \A f \in Frame :
          /\ \A e \in Emails, ro \in Roles, id \in Ids :
                [f EXCEPT !.email = e, !.role = ro, !.id = id] \in Frame
          /\ \A e \in Emails : [f EXCEPT !.email = e] \in Frame
          /\ \A id \in Ids : [f EXCEPT !.id = id] \in Frame
          /\ \A ro \in Roles : [f EXCEPT !.role = ro] \in Frame
          /\ \A id \in Ids, ro \in Roles : [f EXCEPT !.id = id, !.role = ro] \in Frame
          /\ \A u \in User : [f EXCEPT !.doc = u] \in Frame
          /\ \A t \in SUBSET Ids : [f EXCEPT !.todo = t] \in Frame
          /\ \A t \in SUBSET Ids, n \in Nat : [f EXCEPT !.todo = t, !.n = n] \in Frame
          /\ \A id \in Ids, ro \in Roles :
                [f EXCEPT !.id = id, !.role = ro, !.todo = {}] \in Frame
  BY DEF Frame

LEMMA EmptyFrame == NoFrame \in Frame /\ NoFrame.id = NoId
  BY Emailed DEF Frame, NoFrame, Roles

LEMMA AnswerRecords ==
    /\ NoAnswer \in Answer /\ NoAnswer.err = "nil"
    /\ \A err \in {"nil", "exists", "notfound", "failed", "invite"} :
          Failed(err) \in Answer /\ Failed(err).err = err
    /\ \A n \in Nat : [NoAnswer EXCEPT !.n = n] \in Answer
    /\ \A id \in Ids : [NoAnswer EXCEPT !.id = id] \in Answer /\ [NoAnswer EXCEPT !.id = id].id = id
    /\ \A id \in Ids, ro \in Roles : Found(id, ro) \in Answer /\ Found(id, ro).id = id
  BY DEF Answer, NoAnswer, Failed, Found, Roles

LEMMA OtherRecords ==
    /\ NoInput \in Input
    /\ \A e \in Emails : normalizeEmail(e) \in Emails
    /\ \A ro \in FormRoles : ro # "other" => normalizeRole(ro) \in Roles
  BY Emailed DEF NoInput, Input, normalizeEmail, normalizeRole, FormRoles, Roles, Emails

\* The pieces steps are made of keep the types.
LEMMA Pieces ==
    ASSUME StoreTypeOK
    PROVE  /\ \A id \in Ids, u \in User \cup {NoUser} : SetUser(id, u) =>
                 users' \in [Ids -> User \cup {NoUser}] /\ steady' \in [Requests -> SUBSET Ids]
           /\ \A e, id : SetIndex(e, id) /\ id \in Ids \cup {NoId} => index' \in [Emails -> Ids \cup {NoId}]
           /\ \A r \in Requests : Lock(r) \/ Unlock(r) => mu' \in [Procs -> Requests \cup {NoOne}]
           /\ MayFail => faults' \in 0..MaxFaults
           /\ \A r \in Requests, s \in AtSet : Goto(r, s) =>
                 at' \in [Requests -> AtSet] /\ answer' \in [Requests -> Answer]
           /\ \A r \in Requests, f \in Frame : SetFrame(r, f) => frame' \in [Requests -> Frame]
           /\ \A r \in Requests :
                 /\ \A u \in User : SetDoc(r, u) => frame' \in [Requests -> Frame]
                 /\ \A id \in Ids, ro \in Roles : SetFound(r, id, ro) => frame' \in [Requests -> Frame]
                 /\ \A id : SkipUser(r, id) => frame' \in [Requests -> Frame]
                 /\ ListUsers(r) => frame' \in [Requests -> Frame]
           /\ \A r \in Requests, a \in Answer : Return(r, a) =>
                 /\ at' \in [Requests -> AtSet] /\ answer' \in [Requests -> Answer]
                 /\ frame' \in [Requests -> Frame]
  <1> USE DEF StoreTypeOK
  <1>1. \A id \in Ids, u \in User \cup {NoUser} : SetUser(id, u) =>
                 users' \in [Ids -> User \cup {NoUser}] /\ steady' \in [Requests -> SUBSET Ids]
    BY DEF SetUser
  <1>2. \A e, id : SetIndex(e, id) /\ id \in Ids \cup {NoId} => index' \in [Emails -> Ids \cup {NoId}]
    BY DEF SetIndex
  <1>3. \A r \in Requests : Lock(r) \/ Unlock(r) => mu' \in [Procs -> Requests \cup {NoOne}]
    BY DEF Lock, Unlock
  <1>4. MayFail => faults' \in 0..MaxFaults  BY StoreAssumption DEF MayFail
  <1>5. \A r \in Requests, s \in AtSet : Goto(r, s) =>
                 at' \in [Requests -> AtSet] /\ answer' \in [Requests -> Answer]
    BY DEF Goto, AtSet
  <1>6. \A r \in Requests, f \in Frame : SetFrame(r, f) => frame' \in [Requests -> Frame]
    BY DEF SetFrame
  <1>7. \A r \in Requests, a \in Answer : Return(r, a) =>
                 /\ at' \in [Requests -> AtSet] /\ answer' \in [Requests -> Answer]
                 /\ frame' \in [Requests -> Frame]
    BY EmptyFrame, <1>6 DEF Return, AtSet
  <1>8. ASSUME NEW r \in Requests
        PROVE  /\ \A u \in User : SetDoc(r, u) => frame' \in [Requests -> Frame]
               /\ \A id \in Ids, ro \in Roles : SetFound(r, id, ro) => frame' \in [Requests -> Frame]
               /\ \A id : SkipUser(r, id) => frame' \in [Requests -> Frame]
               /\ ListUsers(r) => frame' \in [Requests -> Frame]
    <2>1. frame[r] \in Frame /\ frame[r].todo \in SUBSET Ids  BY FrameFields
    <2>2. \A u \in User : SetDoc(r, u) => frame' \in [Requests -> Frame]
      BY <2>1, <1>6, FrameRecords DEF SetDoc
    <2>3. \A id \in Ids, ro \in Roles : SetFound(r, id, ro) => frame' \in [Requests -> Frame]
      BY <2>1, <1>6, FrameRecords DEF SetFound
    <2>4. \A id : SkipUser(r, id) => frame' \in [Requests -> Frame]
      BY <2>1, <1>6, FrameRecords DEF SkipUser
    <2>5. ListUsers(r) => frame' \in [Requests -> Frame]
      <3>1. {id \in Ids : users[id] # NoUser} \in SUBSET Ids  OBVIOUS
      <3> QED  BY <3>1, <2>1, <1>6, FrameRecords DEF ListUsers
    <2> QED  BY <2>2, <2>3, <2>4, <2>5
  <1> QED  BY <1>1, <1>2, <1>3, <1>4, <1>5, <1>6, <1>7, <1>8

LEMMA StoreTypes ==
    ASSUME Shape, NEW r \in Requests, StoreStep(r) PROVE StoreTypeOK'
  <1> DEFINE f == frame[r]
  <1>o. StoreTypeOK /\ Framed(r) /\ f \in Frame
    BY DEF Shape, TypeOK, StoreTypeOK
  <1>f. /\ r \in Ids /\ f \in Frame
        /\ f.email \in Emails /\ f.id \in Ids \cup {NoId} /\ f.role \in Roles
        /\ f.doc \in User \cup {NoUser} /\ f.todo \in SUBSET Ids /\ f.n \in Nat
        /\ \A id \in Ids : users[id] \in User \cup {NoUser}
        /\ \A e \in Emails : index[e] \in Ids \cup {NoId}
        /\ NoUser \notin User
    BY <1>o, Own, FrameFields, DocumentAssumption DEF StoreTypeOK
  <1>1. CASE CreateCheck(r)
    BY <1>1, <1>o, <1>f, Pieces, AnswerRecords
       DEF CreateCheck, StoreTypeOK, AtSet, Locked, Unlocked, Framed, CreateAt, SameDocs
  <1>2. CASE CreatePutUser(r)
    BY <1>2, <1>o, <1>f, Pieces, UserRecords
       DEF CreatePutUser, StoreTypeOK, AtSet, Locked, Unlocked, Framed, CreateAt
  <1>3. CASE CreatePutIndex(r)
    BY <1>3, <1>o, <1>f, Pieces, AnswerRecords
       DEF CreatePutIndex, StoreTypeOK, AtSet, Locked, Unlocked, Framed, CreateAt
  <1>4. CASE CreateUndo(r)
    BY <1>4, <1>o, <1>f, Pieces, AnswerRecords
       DEF CreateUndo, StoreTypeOK, AtSet, Locked, Unlocked, Framed, CreateAt
  <1>5. CASE UpdateRead(r)
    BY <1>5, <1>o, <1>f, Pieces, AnswerRecords
       DEF UpdateRead, StoreTypeOK, AtSet, Locked, Unlocked, Framed, UpdateAt, SameDocs
  <1>6. CASE UpdatePut(r)
    BY <1>6, <1>o, <1>f, Pieces, UserRecords, AnswerRecords
       DEF UpdatePut, StoreTypeOK, AtSet, Locked, Unlocked, Framed, UpdateAt, DocAt
  <1>7. CASE DeleteRead(r)
    BY <1>7, <1>o, <1>f, Pieces, AnswerRecords
       DEF DeleteRead, StoreTypeOK, AtSet, Locked, Unlocked, Framed, DeleteAt, SameDocs
  <1>8. CASE DeleteUserDoc(r)
    BY <1>8, <1>o, <1>f, Pieces, UserRecords
       DEF DeleteUserDoc, StoreTypeOK, AtSet, Locked, Unlocked, Framed, DeleteAt, DocAt
  <1>9. CASE DeleteIndex(r)
    BY <1>9, <1>o, <1>f, Pieces, AnswerRecords
       DEF DeleteIndex, StoreTypeOK, AtSet, Locked, Unlocked, Framed, DeleteAt
  <1>10. CASE LookupIndex(r)
    BY <1>10, <1>o, <1>f, Pieces
       DEF LookupIndex, StoreTypeOK, AtSet, Locked, Unlocked, Framed, SameDocs
  <1>11. CASE LookupUser(r)
    BY <1>11, <1>o, <1>f, Pieces, UserRecords, AnswerRecords
       DEF LookupUser, StoreTypeOK, AtSet, Locked, Unlocked, Framed, SameDocs
  <1>12. CASE ScanList(r)
    BY <1>12, <1>o, <1>f, Pieces
       DEF ScanList, StoreTypeOK, AtSet, Locked, Unlocked, Framed, SameDocs
  <1>13. CASE ScanRead(r)
    BY <1>13, <1>o, <1>f, Pieces, UserRecords, AnswerRecords
       DEF ScanRead, StoreTypeOK, AtSet, Locked, Unlocked, Framed, SameDocs
  <1>14. CASE ReindexRead(r)
    BY <1>14, <1>o, <1>f, Pieces, AnswerRecords
       DEF ReindexRead, StoreTypeOK, AtSet, Locked, Unlocked, Framed, ReindexAt, SameDocs,
            ReindexDone
  <1>15. CASE ReindexPutUser(r)
    BY <1>15, <1>o, <1>f, Pieces, UserRecords
       DEF ReindexPutUser, StoreTypeOK, AtSet, Locked, Unlocked, Framed, ReindexAt, DocAt
  <1>16. CASE ReindexPutIndex(r)
    BY <1>16, <1>o, <1>f, Pieces, AnswerRecords
       DEF ReindexPutIndex, StoreTypeOK, AtSet, Locked, Unlocked, Framed, ReindexAt, ReindexDone
  <1>17. CASE ReindexDeleteOld(r)
    BY <1>17, <1>o, <1>f, Pieces, AnswerRecords
       DEF ReindexDeleteOld, StoreTypeOK, AtSet, Locked, Unlocked, Framed, ReindexAt,
            ReindexDone
  <1>18. CASE CountList(r)
    BY <1>18, <1>o, <1>f, Pieces
       DEF CountList, StoreTypeOK, AtSet, Locked, Unlocked, Framed, SameDocs
  <1>19. CASE CountRead(r)
    <2> DEFINE n(id) == IF users[id] # NoUser /\ users[id].role = f.role THEN f.n + 1 ELSE f.n
    <2>1. \A id : [f EXCEPT !.todo = @ \ {id}, !.n = n(id)] \in Frame
      <3> SUFFICES ASSUME NEW id PROVE [f EXCEPT !.todo = @ \ {id}, !.n = n(id)] \in Frame
        OBVIOUS
      <3>1. n(id) \in Nat  BY <1>f
      <3> QED  BY <3>1, <1>f, FrameRecords
    <2>3. \/ Return(r, [NoAnswer EXCEPT !.n = f.n]) /\ UNCHANGED faults
          \/ \E id \in f.todo : /\ SetFrame(r, [f EXCEPT !.todo = @ \ {id}, !.n = n(id)])
                               /\ UNCHANGED <<at, answer, faults>>
          \/ \E id \in f.todo : /\ SkipUser(r, id)
                               /\ UNCHANGED <<at, answer>> /\ MayFail
      BY <1>19, Zenon DEF CountRead
    <2> HIDE DEF n
    <2>4. [NoAnswer EXCEPT !.n = f.n] \in Answer  BY <1>f, AnswerRecords
    <2>5. UNCHANGED <<users, index, steady, mu>>  BY <1>19 DEF CountRead, SameDocs
    <2>6. \/ Return(r, [NoAnswer EXCEPT !.n = f.n]) /\ UNCHANGED faults
          \/ \E g \in Frame : SetFrame(r, g) /\ UNCHANGED <<at, answer, faults>>
          \/ \E id \in f.todo : SkipUser(r, id) /\ UNCHANGED <<at, answer>> /\ MayFail
      BY <2>1, <2>3, Zenon
    <2> QED
      BY <1>o, <2>4, <2>5, <2>6, Pieces DEF StoreTypeOK, AtSet
  <1>20. CASE OperationFails(r)
    BY <1>20, <1>o, <1>f, Pieces, AnswerRecords
       DEF OperationFails, StoreTypeOK, AtSet, Locked, Unlocked, Framed, ReindexAt,
            FailIgnored, ReindexDone, SameDocs
  <1> QED
    BY <1>1, <1>2, <1>3, <1>4, <1>5, <1>6, <1>7, <1>8, <1>9, <1>10, <1>11, <1>12, <1>13, <1>14,
         <1>15, <1>16, <1>17, <1>18, <1>19, <1>20 DEF StoreStep

LEMMA FrameKept ==
    \A f \in Frame :
          /\ \A u : [f EXCEPT !.doc = u].doc = u /\ [f EXCEPT !.doc = u].id = f.id
          /\ \A u : [f EXCEPT !.doc = u].email = f.email
          /\ \A t, n : [f EXCEPT !.todo = t, !.n = n].id = f.id
          /\ \A id : [f EXCEPT !.id = id].id = id
          /\ \A id, ro, t : [f EXCEPT !.id = id, !.role = ro, !.todo = t].id = id
          /\ \A id, ro : [f EXCEPT !.id = id, !.role = ro].id = id
          /\ \A e, id, ro : [f EXCEPT !.email = e, !.role = ro, !.id = id].id = id
  BY DEF Frame

LEMMA AnswerKept ==
    /\ \A id, ro : Found(id, ro).id = id /\ Found(id, ro).err = "nil"
    /\ \A id : [NoAnswer EXCEPT !.id = id].id = id
    /\ \A err : Failed(err).err = err
  BY DEF NoAnswer, Found, Failed

\* What the pieces of a step leave of its own call.
LEMMA Effects ==
    ASSUME TypeOK, NEW r \in Requests
    PROVE  /\ \A s : Goto(r, s) => at'[r] = s /\ answer'[r] = answer[r]
           /\ \A f : SetFrame(r, f) => frame'[r] = f
           /\ \A u : SetDoc(r, u) =>
                 /\ frame'[r].doc = u
                 /\ frame'[r].id = frame[r].id /\ frame'[r].email = frame[r].email
           /\ \A id, ro : SetFound(r, id, ro) => frame'[r].id = id /\ frame'[r].email = frame[r].email
           /\ \A id : SkipUser(r, id) => frame'[r].email = frame[r].email
           /\ ListUsers(r) => frame'[r].email = frame[r].email
           /\ \A a : Return(r, a) => at'[r] = "returned" /\ answer'[r] = a /\ frame'[r] = NoFrame
           /\ \A s, f : Call(r, s, f) => at'[r] = s /\ frame'[r] = f /\ answer'[r] = NoAnswer
           /\ \A p : Enter(r, p) => phase'[r] = p
           /\ \A p : End(r, p) =>
                 /\ phase'[r] = p /\ at'[r] = "none" /\ frame'[r] = frame[r]
                 /\ answer'[r] = NoAnswer
           /\ \A e, t, id, role : Form(r, e, t, id, role) =>
                 input'[r].id = id /\ input'[r].email = e
  <1>1. frame[r] \in Frame  BY DEF TypeOK, StoreTypeOK
  <1>2. \A f : SetFrame(r, f) => frame'[r] = f
    BY DEF TypeOK, StoreTypeOK, SetFrame
  <1>3. ASSUME NEW u, SetDoc(r, u)
        PROVE  frame'[r].doc = u /\ frame'[r].id = frame[r].id /\ frame'[r].email = frame[r].email
    <2>1. frame'[r] = [frame[r] EXCEPT !.doc = u]  BY <1>2, <1>3 DEF SetDoc
    <2> QED  BY <1>1, <2>1 DEF Frame
  <1>4. ASSUME NEW id, NEW ro, SetFound(r, id, ro)
        PROVE  frame'[r].id = id /\ frame'[r].email = frame[r].email
    <2>1. frame'[r] = [frame[r] EXCEPT !.id = id, !.role = ro, !.todo = {}]
      BY <1>2, <1>4 DEF SetFound
    <2> QED  BY <1>1, <2>1 DEF Frame
  <1>5. ASSUME NEW t, SetFrame(r, [frame[r] EXCEPT !.todo = t]) PROVE frame'[r].email = frame[r].email
    <2>1. frame'[r] = [frame[r] EXCEPT !.todo = t]  BY <1>2, <1>5
    <2> QED  BY <1>1, <2>1 DEF Frame
  <1>6. \A id : SkipUser(r, id) => frame'[r].email = frame[r].email
    BY <1>5 DEF SkipUser
  <1>7. ListUsers(r) => frame'[r].email = frame[r].email
    BY <1>5 DEF ListUsers
  <1> QED
    BY <1>2, <1>3, <1>4, <1>6, <1>7 DEF TypeOK, StoreTypeOK, Goto, SetFrame, Return, Call,
         Enter, End, Form

\* Requests that r's step does not touch.
Apart(r) ==
    \A q \in Requests \ {r} :
        /\ at'[q] = at[q] /\ frame'[q] = frame[q] /\ answer'[q] = answer[q]
        /\ phase'[q] = phase[q] /\ input'[q] = input[q]

LEMMA Parts ==
    ASSUME TypeOK, NEW r \in Requests, NEW q \in Requests \ {r}
    PROVE  /\ \A s : Goto(r, s) => at'[q] = at[q] /\ answer'[q] = answer[q]
           /\ \A f : SetFrame(r, f) => frame'[q] = frame[q]
           /\ \A u : SetDoc(r, u) => frame'[q] = frame[q]
           /\ \A id, ro : SetFound(r, id, ro) => frame'[q] = frame[q]
           /\ \A id : SkipUser(r, id) => frame'[q] = frame[q]
           /\ ListUsers(r) => frame'[q] = frame[q]
           /\ \A a : Return(r, a) =>
                 at'[q] = at[q] /\ answer'[q] = answer[q] /\ frame'[q] = frame[q]
           /\ \A s, f : Call(r, s, f) =>
                 at'[q] = at[q] /\ answer'[q] = answer[q] /\ frame'[q] = frame[q]
           /\ \A p : Enter(r, p) => phase'[q] = phase[q]
           /\ \A p : End(r, p) =>
                 /\ phase'[q] = phase[q] /\ at'[q] = at[q] /\ frame'[q] = frame[q]
                 /\ answer'[q] = answer[q] /\ input'[q] = input[q]
           /\ \A e, t, id, role : Form(r, e, t, id, role) => input'[q] = input[q]
  <1>1. \A f : SetFrame(r, f) => frame'[q] = frame[q]
    BY DEF TypeOK, StoreTypeOK, SetFrame
  <1>2. /\ \A u : SetDoc(r, u) => frame'[q] = frame[q]
        /\ \A id, ro : SetFound(r, id, ro) => frame'[q] = frame[q]
        /\ \A id : SkipUser(r, id) => frame'[q] = frame[q]
        /\ ListUsers(r) => frame'[q] = frame[q]
    BY <1>1 DEF SetDoc, SetFound, SkipUser, ListUsers
  <1> QED
    BY <1>1, <1>2 DEF TypeOK, StoreTypeOK, Goto, Return, Call, Enter, End, Form

LEMMA StoreApart ==
    ASSUME TypeOK, NEW r \in Requests, StoreStep(r), UNCHANGED handlerVars PROVE Apart(r)
  <1> SUFFICES ASSUME NEW q \in Requests \ {r}
               PROVE  at'[q] = at[q] /\ frame'[q] = frame[q] /\ answer'[q] = answer[q]
    BY DEF Apart, handlerVars
  <1>1. CASE CreateCheck(r)
    BY <1>1, Parts DEF CreateCheck
  <1>2. CASE CreatePutUser(r)
    BY <1>2, Parts DEF CreatePutUser
  <1>3. CASE CreatePutIndex(r)
    BY <1>3, Parts DEF CreatePutIndex
  <1>4. CASE CreateUndo(r)
    BY <1>4, Parts DEF CreateUndo
  <1>5. CASE UpdateRead(r)
    BY <1>5, Parts DEF UpdateRead
  <1>6. CASE UpdatePut(r)
    BY <1>6, Parts DEF UpdatePut
  <1>7. CASE DeleteRead(r)
    BY <1>7, Parts DEF DeleteRead
  <1>8. CASE DeleteUserDoc(r)
    BY <1>8, Parts DEF DeleteUserDoc
  <1>9. CASE DeleteIndex(r)
    BY <1>9, Parts DEF DeleteIndex
  <1>10. CASE LookupIndex(r)
    BY <1>10, Parts DEF LookupIndex
  <1>11. CASE LookupUser(r)
    BY <1>11, Parts DEF LookupUser
  <1>12. CASE ScanList(r)
    BY <1>12, Parts DEF ScanList
  <1>13. CASE ScanRead(r)
    BY <1>13, Parts DEF ScanRead
  <1>14. CASE ReindexRead(r)
    BY <1>14, Parts DEF ReindexRead, ReindexDone
  <1>15. CASE ReindexPutUser(r)
    BY <1>15, Parts DEF ReindexPutUser, ReindexDone
  <1>16. CASE ReindexPutIndex(r)
    BY <1>16, Parts DEF ReindexPutIndex, ReindexDone
  <1>17. CASE ReindexDeleteOld(r)
    BY <1>17, Parts DEF ReindexDeleteOld, ReindexDone
  <1>18. CASE CountList(r)
    BY <1>18, Parts DEF CountList
  <1>19. CASE CountRead(r)
    BY ZenonT(40), <1>19, Parts DEF CountRead
  <1>20. CASE OperationFails(r)
    BY <1>20, Parts DEF OperationFails, ReindexDone, FailReturns, FailIgnored
  <1> QED
    BY StoreStep(r), <1>1, <1>2, <1>3, <1>4, <1>5, <1>6, <1>7, <1>8, <1>9, <1>10, <1>11, <1>12,
         <1>13, <1>14, <1>15, <1>16, <1>17, <1>18, <1>19, <1>20 DEF StoreStep

\* How a step of a call leaves it.
Refuses(r) == at'[r] = "returned" /\ answer'[r].err # "nil"
Answers(r) == at'[r] = "returned" /\ answer'[r].id = frame[r].id
GoesOn(r, s) == at'[r] = s /\ frame'[r] = frame[r]
Scans(r, s) == at'[r] = s /\ frame'[r].email = frame[r].email
Finds(r, s, id) == Scans(r, s) /\ frame'[r].id = id
Reads(r, s) ==
    /\ Finds(r, s, frame[r].id)
    /\ users[frame[r].id] # NoUser /\ frame'[r].doc = users[frame[r].id]

StepOutcome(r) ==
    \/ at[r] = "create_check" /\ (Refuses(r) \/ GoesOn(r, "create_put_user"))
    \/ at[r] = "create_put_user" /\ GoesOn(r, "create_put_index")
    \/ at[r] = "create_put_index" /\ (Answers(r) \/ GoesOn(r, "create_undo"))
    \/ at[r] = "create_undo" /\ Refuses(r)
    \/ at[r] = "update_read" /\ (Refuses(r) \/ Reads(r, "update_put"))
    \/ at[r] \in {"update_put", "delete_index"} /\ at'[r] = "returned"
    \/ at[r] = "delete_read" /\ (Refuses(r) \/ Reads(r, "delete_user"))
    \/ at[r] = "delete_user" /\ GoesOn(r, "delete_index")
    \/ /\ at[r] = "lookup_index"
       /\ \/ Scans(r, "scan_list")
          \/ /\ index[frame[r].email] # NoId
             /\ Finds(r, "lookup_user", index[frame[r].email])
    \/ at[r] = "lookup_user" /\ (Refuses(r) \/ Answers(r) \/ Finds(r, "reindex_read", frame[r].id))
    \/ at[r] = "scan_list" /\ Scans(r, "scan_read")
    \/ /\ at[r] = "scan_read"
       /\ \/ Refuses(r)
          \/ Scans(r, "scan_read")
          \/ \E id \in Ids :
                /\ users[id] # NoUser /\ normalizeEmail(users[id].email) = frame[r].email
                /\ Finds(r, "reindex_read", id)
    \/ /\ at[r] = "reindex_read"
       /\ Answers(r) \/ Reads(r, "reindex_put_user") \/ Reads(r, "reindex_put_index")
    \/ at[r] = "reindex_put_user" /\ GoesOn(r, "reindex_put_index")
    \/ at[r] = "reindex_put_index" /\ (Answers(r) \/ GoesOn(r, "reindex_delete_old"))
    \/ at[r] = "reindex_delete_old" /\ Answers(r)
    \/ at[r] = "count_list" /\ at'[r] = "count_read"
    \/ at[r] = "count_read" /\ at'[r] \in {"returned", "count_read"}
    \/ at[r] \in FailReturns /\ Refuses(r)
    \/ at[r] \in FailIgnored /\ Answers(r)

LEMMA StoreOutcome ==
    ASSUME TypeOK, NEW r \in Requests, StoreStep(r) PROVE StepOutcome(r)
  <1>o. frame[r].todo \in SUBSET Ids
    BY FrameFields DEF TypeOK, StoreTypeOK
  <1> USE Effects DEF StepOutcome, Refuses, Answers, GoesOn, Scans, Finds, Reads
  <1>1. CASE CreateCheck(r)
    BY <1>1, AnswerKept DEF CreateCheck
  <1>2. CASE CreatePutUser(r)
    BY <1>2 DEF CreatePutUser
  <1>3. CASE CreatePutIndex(r)
    BY <1>3, AnswerKept DEF CreatePutIndex
  <1>4. CASE CreateUndo(r)
    BY <1>4, AnswerKept DEF CreateUndo
  <1>5. CASE UpdateRead(r)
    BY <1>5, AnswerKept DEF UpdateRead
  <1>6. CASE UpdatePut(r)
    BY <1>6 DEF UpdatePut
  <1>7. CASE DeleteRead(r)
    BY <1>7, AnswerKept DEF DeleteRead
  <1>8. CASE DeleteUserDoc(r)
    BY <1>8 DEF DeleteUserDoc
  <1>9. CASE DeleteIndex(r)
    BY <1>9 DEF DeleteIndex
  <1>10. CASE LookupIndex(r)
    BY <1>10 DEF LookupIndex
  <1>11. CASE LookupUser(r)
    BY <1>11, AnswerKept DEF LookupUser
  <1>12. CASE ScanList(r)
    BY <1>12 DEF ScanList
  <1>13. CASE ScanRead(r)
    BY <1>13, <1>o, AnswerKept DEF ScanRead
  <1>14. CASE ReindexRead(r)
    BY <1>14, AnswerKept DEF ReindexRead, ReindexDone
  <1>15. CASE ReindexPutUser(r)
    BY <1>15 DEF ReindexPutUser, ReindexDone
  <1>16. CASE ReindexPutIndex(r)
    BY <1>16, AnswerKept DEF ReindexPutIndex, ReindexDone
  <1>17. CASE ReindexDeleteOld(r)
    BY <1>17, AnswerKept DEF ReindexDeleteOld, ReindexDone
  <1>18. CASE CountList(r)
    BY <1>18 DEF CountList
  <1>19. CASE CountRead(r)
    BY <1>19 DEF CountRead
  <1>20. CASE OperationFails(r)
    BY <1>20, AnswerKept DEF OperationFails, ReindexDone
  <1> QED
    BY StoreStep(r), <1>1, <1>2, <1>3, <1>4, <1>5, <1>6, <1>7, <1>8, <1>9, <1>10, <1>11, <1>12,
         <1>13, <1>14, <1>15, <1>16, <1>17, <1>18, <1>19, <1>20 DEF StoreStep

LEMMA StorePhased ==
    ASSUME TypeOK, NEW r \in Requests, StoreStep(r), UNCHANGED handlerVars, Phased(r) PROVE Phased(r)'
  <1>1. StepOutcome(r) /\ phase'[r] = phase[r]  BY StoreOutcome DEF handlerVars
  <1> QED
    BY <1>1 DEF StepOutcome, Refuses, Answers, GoesOn, Scans, Finds, Reads, FailReturns,
         FailIgnored,
                Phased, Ended, CreateAt, UpdateAt, DeleteAt, LookupAt, ReindexAt, CountAt,
                ConsumeAt

LEMMA StoreFramed ==
    ASSUME Shape, NEW r \in Requests, StoreStep(r), UNCHANGED handlerVars PROVE Framed(r)'
  <1>1. /\ StepOutcome(r) /\ Framed(r) /\ Phased(r)
        /\ phase'[r] = phase[r] /\ input'[r] = input[r]
    BY StoreOutcome DEF handlerVars, Shape
  <1>2. /\ \A id \in Ids : users[id] \in User \cup {NoUser}
        /\ index[frame[r].email] \in Ids \cup {NoId} /\ r \in Ids
    BY Own, FrameFields DEF Shape, TypeOK, StoreTypeOK
  <1> USE DEF Framed, Phased, Ended, CreateAt, UpdateAt, DeleteAt, LookupAt, ReindexAt, CountAt,
              ConsumeAt, DocAt, FailReturns, FailIgnored
  <1> QED
    BY <1>1, <1>2 DEF StepOutcome, Refuses, Answers, GoesOn, Scans, Finds, Reads

-----------------------------------------------------------------------------
(* The handlers.                                                           *)

CallTyped ==
    /\ at' \in [Requests -> AtSet]
    /\ frame' \in [Requests -> Frame]
    /\ answer' \in [Requests -> Answer]
    /\ steady' \in [Requests -> SUBSET Ids]

LEMMA CallTypes ==
    ASSUME TypeOK, NEW r \in Requests, NEW s \in AtSet, NEW f \in Frame, Call(r, s, f)
    PROVE  CallTyped
  <1>1. Owners(f.email) \in SUBSET Ids  BY DEF Owners
  <1>2. (IF s = "lookup_index" THEN Owners(f.email) ELSE {}) \in SUBSET Ids  BY <1>1
  <1> QED  BY <1>2, AnswerRecords DEF Call, CallTyped, TypeOK, StoreTypeOK, AtSet

\* A call starts at its method's first step, with what it is about.
LEMMA Calls ==
    ASSUME TypeOK, NEW r \in Requests
    PROVE  /\ \A e \in Emails, ro \in Roles : CreateUser(r, e, ro) =>
                 CallTyped /\ at'[r] = "create_check" /\ frame'[r].id = r
           /\ \A id \in Ids : DeleteUser(r, id) =>
                 CallTyped /\ at'[r] = "delete_read" /\ frame'[r].id = id
           /\ \A id \in Ids, ro \in FormRoles \ {"other"} : UpdateRole(r, id, ro) =>
                 CallTyped /\ at'[r] = "update_read" /\ frame'[r].id = id
           /\ \A e \in Emails : GetByEmail(r, e) =>
                 CallTyped /\ at'[r] = "lookup_index" /\ frame'[r].email = e
           /\ \A ro \in Roles : CountByRole(r, ro) => CallTyped /\ at'[r] = "count_list"
           /\ \A id \in Ids : Call(r, "consume_read", [NoFrame EXCEPT !.id = id]) =>
                 CallTyped /\ at'[r] = "consume_read" /\ frame'[r].id = id
  <1>a. /\ {"create_check", "delete_read", "update_read", "lookup_index", "count_list",
            "consume_read"} \in SUBSET AtSet
        /\ r \in Ids
    BY Own DEF AtSet, Locked, Unlocked
  <1>1. ASSUME NEW e \in Emails, NEW ro \in Roles, CreateUser(r, e, ro)
        PROVE  CallTyped /\ at'[r] = "create_check" /\ frame'[r].id = r
    <2> DEFINE g == [NoFrame EXCEPT !.email = e, !.role = ro, !.id = r]
    <2>1. g \in Frame /\ g.id = r  BY <1>a, EmptyFrame, FrameRecords DEF Frame
    <2>2. Call(r, "create_check", g)  BY <1>1, Zenon DEF CreateUser
    <2> HIDE DEF g
    <2> QED  BY <1>a, <2>1, <2>2, CallTypes, Effects
  <1>2. ASSUME NEW id \in Ids, DeleteUser(r, id)
        PROVE  CallTyped /\ at'[r] = "delete_read" /\ frame'[r].id = id
    <2> DEFINE g == [NoFrame EXCEPT !.id = id]
    <2>1. g \in Frame /\ g.id = id  BY EmptyFrame, FrameRecords DEF Frame
    <2>2. Call(r, "delete_read", g)  BY <1>2, Zenon DEF DeleteUser
    <2> HIDE DEF g
    <2> QED  BY <1>a, <2>1, <2>2, CallTypes, Effects
  <1>3. ASSUME NEW id \in Ids, NEW ro \in FormRoles \ {"other"}, UpdateRole(r, id, ro)
        PROVE  CallTyped /\ at'[r] = "update_read" /\ frame'[r].id = id
    <2> DEFINE g == [NoFrame EXCEPT !.id = id, !.role = normalizeRole(ro)]
    <2>1. normalizeRole(ro) \in Roles  BY OtherRecords
    <2>2. g \in Frame /\ g.id = id  BY ZenonT(40), <2>1, EmptyFrame, FrameRecords DEF Frame
    <2>3. Call(r, "update_read", g)  BY <1>3, Zenon DEF UpdateRole
    <2> HIDE DEF g
    <2> QED  BY <1>a, <2>2, <2>3, CallTypes, Effects
  <1>4. ASSUME NEW e \in Emails, GetByEmail(r, e)
        PROVE  CallTyped /\ at'[r] = "lookup_index" /\ frame'[r].email = e
    <2> DEFINE g == [NoFrame EXCEPT !.email = e]
    <2>a. g \in Frame  BY EmptyFrame, FrameRecords
    <2>b. g.email = e  BY EmptyFrame DEF Frame
    <2>1. g \in Frame /\ g.email = e  BY <2>a, <2>b
    <2>2. Call(r, "lookup_index", g)  BY <1>4, Zenon DEF GetByEmail
    <2> HIDE DEF g
    <2> QED  BY <1>a, <2>1, <2>2, CallTypes, Effects
  <1>5. ASSUME NEW ro \in Roles, CountByRole(r, ro) PROVE CallTyped /\ at'[r] = "count_list"
    <2> DEFINE g == [NoFrame EXCEPT !.role = ro]
    <2>1. g \in Frame  BY EmptyFrame, FrameRecords
    <2>2. Call(r, "count_list", g)  BY <1>5, Zenon DEF CountByRole
    <2> HIDE DEF g
    <2> QED  BY <1>a, <2>1, <2>2, CallTypes, Effects
  <1>6. ASSUME NEW id \in Ids, Call(r, "consume_read", [NoFrame EXCEPT !.id = id])
        PROVE  CallTyped /\ at'[r] = "consume_read" /\ frame'[r].id = id
    <2> DEFINE g == [NoFrame EXCEPT !.id = id]
    <2>1. g \in Frame /\ g.id = id  BY EmptyFrame, FrameRecords DEF Frame
    <2>2. Call(r, "consume_read", g)  BY <1>6
    <2> HIDE DEF g
    <2> QED  BY <1>a, <2>1, <2>2, CallTypes, Effects
  <1> QED  BY <1>1, <1>2, <1>3, <1>4, <1>5, <1>6

LEMMA HandlerPieces ==
    ASSUME TypeOK, NEW r \in Requests
    PROVE  /\ \A p \in Phases : Enter(r, p) => phase' \in [Requests -> Phases]
           /\ \A p \in Phases : End(r, p) =>
                 CallTyped /\ phase' \in [Requests -> Phases] /\ input' \in [Requests -> Input]
           /\ \A e \in Emails, t \in Tokens \cup {NoToken}, id \in Ids \cup {NoId}, ro \in FormRoles :
                 Form(r, e, t, id, ro) => input' \in [Requests -> Input]
           /\ NoCall => CallTyped
           /\ \A n \in Names : normalizeEmail([name |-> n, form |-> "mixed"]) \in Emails
  <1> USE DEF TypeOK
  <1>1. \A p \in Phases : Enter(r, p) => phase' \in [Requests -> Phases]
    BY DEF Enter
  <1>2. \A p \in Phases : End(r, p) =>
            CallTyped /\ phase' \in [Requests -> Phases] /\ input' \in [Requests -> Input]
    BY <1>1, AnswerRecords, OtherRecords DEF End, StoreTypeOK, CallTyped, AtSet
  <1>3. \A e \in Emails, t \in Tokens \cup {NoToken}, id \in Ids \cup {NoId}, ro \in FormRoles :
            Form(r, e, t, id, ro) => input' \in [Requests -> Input]
    BY DEF Form, Input
  <1>4. NoCall => CallTyped
    BY DEF NoCall, StoreTypeOK, CallTyped, AtSet
  <1>5. \A n \in Names : normalizeEmail([name |-> n, form |-> "mixed"]) \in Emails
    BY DEF normalizeEmail, Emails
  <1> QED  BY <1>1, <1>2, <1>3, <1>4, <1>5

LEMMA HandlerApart ==
    ASSUME TypeOK, NEW r \in Requests, HandlerStep(r) PROVE Apart(r)
  <1> SUFFICES ASSUME NEW q \in Requests \ {r}
               PROVE  /\ at'[q] = at[q] /\ frame'[q] = frame[q] /\ answer'[q] = answer[q]
                      /\ phase'[q] = phase[q] /\ input'[q] = input[q]
    BY DEF Apart
  <1> USE Parts DEF handlerVars, NoCall, CreateUser, DeleteUser, UpdateRole, GetByEmail,
       CountByRole
  <1>1. CASE Register(r)
    BY <1>1 DEF Register
  <1>2. CASE RegisteredOpen(r)
    BY <1>2 DEF RegisteredOpen
  <1>3. CASE RegisteredInvite(r)
    BY <1>3 DEF RegisteredInvite
  <1>4. CASE ConsumeRead(r)
    BY <1>4 DEF ConsumeRead
  <1>5. CASE ConsumePut(r)
    BY <1>5 DEF ConsumePut
  <1>6. CASE ConsumeFails(r)
    BY <1>6 DEF ConsumeFails
  <1>7. CASE Consumed(r)
    BY <1>7 DEF Consumed
  <1>8. CASE RolledBack(r)
    BY <1>8 DEF RolledBack
  <1>9. CASE Login(r)
    BY <1>9 DEF Login
  <1>10. CASE Verified(r)
    BY <1>10 DEF Verified
  <1>11. CASE Reloaded(r)
    BY <1>11 DEF Reloaded, TypeOK
  <1>12. CASE OpenSession(r)
    BY <1>12 DEF OpenSession
  <1>13. CASE ChangeRole(r)
    BY <1>13 DEF ChangeRole
  <1>14. CASE ReadTarget(r)
    BY <1>14 DEF ReadTarget, ChangeTo
  <1>15. CASE Counted(r)
    BY <1>15 DEF Counted, ChangeTo
  <1>16. CASE RoleUpdated(r)
    BY <1>16 DEF RoleUpdated
  <1>17. CASE OpenPanel(r)
    BY <1>17 DEF OpenPanel
  <1>18. CASE SetRegistrationMode(r)
    BY <1>18 DEF SetRegistrationMode
  <1>19. CASE CreateInvite(r)
    BY <1>19 DEF CreateInvite
  <1>20. CASE AdminCreate(r)
    BY <1>20 DEF AdminCreate
  <1>21. CASE Ensured(r)
    BY <1>21 DEF Ensured
  <1>22. CASE Promoted(r)
    BY <1>22 DEF Promoted
  <1>23. CASE HandlerFails(r)
    BY <1>23 DEF HandlerFails
  <1> QED
    BY HandlerStep(r), <1>1, <1>2, <1>3, <1>4, <1>5, <1>6, <1>7, <1>8, <1>9, <1>10, <1>11,
         <1>12, <1>13, <1>14, <1>15, <1>16, <1>17, <1>18, <1>19, <1>20, <1>21, <1>22, <1>23
              DEF HandlerStep

LEMMA HandlerTypes ==
    ASSUME Shape, NEW r \in Requests, HandlerStep(r) PROVE TypeOK'
  <1>o. /\ TypeOK /\ StoreTypeOK /\ Framed(r) /\ Phased(r)
        /\ r \in Ids /\ SomeEmail \in Emails
        /\ answer[r].id \in Ids \cup {NoId} /\ phase[r] \in Phases
        /\ input[r].email \in Emails /\ input[r].id \in Ids \cup {NoId} /\ input[r].role \in FormRoles
        /\ input[r].token \in Tokens \cup {NoToken}
        /\ frame[r].id \in Ids \cup {NoId}
    BY Own, Emailed, FrameFields DEF Shape, TypeOK, StoreTypeOK, Answer, Input
  <1>p. /\ {"ok", "error", "open", "invite", "consume", "invited", "rollback", "verify", "reload",
            "panicked", "session", "target", "update", "count", "panel", "ensure", "promote"}
              \in SUBSET Phases
        /\ {"member", "admin"} \in SUBSET Roles /\ {"member", "admin"} \in SUBSET FormRoles \ {"other"}
    BY DEF Phases, Roles, FormRoles
  <1>1. CASE Register(r)
    BY <1>1, <1>o, <1>p, Calls, HandlerPieces
       DEF Register, TypeOK, StoreTypeOK, SameStore, SameSetup, CallTyped, AtSet
  <1>2. CASE RegisteredOpen(r)
    BY <1>2, <1>o, <1>p, HandlerPieces
       DEF RegisteredOpen, TypeOK, StoreTypeOK, SameStore, SameSetup, CallTyped, AtSet
  <1>3. CASE RegisteredInvite(r)
    BY <1>3, <1>o, <1>p, Calls, HandlerPieces
       DEF RegisteredInvite, TypeOK, StoreTypeOK, SameStore, SameSetup, CallTyped, AtSet,
            Framed, Returned, Err
  <1>4. CASE ConsumeRead(r)
    BY <1>4, <1>o, Pieces, AnswerRecords
       DEF ConsumeRead, TypeOK, StoreTypeOK, AtSet, Locked, Unlocked, SameDocs, handlerVars
  <1>5. CASE ConsumePut(r)
    <2>1. frame[r].id \in Ids  BY <1>5, <1>o DEF ConsumePut, Framed, ConsumeAt
    <2>2. [NoAnswer EXCEPT !.id = frame[r].id] \in Answer  BY <2>1, AnswerRecords
    <2>3. invites' \in [Tokens -> Invite]
      BY <1>5, <1>o, <2>1 DEF ConsumePut, TypeOK, Invite
    <2>4. /\ Return(r, [NoAnswer EXCEPT !.id = frame[r].id]) /\ Unlock(r) /\ SameDocs
          /\ UNCHANGED <<faults, mode, phase, input, subject>>
      BY <1>5, Zenon DEF ConsumePut
    <2> QED
      BY <1>o, <2>2, <2>3, <2>4, Pieces DEF TypeOK, StoreTypeOK, AtSet, SameDocs
  <1>6. CASE ConsumeFails(r)
    BY <1>6, <1>o, Pieces, AnswerRecords
       DEF ConsumeFails, TypeOK, StoreTypeOK, AtSet, SameDocs, handlerVars
  <1>7. CASE Consumed(r)
    BY <1>7, <1>o, <1>p, Calls, HandlerPieces
       DEF Consumed, TypeOK, StoreTypeOK, SameStore, SameSetup, CallTyped, AtSet, Framed,
            Returned, Err
  <1>8. CASE RolledBack(r)
    BY <1>8, <1>o, <1>p, HandlerPieces
       DEF RolledBack, TypeOK, StoreTypeOK, SameStore, SameSetup, CallTyped, AtSet
  <1>9. CASE Login(r)
    BY <1>9, <1>o, <1>p, Calls, HandlerPieces
       DEF Login, TypeOK, StoreTypeOK, SameStore, SameSetup, CallTyped, AtSet
  <1>10. CASE Verified(r)
    BY <1>10, <1>o, <1>p, Calls, HandlerPieces
       DEF Verified, TypeOK, StoreTypeOK, SameStore, SameSetup, CallTyped, AtSet, Framed,
            Returned, Err
  <1>11. CASE Reloaded(r)
    <2>1. CASE Err(r) # "nil" /\ End(r, "panicked")
      BY <2>1, <1>11, <1>o, <1>p, HandlerPieces
         DEF Reloaded, TypeOK, StoreTypeOK, SameStore, SameSetup, CallTyped, AtSet
    <2>2. CASE input' = [input EXCEPT ![r].id = answer[r].id] /\ Enter(r, "session") /\ NoCall
      <3>1. input' \in [Requests -> Input]  BY <2>2, <1>o DEF TypeOK, Input
      <3> QED
        BY <2>2, <3>1, <1>11, <1>o, <1>p, HandlerPieces
           DEF Reloaded, TypeOK, StoreTypeOK, SameStore, SameSetup, CallTyped, AtSet
    <2> QED  BY <1>11, <2>1, <2>2 DEF Reloaded
  <1>12. CASE OpenSession(r)
    BY <1>12, <1>o, <1>p, HandlerPieces
       DEF OpenSession, TypeOK, StoreTypeOK, SameStore, SameSetup, CallTyped, AtSet
  <1>13. CASE ChangeRole(r)
    BY <1>13, <1>o, <1>p, HandlerPieces
       DEF ChangeRole, TypeOK, StoreTypeOK, SameStore, SameSetup, CallTyped, AtSet
  <1>14. CASE ReadTarget(r)
    BY <1>14, <1>o, <1>p, Calls, HandlerPieces
       DEF ReadTarget, ChangeTo, TypeOK, StoreTypeOK, SameStore, SameSetup, CallTyped, AtSet,
            Framed, Returned, Err
  <1>15. CASE Counted(r)
    BY <1>15, <1>o, <1>p, Calls, HandlerPieces
       DEF Counted, ChangeTo, TypeOK, StoreTypeOK, SameStore, SameSetup, CallTyped, AtSet,
            Framed, Returned, Err
  <1>16. CASE RoleUpdated(r)
    BY <1>16, <1>o, <1>p, HandlerPieces
       DEF RoleUpdated, TypeOK, StoreTypeOK, SameStore, SameSetup, CallTyped, AtSet
  <1>17. CASE OpenPanel(r)
    BY <1>17, <1>o, <1>p, HandlerPieces
       DEF OpenPanel, TypeOK, StoreTypeOK, SameStore, SameSetup, CallTyped, AtSet
  <1>18. CASE SetRegistrationMode(r)
    BY <1>18, <1>o, <1>p, HandlerPieces
       DEF SetRegistrationMode, TypeOK, StoreTypeOK, SameStore, SameSetup, CallTyped, AtSet
  <1>19. CASE CreateInvite(r)
    <2>1. invites' \in [Tokens -> Invite]
      <3>1. PICK t \in Tokens, ttl \in BOOLEAN :
               invites' = [invites EXCEPT ![t] = [state |-> "live", ttl |-> ttl,
               usedBy |-> NoId]]
        BY <1>19 DEF CreateInvite
      <3>2. [state |-> "live", ttl |-> ttl, usedBy |-> NoId] \in Invite  BY DEF Invite
      <3> QED  BY <1>o, <3>1, <3>2 DEF TypeOK
    <2> QED
      BY <1>19, <1>o, <1>p, <2>1, HandlerPieces
         DEF CreateInvite, TypeOK, StoreTypeOK, SameStore, CallTyped, AtSet
  <1>20. CASE AdminCreate(r)
    BY <1>20, <1>o, <1>p, Calls, HandlerPieces
       DEF AdminCreate, TypeOK, StoreTypeOK, SameStore, SameSetup, CallTyped, AtSet
  <1>21. CASE Ensured(r)
    BY <1>21, <1>o, <1>p, Calls, HandlerPieces
       DEF Ensured, TypeOK, StoreTypeOK, SameStore, SameSetup, CallTyped, AtSet, Framed,
            Returned, Err
  <1>22. CASE Promoted(r)
    BY <1>22, <1>o, <1>p, HandlerPieces
       DEF Promoted, TypeOK, StoreTypeOK, SameStore, SameSetup, CallTyped, AtSet
  <1>23. CASE HandlerFails(r)
    BY <1>23, <1>o, <1>p, Pieces, HandlerPieces
       DEF HandlerFails, TypeOK, StoreTypeOK, CallTyped, AtSet
  <1> QED
    BY HandlerStep(r), <1>1, <1>2, <1>3, <1>4, <1>5, <1>6, <1>7, <1>8, <1>9, <1>10, <1>11,
         <1>12, <1>13, <1>14, <1>15, <1>16, <1>17, <1>18, <1>19, <1>20, <1>21, <1>22, <1>23
              DEF HandlerStep

Waits == {"none", "returned", "dead"}

\* What a handler went on from and to, and what it waits for.
Outcome(r) ==
    \/ phase[r] \notin Ended /\ phase'[r] \in Ended /\ at'[r] = "none"
    \/ /\ phase[r] = "idle" /\ phase'[r] \in {"open", "invite"}
       /\ at'[r] = "create_check" /\ frame'[r].id = r
    \/ /\ phase[r] = "invite" /\ at[r] = "returned" /\ answer[r].err = "nil"
       /\ phase'[r] = "consume" /\ at'[r] = "consume_read" /\ frame'[r].id = r
    \/ /\ phase[r] = "consume" /\ at[r] \in ConsumeAt
       /\ phase'[r] = "consume"
       /\ \/ at'[r] = "returned"
          \/ at'[r] = "consume_put" /\ frame'[r].id = r
    \/ /\ phase[r] = "consume" /\ at[r] = "returned" /\ answer[r].err # "nil"
       /\ phase'[r] = "rollback" /\ at'[r] = "delete_read" /\ frame'[r].id = r
    \/ /\ phase[r] = "idle"
       /\ \/ r \in Logins /\ phase'[r] = "verify"
          \/ r \in AdminCreates /\ phase'[r] = "ensure"
       /\ at'[r] = "lookup_index" /\ frame'[r].email = input'[r].email
       /\ input'[r].email.form = "lower"
    \/ /\ phase[r] = "verify" /\ at[r] = "returned" /\ phase'[r] = "reload"
       /\ at'[r] = "lookup_index" /\ frame'[r].email = input'[r].email
       /\ input'[r].email = input[r].email
    \/ /\ phase[r] = "reload" /\ at[r] = "returned" /\ answer[r].err = "nil"
       /\ phase'[r] = "session" /\ at'[r] \in Waits
       /\ input'[r].id = answer[r].id /\ input'[r].id \in Ids
       /\ input'[r].email = input[r].email
    \/ phase[r] = "idle" /\ phase'[r] = "target" /\ at'[r] \in Waits /\ input'[r].id \in Ids
    \/ phase[r] = "idle" /\ phase'[r] = "panel" /\ at'[r] \in Waits
    \/ phase[r] = "target" /\ phase'[r] = "count" /\ at'[r] = "count_list" /\ input'[r].id \in Ids
    \/ /\ phase[r] \in {"target", "count"} /\ phase'[r] = "update"
       /\ at'[r] = "update_read" /\ frame'[r].id \in Ids
    \/ /\ phase[r] = "ensure" /\ phase'[r] = "promote"
       /\ \/ at'[r] = "update_read" /\ frame'[r].id \in Ids
          \/ at'[r] = "create_check" /\ frame'[r].id = r

LEMMA OutcomeShape ==
    ASSUME NEW r \in Requests, Outcome(r) PROVE Phased(r)' /\ Framed(r)'
  BY DEF Outcome, Phased, Framed, Waits, Ended, CreateAt, UpdateAt, DeleteAt, LookupAt,
       ReindexAt,
         CountAt, ConsumeAt, DocAt

LEMMA HandlerOutcome ==
    ASSUME Shape, NEW r \in Requests, HandlerStep(r) PROVE Outcome(r)
  <1>o. /\ TypeOK /\ Framed(r) /\ Phased(r) /\ r \in Ids /\ phase[r] \in Phases
        /\ input[r].email \in Emails /\ input[r].role \in FormRoles /\ SomeEmail \in Emails
    BY Own, Emailed DEF Shape, TypeOK, Input
  <1>p. /\ {"ok", "error", "invited", "panicked"} \in SUBSET Ended
        /\ {"member", "admin"} \in SUBSET Roles /\ {"member", "admin"} \in SUBSET FormRoles \ {"other"}
    BY DEF Ended, Roles, FormRoles
  <1>n. \A n \in Names : normalizeEmail([name |-> n, form |-> "mixed"]).form = "lower"
    BY DEF normalizeEmail
  <1>e. \A p \in {"idle", "open", "invite", "consume", "rollback", "verify", "reload", "session",
                 "target", "count", "update", "panel", "ensure", "promote"} : p \notin Ended
    BY DEF Ended
  <1>c. at[r] \in ConsumeAt => phase[r] = "consume"
    BY <1>o DEF Phased, Phases, Ended, CreateAt, UpdateAt, DeleteAt, LookupAt, ReindexAt,
         CountAt, ConsumeAt
  <1>1. CASE Register(r)
    BY <1>1, <1>o, <1>p, <1>e, Effects, Calls, HandlerPieces, <1>n DEF Register, Outcome
  <1>2. CASE RegisteredOpen(r)
    BY <1>2, <1>o, <1>p, <1>e, Effects DEF RegisteredOpen, Outcome, Returned
  <1>3. CASE RegisteredInvite(r)
    BY <1>3, <1>o, <1>p, <1>e, Effects, Calls DEF RegisteredInvite, Outcome, Framed, Err,
         Returned
  <1>4. CASE ConsumeRead(r)
    <2>1. phase[r] = "consume" /\ phase'[r] = phase[r] /\ at[r] \in ConsumeAt
      BY <1>4, <1>c DEF ConsumeRead, ConsumeAt, handlerVars
    <2>2. \/ at'[r] = "consume_put" /\ frame'[r].id = r
          \/ at'[r] = "returned"
      BY <1>4, <1>o, Effects DEF ConsumeRead, Framed, ConsumeAt
    <2> QED  BY <2>1, <2>2 DEF Outcome, ConsumeAt
  <1>5. CASE ConsumePut(r)
    <2>1. phase[r] = "consume" /\ phase'[r] = phase[r] /\ at[r] \in ConsumeAt
      BY <1>5, <1>c DEF ConsumePut, ConsumeAt, handlerVars
    <2>2. at'[r] = "returned"  BY <1>5, <1>o, Effects DEF ConsumePut
    <2> QED  BY <2>1, <2>2 DEF Outcome, ConsumeAt
  <1>6. CASE ConsumeFails(r)
    <2>1. phase[r] = "consume" /\ phase'[r] = phase[r] /\ at[r] \in ConsumeAt
      BY <1>6, <1>c DEF ConsumeFails, ConsumeAt, handlerVars
    <2>2. at'[r] = "returned"  BY <1>6, <1>o, Effects DEF ConsumeFails
    <2> QED  BY <2>1, <2>2 DEF Outcome, ConsumeAt
  <1>7. CASE Consumed(r)
    BY <1>7, <1>o, <1>p, <1>e, Effects, Calls DEF Consumed, Outcome, Err, Returned
  <1>8. CASE RolledBack(r)
    BY <1>8, <1>o, <1>p, <1>e, Effects DEF RolledBack, Outcome, Returned
  <1>9. CASE Login(r)
    BY <1>9, <1>o, <1>p, <1>e, Effects, Calls, HandlerPieces, <1>n DEF Login, Outcome
  <1>10. CASE Verified(r)
    BY <1>10, <1>o, <1>p, <1>e, Effects, Calls DEF Verified, Outcome, Err, Returned
  <1>11. CASE Reloaded(r)
    <2>1. CASE Err(r) # "nil" /\ End(r, "panicked")
      BY <2>1, <1>11, <1>o, <1>p, <1>e, Effects DEF Reloaded, Returned, Outcome
    <2>2. CASE /\ Err(r) = "nil" /\ input' = [input EXCEPT ![r].id = answer[r].id]
               /\ Enter(r, "session") /\ NoCall
      <3>1. at[r] = "returned" /\ phase[r] = "reload"  BY <1>11 DEF Reloaded, Returned
      <3>2. answer[r].id \in Ids  BY <2>2, <3>1, <1>o DEF Framed, Err
      <3>3. input'[r].id = answer[r].id /\ input'[r].email = input[r].email
        BY <2>2, <1>o DEF TypeOK, Input
      <3> QED  BY <2>2, <3>1, <3>2, <3>3, <1>o, Effects DEF Outcome, NoCall, Waits, Err
    <2> QED  BY <1>11, <2>1, <2>2 DEF Reloaded
  <1>12. CASE OpenSession(r)
    BY <1>12, <1>o, <1>p, <1>e, Effects DEF OpenSession, Outcome
  <1>13. CASE ChangeRole(r)
    <2>1. at[r] \in Waits  BY <1>13, <1>o DEF ChangeRole, Phased, Waits
    <2> QED  BY <1>13, <1>o, <2>1, Effects DEF ChangeRole, Outcome, NoCall
  <1>14. CASE ReadTarget(r)
    BY <1>14, <1>o, <1>p, <1>e, Effects, Calls DEF ReadTarget, ChangeTo, Outcome, Framed
  <1>15. CASE Counted(r)
    <2>1. \/ End(r, "error")
          \/ /\ input[r].role # "other" /\ UpdateRole(r, input[r].id, input[r].role)
             /\ Enter(r, "update")
      BY <1>15, Zenon DEF Counted, ChangeTo
    <2>2. phase[r] = "count" /\ input[r].id \in Ids  BY <1>15, <1>o DEF Counted, Returned, Framed
    <2> QED  BY <2>1, <2>2, <1>o, <1>p, <1>e, Effects, Calls DEF Outcome
  <1>16. CASE RoleUpdated(r)
    BY <1>16, <1>o, <1>p, <1>e, Effects DEF RoleUpdated, Outcome, Returned
  <1>17. CASE OpenPanel(r)
    <2>1. at[r] \in Waits  BY <1>17, <1>o DEF OpenPanel, Phased, Waits
    <2> QED  BY <1>17, <1>o, <2>1, Effects DEF OpenPanel, Outcome, NoCall
  <1>18. CASE SetRegistrationMode(r)
    BY <1>18, <1>o, <1>p, <1>e, Effects DEF SetRegistrationMode, Outcome
  <1>19. CASE CreateInvite(r)
    BY <1>19, <1>o, <1>p, <1>e, Effects DEF CreateInvite, Outcome
  <1>20. CASE AdminCreate(r)
    BY <1>20, <1>o, <1>p, <1>e, Effects, Calls, HandlerPieces, <1>n DEF AdminCreate, Outcome
  <1>21. CASE Ensured(r)
    BY <1>21, <1>o, <1>p, <1>e, Effects, Calls DEF Ensured, Outcome, Framed, Err, Returned
  <1>22. CASE Promoted(r)
    BY <1>22, <1>o, <1>p, <1>e, Effects DEF Promoted, Outcome, Returned
  <1>23. CASE HandlerFails(r)
    BY <1>23, <1>o, <1>p, <1>e, Effects DEF HandlerFails, Outcome
  <1> QED
    BY HandlerStep(r), <1>1, <1>2, <1>3, <1>4, <1>5, <1>6, <1>7, <1>8, <1>9, <1>10, <1>11,
         <1>12, <1>13, <1>14, <1>15, <1>16, <1>17, <1>18, <1>19, <1>20, <1>21, <1>22, <1>23
              DEF HandlerStep

-----------------------------------------------------------------------------
(* Shape is an inductive invariant.                                        *)

LEMMA InitShape == Init => Shape
  <1> SUFFICES ASSUME Init PROVE Shape
    OBVIOUS
  <1> USE DEF Init, StoreInit
  <1>1. index \in [Emails -> Ids \cup {NoId}]
    <2> DEFINE I(e) == IF \E id \in LegacyIds : users[id].email = e
                       THEN CHOOSE id \in LegacyIds : users[id].email = e ELSE NoId
    <2>1. \A e : I(e) \in Ids \cup {NoId}
      <3> SUFFICES ASSUME NEW e, \E id \in LegacyIds : users[id].email = e
                   PROVE  (CHOOSE id \in LegacyIds : users[id].email = e) \in LegacyIds
        BY DEF Ids
      <3> QED  OBVIOUS
    <2>2. index = [e \in Emails |-> I(e)]  OBVIOUS
    <2> HIDE DEF I
    <2> QED  BY <2>1, <2>2, ZenonT(40)
  <1>2. StoreTypeOK
    BY <1>1, EmptyFrame, AnswerRecords, StoreAssumption DEF StoreTypeOK
  <1>3. TypeOK
    BY <1>2, OtherRecords, KindAssumption DEF TypeOK, Modes, Phases
  <1>4. ASSUME NEW r \in Requests PROVE Phased(r) /\ Framed(r)
    BY <1>4 DEF Phased, Framed, CreateAt, UpdateAt, DeleteAt, ReindexAt, LookupAt, CountAt,
         ConsumeAt,
                DocAt, Ended
  <1> QED  BY <1>3, <1>4 DEF Shape

LEMMA ApartShape ==
    ASSUME Shape, NEW r \in Requests, Apart(r), NEW q \in Requests \ {r}
    PROVE  Phased(q)' /\ Framed(q)'
  <1>1. Phased(q) /\ Framed(q)  BY DEF Shape
  <1>2. /\ at'[q] = at[q] /\ frame'[q] = frame[q] /\ answer'[q] = answer[q]
        /\ phase'[q] = phase[q] /\ input'[q] = input[q]
    BY DEF Apart
  <1>3. Phased(q)'  BY <1>1, <1>2 DEF Phased
  <1>4. Framed(q)'  BY <1>1, <1>2 DEF Framed
  <1> QED  BY <1>3, <1>4

LEMMA CrashShape ==
    ASSUME Shape, NEW p \in Procs, Crash(p) PROVE Shape'
  <1> DEFINE lost == {r \in Requests : ProcOf[r] = p /\ Running(r)}
  <1>1. TypeOK'
    <2>1. /\ mu' \in [Procs -> Requests \cup {NoOne}] /\ faults' \in 0..MaxFaults
          /\ users' = users /\ index' = index /\ mode' = mode /\ invites' = invites
          /\ subject' = subject
      BY StoreAssumption DEF Crash, Shape, TypeOK, StoreTypeOK
    <2>2. /\ at' \in [Requests -> AtSet] /\ frame' \in [Requests -> Frame]
          /\ answer' \in [Requests -> Answer] /\ steady' \in [Requests -> SUBSET Ids]
      BY EmptyFrame, AnswerRecords DEF Crash, Shape, TypeOK, StoreTypeOK, AtSet
    <2>3. phase' \in [Requests -> Phases] /\ input' \in [Requests -> Input]
      BY OtherRecords DEF Crash, Shape, TypeOK, Phases
    <2> QED  BY <2>1, <2>2, <2>3 DEF Shape, TypeOK, StoreTypeOK, AtSet
  <1>2. ASSUME NEW r \in Requests PROVE Phased(r)' /\ Framed(r)'
    <2>1. CASE r \in lost
      <3>1. phase'[r] = "dead" /\ at'[r] = "dead"  BY <2>1 DEF Crash
      <3> QED
        BY <3>1 DEF Phased, Framed, CreateAt, UpdateAt, DeleteAt, ReindexAt, LookupAt, CountAt,
                    ConsumeAt, DocAt, Ended
    <2>2. CASE r \notin lost
      <3>1. /\ at'[r] = at[r] /\ frame'[r] = frame[r] /\ answer'[r] = answer[r]
            /\ phase'[r] = phase[r] /\ input'[r] = input[r]
        BY <2>2 DEF Crash
      <3>2. Phased(r) /\ Framed(r)  BY DEF Shape
      <3>3. Phased(r)'  BY <3>1, <3>2 DEF Phased
      <3>4. Framed(r)'  BY <3>1, <3>2 DEF Framed
      <3> QED  BY <3>3, <3>4
    <2> QED  BY <2>1, <2>2
  <1> QED  BY <1>1, <1>2 DEF Shape

LEMMA NextShape == Shape /\ [Next]_vars => Shape'
  <1> SUFFICES ASSUME Shape, [Next]_vars PROVE Shape'
    OBVIOUS
  <1>1. ASSUME NEW r \in Requests, HandlerStep(r) PROVE Shape'
    <2>1. TypeOK /\ TypeOK'  BY <1>1, HandlerTypes DEF Shape
    <2>2. Phased(r)' /\ Framed(r)'  BY <1>1, HandlerOutcome, OutcomeShape
    <2>3. Apart(r)  BY <1>1, <2>1, HandlerApart
    <2> QED  BY <2>1, <2>2, <2>3, ApartShape DEF Shape
  <1>2. ASSUME NEW r \in Requests, StoreStep(r), UNCHANGED handlerVars PROVE Shape'
    <2>1. TypeOK /\ Phased(r)  BY DEF Shape
    <2>2. TypeOK'  BY <1>2, <2>1, StoreTypes DEF TypeOK, handlerVars
    <2>3. Phased(r)' /\ Framed(r)'  BY <1>2, <2>1, StorePhased, StoreFramed
    <2>4. Apart(r)  BY <1>2, <2>1, StoreApart
    <2> QED  BY <2>2, <2>3, <2>4, ApartShape DEF Shape
  <1>3. ASSUME NEW t \in Tokens, InviteExpires(t) PROVE Shape'
    <2>1. invites' \in [Tokens -> Invite]
      BY <1>3 DEF InviteExpires, Shape, TypeOK, Invite
    <2> QED
      BY <1>3, <2>1 DEF InviteExpires, Shape, TypeOK, StoreTypeOK, Phased, Framed, storeVars
  <1>4. CASE UNCHANGED vars
    BY <1>4 DEF vars, storeVars, handlerVars, Shape, TypeOK, StoreTypeOK, Phased, Framed
  <1> QED
    BY <1>1, <1>2, <1>3, <1>4, CrashShape DEF Next, Quiet

\* The types of Accounts, TypeOK: whatever handlers, calls, failures and crashes
\* of all the processes do, documents and calls stay what the code reads and
\* writes.
THEOREM AccountsTyped == Spec => []TypeOK
  <1>1. Shape => TypeOK  BY DEF Shape
  <1> QED  BY <1>1, InitShape, NextShape, PTL DEF Spec

=============================================================================
