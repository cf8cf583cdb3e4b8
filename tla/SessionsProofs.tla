--------------------------- MODULE SessionsProofs ---------------------------
(***************************************************************************)
(* Proofs about Sessions, for any number of requests, browsers and users,  *)
(* any lifetime and any faults.                                            *)
(***************************************************************************)
EXTENDS Sessions, TLAPS

Checking == {"check", "remove", "user", "change"}

\* The steps of each kind of request.
PcOf ==
    /\ \A r \in Logins : pc[r] \in {"idle", "put", "answer", "ok", "failed", "dead"}
    /\ \A r \in Visits : pc[r] \in {"idle", "refused", "dead"} \cup Looking \cup Accepted
    /\ \A r \in Logouts : pc[r] \in {"idle", "delete", "cleared", "ok", "dead"}

\* A login that has begun has a session of its own, and what is stored for it
\* is that session.
Kept ==
    /\ \A s \in Logins : pc[s] # "idle" => copy[s] \in Session
    /\ \A s \in Logins : sessions[s] # NoSession =>
          sessions[s] = copy[s] /\ pc[s] \in {"answer", "ok", "dead"}

\* A cookie that was sent is of a login that was answered.
Known ==
    /\ \A r \in Requests : cookie[r] # NoCookie => pc[cookie[r]] = "ok"
    /\ \A r \in Requests : pc[r] \in Looking \cup {"delete"} => cookie[r] \in Logins

\* A visit that has read the session goes by what its login stored.
Copied == \A r \in Visits : pc[r] \in Checking => copy[r] = copy[cookie[r]]

\* A session that is over can be accepted by no visit still to come.
Dead(s) ==
    \/ sessions[s] = NoSession
    \/ role[copy[s].user] = "none"
    \/ kind = "memory" /\ Expired(copy[s])
OverIsDead == \A s \in over : pc[s] = "ok" /\ Dead(s)

\* A visit sent with such a session gets no further than to a user who is gone.
LateEnds ==
    \A r \in Visits : late[r] =>
        /\ cookie[r] \in over \cup {NoCookie}
        /\ pc[r] \notin Accepted \cup {"change"}
        /\ pc[r] \in {"check", "user"} => role[copy[r].user] = "none"

\* A visit is where it is for a reason it has seen.
Good(s) == sessions[s] # NoSession /\ ~Expired(sessions[s])
SeenWhy ==
    \A r \in Visits :
        /\ pc[r] = "check" /\ ~setBack => "valid" \in seen[r] \/ Expired(copy[r])
        /\ pc[r] \in {"user", "change"} \cup Accepted /\ ~setBack => "valid" \in seen[r]
        /\ pc[r] \in {"change", "admin"} => "admin" \in seen[r]
        /\ pc[r] = "remove" => "invalid" \in seen[r]
        /\ pc[r] = "refused" /\ cookie[r] # NoCookie =>
              r \in unread \/ seen[r] \cap {"invalid", "none"} # {}

IInv ==
    /\ TypeOK /\ PcOf /\ Kept /\ Known /\ Copied
    /\ OverIsDead /\ LateEnds /\ SeenWhy
-----------------------------------------------------------------------------
(* The parts of the invariant that do not look at the history seen, one by
   one; a step is an action of the program and the note Watch takes of it.  *)

USE SessionsAssumption
    DEF Session, Requests, Looking, Working, Accepted, Ended, Checking, Expired,
        Step, Store, SetJar, Send, Refuse, Handler, NoHandler, Fault, NoFault,
        ReadFails, DeleteFails

Act ==
    \/ \E r \in Requests : HandlerStep(r)
    \/ \E u \in Users : ChangeUser(u)
    \/ Tick \/ SetBack \/ Crash
    \/ \E b \in Browsers : DropCookie(b)

TypeButSeen ==
    /\ kind \in Kinds
    /\ sessions \in [Logins -> Session \cup {NoSession}]
    /\ role \in [Users -> Accepted \cup {"none"}]
    /\ clock \in 0..MaxClock
    /\ jar \in [Browsers -> Logins \cup {NoCookie}]
    /\ pc \in [Requests -> {"idle"} \cup Working \cup Ended]
    /\ cookie \in [Requests -> Logins \cup {NoCookie}]
    /\ copy \in [Requests -> Session \cup {NoCopy}]
    /\ faults \in 0..MaxFaults
    /\ setBack \in BOOLEAN
    /\ unread \subseteq Visits /\ over \subseteq Logins
    /\ late \in [Requests -> BOOLEAN]
    /\ \A b \in Browsers : jar[b] # NoCookie => pc[jar[b]] = "ok"

\* A step keeps the types of all but seen.
LEMMA TypeStep == IInv /\ Act => TypeButSeen'
  <1> SUFFICES ASSUME IInv, Act PROVE TypeButSeen'  OBVIOUS
  <1> USE DEF IInv, TypeOK, TypeButSeen, PcOf, Kept, Known
  <1>1. ASSUME NEW r \in Requests, Login(r) PROVE TypeButSeen'  BY <1>1 DEF Login
  <1>2. ASSUME NEW r \in Requests, PutSession(r) PROVE TypeButSeen'  BY <1>2 DEF PutSession
  <1>3. ASSUME NEW r \in Requests, LoginAnswer(r) PROVE TypeButSeen'  BY <1>3 DEF LoginAnswer
  <1>4. ASSUME NEW r \in Requests, Visit(r) PROVE TypeButSeen'  BY <1>4 DEF Visit
  <1>5. ASSUME NEW r \in Requests, GetMemory(r) PROVE TypeButSeen'  BY <1>5 DEF GetMemory
  <1>6. ASSUME NEW r \in Requests, GetDocument(r) PROVE TypeButSeen'  BY <1>6 DEF GetDocument
  <1>7. ASSUME NEW r \in Requests, CheckExpiry(r) PROVE TypeButSeen'  BY <1>7 DEF CheckExpiry
  <1>8. ASSUME NEW r \in Requests, RemoveExpired(r) PROVE TypeButSeen'  BY <1>8 DEF RemoveExpired
  <1>9. ASSUME NEW r \in Requests, ReadUser(r) PROVE TypeButSeen'  BY <1>9 DEF ReadUser
  <1>10. ASSUME NEW r \in Requests, Change(r) PROVE TypeButSeen'  BY <1>10 DEF Change
  <1>11. ASSUME NEW r \in Requests, Logout(r) PROVE TypeButSeen'  BY <1>11 DEF Logout
  <1>12. ASSUME NEW r \in Requests, DeleteSession(r) PROVE TypeButSeen'  BY <1>12 DEF DeleteSession
  <1>13. ASSUME NEW r \in Requests, LogoutAnswer(r) PROVE TypeButSeen'  BY <1>13 DEF LogoutAnswer
  <1>14. ASSUME NEW r \in Requests, OperationFails(r) PROVE TypeButSeen'  BY <1>14 DEF OperationFails
  <1>15. ASSUME NEW u \in Users, ChangeUser(u) PROVE TypeButSeen'  BY <1>15 DEF ChangeUser
  <1>16. CASE Tick  BY <1>16 DEF Tick
  <1>17. CASE SetBack  BY <1>17 DEF SetBack
  <1>18. CASE Crash  BY <1>18 DEF Crash
  <1>19. ASSUME NEW b \in Browsers, DropCookie(b) PROVE TypeButSeen'  BY <1>19 DEF DropCookie
  <1> QED  BY <1>1, <1>2, <1>3, <1>4, <1>5, <1>6, <1>7, <1>8, <1>9, <1>10, <1>11,
             <1>12, <1>13, <1>14, <1>15, <1>16, <1>17, <1>18, <1>19 DEF Act, HandlerStep

\* A request goes only through the steps of its kind.
LEMMA PcOfStep == IInv /\ Act => PcOf'
  <1> SUFFICES ASSUME IInv, Act PROVE PcOf'  OBVIOUS
  <1> USE DEF IInv, TypeOK, PcOf
  <1>1. ASSUME NEW r \in Requests, Login(r) PROVE PcOf'  BY <1>1 DEF Login
  <1>2. ASSUME NEW r \in Requests, PutSession(r) PROVE PcOf'  BY <1>2 DEF PutSession
  <1>3. ASSUME NEW r \in Requests, LoginAnswer(r) PROVE PcOf'  BY <1>3 DEF LoginAnswer
  <1>4. ASSUME NEW r \in Requests, Visit(r) PROVE PcOf'  BY <1>4 DEF Visit
  <1>5. ASSUME NEW r \in Requests, GetMemory(r) PROVE PcOf'
    <2>1. pc[r] = "get" /\ r \in Visits  BY <1>5 DEF GetMemory
    <2>2. pc' = [pc EXCEPT ![r] = "user"] \/ pc' = [pc EXCEPT ![r] = "refused"]  BY <1>5 DEF GetMemory
    <2> QED  BY <2>1, <2>2
  <1>6. ASSUME NEW r \in Requests, GetDocument(r) PROVE PcOf'  BY <1>6 DEF GetDocument
  <1>7. ASSUME NEW r \in Requests, CheckExpiry(r) PROVE PcOf'  BY <1>7 DEF CheckExpiry
  <1>8. ASSUME NEW r \in Requests, RemoveExpired(r) PROVE PcOf'  BY <1>8 DEF RemoveExpired
  <1>9. ASSUME NEW r \in Requests, ReadUser(r) PROVE PcOf'  BY <1>9 DEF ReadUser
  <1>10. ASSUME NEW r \in Requests, Change(r) PROVE PcOf'  BY <1>10 DEF Change
  <1>11. ASSUME NEW r \in Requests, Logout(r) PROVE PcOf'  BY <1>11 DEF Logout
  <1>12. ASSUME NEW r \in Requests, DeleteSession(r) PROVE PcOf'  BY <1>12 DEF DeleteSession
  <1>13. ASSUME NEW r \in Requests, LogoutAnswer(r) PROVE PcOf'  BY <1>13 DEF LogoutAnswer
  <1>14. ASSUME NEW r \in Requests, OperationFails(r) PROVE PcOf'  BY <1>14 DEF OperationFails
  <1>15. ASSUME NEW u \in Users, ChangeUser(u) PROVE PcOf'  BY <1>15 DEF ChangeUser
  <1>16. CASE Tick  BY <1>16 DEF Tick
  <1>17. CASE SetBack  BY <1>17 DEF SetBack
  <1>18. CASE Crash  BY <1>18 DEF Crash
  <1>19. ASSUME NEW b \in Browsers, DropCookie(b) PROVE PcOf'  BY <1>19 DEF DropCookie
  <1> QED  BY <1>1, <1>2, <1>3, <1>4, <1>5, <1>6, <1>7, <1>8, <1>9, <1>10, <1>11,
             <1>12, <1>13, <1>14, <1>15, <1>16, <1>17, <1>18, <1>19 DEF Act, HandlerStep

\* What is stored for a session stays what its login put there.
LEMMA KeptStep == IInv /\ Act => Kept'
  <1> SUFFICES ASSUME IInv, Act PROVE Kept'  OBVIOUS
  <1> USE DEF IInv, TypeOK, PcOf, Kept, Known
  <1>1. ASSUME NEW r \in Requests, Login(r) PROVE Kept'  BY <1>1 DEF Login
  <1>2. ASSUME NEW r \in Requests, PutSession(r) PROVE Kept'  BY <1>2 DEF PutSession
  <1>3. ASSUME NEW r \in Requests, LoginAnswer(r) PROVE Kept'  BY <1>3 DEF LoginAnswer
  <1>4. ASSUME NEW r \in Requests, Visit(r) PROVE Kept'  BY <1>4 DEF Visit
  <1>5. ASSUME NEW r \in Requests, GetMemory(r) PROVE Kept'  BY <1>5 DEF GetMemory
  <1>6. ASSUME NEW r \in Requests, GetDocument(r) PROVE Kept'  BY <1>6 DEF GetDocument
  <1>7. ASSUME NEW r \in Requests, CheckExpiry(r) PROVE Kept'  BY <1>7 DEF CheckExpiry
  <1>8. ASSUME NEW r \in Requests, RemoveExpired(r) PROVE Kept'  BY <1>8 DEF RemoveExpired
  <1>9. ASSUME NEW r \in Requests, ReadUser(r) PROVE Kept'  BY <1>9 DEF ReadUser
  <1>10. ASSUME NEW r \in Requests, Change(r) PROVE Kept'  BY <1>10 DEF Change
  <1>11. ASSUME NEW r \in Requests, Logout(r) PROVE Kept'  BY <1>11 DEF Logout
  <1>12. ASSUME NEW r \in Requests, DeleteSession(r) PROVE Kept'  BY <1>12 DEF DeleteSession
  <1>13. ASSUME NEW r \in Requests, LogoutAnswer(r) PROVE Kept'  BY <1>13 DEF LogoutAnswer
  <1>14. ASSUME NEW r \in Requests, OperationFails(r) PROVE Kept'  BY <1>14 DEF OperationFails
  <1>15. ASSUME NEW u \in Users, ChangeUser(u) PROVE Kept'  BY <1>15 DEF ChangeUser
  <1>16. CASE Tick  BY <1>16 DEF Tick
  <1>17. CASE SetBack  BY <1>17 DEF SetBack
  <1>18. CASE Crash  BY <1>18 DEF Crash
  <1>19. ASSUME NEW b \in Browsers, DropCookie(b) PROVE Kept'  BY <1>19 DEF DropCookie
  <1> QED  BY <1>1, <1>2, <1>3, <1>4, <1>5, <1>6, <1>7, <1>8, <1>9, <1>10, <1>11,
             <1>12, <1>13, <1>14, <1>15, <1>16, <1>17, <1>18, <1>19 DEF Act, HandlerStep

\* A cookie is of a login that was answered.
LEMMA KnownStep == IInv /\ Act => Known'
  <1> SUFFICES ASSUME IInv, Act PROVE Known'  OBVIOUS
  <1> USE DEF IInv, TypeOK, PcOf, Known
  <1>1. ASSUME NEW r \in Requests, Login(r) PROVE Known'  BY <1>1 DEF Login
  <1>2. ASSUME NEW r \in Requests, PutSession(r) PROVE Known'  BY <1>2 DEF PutSession
  <1>3. ASSUME NEW r \in Requests, LoginAnswer(r) PROVE Known'  BY <1>3 DEF LoginAnswer
  <1>4. ASSUME NEW r \in Requests, Visit(r) PROVE Known'  BY <1>4 DEF Visit
  <1>5. ASSUME NEW r \in Requests, GetMemory(r) PROVE Known'  BY <1>5 DEF GetMemory
  <1>6. ASSUME NEW r \in Requests, GetDocument(r) PROVE Known'  BY <1>6 DEF GetDocument
  <1>7. ASSUME NEW r \in Requests, CheckExpiry(r) PROVE Known'  BY <1>7 DEF CheckExpiry
  <1>8. ASSUME NEW r \in Requests, RemoveExpired(r) PROVE Known'  BY <1>8 DEF RemoveExpired
  <1>9. ASSUME NEW r \in Requests, ReadUser(r) PROVE Known'  BY <1>9 DEF ReadUser
  <1>10. ASSUME NEW r \in Requests, Change(r) PROVE Known'  BY <1>10 DEF Change
  <1>11. ASSUME NEW r \in Requests, Logout(r) PROVE Known'  BY <1>11 DEF Logout
  <1>12. ASSUME NEW r \in Requests, DeleteSession(r) PROVE Known'  BY <1>12 DEF DeleteSession
  <1>13. ASSUME NEW r \in Requests, LogoutAnswer(r) PROVE Known'  BY <1>13 DEF LogoutAnswer
  <1>14. ASSUME NEW r \in Requests, OperationFails(r) PROVE Known'  BY <1>14 DEF OperationFails
  <1>15. ASSUME NEW u \in Users, ChangeUser(u) PROVE Known'  BY <1>15 DEF ChangeUser
  <1>16. CASE Tick  BY <1>16 DEF Tick
  <1>17. CASE SetBack  BY <1>17 DEF SetBack
  <1>18. CASE Crash  BY <1>18 DEF Crash
  <1>19. ASSUME NEW b \in Browsers, DropCookie(b) PROVE Known'  BY <1>19 DEF DropCookie
  <1> QED  BY <1>1, <1>2, <1>3, <1>4, <1>5, <1>6, <1>7, <1>8, <1>9, <1>10, <1>11,
             <1>12, <1>13, <1>14, <1>15, <1>16, <1>17, <1>18, <1>19 DEF Act, HandlerStep

\* A visit works on what the login of its cookie stored.
LEMMA CopiedStep == IInv /\ Act => Copied'
  <1> SUFFICES ASSUME IInv, Act PROVE Copied'  OBVIOUS
  <1> USE DEF IInv, TypeOK, PcOf, Kept, Known, Copied
  <1>1. ASSUME NEW r \in Requests, Login(r) PROVE Copied'  BY <1>1 DEF Login
  <1>2. ASSUME NEW r \in Requests, PutSession(r) PROVE Copied'  BY <1>2 DEF PutSession
  <1>3. ASSUME NEW r \in Requests, LoginAnswer(r) PROVE Copied'  BY <1>3 DEF LoginAnswer
  <1>4. ASSUME NEW r \in Requests, Visit(r) PROVE Copied'  BY <1>4 DEF Visit
  <1>5. ASSUME NEW r \in Requests, GetMemory(r) PROVE Copied'  BY <1>5 DEF GetMemory
  <1>6. ASSUME NEW r \in Requests, GetDocument(r) PROVE Copied'  BY <1>6 DEF GetDocument
  <1>7. ASSUME NEW r \in Requests, CheckExpiry(r) PROVE Copied'  BY <1>7 DEF CheckExpiry
  <1>8. ASSUME NEW r \in Requests, RemoveExpired(r) PROVE Copied'  BY <1>8 DEF RemoveExpired
  <1>9. ASSUME NEW r \in Requests, ReadUser(r) PROVE Copied'  BY <1>9 DEF ReadUser
  <1>10. ASSUME NEW r \in Requests, Change(r) PROVE Copied'  BY <1>10 DEF Change
  <1>11. ASSUME NEW r \in Requests, Logout(r) PROVE Copied'  BY <1>11 DEF Logout
  <1>12. ASSUME NEW r \in Requests, DeleteSession(r) PROVE Copied'  BY <1>12 DEF DeleteSession
  <1>13. ASSUME NEW r \in Requests, LogoutAnswer(r) PROVE Copied'  BY <1>13 DEF LogoutAnswer
  <1>14. ASSUME NEW r \in Requests, OperationFails(r) PROVE Copied'  BY <1>14 DEF OperationFails
  <1>15. ASSUME NEW u \in Users, ChangeUser(u) PROVE Copied'  BY <1>15 DEF ChangeUser
  <1>16. CASE Tick  BY <1>16 DEF Tick
  <1>17. CASE SetBack  BY <1>17 DEF SetBack
  <1>18. CASE Crash  BY <1>18 DEF Crash
  <1>19. ASSUME NEW b \in Browsers, DropCookie(b) PROVE Copied'  BY <1>19 DEF DropCookie
  <1> QED  BY <1>1, <1>2, <1>3, <1>4, <1>5, <1>6, <1>7, <1>8, <1>9, <1>10, <1>11,
             <1>12, <1>13, <1>14, <1>15, <1>16, <1>17, <1>18, <1>19 DEF Act, HandlerStep

\* What is over stays dead: nothing stores a session again, nobody comes back, and
\* the monotonic clock does not go back.
LEMMA OverIsDeadStep == IInv /\ Act => OverIsDead'
  <1> SUFFICES ASSUME IInv, Act PROVE OverIsDead'  OBVIOUS
  <1> USE DEF IInv, TypeOK, PcOf, Kept, Known, Copied, OverIsDead, Dead
  <1>1. ASSUME NEW r \in Requests, Login(r) PROVE OverIsDead'  BY <1>1 DEF Login
  <1>2. ASSUME NEW r \in Requests, PutSession(r) PROVE OverIsDead'  BY <1>2 DEF PutSession
  <1>3. ASSUME NEW r \in Requests, LoginAnswer(r) PROVE OverIsDead'  BY <1>3 DEF LoginAnswer
  <1>4. ASSUME NEW r \in Requests, Visit(r) PROVE OverIsDead'  BY <1>4 DEF Visit
  <1>5. ASSUME NEW r \in Requests, GetMemory(r) PROVE OverIsDead'  BY <1>5 DEF GetMemory
  <1>6. ASSUME NEW r \in Requests, GetDocument(r) PROVE OverIsDead'  BY <1>6 DEF GetDocument
  <1>7. ASSUME NEW r \in Requests, CheckExpiry(r) PROVE OverIsDead'  BY <1>7 DEF CheckExpiry
  <1>8. ASSUME NEW r \in Requests, RemoveExpired(r) PROVE OverIsDead'  BY <1>8 DEF RemoveExpired
  <1>9. ASSUME NEW r \in Requests, ReadUser(r) PROVE OverIsDead'  BY <1>9 DEF ReadUser
  <1>10. ASSUME NEW r \in Requests, Change(r) PROVE OverIsDead'  BY <1>10 DEF Change
  <1>11. ASSUME NEW r \in Requests, Logout(r) PROVE OverIsDead'  BY <1>11 DEF Logout
  <1>12. ASSUME NEW r \in Requests, DeleteSession(r) PROVE OverIsDead'  BY <1>12 DEF DeleteSession
  <1>13. ASSUME NEW r \in Requests, LogoutAnswer(r) PROVE OverIsDead'  BY <1>13 DEF LogoutAnswer
  <1>14. ASSUME NEW r \in Requests, OperationFails(r) PROVE OverIsDead'  BY <1>14 DEF OperationFails
  <1>15. ASSUME NEW u \in Users, ChangeUser(u) PROVE OverIsDead'  BY <1>15 DEF ChangeUser
  <1>16. CASE Tick  BY <1>16 DEF Tick
  <1>17. CASE SetBack  BY <1>17 DEF SetBack
  <1>18. CASE Crash  BY <1>18 DEF Crash
  <1>19. ASSUME NEW b \in Browsers, DropCookie(b) PROVE OverIsDead'  BY <1>19 DEF DropCookie
  <1> QED  BY <1>1, <1>2, <1>3, <1>4, <1>5, <1>6, <1>7, <1>8, <1>9, <1>10, <1>11,
             <1>12, <1>13, <1>14, <1>15, <1>16, <1>17, <1>18, <1>19 DEF Act, HandlerStep

\* A visit with a dead session ends before it is accepted.
LEMMA LateEndsStep == IInv /\ Act => LateEnds'
  <1> SUFFICES ASSUME IInv, Act PROVE LateEnds'  OBVIOUS
  <1> USE DEF IInv, TypeOK, PcOf, Kept, Known, Copied, OverIsDead, Dead, LateEnds
  <1>1. ASSUME NEW r \in Requests, Login(r) PROVE LateEnds'  BY <1>1 DEF Login
  <1>2. ASSUME NEW r \in Requests, PutSession(r) PROVE LateEnds'  BY <1>2 DEF PutSession
  <1>3. ASSUME NEW r \in Requests, LoginAnswer(r) PROVE LateEnds'  BY <1>3 DEF LoginAnswer
  <1>4. ASSUME NEW r \in Requests, Visit(r) PROVE LateEnds'  BY <1>4 DEF Visit
  <1>5. ASSUME NEW r \in Requests, GetMemory(r) PROVE LateEnds'  BY <1>5 DEF GetMemory
  <1>6. ASSUME NEW r \in Requests, GetDocument(r) PROVE LateEnds'  BY <1>6 DEF GetDocument
  <1>7. ASSUME NEW r \in Requests, CheckExpiry(r) PROVE LateEnds'  BY <1>7 DEF CheckExpiry
  <1>8. ASSUME NEW r \in Requests, RemoveExpired(r) PROVE LateEnds'  BY <1>8 DEF RemoveExpired
  <1>9. ASSUME NEW r \in Requests, ReadUser(r) PROVE LateEnds'  BY <1>9 DEF ReadUser
  <1>10. ASSUME NEW r \in Requests, Change(r) PROVE LateEnds'  BY <1>10 DEF Change
  <1>11. ASSUME NEW r \in Requests, Logout(r) PROVE LateEnds'  BY <1>11 DEF Logout
  <1>12. ASSUME NEW r \in Requests, DeleteSession(r) PROVE LateEnds'  BY <1>12 DEF DeleteSession
  <1>13. ASSUME NEW r \in Requests, LogoutAnswer(r) PROVE LateEnds'  BY <1>13 DEF LogoutAnswer
  <1>14. ASSUME NEW r \in Requests, OperationFails(r) PROVE LateEnds'  BY <1>14 DEF OperationFails
  <1>15. ASSUME NEW u \in Users, ChangeUser(u) PROVE LateEnds'  BY <1>15 DEF ChangeUser
  <1>16. CASE Tick  BY <1>16 DEF Tick
  <1>17. CASE SetBack  BY <1>17 DEF SetBack
  <1>18. CASE Crash  BY <1>18 DEF Crash
  <1>19. ASSUME NEW b \in Browsers, DropCookie(b) PROVE LateEnds'  BY <1>19 DEF DropCookie
  <1> QED  BY <1>1, <1>2, <1>3, <1>4, <1>5, <1>6, <1>7, <1>8, <1>9, <1>10, <1>11,
             <1>12, <1>13, <1>14, <1>15, <1>16, <1>17, <1>18, <1>19 DEF Act, HandlerStep

-----------------------------------------------------------------------------
(* The history seen.                                                       *)

SeenGrows == \A r \in Requests : seen[r] \subseteq seen'[r]

\* What is true before a step of a visit's session is noted in it.
Noted ==
    \A r \in Visits : pc[r] \in Looking =>
        /\ Good(cookie[r]) => "valid" \in seen'[r]
        /\ ~Good(cookie[r]) => "invalid" \in seen'[r]
        /\ role[copy[cookie[r]].user] \in seen'[r]

\* The history has only facts.
LEMMA SeenTypeStep ==
    IInv /\ Watch => seen' \in [Requests -> SUBSET ({"valid", "invalid", "none"} \cup Accepted)]
  <1> SUFFICES ASSUME IInv, Watch
               PROVE  seen' \in [Requests -> SUBSET ({"valid", "invalid", "none"} \cup Accepted)]
    OBVIOUS
  <1>1. ASSUME NEW r \in Requests, pc[r] \in Looking
        PROVE  Facts(cookie[r]) \subseteq {"valid", "invalid", "none"} \cup Accepted
    <2>1. cookie[r] \in Logins /\ pc[cookie[r]] = "ok"
      BY <1>1 DEF IInv, Known
    <2>2. copy[cookie[r]].user \in Users
      BY <2>1 DEF IInv, Kept
    <2> QED  BY <2>2 DEF Facts, IInv, TypeOK
  <1>2. seen \in [Requests -> SUBSET ({"valid", "invalid", "none"} \cup Accepted)]
    BY DEF IInv, TypeOK
  <1> HIDE DEF Looking, Requests
  <1> QED  BY <1>1, <1>2 DEF Watch

\* Nothing is forgotten, and what is true now is noted.
LEMMA SeenStep == IInv /\ Watch => SeenGrows /\ Noted
  <1> SUFFICES ASSUME IInv, Watch PROVE SeenGrows /\ Noted  OBVIOUS
  <1>1. SeenGrows  BY DEF Watch, SeenGrows
  <1>2. ASSUME NEW r \in Visits, pc[r] \in Looking
        PROVE  seen'[r] = seen[r] \cup Facts(cookie[r])
    BY <1>2 DEF Watch
  <1> QED  BY <1>1, <1>2 DEF Noted, Facts, Good

\* A visit gets to where it is for a reason it has seen.
LEMMA SeenWhyStep == IInv /\ Act /\ SeenGrows /\ Noted => SeenWhy'
  <1> SUFFICES ASSUME IInv, Act, SeenGrows, Noted PROVE SeenWhy'  OBVIOUS
  <1> USE DEF IInv, TypeOK, PcOf, Kept, Known, Copied, SeenWhy, Good, SeenGrows, Noted
  <1>1. ASSUME NEW r \in Requests, Login(r) PROVE SeenWhy'  BY <1>1 DEF Login
  <1>2. ASSUME NEW r \in Requests, PutSession(r) PROVE SeenWhy'  BY <1>2 DEF PutSession
  <1>3. ASSUME NEW r \in Requests, LoginAnswer(r) PROVE SeenWhy'  BY <1>3 DEF LoginAnswer
  <1>4. ASSUME NEW r \in Requests, Visit(r) PROVE SeenWhy'  BY <1>4 DEF Visit
  <1>5. ASSUME NEW r \in Requests, GetMemory(r) PROVE SeenWhy'  BY <1>5 DEF GetMemory
  <1>6. ASSUME NEW r \in Requests, GetDocument(r) PROVE SeenWhy'  BY <1>6 DEF GetDocument
  <1>7. ASSUME NEW r \in Requests, CheckExpiry(r) PROVE SeenWhy'  BY <1>7 DEF CheckExpiry
  <1>8. ASSUME NEW r \in Requests, RemoveExpired(r) PROVE SeenWhy'  BY <1>8 DEF RemoveExpired
  <1>9. ASSUME NEW r \in Requests, ReadUser(r) PROVE SeenWhy'  BY <1>9 DEF ReadUser
  <1>10. ASSUME NEW r \in Requests, Change(r) PROVE SeenWhy'  BY <1>10 DEF Change
  <1>11. ASSUME NEW r \in Requests, Logout(r) PROVE SeenWhy'  BY <1>11 DEF Logout
  <1>12. ASSUME NEW r \in Requests, DeleteSession(r) PROVE SeenWhy'  BY <1>12 DEF DeleteSession
  <1>13. ASSUME NEW r \in Requests, LogoutAnswer(r) PROVE SeenWhy'  BY <1>13 DEF LogoutAnswer
  <1>14. ASSUME NEW r \in Requests, OperationFails(r) PROVE SeenWhy'  BY <1>14 DEF OperationFails
  <1>15. ASSUME NEW u \in Users, ChangeUser(u) PROVE SeenWhy'  BY <1>15 DEF ChangeUser
  <1>16. CASE Tick  BY <1>16 DEF Tick
  <1>17. CASE SetBack  BY <1>17 DEF SetBack
  <1>18. CASE Crash  BY <1>18 DEF Crash
  <1>19. ASSUME NEW b \in Browsers, DropCookie(b) PROVE SeenWhy'  BY <1>19 DEF DropCookie
  <1> QED  BY <1>1, <1>2, <1>3, <1>4, <1>5, <1>6, <1>7, <1>8, <1>9, <1>10, <1>11,
             <1>12, <1>13, <1>14, <1>15, <1>16, <1>17, <1>18, <1>19 DEF Act, HandlerStep

-----------------------------------------------------------------------------
(* The theorems.                                                           *)

\* Session stores as they start satisfy the invariant.
LEMMA InitIInv == Init => IInv
  <1> SUFFICES ASSUME Init PROVE IInv  OBVIOUS
  <1> USE DEF Init
  <1>1. TypeOK
    <2>1. role \in [Users -> Accepted \cup {"none"}] /\ kind \in Kinds
      OBVIOUS
    <2>2. seen \in [Requests -> SUBSET ({"valid", "invalid", "none"} \cup Accepted)]
      OBVIOUS
    <2>3. /\ sessions \in [Logins -> Session \cup {NoSession}]
          /\ jar \in [Browsers -> Logins \cup {NoCookie}]
          /\ pc \in [Requests -> {"idle"} \cup Working \cup Ended]
      OBVIOUS
    <2>4. /\ cookie \in [Requests -> Logins \cup {NoCookie}]
          /\ copy \in [Requests -> Session \cup {NoCopy}]
      OBVIOUS
    <2>5. late \in [Requests -> BOOLEAN] /\ setBack \in BOOLEAN
      BY Zenon
    <2>6. /\ clock \in 0..MaxClock /\ faults \in 0..MaxFaults
          /\ unread \subseteq Visits /\ over \subseteq Logins
          /\ \A b \in Browsers : jar[b] # NoCookie => pc[jar[b]] = "ok"
      OBVIOUS
    <2> QED  BY <2>1, <2>2, <2>3, <2>4, <2>5, <2>6 DEF TypeOK
  <1>2. PcOf /\ Kept /\ Known  BY DEF PcOf, Kept, Known
  <1>3. Copied /\ OverIsDead /\ LateEnds  BY DEF Copied, OverIsDead, LateEnds
  <1>4. SeenWhy  BY DEF SeenWhy
  <1> QED  BY <1>1, <1>2, <1>3, <1>4 DEF IInv

\* Every step keeps it.
LEMMA NextIInv == IInv /\ [Next]_vars => IInv'
  <1> SUFFICES ASSUME IInv, [Next]_vars PROVE IInv'  OBVIOUS
  <1>1. CASE Next
    <2>1. Act /\ Watch  BY <1>1 DEF Next, Act
    <2>2. TypeOK'  BY <2>1, TypeStep, SeenTypeStep DEF TypeOK, TypeButSeen
    <2>3. PcOf' /\ Kept' /\ Known' /\ Copied'  BY <2>1, PcOfStep, KeptStep, KnownStep, CopiedStep
    <2>4. OverIsDead' /\ LateEnds'  BY <2>1, OverIsDeadStep, LateEndsStep
    <2>5. SeenWhy'  BY <2>1, SeenStep, SeenWhyStep
    <2> QED  BY <2>2, <2>3, <2>4, <2>5 DEF IInv
  <1>2. CASE UNCHANGED vars
    BY <1>2 DEF vars, IInv, TypeOK, PcOf, Kept, Known, Copied, OverIsDead, Dead, LateEnds,
                SeenWhy, Good
  <1> QED  BY <1>1, <1>2

\* The inductive invariant of the sessions.
THEOREM SessionsInvariant == Spec => []IInv
  BY InitIInv, NextIInv, PTL DEF Spec

\* The shape of the state, for any number of requests and faults: the cookie of
\* a browser is always of a login that was answered.
THEOREM SessionsTyped == Spec => []TypeOK
  <1>1. IInv => TypeOK  BY DEF IInv
  <1> QED  BY <1>1, SessionsInvariant, PTL

\* A session that was refused or logged out is never accepted again, in both
\* stores of auth, across restarts and with the clock set back.
THEOREM RefusedForGood == Spec => []RefusalIsFinal
  <1>1. IInv => RefusalIsFinal  BY DEF IInv, LateEnds, RefusalIsFinal
  <1> QED  BY <1>1, SessionsInvariant, PTL

\* CurrentUser refuses a visit only for a reason that held while it ran.
THEOREM RefusedRightly == Spec => []RefusedForReason
  <1>1. IInv => RefusedForReason  BY DEF IInv, SeenWhy, RefusedForReason
  <1> QED  BY <1>1, SessionsInvariant, PTL

\* CurrentUser and requireAdmin accept a visit only for a reason that held while
\* it ran.
THEOREM AcceptedRightly == Spec => []AcceptedForReason
  <1>1. IInv => AcceptedForReason  BY DEF IInv, SeenWhy, AcceptedForReason
  <1> QED  BY <1>1, SessionsInvariant, PTL
=============================================================================
