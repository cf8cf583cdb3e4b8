------------------------------ MODULE Sessions ------------------------------
(***************************************************************************)
(* Sessions: the two implementations of SessionRepo, SQLiteStore           *)
(* (auth/sqlstore.go) and the in-memory SessionStore (auth/session.go),    *)
(* under the handlers that open, use and end a session (auth/handlers.go,  *)
(* requireAdmin of admin/handlers.go) and the cookie of the browser.       *)
(*                                                                         *)
(* SQLiteStore keeps a session as a document and reads it, looks at the    *)
(* clock and removes it in separate steps; its times come back from JSON   *)
(* and compare by the wall clock, which an administrator or NTP may set    *)
(* back.  SessionStore does all of Get under its lock, removes nothing,    *)
(* compares by the monotonic clock and is empty after a restart.           *)
(*                                                                         *)
(* Create draws a random id: the session that login r creates is r.  Users *)
(* are made and looked up by password in Accounts; here their roles change *)
(* and they are deleted by others.                                         *)
(***************************************************************************)
EXTENDS Naturals

CONSTANTS
    Logins, Visits, Logouts, \* requests, each made at most once
    Browsers, BrowserOf,     \* the browser that sends each request
    Users,
    Kinds,       \* implementations to look at
    Ttl,         \* lifetime of a session
    MaxClock,    \* bound on the clock
    NoSession, NoCookie, NoCopy,
    Faults,      \* which of "fail", "crash", "setback" may happen
    MaxFaults    \* bound on how many do

Requests == Logins \cup Visits \cup Logouts
Session == [user : Users, expires : 0..(MaxClock + Ttl)]

ASSUME SessionsAssumption ==
    /\ Logins \cap Visits = {} /\ Logins \cap Logouts = {} /\ Visits \cap Logouts = {}
    /\ BrowserOf \in [Requests -> Browsers]
    /\ Kinds \subseteq {"sqlite", "memory"}
    /\ Ttl \in Nat /\ MaxClock \in Nat /\ MaxFaults \in Nat
    /\ NoSession \notin Session /\ NoCopy \notin Session /\ NoCookie \notin Logins

VARIABLES
    kind,        \* the implementation the program runs with
    sessions,    \* sessions[s]: what is stored for s, or NoSession
    role,        \* role[u]: the role of user u, "none" when the user is gone
    clock,       \* what time.Now() says
    jar,         \* jar[b]: the session cookie browser b holds, or NoCookie
    pc,          \* pc[r]: the next step of r, or its answer
    cookie,      \* cookie[r]: the cookie that came with r
    copy,        \* copy[r]: the handler's own Session, or NoCopy
    faults,      \* number of faults so far
    setBack,     \* history: the clock was set back
    unread,      \* history: visits whose session or user could not be read
    over,        \* history: sessions removed, or refused by a visit that read them
    late,        \* history: late[r]: r was sent with a cookie in over
    seen         \* history: seen[r]: what was true of r's session since r was sent

vars == <<kind, sessions, role, clock, jar, pc, cookie, copy, faults,
          setBack, unread, over, late, seen>>

Looking == {"get", "check", "remove", "user", "change"}
Working == {"put", "answer", "delete", "cleared"} \cup Looking
Accepted == {"member", "admin"}
Ended == {"ok", "refused", "failed", "dead"} \cup Accepted

\* The lifetime is over: time.Now().After(sess.ExpiresAt).
Expired(s) == clock > s.expires

\* What a visit with cookie s may be told now.
Facts(s) ==
    {IF sessions[s] # NoSession /\ ~Expired(sessions[s]) THEN "valid" ELSE "invalid",
     role[copy[s].user]}

Init ==
    /\ kind \in Kinds
    /\ sessions = [s \in Logins |-> NoSession]
    /\ role \in [Users -> Accepted]
    /\ clock = 0
    /\ jar = [b \in Browsers |-> NoCookie]
    /\ pc = [r \in Requests |-> "idle"]
    /\ cookie = [r \in Requests |-> NoCookie]
    /\ copy = [r \in Requests |-> NoCopy]
    /\ faults = 0 /\ setBack = FALSE
    /\ unread = {} /\ over = {}
    /\ late = [r \in Requests |-> FALSE]
    /\ seen = [r \in Requests |-> {}]

-----------------------------------------------------------------------------
Step(r, from, to) == pc[r] = from /\ pc' = [pc EXCEPT ![r] = to]
Store(s, doc) == sessions' = [sessions EXCEPT ![s] = doc]
SetJar(b, s) == jar' = [jar EXCEPT ![b] = s]

\* What no step of a handler changes.
Handler == UNCHANGED <<kind, role, clock, faults, setBack, unread>>
Fault(f) == f \in Faults /\ faults < MaxFaults /\ faults' = faults + 1
NoFault == UNCHANGED faults

(* loginHandler, once the password is verified.                            *)

\* Mutant: the cookie is set before the session is stored.
LoginCookieFirst(r) ==
    /\ r \in Logins /\ Step(r, "idle", "put")
    /\ \E u \in Users :
          /\ role[u] # "none"
          /\ copy' = [copy EXCEPT ![r] = [user |-> u, expires |-> clock + Ttl]]
    /\ SetJar(BrowserOf[r], r)
    /\ Handler /\ UNCHANGED <<sessions, cookie, over, late>>

\* Create: the end of the session is computed before it is stored.
Login(r) ==
    /\ r \in Logins /\ Step(r, "idle", "put")
    /\ \E u \in Users :
          /\ role[u] # "none"
          /\ copy' = [copy EXCEPT ![r] = [user |-> u, expires |-> clock + Ttl]]
    /\ Handler /\ UNCHANGED <<sessions, jar, cookie, over, late>>

PutSession(r) ==
    /\ Step(r, "put", "answer")
    /\ Store(r, copy[r])
    /\ Handler /\ UNCHANGED <<jar, cookie, copy, over, late>>

\* setSessionCookie; the answer may be lost on its way.
LoginAnswer(r) ==
    /\ Step(r, "answer", "ok")
    /\ SetJar(BrowserOf[r], r) \/ UNCHANGED jar
    /\ Handler /\ UNCHANGED <<sessions, cookie, copy, over, late>>

(* meHandler and the pages of the admin, through CurrentUser.              *)

\* The request leaves with the cookie the browser has, if it has one.
Send(r, with, without) ==
    /\ LET s == jar[BrowserOf[r]] IN
          /\ Step(r, "idle", IF s = NoCookie THEN without ELSE with)
          /\ cookie' = [cookie EXCEPT ![r] = s]
          /\ late' = [late EXCEPT ![r] = s \in over]
    /\ Handler /\ UNCHANGED <<sessions, jar, copy, over>>

Visit(r) == r \in Visits /\ Send(r, "get", "refused")

Refuse(r, from) ==
    /\ Step(r, from, "refused")
    /\ over' = over \cup {cookie[r]}

\* SessionStore.Get, under its lock.
GetMemory(r) ==
    /\ kind = "memory" /\ pc[r] = "get"
    /\ LET doc == sessions[cookie[r]] IN
          IF doc = NoSession \/ Expired(doc)
          THEN Refuse(r, "get") /\ UNCHANGED copy
          ELSE /\ Step(r, "get", "user")
               /\ copy' = [copy EXCEPT ![r] = doc]
               /\ UNCHANGED over
    /\ Handler /\ UNCHANGED <<sessions, jar, cookie, late>>

\* SQLiteStore.Get reads the document ...
GetDocument(r) ==
    /\ kind = "sqlite" /\ pc[r] = "get"
    /\ LET doc == sessions[cookie[r]] IN
          IF doc = NoSession
          THEN Refuse(r, "get") /\ UNCHANGED copy
          ELSE /\ Step(r, "get", "check")
               /\ copy' = [copy EXCEPT ![r] = doc]
               /\ UNCHANGED over
    /\ Handler /\ UNCHANGED <<sessions, jar, cookie, late>>

\* Mutant: a session ends at its last moment, not after it.
CheckExpiryEarly(r) ==
    /\ Step(r, "check", IF clock >= copy[r].expires THEN "remove" ELSE "user")
    /\ Handler /\ UNCHANGED <<sessions, jar, cookie, copy, over, late>>

\* ... looks at the clock ...
CheckExpiry(r) ==
    /\ Step(r, "check", IF Expired(copy[r]) THEN "remove" ELSE "user")
    /\ Handler /\ UNCHANGED <<sessions, jar, cookie, copy, over, late>>

\* Mutant: an expired session is refused and kept, as in SessionStore.
RemoveExpiredKeeps(r) ==
    /\ Refuse(r, "remove")
    /\ Handler /\ UNCHANGED <<sessions, jar, cookie, copy, late>>

\* ... and removes what has expired.
RemoveExpired(r) ==
    /\ Refuse(r, "remove")
    /\ Store(cookie[r], NoSession)
    /\ Handler /\ UNCHANGED <<jar, cookie, copy, late>>

\* Mutant: requireAdmin asks for a user, not for an admin.
ReadUserAny(r) ==
    /\ pc[r] = "user"
    /\ LET known == role[copy[r].user] IN
          \/ known = "none" /\ Refuse(r, "user")
          \/ known # "none" /\ Step(r, "user", "change") /\ UNCHANGED over
    /\ Handler /\ UNCHANGED <<sessions, jar, cookie, copy, late>>

\* GetByID of the session's user; an admin goes on to a page of the panel.
ReadUser(r) ==
    /\ pc[r] = "user"
    /\ LET known == role[copy[r].user] IN
          \/ known = "none" /\ Refuse(r, "user")
          \/ known # "none" /\ Step(r, "user", "member") /\ UNCHANGED over
          \/ known = "admin" /\ Step(r, "user", "change") /\ UNCHANGED over
    /\ Handler /\ UNCHANGED <<sessions, jar, cookie, copy, late>>

\* What the panel was asked for happens after requireAdmin has looked.
Change(r) ==
    /\ Step(r, "change", "admin")
    /\ Handler /\ UNCHANGED <<sessions, jar, cookie, copy, over, late>>

(* logoutHandler                                                           *)

Logout(r) == r \in Logouts /\ Send(r, "delete", "cleared")

DeleteSession(r) ==
    /\ Step(r, "delete", "cleared")
    /\ Store(cookie[r], NoSession)
    /\ over' = over \cup {cookie[r]}
    /\ Handler /\ UNCHANGED <<jar, cookie, copy, late>>

\* clearSessionCookie takes away whatever cookie the browser holds by then.
LogoutAnswer(r) ==
    /\ Step(r, "cleared", "ok")
    /\ SetJar(BrowserOf[r], NoCookie) \/ UNCHANGED jar
    /\ Handler /\ UNCHANGED <<sessions, cookie, copy, over, late>>

(* Failures of a document operation.                                       *)

\* Get takes a session it cannot read for one that is not there, and CurrentUser
\* a user: the visit is refused, and nobody is told why.
ReadFails(r) ==
    /\ Step(r, "get", "refused") \/ Step(r, "user", "refused")
    /\ unread' = unread \cup {r}

\* Delete has no error: the session stays, the visit is refused as expired and the
\* logout answered all the same.
DeleteFails(r) ==
    /\ Step(r, "remove", "refused") \/ Step(r, "delete", "cleared")
    /\ UNCHANGED unread

OperationFails(r) ==
    /\ kind = "sqlite" /\ Fault("fail")
    /\ \/ Step(r, "put", "failed") /\ UNCHANGED unread
       \/ ReadFails(r)
       \/ DeleteFails(r)
    /\ UNCHANGED <<kind, sessions, role, clock, jar, cookie, copy, setBack, over, late>>

HandlerStep(r) ==
    \/ Login(r) \/ PutSession(r) \/ LoginAnswer(r)
    \/ Visit(r) \/ GetMemory(r) \/ GetDocument(r) \/ CheckExpiry(r) \/ RemoveExpired(r)
    \/ ReadUser(r) \/ Change(r)
    \/ Logout(r) \/ DeleteSession(r) \/ LogoutAnswer(r)
    \/ OperationFails(r)

-----------------------------------------------------------------------------
(* Around the handlers.                                                    *)

NoHandler == UNCHANGED <<kind, pc, cookie, copy, unread, over, late>>

\* UpdateRole, and the DeleteUser of a rollback: ids are never used again.
ChangeUser(u) ==
    /\ role[u] # "none"
    /\ \E ro \in (Accepted \cup {"none"}) \ {role[u]} : role' = [role EXCEPT ![u] = ro]
    /\ NoHandler /\ NoFault /\ UNCHANGED <<sessions, clock, jar, setBack>>

Tick ==
    /\ clock < MaxClock /\ clock' = clock + 1
    /\ NoHandler /\ NoFault /\ UNCHANGED <<sessions, role, jar, setBack>>

\* The monotonic clock of the in-memory store does not go back.
SetBack ==
    /\ kind = "sqlite" /\ Fault("setback")
    /\ \E t \in 0..MaxClock : t < clock /\ clock' = t
    /\ setBack' = TRUE
    /\ NoHandler /\ UNCHANGED <<sessions, role, jar>>

\* The browser drops the cookie, by its own clock.
DropCookie(b) ==
    /\ jar[b] # NoCookie /\ SetJar(b, NoCookie)
    /\ NoHandler /\ NoFault /\ UNCHANGED <<sessions, role, clock, setBack>>

Crash ==
    /\ Fault("crash")
    /\ pc' = [r \in Requests |-> IF pc[r] \in Working THEN "dead" ELSE pc[r]]
    /\ sessions' = IF kind = "memory" THEN [s \in Logins |-> NoSession] ELSE sessions
    /\ UNCHANGED <<kind, role, clock, jar, cookie, copy, setBack, unread, over, late>>

\* What is true, before each step, of the sessions that are being looked at.
Watch ==
    seen' = [r \in Requests |->
               IF pc[r] \in Looking THEN seen[r] \cup Facts(cookie[r]) ELSE seen[r]]

Next ==
    /\ \/ \E r \in Requests : HandlerStep(r)
       \/ \E u \in Users : ChangeUser(u)
       \/ Tick \/ SetBack \/ Crash
       \/ \E b \in Browsers : DropCookie(b)
    /\ Watch

Spec == Init /\ [][Next]_vars
-----------------------------------------------------------------------------
(* Properties.                                                             *)

\* The shape of the state; the browser knows only sessions that were stored.
TypeOK ==
    /\ kind \in Kinds
    /\ sessions \in [Logins -> Session \cup {NoSession}]
    /\ role \in [Users -> Accepted \cup {"none"}]
    /\ clock \in 0..MaxClock
    /\ jar \in [Browsers -> Logins \cup {NoCookie}]
    /\ pc \in [Requests -> {"idle"} \cup Working \cup Ended]
    /\ cookie \in [Requests -> Logins \cup {NoCookie}]
    /\ copy \in [Requests -> Session \cup {NoCopy}]
    /\ faults \in 0..MaxFaults
    /\ setBack \in BOOLEAN
    /\ unread \subseteq Visits /\ over \subseteq Logins
    /\ late \in [Requests -> BOOLEAN]
    /\ seen \in [Requests -> SUBSET ({"valid", "invalid", "none"} \cup Accepted)]
    /\ \A b \in Browsers : jar[b] # NoCookie => pc[jar[b]] = "ok"

\* A session that a visit found gone or expired and removed, or whose user it found
\* gone, or that was logged out, is over for good: no visit sent after that is
\* accepted, in either store, whatever visits were under way, after a restart, and
\* with the clock set back.  It is not over where the database failed: a visit that
\* could not read its session or its user is refused and the next may be accepted,
\* and a session that could not be removed stays.
RefusalIsFinal ==
    \A r \in Visits : late[r] => pc[r] \notin Accepted

\* A visit is refused only if its session was gone or past its end, or its user
\* gone, at some moment while it ran, or if one of the two could not be read: with
\* a database that answers, a session is good to its last moment.
RefusedForReason ==
    \A r \in Visits : pc[r] = "refused" /\ cookie[r] # NoCookie =>
        r \in unread \/ seen[r] \cap {"invalid", "none"} # {}

\* A visit is accepted only if its session was stored and not past its end at
\* one moment while it ran (a clock set back aside), and what the panel does for
\* it was asked for by someone who was an admin while it ran.
AcceptedForReason ==
    \A r \in Visits :
        /\ pc[r] \in Accepted /\ ~setBack => "valid" \in seen[r]
        /\ pc[r] = "admin" => "admin" \in seen[r]
=============================================================================
