----------------------------- MODULE MCAccounts -----------------------------
(***************************************************************************)
(* Instances of the accounts for TLC: which process serves a request.      *)
(***************************************************************************)
EXTENDS AccountsRefinement, TLC

CONSTANTS server, cli

\* The admin command is a process of its own; the rest is the web server.
ServerAndCli == [r \in Requests |-> IF r \in AdminCreates THEN cli ELSE server]

\* No step and no property singles out one request of a kind, or one of the
\* users that are there at the start.
Interchangeable ==
    Permutations(Registrations) \cup Permutations(Logins) \cup Permutations(LegacyIds)

\* Names are alike too, so one stored user may as well always have the same.  While
\* registration is open nobody looks at an invite, and by invite one that may end does
\* all that one without an end does, or one that is not there.
SameName == CHOOSE n \in Names : TRUE
OneStart ==
    /\ Init
    /\ \A id \in LegacyIds : users[id].email.name = SameName
    /\ \A t \in Tokens : IF mode = "open" THEN invites[t].state = "absent" ELSE invites[t].ttl

OneStartSpec == OneStart /\ [][Next]_vars
=============================================================================
