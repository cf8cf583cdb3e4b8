----------------------------- MODULE InviteTtl -----------------------------
(***************************************************************************)
(* How long an invite lives: inviteCreateHandler of admin/handlers.go      *)
(* multiplies the hours of the form by time.Hour in an int64, and          *)
(* CreateInvite of auth/sqlstore.go sets an end if the product is          *)
(* positive.  The width is scaled down, with what fits in it.              *)
(***************************************************************************)
EXTENDS Integers

CONSTANTS
    Hour,        \* time.Hour
    MaxInt,      \* the largest int64
    MaxHours     \* the largest ttl_hours that is tried

ASSUME TtlAssumption == Hour \in Nat \ {0} /\ MaxInt \in Nat /\ MaxHours \in Nat

VARIABLE hours   \* ttl_hours; Atoi and the handler refuse what is negative

NoEnd == -1      \* ExpiresAt is nil; ends are counted from CreatedAt

int64(x) == ((x + MaxInt + 1) % (2 * (MaxInt + 1))) - (MaxInt + 1)

Duration(h) == int64(h * Hour)

\* Mutant: a duration of zero ends at once.
ExpiresAfterZero(ttl) == IF ttl >= 0 THEN ttl ELSE NoEnd

ExpiresAfter(ttl) == IF ttl > 0 THEN ttl ELSE NoEnd

TtlInit == hours = 0
TtlStep == hours < MaxHours /\ hours' = hours + 1

-----------------------------------------------------------------------------
\* "0 means no expiry", and other hours are what was asked for, up to the
\* largest int64 of nanoseconds; above it an invite may live shorter than asked
\* for, or for ever when the product is negative, but never longer with an end.
TtlHonoured ==
    LET ends == ExpiresAfter(Duration(hours))
    IN  /\ hours * Hour <= MaxInt => ends = IF hours = 0 THEN NoEnd ELSE hours * Hour
        /\ ends = NoEnd => hours = 0 \/ hours * Hour > MaxInt
        /\ ends # NoEnd => ends <= hours * Hour
=============================================================================
