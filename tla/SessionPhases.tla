---------------------------- MODULE SessionPhases ----------------------------
(***************************************************************************)
(* What the server promises about a session: first a key, then a login of   *)
(* at most MaxRefusals + 1 refused tries, and the service only for somebody  *)
(* who presented credentials that the user table accepted then.             *)
(***************************************************************************)
EXTENDS Naturals

CONSTANTS
    MaxRefusals,
    Accepts(_, _)  \* Accepts(users, c): does the table accept the credentials?

VARIABLES
    phase,      \* "hello", "keyed", "login", "service", "over"
    refusals,   \* how often the client was told to try again
    presented,  \* the credentials the client sent
    users       \* the user table

SPInit == phase = "hello" /\ refusals = 0 /\ presented = {}

Go(from, to) == phase = from /\ phase' = to

Agree == Go("hello", "keyed") /\ UNCHANGED <<refusals, presented, users>>

AskToLogin == Go("keyed", "login") /\ UNCHANGED <<refusals, presented, users>>

\* In login only, credentials arrive; they are heard at once or with a later request.
Hear == phase = "login" /\ presented \subseteq presented' /\ UNCHANGED users

Ignore == Hear /\ UNCHANGED <<phase, refusals>>

Refuse ==
    /\ Hear /\ UNCHANGED phase
    /\ refusals < MaxRefusals /\ refusals' = refusals + 1

Accept ==
    /\ Hear /\ phase' \in {"service", "over"} /\ UNCHANGED refusals
    /\ \E c \in presented' : Accepts(users, c)

Reject == Hear /\ phase' = "over" /\ refusals = MaxRefusals /\ UNCHANGED refusals

ChangeUsers == UNCHANGED <<phase, refusals, presented>>

SPNext == Agree \/ AskToLogin \/ Ignore \/ Refuse \/ Accept \/ Reject \/ ChangeUsers

SPSpec == SPInit /\ [][SPNext]_<<phase, refusals, presented, users>>
=============================================================================
