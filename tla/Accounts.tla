------------------------------ MODULE Accounts ------------------------------
(***************************************************************************)
(* What the database knows of the one account: the password hash in the    *)
(* settings, the setting setup_done and the table sessions, with the       *)
(* statements that read and write them (internal/auth/auth.go).            *)
(*                                                                         *)
(* A password stands for its hash.  The lifetime of a session is any of    *)
(* Lives: the setting session_timeout, read when the session is opened, is *)
(* a positive number of minutes.  Session ids are random and no request    *)
(* keeps one from step to step, so a freed id may be used again here.      *)
(***************************************************************************)
EXTENDS Integers

CONSTANTS
    Passwords,
    NoPassword,         \* no hash is stored
    SessionIds,         \* bound: how many sessions there are at a time
    MaxLife,            \* the longest lifetime of a session, in ticks
    NoSession           \* no row has this id

Lives == 1 .. MaxLife

ASSUME AccountsAssumption ==
    MaxLife \in Nat /\ MaxLife > 0 /\ NoPassword \notin Passwords
    /\ \A left \in -1 .. MaxLife, p \in Passwords, o \in BOOLEAN :
          NoSession # [left |-> left, with |-> p, outlived |-> o]

VARIABLES
    password,           \* the setting password_hash
    setupDone,          \* the setting setup_done
    sessions            \* the table sessions

accountVars == <<password, setupDone, sessions>>

\* A row is the time left until expires_at.  The two other fields are history:
\* the password the session was opened with, and whether it is known to have
\* outlived that password.
Row(left, with, outlived) == [left |-> left, with |-> with, outlived |-> outlived]

NoSessions == [s \in SessionIds |-> NoSession]

AccountInit ==
    /\ password = NoPassword
    /\ setupDone = FALSE
    /\ sessions = NoSessions

Exists(s) == sessions[s] # NoSession

\* ValidateSession.
Valid(s) == Exists(s) /\ sessions[s].left > 0

\* NewSession.
OpenSession(s, life, with) ==
    /\ ~Exists(s)
    /\ sessions' = [sessions EXCEPT ![s] = Row(life, with, with # password)]

DeleteSession(s) == sessions' = [sessions EXCEPT ![s] = NoSession]

Expired(s) == Exists(s) /\ sessions[s].left < 0

PruneExpiredSessions ==
    sessions' = [s \in SessionIds |-> IF Expired(s) THEN NoSession ELSE sessions[s]]

\* History: the sessions of another password than p are known to outlive it.
Outlive(p) ==
    sessions' = [s \in SessionIds |->
                   IF Exists(s) /\ sessions[s].with # p
                   THEN [sessions[s] EXCEPT !.outlived = TRUE] ELSE sessions[s]]

SessionsTick ==
    sessions' = [s \in SessionIds |->
                   IF Exists(s) /\ ~Expired(s)
                   THEN [sessions[s] EXCEPT !.left = @ - 1] ELSE sessions[s]]
=============================================================================
