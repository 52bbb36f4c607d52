------------------------------- MODULE Access -------------------------------
(***************************************************************************)
(* Who may in: requests that log in, change the password, reset it by mail *)
(* or set it in the setup wizard run at the same time, over the rate       *)
(* limiter and the pending resets (in memory) and the password and the     *)
(* sessions (in the database), while time passes and the process restarts. *)
(*                                                                         *)
(* A step of a request is one critical section or one statement.  What a   *)
(* user typed is chosen where the code compares it.  A statement may fail: *)
(* its step then leaves the table as it was and goes where the code goes.  *)
(***************************************************************************)
EXTENDS RateLimiter, Accounts, PasswordReset, FiniteSets

CONSTANTS
    Requests,           \* goroutines that serve HTTP requests
    NoIP

ASSUME AccessAssumption == NoIP \notin IPs /\ IsFiniteSet(Requests)

VARIABLE request        \* the local state of each request

vars == <<attempts, accountVars, resetVars, request>>

Idle == [pc |-> "idle", ip |-> NoIP, with |-> NoPassword]

Init ==
    /\ attempts = NoEntries /\ AccountInit /\ ResetInit
    /\ request = [r \in Requests |-> Idle]

At(r, pc) == request[r].pc = pc

Goto(r, pc) == request' = [request EXCEPT ![r].pc = pc]

Return(r) == request' = [request EXCEPT ![r] = Idle]

SomeSession == \E s \in SessionIds : Valid(s)

----------------------------------------------------------------------------
(* POST /login (handler.go:341-381, auth.go:132-142).                      *)

BeginLogin(r, ip) ==
    /\ At(r, "idle")
    /\ Allow(ip)
    /\ request' = [request EXCEPT ![r] = [Idle EXCEPT !.pc = "compare", !.ip = ip]]
    /\ UNCHANGED <<accountVars, resetVars>>

RefuseLogin(r, ip) ==
    /\ At(r, "idle")
    /\ Refuse(ip)
    /\ UNCHANGED <<accountVars, resetVars, request>>

\* The hash is read and compared with what was typed.  An error counts as a
\* wrong password.
Compare(r) ==
    /\ At(r, "compare")
    /\ \/ /\ password # NoPassword
          /\ request' = [request EXCEPT ![r].pc = "open", ![r].with = password]
       \/ Goto(r, "failed")
    /\ UNCHANGED <<attempts, accountVars, resetVars>>

\* So does an error of the INSERT.
Open(r) ==
    /\ At(r, "open")
    /\ \/ /\ \E s \in SessionIds, life \in Lives : OpenSession(s, life, request[r].with)
          /\ Goto(r, "clear")
       \/ Goto(r, "failed") /\ UNCHANGED sessions
    /\ UNCHANGED <<attempts, password, setupDone, resetVars>>

ClearFailures(r) ==
    /\ At(r, "clear")
    /\ Reset(request[r].ip)
    /\ Return(r)
    /\ UNCHANGED <<accountVars, resetVars>>

CountFailure(r) ==
    /\ At(r, "failed")
    /\ RecordFailure(request[r].ip)
    /\ Return(r)
    /\ UNCHANGED <<accountVars, resetVars>>

Login(r) ==
    \/ \E ip \in IPs : BeginLogin(r, ip) \/ RefuseLogin(r, ip)
    \/ Compare(r) \/ Open(r) \/ ClearFailures(r) \/ CountFailure(r)

----------------------------------------------------------------------------
(* POST /settings/security (settings.go:37-85): its session is looked at   *)
(* once, before the handler runs.  The sessions stay.                      *)

BeginChange(r) ==
    /\ At(r, "idle")
    /\ SomeSession
    /\ Goto(r, "current")
    /\ UNCHANGED <<attempts, accountVars, resetVars>>

CheckCurrent(r) ==
    /\ At(r, "current")
    /\ \/ password # NoPassword /\ Goto(r, "change")
       \/ Return(r)
    /\ UNCHANGED <<attempts, accountVars, resetVars>>

\* The setting is written and the sessions stay (changed by history alone).
SetPassword(p) == password' = p /\ Outlive(p)

ChangePassword(r) ==
    /\ At(r, "change")
    /\ \/ \E p \in Passwords : SetPassword(p)
       \/ UNCHANGED <<password, sessions>>
    /\ Return(r)
    /\ UNCHANGED <<attempts, setupDone, resetVars>>

Change(r) == BeginChange(r) \/ CheckCurrent(r) \/ ChangePassword(r)

----------------------------------------------------------------------------
(* POST /reset-password/new (reset.go:66-112).                             *)

UseToken(r, t) ==
    /\ At(r, "idle")
    /\ ConsumeResetToken(t)
    /\ IF Usable(t) THEN Goto(r, "set") ELSE UNCHANGED request
    /\ UNCHANGED <<attempts, accountVars>>

\* The token is used up before the new password is looked at.
RejectPassword(r) ==
    /\ At(r, "set")
    /\ Return(r)
    /\ UNCHANGED <<attempts, accountVars, resetVars>>

\* An error of the write is not looked at.
ResetPassword(r) ==
    /\ At(r, "set")
    /\ password' \in Passwords \cup {password}
    /\ Goto(r, "sweep")
    /\ UNCHANGED <<attempts, setupDone, sessions, resetVars>>

\* Nor is one of the DELETE.
EndSessions(r) ==
    /\ At(r, "sweep")
    /\ sessions' = NoSessions \/ Outlive(password)
    /\ Return(r)
    /\ UNCHANGED <<attempts, password, setupDone, resetVars>>

\* Mutant: the sessions are deleted before the password is written.
ResetByMailSweepFirst(r) ==
    \/ \E t \in TokenIds : UseToken(r, t)
    \/ RejectPassword(r)
    \/ /\ At(r, "set")
       /\ sessions' = NoSessions
       /\ Goto(r, "sweep")
       /\ UNCHANGED <<attempts, password, setupDone, resetVars>>
    \/ /\ At(r, "sweep")
       /\ password' \in Passwords \cup {password}
       /\ Return(r)
       /\ UNCHANGED <<attempts, setupDone, sessions, resetVars>>

ResetByMail(r) ==
    \/ \E t \in TokenIds : UseToken(r, t)
    \/ RejectPassword(r) \/ ResetPassword(r) \/ EndSessions(r)

----------------------------------------------------------------------------
(* The password step of POST /setup (handler.go:195-241): setup_done is    *)
(* looked at first and no more.                                            *)

BeginSetup(r) ==
    /\ At(r, "idle")
    /\ ~setupDone
    /\ Goto(r, "setup")
    /\ UNCHANGED <<attempts, accountVars, resetVars>>

\* An error of that read is discarded, and the wizard goes on.
BeginSetupUnread(r) ==
    /\ At(r, "idle")
    /\ setupDone
    /\ Goto(r, "setup")
    /\ UNCHANGED <<attempts, accountVars, resetVars>>

SetupPassword(r) ==
    /\ At(r, "setup")
    /\ \/ \E p \in Passwords : SetPassword(p)
       \/ UNCHANGED <<password, sessions>>
    /\ Return(r)
    /\ UNCHANGED <<attempts, setupDone, resetVars>>

SetupStep(r) == BeginSetup(r) \/ BeginSetupUnread(r) \/ SetupPassword(r)

----------------------------------------------------------------------------
(* Requests of one statement or one critical section.                      *)

FinishSetup ==
    /\ setupDone' = TRUE
    /\ UNCHANGED <<attempts, password, sessions, resetVars, request>>

Logout ==
    /\ \E s \in SessionIds : Exists(s) /\ DeleteSession(s)
    /\ UNCHANGED <<attempts, password, setupDone, resetVars, request>>

\* "Re-run setup": either statement may fail.
ResetSetup ==
    /\ \E s \in SessionIds :
          Valid(s) /\ (DeleteSession(s) \/ UNCHANGED sessions)
    /\ setupDone' \in {FALSE, setupDone}
    /\ UNCHANGED <<attempts, password, resetVars, request>>

ManageTokens ==
    /\ \/ NewResetToken
       \/ \E t \in TokenIds :
             CheckResetToken(t) \/ VerifyResetByCode(t) \/ CancelResetToken(t)
    /\ UNCHANGED <<attempts, accountVars, request>>

----------------------------------------------------------------------------
(* Background work, time and restarts.                                     *)

\* The hourly pruner of sessions (main.go:118-139).
Prune ==
    /\ PruneExpiredSessions
    /\ UNCHANGED <<attempts, password, setupDone, resetVars, request>>

CleanupAttempts ==
    /\ Cleanup
    /\ UNCHANGED <<accountVars, resetVars, request>>

Tick ==
    /\ LimiterTick /\ SessionsTick /\ ResetTick
    /\ UNCHANGED <<password, setupDone, request>>

\* The process ends, with every request where it stands, and starts again.
Restart ==
    /\ attempts' = NoEntries /\ ForgetTokens
    /\ request' = [r \in Requests |-> Idle]
    /\ Outlive(password)
    /\ UNCHANGED <<password, setupDone>>

Serve(r) == Login(r) \/ Change(r) \/ ResetByMail(r) \/ SetupStep(r)

Next ==
    \/ \E r \in Requests : Serve(r)
    \/ FinishSetup \/ Logout \/ ResetSetup \/ ManageTokens
    \/ Prune \/ CleanupAttempts \/ Tick \/ Restart

Spec == Init /\ [][Next]_vars

\* Time goes on.  Nothing else is fair: no request need come, or end.
FairSpec == Spec /\ WF_vars(Tick)

----------------------------------------------------------------------------
(* Types.                                                                  *)

Entries == [count : Nat, age : 0 .. Window + 1, lock : 0 .. LockFor]

RequestStates ==
    [pc : {"idle", "compare", "open", "clear", "failed", "current", "change",
           "set", "sweep", "setup"},
     ip : IPs \cup {NoIP}, with : Passwords \cup {NoPassword}]

SessionRows == [left : -1 .. MaxLife, with : Passwords, outlived : BOOLEAN]

\* Every variable has its type, and a request that logs in has an address.
TypeOK ==
    /\ attempts \in [IPs -> Entries]
    /\ password \in Passwords \cup {NoPassword} /\ setupDone \in BOOLEAN
    /\ sessions \in [SessionIds -> SessionRows \cup {NoSession}]
    /\ issued \in Nat /\ DOMAIN tokens \subseteq 1 .. issued
    /\ tokens \in [DOMAIN tokens -> [age : 0 .. ResetTTL + 1, verified : BOOLEAN]]
    /\ request \in [Requests -> RequestStates]
----------------------------------------------------------------------------
(* Safety.                                                                 *)

\* The requests past Allow whose outcome the limiter does not know yet.
Undecided(ip) ==
    {r \in Requests : request[r].ip = ip /\ request[r].pc # "clear"}

\* Any number of requests passes Allow while a password is compared, so an IP
\* can fail more often than MaxAttempts; but a failure beyond the last allowed
\* one always comes from a request that was let in before it (handler.go:352).
FailuresBounded ==
    \A ip \in IPs :
        attempts[ip].count + Cardinality(Undecided(ip)) < MaxAttempts + Cardinality(Requests)

\* Allow's last test never decides: as a lock outlives the window, an entry that
\* is full is locked until its window is over, late failures included
\* (ratelimit.go:53-57, 70-79).
FullMeansLocked ==
    \A ip \in IPs :
        Full(attempts[ip]) => Locked(attempts[ip]) \/ OutOfWindow(attempts[ip])

\* A lock is cut short only by the outcome of a request of that IP that was
\* let in before, or by a restart: neither the cleanup, nor the end of the
\* window, nor any other request shortens it (ratelimit.go:18).
LockKept ==
    [][\A ip \in IPs :
         Locked(attempts[ip]) /\ (\A r \in Requests : request[r].ip # ip) =>
            \/ attempts'[ip] = attempts[ip]
            \/ Tick \/ Restart]_vars

\* No session goes on with an old password after a reset, unless a statement
\* failed, the process ended within the reset, its login had read the old hash
\* before the reset, or the password was changed in the settings or in the
\* wizard, which keep sessions ("Kill all existing sessions", reset.go:108).
OldPasswordClosed ==
    \A s \in SessionIds :
        Exists(s) => \/ sessions[s].with = password
                     \/ sessions[s].outlived
                     \/ \E r \in Requests : At(r, "sweep")

\* A request that may set a new password used up the newest token, verified by
\* mail, and no token is left then: one reset for one mail, whatever pages are
\* still open ("only one at a time allowed", reset.go:47, 73).
ResetSpendsNewest ==
    [][\A r \in Requests : request[r].pc = "idle" /\ request'[r].pc = "set" =>
         /\ issued \in DOMAIN tokens /\ tokens[issued].verified
         /\ DOMAIN tokens' = {}]_vars

----------------------------------------------------------------------------
(* Liveness.                                                               *)

\* Every lock ends, however often its IP asks meanwhile: refused requests do
\* not extend it, and those under way are finitely many (ratelimit.go:50, 78).
LockEnds == \A ip \in IPs : Locked(attempts[ip]) ~> ~Locked(attempts[ip])
=============================================================================
