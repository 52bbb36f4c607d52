---------------------------- MODULE AccessSafety ----------------------------
(***************************************************************************)
(* Proofs about Access, for any addresses, passwords and session ids, any  *)
(* finite number of concurrent requests and any limits: the types, the     *)
(* rate limiter's bound and locks, what a reset spends and which sessions  *)
(* it leaves.                                                              *)
(***************************************************************************)
EXTENDS Access, FiniteSetTheorems, TLAPS

----------------------------------------------------------------------------
(* The entries of the rate limiter.                                        *)

LEMMA NoEntryTypes == NoEntry \in Entries
BY LimiterAssumption DEF NoEntry, Entries

LEMMA AfterFailureTypes ==
    ASSUME NEW a \in Entries
    PROVE  AfterFailure(a) \in Entries
<1> DEFINE more == [a EXCEPT !.count = @ + 1]
<1>1. more \in Entries
  BY DEF Entries
<1>2. \A e \in Entries : [e EXCEPT !.lock = LockFor] \in Entries
  BY LimiterAssumption DEF Entries
<1>3. [count |-> 1, age |-> 0, lock |-> 0] \in Entries
  BY LimiterAssumption DEF Entries
<1> QED
  BY <1>1, <1>2, <1>3 DEF AfterFailure

LEMMA OlderTypes ==
    ASSUME NEW a \in Entries
    PROVE  Older(a) \in Entries
<1>1. (IF OutOfWindow(a) THEN a.age ELSE a.age + 1) \in 0 .. Window + 1
  BY LimiterAssumption DEF Entries, OutOfWindow
<1>2. (IF Locked(a) THEN a.lock - 1 ELSE a.lock) \in 0 .. LockFor
  BY LimiterAssumption DEF Entries, Locked
<1> QED
  BY <1>1, <1>2 DEF Older, Entries

\* What one step of Access does to the entry of an address.
EntryMoves(ip) ==
    \/ attempts'[ip] = attempts[ip]
    \/ attempts'[ip] = NoEntry
    \/ attempts'[ip] = AfterFailure(attempts[ip])
    \/ attempts'[ip] = Older(attempts[ip])

AttemptsOK == attempts \in [IPs -> Entries]

EntriesMove == DOMAIN attempts' = IPs /\ attempts' = [ip \in IPs |-> attempts'[ip]]
               /\ \A ip \in IPs : EntryMoves(ip)

LEMMA EntryStep ==
    ASSUME AttemptsOK, [Next]_vars
    PROVE  EntriesMove
<1> USE DEF AttemptsOK, EntriesMove, EntryMoves
<1>1. CASE UNCHANGED attempts
  BY <1>1
<1>2. CASE \E ip : Allow(ip)
  BY <1>2 DEF Allow
<1>3. CASE \E ip : Reset(ip)
  BY <1>3 DEF Reset
<1>4. CASE \E ip : RecordFailure(ip)
  BY <1>4 DEF RecordFailure
<1>5. CASE Cleanup
  BY <1>5 DEF Cleanup
<1>6. CASE LimiterTick
  BY <1>6 DEF LimiterTick
<1>7. CASE attempts' = NoEntries
  BY <1>7 DEF NoEntries
<1>8. \/ UNCHANGED attempts \/ \E ip : Allow(ip) \/ Reset(ip) \/ RecordFailure(ip)
      \/ Cleanup \/ LimiterTick \/ attempts' = NoEntries
  BY DEF Next, Serve, Login, Change, ResetByMail, SetupStep, BeginLogin, RefuseLogin,
         Refuse, Compare, Open, ClearFailures, CountFailure, BeginChange, CheckCurrent,
         ChangePassword, UseToken, RejectPassword, ResetPassword, EndSessions,
         BeginSetup, BeginSetupUnread, SetupPassword, FinishSetup, Logout, ResetSetup,
         ManageTokens,
         Prune, CleanupAttempts, Tick, Restart, vars
<1> QED
  BY <1>1, <1>2, <1>3, <1>4, <1>5, <1>6, <1>7, <1>8

LEMMA EntryTypes ==
    ASSUME AttemptsOK, EntriesMove
    PROVE  AttemptsOK'
<1>1. \A ip \in IPs : attempts'[ip] \in Entries
  BY NoEntryTypes, AfterFailureTypes, OlderTypes DEF AttemptsOK, EntriesMove, EntryMoves
<1> QED
  BY <1>1 DEF AttemptsOK, EntriesMove

----------------------------------------------------------------------------
(* A full entry is locked for what is left of its window, at least.        *)

LockCovers(a) == Full(a) => a.lock + a.age > Window

LocksCover == \A ip \in IPs : LockCovers(attempts[ip])

LEMMA NoEntryCovered == LockCovers(NoEntry)
BY LimiterAssumption DEF LockCovers, Full, NoEntry

LEMMA AfterFailureCovered ==
    ASSUME NEW a \in Entries, LockCovers(a)
    PROVE  LockCovers(AfterFailure(a))
<1> DEFINE more == [a EXCEPT !.count = @ + 1]
           first == [count |-> 1, age |-> 0, lock |-> 0]
           locked == [more EXCEPT !.lock = LockFor]
<1>1. CASE a = NoEntry \/ OutOfWindow(a)
  <2>1. AfterFailure(a) = first
    BY <1>1 DEF AfterFailure
  <2>2. ~Full(first)
    BY LimiterAssumption DEF Full
  <2> QED
    BY <2>1, <2>2 DEF LockCovers
<1>2. CASE ~(a = NoEntry \/ OutOfWindow(a)) /\ Full(more)
  <2>1. AfterFailure(a) = locked
    BY <1>2 DEF AfterFailure
  <2>2. locked.lock = LockFor /\ locked.age = a.age /\ a.age \in Nat
    BY LimiterAssumption DEF Entries
  <2> QED
    BY <2>1, <2>2, LimiterAssumption DEF LockCovers
<1>3. CASE ~(a = NoEntry \/ OutOfWindow(a)) /\ ~Full(more)
  BY <1>3 DEF AfterFailure, LockCovers
<1> QED
  BY <1>1, <1>2, <1>3

LEMMA OlderCovered ==
    ASSUME NEW a \in Entries, LockCovers(a)
    PROVE  LockCovers(Older(a))
<1>1. CASE a = NoEntry
  BY <1>1, NoEntryCovered DEF Older
<1>2. CASE a # NoEntry
  <2>1. /\ Older(a).count = a.count
        /\ Older(a).age = IF OutOfWindow(a) THEN a.age ELSE a.age + 1
        /\ Older(a).lock = IF Locked(a) THEN a.lock - 1 ELSE a.lock
    BY <1>2 DEF Older, Entries
  <2>2. a.age \in Nat /\ a.lock \in Nat /\ a.count \in Nat
    BY LimiterAssumption DEF Entries
  <2>3. Full(Older(a)) => Full(a)
    BY <2>1 DEF Full
  <2>4. a.lock + a.age > Window => Older(a).lock + Older(a).age > Window
    BY <2>1, <2>2, LimiterAssumption DEF OutOfWindow, Locked
  <2> QED
    BY <2>3, <2>4 DEF LockCovers
<1> QED
  BY <1>1, <1>2

LEMMA LocksCoverStep ==
    ASSUME AttemptsOK, LocksCover, EntriesMove
    PROVE  LocksCover'
<1> SUFFICES ASSUME NEW ip \in IPs PROVE LockCovers(attempts'[ip])
  BY DEF LocksCover
<1>1. attempts[ip] \in Entries /\ LockCovers(attempts[ip])
  BY DEF AttemptsOK, LocksCover
<1> QED
  BY <1>1, NoEntryCovered, AfterFailureCovered, OlderCovered DEF EntriesMove, EntryMoves

----------------------------------------------------------------------------
(* Types.                                                                  *)

\* A request about to open a session knows the password it was compared with.
RequestOK ==
    /\ request \in [Requests -> RequestStates]
    /\ \A r \in Requests : At(r, "open") => request[r].with \in Passwords

AccountOK ==
    /\ password \in Passwords \cup {NoPassword} /\ setupDone \in BOOLEAN
    /\ sessions \in [SessionIds -> SessionRows \cup {NoSession}]

TokensOK ==
    /\ issued \in Nat
    /\ tokens \in [DOMAIN tokens -> [age : 0 .. ResetTTL + 1, verified : BOOLEAN]]
    /\ DOMAIN tokens \subseteq {issued}
    /\ issued = 0 => DOMAIN tokens = {}

Places == {"idle", "compare", "open", "clear", "failed", "current", "change",
           "set", "sweep", "setup"}

LEMMA GotoTypes ==
    ASSUME RequestOK, NEW r \in Requests, NEW pc \in Places \ {"open"}, Goto(r, pc)
    PROVE  RequestOK'
<1>1. [request[r] EXCEPT !.pc = pc] \in RequestStates
  BY DEF RequestOK, RequestStates, Places
<1>2. request' = [request EXCEPT ![r] = [request[r] EXCEPT !.pc = pc]]
  BY DEF Goto
<1>3. [request[r] EXCEPT !.pc = pc].pc = pc
  BY DEF RequestOK, RequestStates
<1> QED
  BY <1>1, <1>2, <1>3 DEF RequestOK, At

LEMMA IdleTypes == Idle \in RequestStates /\ Idle.pc = "idle"
BY DEF Idle, RequestStates

LEMMA ReturnTypes ==
    ASSUME RequestOK, NEW r \in Requests, Return(r)
    PROVE  RequestOK'
BY IdleTypes DEF RequestOK, Return, At

LEMMA RequestStep ==
    ASSUME RequestOK, AccountOK, [Next]_vars
    PROVE  RequestOK'
<1>1. CASE UNCHANGED request
  BY <1>1 DEF RequestOK, At
<1>2. CASE \E r \in Requests : Return(r)
  BY <1>2, ReturnTypes
<1>3. CASE \E r \in Requests, pc \in Places \ {"open"} : Goto(r, pc)
  BY <1>3, GotoTypes
<1>4. CASE request' = [r \in Requests |-> Idle]
  BY <1>4, IdleTypes DEF RequestOK, At
<1>5. ASSUME NEW r \in Requests, NEW ip \in IPs, BeginLogin(r, ip)
      PROVE  RequestOK'
  <2>1. [Idle EXCEPT !.pc = "compare", !.ip = ip] \in RequestStates
    BY DEF Idle, RequestStates
  <2>2. [Idle EXCEPT !.pc = "compare", !.ip = ip].pc = "compare"
    BY DEF Idle
  <2> QED
    BY <1>5, <2>1, <2>2 DEF BeginLogin, RequestOK, At
<1>6. ASSUME NEW r \in Requests, Compare(r)
      PROVE  RequestOK'
  <2> DEFINE new == [request[r] EXCEPT !.pc = "open", !.with = password]
  <2>1. CASE Goto(r, "failed")
    BY <2>1, GotoTypes DEF Places
  <2>2. CASE password # NoPassword /\ request' = [request EXCEPT ![r] = new]
    <3>1. new \in RequestStates /\ new.with \in Passwords
      BY <2>2 DEF RequestOK, RequestStates, AccountOK
    <3> QED
      BY <2>2, <3>1 DEF RequestOK, At
  <2>3. [request EXCEPT ![r].pc = "open", ![r].with = password] = [request EXCEPT ![r] = new]
    BY DEF RequestOK, RequestStates
  <2> QED
    BY <1>6, <2>1, <2>2, <2>3 DEF Compare
<1>7. \/ UNCHANGED request
      \/ \E r \in Requests : Return(r)
      \/ \E r \in Requests, pc \in Places \ {"open"} : Goto(r, pc)
      \/ request' = [r \in Requests |-> Idle]
      \/ \E r \in Requests, ip \in IPs : BeginLogin(r, ip)
      \/ \E r \in Requests : Compare(r)
  <2>1. /\ "clear" \in Places \ {"open"} /\ "failed" \in Places \ {"open"}
        /\ "current" \in Places \ {"open"} /\ "change" \in Places \ {"open"}
        /\ "set" \in Places \ {"open"} /\ "sweep" \in Places \ {"open"}
        /\ "setup" \in Places \ {"open"}
    BY DEF Places
  <2> QED
    BY <2>1 DEF Next, Serve, Login, Change, ResetByMail, SetupStep, RefuseLogin, Open,
         ClearFailures, CountFailure, BeginChange, CheckCurrent, ChangePassword, UseToken,
         RejectPassword, ResetPassword, EndSessions, BeginSetup, BeginSetupUnread,
         SetupPassword, FinishSetup,
         Logout, ResetSetup, ManageTokens, Prune, CleanupAttempts, Tick, Restart, vars
<1> QED
  BY <1>1, <1>2, <1>3, <1>4, <1>5, <1>6, <1>7

LEMMA OutliveTypes ==
    ASSUME AccountOK, NEW p, Outlive(p)
    PROVE  sessions' \in [SessionIds -> SessionRows \cup {NoSession}]
<1>1. \A s \in SessionIds : Exists(s) => [sessions[s] EXCEPT !.outlived = TRUE] \in SessionRows
  BY DEF AccountOK, SessionRows, Exists
<1> QED
  BY <1>1 DEF AccountOK, Outlive

LEMMA SessionsTickTypes ==
    ASSUME AccountOK, SessionsTick
    PROVE  sessions' \in [SessionIds -> SessionRows \cup {NoSession}]
<1>1. ASSUME NEW s \in SessionIds, Exists(s), ~Expired(s)
      PROVE  [sessions[s] EXCEPT !.left = @ - 1] \in SessionRows
  <2>1. sessions[s] \in SessionRows
    BY <1>1 DEF AccountOK, Exists
  <2>2. sessions[s].left - 1 \in -1 .. MaxLife
    BY <1>1, <2>1, AccountsAssumption DEF Expired, SessionRows
  <2> QED
    BY <2>1, <2>2 DEF SessionRows
<1> QED
  BY <1>1 DEF AccountOK, SessionsTick

LEMMA OpenSessionTypes ==
    ASSUME AccountOK, NEW s \in SessionIds, NEW life \in Lives, NEW p \in Passwords,
           OpenSession(s, life, p)
    PROVE  sessions' \in [SessionIds -> SessionRows \cup {NoSession}]
<1>1. Row(life, p, p # password) \in SessionRows
  BY AccountsAssumption DEF Row, SessionRows, Lives
<1> QED
  BY <1>1 DEF AccountOK, OpenSession

LEMMA AccountStep ==
    ASSUME RequestOK, AccountOK, [Next]_vars
    PROVE  AccountOK'
<1> USE DEF AccountOK
<1>1. CASE UNCHANGED accountVars
  BY <1>1 DEF accountVars
<1>2. ASSUME NEW r \in Requests, Open(r)
      PROVE  AccountOK'
  <2>1. request[r].with \in Passwords
    BY <1>2 DEF Open, RequestOK
  <2> QED
    BY <1>2, <2>1, OpenSessionTypes DEF Open
<1>3. ASSUME NEW r \in Requests, ChangePassword(r) \/ SetupPassword(r)
      PROVE  AccountOK'
  BY <1>3, OutliveTypes DEF ChangePassword, SetupPassword, SetPassword
<1>4. ASSUME NEW r \in Requests, ResetPassword(r)
      PROVE  AccountOK'
  BY <1>4 DEF ResetPassword
<1>5. ASSUME NEW r \in Requests, EndSessions(r)
      PROVE  AccountOK'
  BY <1>5, OutliveTypes DEF EndSessions, NoSessions
<1>6. CASE FinishSetup
  BY <1>6 DEF FinishSetup
<1>7. CASE Logout \/ ResetSetup
  BY <1>7 DEF Logout, ResetSetup, DeleteSession
<1>8. CASE Prune
  BY <1>8 DEF Prune, PruneExpiredSessions
<1>9. CASE Tick
  BY <1>9, SessionsTickTypes DEF Tick
<1>10. CASE Restart
  BY <1>10, OutliveTypes DEF Restart
<1>11. \/ UNCHANGED accountVars
       \/ \E r \in Requests :
             \/ Open(r) \/ ChangePassword(r) \/ SetupPassword(r)
             \/ ResetPassword(r) \/ EndSessions(r)
       \/ FinishSetup \/ Logout \/ ResetSetup \/ Prune \/ Tick \/ Restart
  BY DEF Next, Serve, Login, Change, ResetByMail, SetupStep, BeginLogin, RefuseLogin,
         Compare, ClearFailures, CountFailure, BeginChange, CheckCurrent, UseToken,
         RejectPassword, BeginSetup, BeginSetupUnread, ManageTokens, CleanupAttempts, vars
<1> QED
  BY <1>1, <1>2, <1>3, <1>4, <1>5, <1>6, <1>7, <1>8, <1>9, <1>10, <1>11

LEMMA TokensStep ==
    ASSUME TokensOK, [Next]_vars
    PROVE  TokensOK'
<1> USE ResetAssumption DEF TokensOK
<1>1. CASE UNCHANGED resetVars
  BY <1>1 DEF resetVars
<1>2. CASE NewResetToken
  <2>1. [age |-> 0, verified |-> FALSE] \in [age : 0 .. ResetTTL + 1, verified : BOOLEAN]
    OBVIOUS
  <2> QED
    BY <1>2, <2>1 DEF NewResetToken
<1>3. ASSUME NEW t, UNCHANGED issued, Remove(t)
      PROVE  TokensOK'
  BY <1>3 DEF Remove
<1>4. ASSUME NEW t, VerifyResetByCode(t)
      PROVE  TokensOK'
  <2>1. [tokens[t] EXCEPT !.verified = TRUE] \in [age : 0 .. ResetTTL + 1, verified : BOOLEAN]
    BY <1>4 DEF VerifyResetByCode
  <2>2. tokens' = [tokens EXCEPT ![t] = [tokens[t] EXCEPT !.verified = TRUE]]
    BY <1>4 DEF VerifyResetByCode
  <2>3. issued' = issued /\ t \in DOMAIN tokens
    BY <1>4 DEF VerifyResetByCode
  <2> QED
    BY <2>1, <2>2, <2>3
<1>5. CASE ResetTick
  <2>1. \A t \in DOMAIN tokens :
           [tokens[t] EXCEPT !.age = IF InTime(t) THEN @ + 1 ELSE @]
              \in [age : 0 .. ResetTTL + 1, verified : BOOLEAN]
    <3>1. ASSUME NEW t \in DOMAIN tokens
          PROVE  [tokens[t] EXCEPT !.age = IF InTime(t) THEN @ + 1 ELSE @]
                    \in [age : 0 .. ResetTTL + 1, verified : BOOLEAN]
      <4>1. (IF InTime(t) THEN tokens[t].age + 1 ELSE tokens[t].age) \in 0 .. ResetTTL + 1
        BY DEF InTime
      <4> QED
        BY <4>1
    <3> QED
      BY <3>1
  <2> QED
    BY <1>5, <2>1 DEF ResetTick
<1>6. CASE ForgetTokens
  BY <1>6 DEF ForgetTokens, NoTokens
<1>7. \/ UNCHANGED resetVars \/ NewResetToken
      \/ \E t : UNCHANGED issued /\ Remove(t)
      \/ \E t : VerifyResetByCode(t)
      \/ ResetTick \/ ForgetTokens
  BY DEF Next, Serve, Login, Change, ResetByMail, SetupStep, BeginLogin, RefuseLogin, Open,
         Compare, ClearFailures, CountFailure, BeginChange, CheckCurrent, UseToken,
         ChangePassword, ResetPassword, EndSessions, SetupPassword, FinishSetup, Logout,
         ResetSetup, Prune, Tick, Restart, ConsumeResetToken, CheckResetToken,
         CancelResetToken,
         RejectPassword, BeginSetup, BeginSetupUnread, ManageTokens, CleanupAttempts, vars
<1> QED
  BY <1>1, <1>2, <1>3, <1>4, <1>5, <1>6, <1>7

----------------------------------------------------------------------------
(* The inductive invariant of types and of the limiter.                    *)

LimiterInv == AttemptsOK /\ LocksCover /\ RequestOK /\ AccountOK /\ TokensOK

LEMMA LimiterInvInit == Init => LimiterInv
<1> SUFFICES ASSUME Init PROVE LimiterInv
  OBVIOUS
<1>1. AttemptsOK /\ LocksCover
  BY NoEntryTypes, NoEntryCovered DEF Init, NoEntries, AttemptsOK, LocksCover
<1>2. RequestOK
  BY IdleTypes DEF Init, RequestOK, At
<1>3. AccountOK
  BY DEF Init, AccountInit, NoSessions, AccountOK
<1>4. TokensOK
  BY DEF Init, ResetInit, NoTokens, TokensOK
<1> QED
  BY <1>1, <1>2, <1>3, <1>4 DEF LimiterInv

LEMMA LimiterInvStep == LimiterInv /\ [Next]_vars => LimiterInv'
BY EntryStep, EntryTypes, LocksCoverStep, RequestStep, AccountStep, TokensStep DEF LimiterInv

\* The inductive invariant holds: above all, a full entry stays locked until
\* its window is over, and only the newest token is pending.
THEOREM LimiterInvAlways == Spec => []LimiterInv
BY LimiterInvInit, LimiterInvStep, PTL DEF Spec

\* Every variable of Access always has its type.
THEOREM AccessTypes == Spec => []TypeOK
<1>1. LimiterInv => TypeOK
  <2> SUFFICES ASSUME LimiterInv PROVE TypeOK
    OBVIOUS
  <2>1. DOMAIN tokens \subseteq 1 .. issued
    BY DEF LimiterInv, TokensOK
  <2> QED
    BY <2>1 DEF LimiterInv, AttemptsOK, RequestOK, AccountOK, TokensOK, TypeOK
<1> QED
  BY <1>1, LimiterInvAlways, PTL

\* An entry with MaxAttempts failures is locked or its window is over: the last
\* test of Allow never decides (ratelimit.go:57).
THEOREM FullMeansLockedAlways == Spec => []FullMeansLocked
<1>1. LimiterInv => FullMeansLocked
  <2> SUFFICES ASSUME LimiterInv, NEW ip \in IPs, Full(attempts[ip])
               PROVE  Locked(attempts[ip]) \/ OutOfWindow(attempts[ip])
    BY DEF FullMeansLocked
  <2>1. attempts[ip].lock \in Nat /\ attempts[ip].age \in Nat
    BY LimiterAssumption DEF LimiterInv, AttemptsOK, Entries
  <2>2. attempts[ip].lock + attempts[ip].age > Window
    BY DEF LimiterInv, LocksCover, LockCovers
  <2> QED
    BY <2>1, <2>2, LimiterAssumption DEF Locked, OutOfWindow
<1> QED
  BY <1>1, LimiterInvAlways, PTL

----------------------------------------------------------------------------
(* What a step may not do.                                                 *)

\* A lock is shortened only by a tick, a restart, or a request of the same
\* address that was let in before (ratelimit.go:50-58, 95).
THEOREM LockKeptAlways == Spec => LockKept
<1>1. ASSUME LimiterInv, [Next]_vars, NEW ip \in IPs, Locked(attempts[ip]),
             \A r \in Requests : request[r].ip # ip
      PROVE  attempts'[ip] = attempts[ip] \/ Tick \/ Restart
  <2>1. DOMAIN attempts = IPs
    BY <1>1 DEF LimiterInv, AttemptsOK
  <2>2. CASE UNCHANGED attempts
    BY <2>2
  <2>3. CASE \E q \in IPs : Allow(q)
    BY <1>1, <2>1, <2>3 DEF Allow
  <2>4. CASE \E r \in Requests : Reset(request[r].ip) \/ RecordFailure(request[r].ip)
    BY <1>1, <2>1, <2>4 DEF Reset, RecordFailure
  <2>5. CASE Cleanup
    BY <1>1, <2>5 DEF Cleanup, CanDrop
  <2>6. \/ UNCHANGED attempts \/ \E q \in IPs : Allow(q)
        \/ \E r \in Requests : Reset(request[r].ip) \/ RecordFailure(request[r].ip)
        \/ Cleanup \/ Tick \/ Restart
    BY <1>1 DEF Next, Serve, Login, Change, ResetByMail, SetupStep, BeginLogin, RefuseLogin,
       Refuse, Compare, Open, ClearFailures, CountFailure, BeginChange, CheckCurrent,
       ChangePassword, UseToken, RejectPassword, ResetPassword, EndSessions,
       BeginSetup, BeginSetupUnread, SetupPassword, FinishSetup, Logout, ResetSetup,
       ManageTokens,
       Prune, CleanupAttempts, vars
  <2> QED
    BY <2>2, <2>3, <2>4, <2>5, <2>6
<1>2. LimiterInv /\ [Next]_vars =>
        [\A ip \in IPs :
           Locked(attempts[ip]) /\ (\A r \in Requests : request[r].ip # ip) =>
              \/ attempts'[ip] = attempts[ip]
              \/ Tick \/ Restart]_vars
  BY <1>1
<1> QED
  BY <1>2, LimiterInvAlways, PTL DEF Spec, LockKept

\* Only the newest token, verified, lets a request set a password, and it is
\* used up with that (reset.go:48, 98-111).
THEOREM ResetSpendsNewestAlways == Spec => ResetSpendsNewest
<1>1. ASSUME LimiterInv, [Next]_vars, NEW r \in Requests,
             request[r].pc = "idle", request'[r].pc = "set"
      PROVE  /\ issued \in DOMAIN tokens /\ tokens[issued].verified
             /\ DOMAIN tokens' = {}
  <2> DEFINE Goal == /\ issued \in DOMAIN tokens /\ tokens[issued].verified
                     /\ DOMAIN tokens' = {}
  <2>1. request \in [Requests -> RequestStates]
    BY <1>1 DEF LimiterInv, RequestOK
  <2>2. CASE UNCHANGED request
    BY <1>1, <2>2
  <2>3. ASSUME NEW q \in Requests, NEW t \in TokenIds, UseToken(q, t)
        PROVE  Goal
    <3>1. CASE Usable(t)
      <4>1. t = issued /\ t \in DOMAIN tokens
        BY <1>1, <2>3 DEF UseToken, ConsumeResetToken, LimiterInv, TokensOK
      <4>2. tokens' = [u \in DOMAIN tokens \ {t} |-> tokens[u]]
        BY <2>3 DEF UseToken, ConsumeResetToken, Remove
      <4>3. DOMAIN tokens \ {t} = {}
        BY <1>1, <4>1 DEF LimiterInv, TokensOK
      <4> QED
        BY <3>1, <4>1, <4>2, <4>3 DEF Usable
    <3>2. CASE ~Usable(t)
      BY <1>1, <2>3, <3>2 DEF UseToken
    <3> QED
      BY <3>1, <3>2
  <2>4. CASE \E q \in Requests : Return(q)
    BY <1>1, <2>1, <2>4, IdleTypes DEF Return
  <2>5. CASE \E q \in Requests, pc \in Places \ {"set"} : Goto(q, pc)
    <3>1. PICK q \in Requests, pc \in Places \ {"set"} : Goto(q, pc)
      BY <2>5
    <3>2. request'[r] = IF r = q THEN [request[r] EXCEPT !.pc = pc] ELSE request[r]
      BY <2>1, <3>1 DEF Goto
    <3>3. request[r] \in RequestStates
      BY <2>1
    <3> QED
      BY <1>1, <3>1, <3>2, <3>3 DEF RequestStates
  <2>6. CASE request' = [q \in Requests |-> Idle]
    BY <1>1, <2>6, IdleTypes
  <2>7. CASE \E q \in Requests, ip \in IPs : BeginLogin(q, ip)
    BY <1>1, <2>1, <2>7 DEF BeginLogin, Idle
  <2>8. ASSUME NEW q \in Requests, Compare(q)
        PROVE  Goal
    <3>1. CASE Goto(q, "failed")
      BY <2>5, <3>1 DEF Places
    <3>2. CASE request' = [request EXCEPT ![q].pc = "open", ![q].with = password]
      BY <1>1, <2>1, <3>2 DEF RequestStates
    <3> QED
      BY <2>8, <3>1, <3>2 DEF Compare
  <2>9. \/ UNCHANGED request \/ \E q \in Requests, t \in TokenIds : UseToken(q, t)
        \/ \E q \in Requests : Return(q)
        \/ \E q \in Requests, pc \in Places \ {"set"} : Goto(q, pc)
        \/ request' = [q \in Requests |-> Idle]
        \/ \E q \in Requests, ip \in IPs : BeginLogin(q, ip)
        \/ \E q \in Requests : Compare(q)
    <3>1. /\ "clear" \in Places \ {"set"} /\ "failed" \in Places \ {"set"}
          /\ "current" \in Places \ {"set"} /\ "change" \in Places \ {"set"}
          /\ "sweep" \in Places \ {"set"} /\ "setup" \in Places \ {"set"}
      BY DEF Places
    <3> QED
      BY <1>1, <3>1 DEF Next, Serve, Login, Change, ResetByMail, SetupStep, RefuseLogin, Open,
         ClearFailures, CountFailure, BeginChange, CheckCurrent, ChangePassword,
         RejectPassword, ResetPassword, EndSessions, BeginSetup, BeginSetupUnread,
         SetupPassword, FinishSetup,
         Logout, ResetSetup, ManageTokens, Prune, CleanupAttempts, Tick, Restart, vars
  <2> QED
    BY <2>2, <2>3, <2>4, <2>5, <2>6, <2>7, <2>8, <2>9
<1>2. LimiterInv /\ [Next]_vars =>
        [\A r \in Requests : request[r].pc = "idle" /\ request'[r].pc = "set" =>
           /\ issued \in DOMAIN tokens /\ tokens[issued].verified
           /\ DOMAIN tokens' = {}]_vars
  BY <1>1
<1> QED
  BY <1>2, LimiterInvAlways, PTL DEF Spec, ResetSpendsNewest

----------------------------------------------------------------------------
(* The sessions that a reset leaves.                                       *)

\* A row is not known to be one of an old password, or it is known to outlive it.
RowFine(s) ==
    Exists(s) => sessions[s].with = password \/ sessions[s].outlived

LEMMA OutliveFine ==
    ASSUME AccountOK, NEW p, Outlive(p), password' = p
    PROVE  \A s \in SessionIds : RowFine(s)'
<1> SUFFICES ASSUME NEW s \in SessionIds PROVE RowFine(s)'
  OBVIOUS
<1>1. CASE Exists(s) /\ sessions[s].with # p
  <2>1. sessions'[s] = [sessions[s] EXCEPT !.outlived = TRUE] /\ sessions[s] \in SessionRows
    BY <1>1 DEF AccountOK, Outlive, Exists
  <2> QED
    BY <2>1 DEF RowFine, SessionRows
<1>2. CASE ~(Exists(s) /\ sessions[s].with # p)
  <2>1. sessions'[s] = sessions[s]
    BY <1>2 DEF Outlive
  <2> QED
    BY <1>2, <2>1 DEF RowFine, Exists
<1> QED
  BY <1>1, <1>2

\* Except for the write of a reset, no step turns a fine row into another.
LEMMA RowsStayFine ==
    ASSUME RequestOK, AccountOK, [Next]_vars, NEW s \in SessionIds, RowFine(s)
    PROVE  RowFine(s)' \/ \E r \in Requests : ResetPassword(r)
<1> USE DEF RowFine, Exists
<1>1. CASE sessions'[s] \in {sessions[s], NoSession} /\ password' = password
  BY <1>1
<1>2. CASE \E p : Outlive(p) /\ password' = p
  BY <1>2, OutliveFine
<1>3. ASSUME NEW r \in Requests, Open(r)
      PROVE  RowFine(s)'
  <2>1. CASE UNCHANGED sessions
    BY <1>3, <2>1 DEF Open
  <2>2. ASSUME NEW q \in SessionIds, NEW life \in Lives,
               OpenSession(q, life, request[r].with)
        PROVE  RowFine(s)'
    <3>1. sessions'[s] = IF s = q
             THEN Row(life, request[r].with, request[r].with # password) ELSE sessions[s]
      BY <2>2 DEF OpenSession, AccountOK
    <3>2. UNCHANGED password
      BY <1>3 DEF Open
    <3>3. CASE s # q
      BY <3>1, <3>2, <3>3
    <3>4. CASE s = q
      <4>1. /\ sessions'[s].with = request[r].with
            /\ sessions'[s].outlived = (request[r].with # password)
        BY <3>1, <3>4 DEF Row
      <4> QED
        BY <3>2, <4>1
    <3> QED
      BY <3>3, <3>4
  <2> QED
    BY <1>3, <2>1, <2>2 DEF Open
<1>4. CASE Tick
  <2>1. UNCHANGED password
    BY <1>4 DEF Tick
  <2>2. sessions'[s] = sessions[s] \/ (Exists(s) /\ sessions'[s] = [sessions[s] EXCEPT !.left = @ - 1])
    BY <1>4 DEF Tick, SessionsTick
  <2>3. Exists(s) => sessions[s] \in SessionRows
    BY DEF AccountOK
  <2> QED
    BY <2>1, <2>2, <2>3 DEF SessionRows
<1>5. CASE Logout \/ ResetSetup \/ Prune
  <2>1. sessions'[s] \in {sessions[s], NoSession} /\ password' = password
    BY <1>5 DEF AccountOK, Logout, ResetSetup, Prune, DeleteSession, PruneExpiredSessions
  <2> QED
    BY <1>1, <2>1
<1>6. CASE \E r \in Requests : ChangePassword(r) \/ SetupPassword(r)
  BY <1>1, <1>2, <1>6 DEF ChangePassword, SetupPassword, SetPassword
<1>7. ASSUME NEW r \in Requests, EndSessions(r)
      PROVE  RowFine(s)'
  <2>1. CASE Outlive(password)
    <3>1. password' = password
      BY <1>7 DEF EndSessions
    <3> QED
      BY <2>1, <3>1, OutliveFine
  <2>2. CASE sessions' = NoSessions
    BY <2>2 DEF NoSessions
  <2> QED
    BY <1>7, <2>1, <2>2 DEF EndSessions
<1>8. CASE Restart
  BY <1>2, <1>8 DEF Restart
<1>9. \/ UNCHANGED <<sessions, password>>
      \/ \E r \in Requests :
            \/ Open(r) \/ ChangePassword(r) \/ SetupPassword(r)
            \/ ResetPassword(r) \/ EndSessions(r)
      \/ Logout \/ ResetSetup \/ Prune \/ Tick \/ Restart
  BY DEF Next, Serve, Login, Change, ResetByMail, SetupStep, BeginLogin, RefuseLogin,
         Compare, ClearFailures, CountFailure, BeginChange, CheckCurrent, UseToken,
         FinishSetup, RejectPassword, BeginSetup, BeginSetupUnread, ManageTokens,
         CleanupAttempts,
         vars, accountVars
<1> QED
  BY <1>1, <1>3, <1>4, <1>5, <1>6, <1>7, <1>8, <1>9

\* A request leaves the gap between the two statements of a reset only with
\* the second one, or when the process ends.
LEMMA SweepStays ==
    ASSUME RequestOK, [Next]_vars, NEW r \in Requests, At(r, "sweep"),
           ~EndSessions(r), ~Restart
    PROVE  At(r, "sweep")'
<1> USE DEF At
<1>1. CASE UNCHANGED request
  BY <1>1
<1>2. CASE \E q \in Requests \ {r} : Return(q)
  BY <1>2 DEF RequestOK, Return
<1>3. CASE \E q \in Requests \ {r}, pc \in Places : Goto(q, pc)
  BY <1>3 DEF RequestOK, Goto
<1>4. CASE \E q \in Requests \ {r}, ip \in IPs : BeginLogin(q, ip)
  BY <1>4 DEF RequestOK, BeginLogin
<1>5. CASE \E q \in Requests \ {r} : Compare(q)
  BY <1>5 DEF RequestOK, Compare, Goto
<1>6. \/ UNCHANGED request
      \/ \E q \in Requests \ {r} : Return(q)
      \/ \E q \in Requests \ {r}, pc \in Places : Goto(q, pc)
      \/ \E q \in Requests \ {r}, ip \in IPs : BeginLogin(q, ip)
      \/ \E q \in Requests \ {r} : Compare(q)
  <2>1. /\ "clear" \in Places /\ "failed" \in Places /\ "current" \in Places
        /\ "change" \in Places /\ "set" \in Places /\ "sweep" \in Places
        /\ "setup" \in Places
    BY DEF Places
  <2> QED
    BY <2>1 DEF Next, Serve, Login, Change, ResetByMail, SetupStep, BeginLogin, RefuseLogin,
       Compare, Open, ClearFailures, CountFailure, BeginChange, CheckCurrent, ChangePassword,
       UseToken, RejectPassword, ResetPassword, EndSessions, BeginSetup, BeginSetupUnread,
       SetupPassword,
       FinishSetup, Logout, ResetSetup, ManageTokens, Prune, CleanupAttempts, Tick, vars
<1> QED
  BY <1>1, <1>2, <1>3, <1>4, <1>5, <1>6

\* Whatever logins, changes of password and restarts come between its
\* statements, a reset that succeeds leaves no session with an old password
\* but those whose login had read the old hash (reset.go:106-109).
THEOREM OldPasswordClosedAlways == Spec => []OldPasswordClosed
<1>1. Init => OldPasswordClosed
  BY DEF Init, AccountInit, NoSessions, Exists, OldPasswordClosed
<1>2. ASSUME LimiterInv, OldPasswordClosed, [Next]_vars
      PROVE  OldPasswordClosed'
  <2> USE DEF LimiterInv
  <2>1. CASE \E r \in Requests : ResetPassword(r)
    <3>1. PICK r \in Requests : ResetPassword(r)
      BY <2>1
    <3>2. At(r, "sweep")'
      BY <1>2, <3>1 DEF ResetPassword, Goto, At, RequestOK, RequestStates
    <3> QED
      BY <3>2 DEF OldPasswordClosed
  <2>2. CASE \E r \in Requests : EndSessions(r)
    BY <1>2, <2>2, OutliveFine DEF EndSessions, NoSessions, OldPasswordClosed, RowFine, Exists
  <2>3. CASE Restart
    BY <1>2, <2>3, OutliveFine DEF Restart, OldPasswordClosed, RowFine
  <2>4. CASE /\ \A r \in Requests : ~ResetPassword(r) /\ ~EndSessions(r)
             /\ ~Restart
    <3>1. CASE \E r \in Requests : At(r, "sweep")
      BY <1>2, <2>4, <3>1, SweepStays DEF OldPasswordClosed
    <3>2. CASE \A s \in SessionIds : RowFine(s)
      BY <1>2, <2>4, <3>2, RowsStayFine DEF OldPasswordClosed, RowFine
    <3> QED
      BY <1>2, <3>1, <3>2 DEF OldPasswordClosed, RowFine
  <2> QED
    BY <2>1, <2>2, <2>3, <2>4
<1> QED
  BY <1>1, <1>2, LimiterInvAlways, PTL DEF Spec

----------------------------------------------------------------------------
(* How many failures an address can have.                                  *)

LEMMA UndecidedStep ==
    ASSUME RequestOK, [Next]_vars, NEW ip \in IPs,
           \A r \in Requests : ~BeginLogin(r, ip)
    PROVE  Undecided(ip)' \subseteq Undecided(ip)
<1> USE AccessAssumption DEF Undecided, At
<1> DEFINE Leaves(r, pc) == request[r].pc # "clear" /\ Goto(r, pc)
<1>1. CASE UNCHANGED request
  BY <1>1
<1>2. CASE \E r \in Requests : Return(r)
  BY <1>2 DEF RequestOK, Return, Idle
<1>3. CASE \E r \in Requests, pc \in Places : Leaves(r, pc)
  <2>1. PICK r \in Requests, pc \in Places : Leaves(r, pc)
    BY <1>3
  <2>2. \A q \in Requests : request'[q].ip = request[q].ip
    BY <2>1 DEF RequestOK, RequestStates, Goto
  <2>3. \A q \in Requests \ {r} : request'[q] = request[q]
    BY <2>1 DEF RequestOK, Goto
  <2> QED
    BY <2>1, <2>2, <2>3
<1>4. ASSUME NEW r \in Requests, NEW q \in IPs, BeginLogin(r, q), q # ip
      PROVE  Undecided(ip)' \subseteq Undecided(ip)
  <2>1. \A p \in Requests \ {r} : request'[p] = request[p]
    BY <1>4 DEF RequestOK, BeginLogin
  <2>2. request'[r].ip = q
    BY <1>4 DEF RequestOK, BeginLogin, Idle
  <2> QED
    BY <1>4, <2>1, <2>2
<1>5. ASSUME NEW r \in Requests, Compare(r)
      PROVE  Undecided(ip)' \subseteq Undecided(ip)
  <2>1. \A q \in Requests \ {r} : request'[q] = request[q]
    BY <1>5 DEF RequestOK, Compare, Goto
  <2>2. request'[r].ip = request[r].ip
    BY <1>5 DEF RequestOK, RequestStates, Compare, Goto
  <2>3. request[r].pc = "compare"
    BY <1>5 DEF Compare
  <2> QED
    BY <2>1, <2>2, <2>3
<1>6. CASE request' = [r \in Requests |-> Idle]
  BY <1>6 DEF Idle
<1>7. \/ UNCHANGED request
      \/ \E r \in Requests : Return(r)
      \/ \E r \in Requests, pc \in Places : Leaves(r, pc)
      \/ \E r \in Requests, q \in IPs : BeginLogin(r, q)
      \/ \E r \in Requests : Compare(r)
      \/ request' = [r \in Requests |-> Idle]
  <2>1. /\ "clear" \in Places /\ "failed" \in Places /\ "current" \in Places
        /\ "change" \in Places /\ "set" \in Places /\ "sweep" \in Places
        /\ "setup" \in Places
    BY DEF Places
  <2> QED
    BY <2>1 DEF Next, Serve, Login, Change, ResetByMail, SetupStep, RefuseLogin,
       Open, ClearFailures, CountFailure, BeginChange, CheckCurrent, ChangePassword,
       UseToken, RejectPassword, ResetPassword, EndSessions, BeginSetup, BeginSetupUnread,
       SetupPassword,
       FinishSetup, Logout, ResetSetup, ManageTokens, Prune, CleanupAttempts, Tick, Restart,
       vars
<1> QED
  BY <1>1, <1>2, <1>3, <1>4, <1>5, <1>6, <1>7

LEMMA CountStep ==
    ASSUME AttemptsOK, [Next]_vars, NEW ip \in IPs,
           \A r \in Requests : CountFailure(r) => request[r].ip # ip
    PROVE  attempts'[ip].count <= attempts[ip].count
<1>1. attempts[ip] \in Entries /\ attempts[ip].count \in Nat
  BY DEF AttemptsOK, Entries
<1>2. NoEntry.count = 0
  BY DEF NoEntry
<1>3. Older(attempts[ip]).count = attempts[ip].count
  BY <1>1 DEF Older, Entries
<1>4. attempts'[ip] \in {attempts[ip], NoEntry, Older(attempts[ip])}
  <2> USE DEF AttemptsOK
  <2>1. CASE UNCHANGED attempts
    BY <2>1
  <2>2. CASE \E q \in IPs : Allow(q)
    BY <2>2 DEF Allow
  <2>3. CASE \E q : Reset(q)
    BY <2>3 DEF Reset
  <2>4. CASE \E r \in Requests : CountFailure(r)
    BY <2>4 DEF CountFailure, RecordFailure
  <2>5. CASE Cleanup
    BY <2>5 DEF Cleanup
  <2>6. CASE LimiterTick
    BY <2>6 DEF LimiterTick
  <2>7. CASE attempts' = NoEntries
    BY <2>7 DEF NoEntries
  <2>8. \/ UNCHANGED attempts \/ \E q \in IPs : Allow(q)
        \/ \E q : Reset(q)
        \/ \E r \in Requests : CountFailure(r)
        \/ Cleanup \/ LimiterTick \/ attempts' = NoEntries
    BY DEF Next, Serve, Login, Change, ResetByMail, SetupStep, BeginLogin, RefuseLogin,
         Refuse, Compare, Open, ClearFailures, BeginChange, CheckCurrent,
         ChangePassword, UseToken, RejectPassword, ResetPassword, EndSessions,
         BeginSetup, BeginSetupUnread, SetupPassword, FinishSetup, Logout, ResetSetup,
         ManageTokens,
         Prune, CleanupAttempts, Tick, Restart, vars
  <2> QED
    BY <2>1, <2>2, <2>3, <2>4, <2>5, <2>6, <2>7, <2>8
<1> QED
  BY <1>1, <1>2, <1>3, <1>4

LEMMA UndecidedFinite ==
    ASSUME NEW ip
    PROVE  /\ IsFiniteSet(Undecided(ip)) /\ Cardinality(Undecided(ip)) \in Nat
           /\ Cardinality(Requests) \in Nat
           /\ Cardinality(Undecided(ip)) <= Cardinality(Requests)
<1>1. Undecided(ip) \subseteq Requests
  BY DEF Undecided
<1>2. IsFiniteSet(Undecided(ip)) /\ Cardinality(Undecided(ip)) <= Cardinality(Requests)
  BY <1>1, AccessAssumption, FS_Subset
<1> QED
  BY <1>2, AccessAssumption, FS_CardinalityType

Bounded(ip) ==
    attempts[ip].count + Cardinality(Undecided(ip)) < MaxAttempts + Cardinality(Requests)

LEMMA BoundedStep ==
    ASSUME LimiterInv, [Next]_vars, NEW ip \in IPs, Bounded(ip)
    PROVE  Bounded(ip)'
<1> DEFINE before == Undecided(ip)
           after  == Undecided(ip)'
<1> USE DEF LimiterInv
<1>1. /\ IsFiniteSet(before) /\ Cardinality(before) \in Nat
      /\ Cardinality(Requests) \in Nat /\ Cardinality(before) <= Cardinality(Requests)
  BY UndecidedFinite
<1>2. after \subseteq Requests
  BY DEF Undecided
<1>3. /\ IsFiniteSet(after) /\ Cardinality(after) \in Nat
      /\ Cardinality(after) <= Cardinality(Requests)
  BY <1>2, AccessAssumption, FS_Subset, FS_CardinalityType
<1>4. attempts[ip].count \in Nat
  BY DEF AttemptsOK, Entries
<1>5. AttemptsOK'
  BY EntryStep, EntryTypes
<1>6. attempts'[ip].count \in Nat
  BY <1>5 DEF AttemptsOK, Entries
<1>7. Bounded(ip)' <=> attempts'[ip].count + Cardinality(after)
                          < MaxAttempts + Cardinality(Requests)
  BY DEF Bounded
<1>8. attempts[ip].count + Cardinality(before) < MaxAttempts + Cardinality(Requests)
  BY DEF Bounded
<1>9. MaxAttempts \in Nat /\ MaxAttempts > 1
  BY LimiterAssumption
<1>10. ASSUME NEW r \in Requests, BeginLogin(r, ip)
       PROVE  Bounded(ip)'
  <2>1. attempts'[ip].count < MaxAttempts
    <3>1. CASE attempts' = [attempts EXCEPT ![ip] = NoEntry]
      BY <1>9, <3>1 DEF AttemptsOK, NoEntry
    <3>2. CASE ~Full(attempts[ip]) /\ UNCHANGED attempts
      BY <1>4, <1>9, <3>2 DEF Full
    <3> QED
      BY <1>10, <3>1, <3>2 DEF BeginLogin, Allow
  <2> QED
    BY <1>1, <1>3, <1>6, <1>7, <1>9, <2>1
<1>11. ASSUME NEW r \in Requests, CountFailure(r), request[r].ip = ip
       PROVE  Bounded(ip)'
  <2>1. r \in before
    BY <1>11 DEF CountFailure, At, Undecided
  <2>2. r \notin after
    BY <1>11, AccessAssumption DEF CountFailure, Return, RequestOK, Idle, Undecided
  <2>3. after \subseteq before
    <3>1. \A q \in Requests : ~BeginLogin(q, ip)
      BY <1>11 DEF CountFailure, BeginLogin, Return, RequestOK, At, Idle
    <3> QED
      BY <3>1, UndecidedStep
  <2>4. IsFiniteSet(before \ {r}) /\ Cardinality(before \ {r}) = Cardinality(before) - 1
    BY <1>1, <2>1, FS_RemoveElement
  <2>5. Cardinality(after) <= Cardinality(before) - 1
    <3>1. after \subseteq before \ {r}
      BY <2>2, <2>3
    <3>2. Cardinality(after) <= Cardinality(before \ {r})
      BY <2>4, <3>1, FS_Subset
    <3> QED
      BY <2>4, <3>2
  <2>6. attempts'[ip] = AfterFailure(attempts[ip])
    BY <1>11 DEF CountFailure, RecordFailure, AttemptsOK
  <2>7. AfterFailure(attempts[ip]).count \in {1, attempts[ip].count + 1}
    <3>1. attempts[ip] \in Entries
      BY DEF AttemptsOK
    <3> DEFINE more == [attempts[ip] EXCEPT !.count = @ + 1]
    <3>2. /\ more.count = attempts[ip].count + 1
          /\ [more EXCEPT !.lock = LockFor].count = more.count
      BY <3>1 DEF Entries
    <3> QED
      BY <3>2 DEF AfterFailure
  <2> HIDE DEF before, after
  <2> QED
    BY <1>1, <1>3, <1>4, <1>7, <1>8, <1>9, <2>5, <2>6, <2>7
<1>12. CASE /\ \A r \in Requests : ~BeginLogin(r, ip)
            /\ \A r \in Requests : CountFailure(r) => request[r].ip # ip
  <2>1. after \subseteq before
    BY <1>12, UndecidedStep
  <2>2. Cardinality(after) <= Cardinality(before)
    BY <1>1, <2>1, FS_Subset
  <2>3. attempts'[ip].count <= attempts[ip].count
    BY <1>12, CountStep
  <2> HIDE DEF before, after
  <2> QED
    BY <1>1, <1>3, <1>4, <1>6, <1>7, <1>8, <1>9, <2>2, <2>3
<1> QED
  BY <1>10, <1>11, <1>12

\* However many requests overlap, an address has fewer than MaxAttempts failures
\* more than there are requests: Allow and RecordFailure are separate critical
\* sections (handler.go:352-363).
THEOREM FailuresBoundedAlways == Spec => []FailuresBounded
<1>1. FailuresBounded <=> \A ip \in IPs : Bounded(ip)
  BY DEF FailuresBounded, Bounded
<1>2. ASSUME Init
      PROVE  FailuresBounded
  <2>1. \A ip \in IPs : Undecided(ip) = {}
    BY <1>2, AccessAssumption DEF Init, Undecided, Idle
  <2>2. \A ip \in IPs : attempts[ip].count = 0
    BY <1>2 DEF Init, NoEntries, NoEntry
  <2>3. Cardinality(Requests) \in Nat /\ Cardinality({}) = 0
    BY AccessAssumption, FS_CardinalityType, FS_EmptySet
  <2>4. ASSUME NEW ip \in IPs
        PROVE  Bounded(ip)
    <3>1. Cardinality(Undecided(ip)) = 0 /\ attempts[ip].count = 0
      BY <2>1, <2>2, <2>3
    <3> QED
      BY <2>3, <3>1, LimiterAssumption DEF Bounded
  <2> QED
    BY <1>1, <2>4
<1>3. ASSUME LimiterInv, FailuresBounded, [Next]_vars
      PROVE  FailuresBounded'
  BY <1>1, <1>3, BoundedStep DEF FailuresBounded, Bounded
<1> QED
  BY <1>2, <1>3, LimiterInvAlways, PTL DEF Spec
=============================================================================
