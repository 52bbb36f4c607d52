---------------------------- MODULE RateLimiter ----------------------------
(***************************************************************************)
(* The login rate limiter of internal/auth/ratelimit.go: a map, in memory, *)
(* from IP addresses to failed attempts, each method under one mutex.      *)
(*                                                                         *)
(* Time is counted in ticks.  An entry holds the time since firstSeen      *)
(* (counted no further than Window + 1, past which all are alike) and the  *)
(* time left until lockedUntil.  NoEntry stands for an IP not in the map.  *)
(***************************************************************************)
EXTENDS Integers

CONSTANTS
    IPs,
    MaxAttempts,        \* 5 in the program
    Window,             \* 10 minutes
    LockFor             \* 15 minutes

ASSUME LimiterAssumption ==
    /\ MaxAttempts \in Nat /\ MaxAttempts > 1
    /\ Window \in Nat /\ LockFor \in Nat /\ LockFor > Window

VARIABLE attempts       \* the entry of each IP

NoEntry == [count |-> 0, age |-> 0, lock |-> 0]

NoEntries == [ip \in IPs |-> NoEntry]

OutOfWindow(a) == a.age > Window

\* Mutant: one failure more is allowed.
FullOneLate(a) == a.count > MaxAttempts

Full(a) == a.count >= MaxAttempts

\* The lock is tested before the window.
Locked(a) == a.lock > 0

\* Mutant: the window is tested before the lock.
AllowWindowFirst(ip) ==
    \/ OutOfWindow(attempts[ip]) /\ attempts' = [attempts EXCEPT ![ip] = NoEntry]
    \/ /\ ~OutOfWindow(attempts[ip]) /\ ~Locked(attempts[ip]) /\ ~Full(attempts[ip])
       /\ UNCHANGED attempts

\* Allow returns true.  It drops an entry whose window is over.
Allow(ip) ==
    /\ ~Locked(attempts[ip])
    /\ \/ OutOfWindow(attempts[ip]) /\ attempts' = [attempts EXCEPT ![ip] = NoEntry]
       \/ /\ ~OutOfWindow(attempts[ip]) /\ ~Full(attempts[ip])
          /\ UNCHANGED attempts

\* Mutant: the count is tested before it is raised.
AfterFailureTestedFirst(a) ==
    IF a = NoEntry \/ OutOfWindow(a) THEN [count |-> 1, age |-> 0, lock |-> 0]
    ELSE [a EXCEPT !.count = @ + 1, !.lock = IF Full(a) THEN LockFor ELSE @]

\* Mutant: each failure beyond adds to the time that is left of the lock.
AfterFailureLockAdded(a) ==
    LET more == [a EXCEPT !.count = @ + 1] IN
    IF a = NoEntry \/ OutOfWindow(a) THEN [count |-> 1, age |-> 0, lock |-> 0]
    ELSE IF Full(more) THEN [more EXCEPT !.lock = @ + LockFor]
    ELSE more

\* The entry after one more failure: the first of a window lifts a lock that
\* is left from the window before.
AfterFailure(a) ==
    LET more == [a EXCEPT !.count = @ + 1] IN
    IF a = NoEntry \/ OutOfWindow(a) THEN [count |-> 1, age |-> 0, lock |-> 0]
    ELSE IF Full(more) THEN [more EXCEPT !.lock = LockFor]
    ELSE more

RecordFailure(ip) == attempts' = [attempts EXCEPT ![ip] = AfterFailure(@)]

\* Mutant: a request that meets the lock starts it anew.
RefuseAndExtend(ip) ==
    /\ \/ Locked(attempts[ip])
       \/ ~OutOfWindow(attempts[ip]) /\ Full(attempts[ip])
    /\ attempts' = [attempts EXCEPT ![ip].lock = LockFor]

\* Allow returns false.
Refuse(ip) ==
    /\ \/ Locked(attempts[ip])
       \/ ~OutOfWindow(attempts[ip]) /\ Full(attempts[ip])
    /\ UNCHANGED attempts

Reset(ip) == attempts' = [attempts EXCEPT ![ip] = NoEntry]

\* The goroutine that removes what no longer counts, every 30 minutes.
CanDrop(a) == OutOfWindow(a) /\ ~Locked(a)

Cleanup ==
    attempts' = [ip \in IPs |-> IF CanDrop(attempts[ip]) THEN NoEntry ELSE attempts[ip]]

\* One tick of the clock, seen by an entry.
Older(a) ==
    IF a = NoEntry THEN a
    ELSE [a EXCEPT !.age = IF OutOfWindow(a) THEN @ ELSE @ + 1,
                   !.lock = IF Locked(a) THEN @ - 1 ELSE @]

LimiterTick == attempts' = [ip \in IPs |-> Older(attempts[ip])]
=============================================================================
