------------------------------ MODULE PollLoop ------------------------------
(***************************************************************************)
(* The background poller (internal/imap/poller.go:377-419): it loads the   *)
(* configuration with one SELECT and the security policy with one SELECT   *)
(* for each key, runs, and waits - for the poll interval after a success,  *)
(* for a time that doubles after each failure.  The run itself, from the   *)
(* dial on, is the module Poller; here it succeeds, fails or panics.       *)
(***************************************************************************)
EXTENDS Settings

CONSTANTS
    BaseBackoff,        \* 30 seconds in the program
    MaxBackoff          \* 30 minutes

ASSUME BackoffAssumption ==
    BaseBackoff \in Nat /\ BaseBackoff > 0 /\ MaxBackoff \in Nat
    /\ MaxBackoff >= BaseBackoff

VARIABLE loop           \* the local state of the polling goroutine

\* "failures" is history: how many runs in a row failed, counted up to a number
\* at which the waiting time has long stopped growing.
StartLoop ==
    [pc |-> "config", next |-> 1, policy |-> DefaultPolicy,
     backoff |-> BaseBackoff, failures |-> 0]

LoopInit == loop = StartLoop

LoopAt(pc) == loop.pc = pc

\* Which dialler Poll takes.
DialMode ==
    IF settings["tls"] = TRUE THEN "tls"
    ELSE IF settings["starttls"] = TRUE THEN "starttls" ELSE "plain"

Configured == settings["host"] # Blank /\ settings["user"] # Blank

OneOf(choices, default, value) == IF value \in choices THEN value ELSE default

\* Mutant: every number that is stored is a limit.
TakeAnyNumber(policy, key, value) ==
    IF value = Blank THEN policy
    ELSE CASE key = "mode" -> [policy EXCEPT !.mode = value]
           [] key = "require_token" -> [policy EXCEPT !.tokenRequired = value]
           [] key = "token_location" -> [policy EXCEPT !.tokenLocation = value]
           [] key = "tokens" -> [policy EXCEPT !.tokens = value]
           [] key = "max_email_mb" -> [policy EXCEPT !.maxSize = value]
           [] key = "max_attachments" -> [policy EXCEPT !.maxAttachments = value]
           [] key = "max_attach_mb" -> [policy EXCEPT !.maxAttachSize = value]

\* The policy after one more key is read: LoadPolicy ignores a blank value,
\* an unknown choice and a number that is not positive.
Take(policy, key, value) ==
    IF value = Blank THEN policy
    ELSE CASE key = "mode" -> [policy EXCEPT !.mode = OneOf(Modes, @, value)]
           [] key = "require_token" -> [policy EXCEPT !.tokenRequired = value]
           [] key = "token_location" ->
                 [policy EXCEPT !.tokenLocation = OneOf(TokenLocations, @, value)]
           [] key = "tokens" -> [policy EXCEPT !.tokens = value]
           [] key = "max_email_mb" -> [policy EXCEPT !.maxSize = PositiveOr(@, value)]
           [] key = "max_attachments" ->
                 [policy EXCEPT !.maxAttachments = PositiveOr(@, value)]
           [] key = "max_attach_mb" ->
                 [policy EXCEPT !.maxAttachSize = PositiveOr(@, value)]

\* Mutant: the goroutine returns when a run fails.
BackoffOver ==
    loop' = [loop EXCEPT !.pc = "over", !.next = 1, !.policy = DefaultPolicy]

\* A run that failed: wait, and wait twice as long the next time.
Backoff ==
    loop' = [loop EXCEPT
               !.pc = "backoff", !.next = 1, !.policy = DefaultPolicy,
               !.failures = IF @ < MaxBackoff THEN @ + 1 ELSE @]

LoadConfig ==
    /\ LoopAt("config")
    /\ IF Configured THEN loop' = [loop EXCEPT !.pc = "policy"] ELSE Backoff

\* One of the seven reads of LoadPolicy; the error of a read is discarded, and
\* what the key would have changed stays at its default.
Loaded(policy) ==
    loop' = [loop EXCEPT
               !.policy = policy, !.next = @ + 1,
               !.pc = IF loop.next = Len(PolicyKeys) THEN "run" ELSE "policy"]

ReadPolicyKey ==
    /\ LoopAt("policy")
    /\ Loaded(Take(loop.policy, PolicyKeys[loop.next], settings[PolicyKeys[loop.next]]))

ReadPolicyKeyFails == LoopAt("policy") /\ Loaded(loop.policy)

RunSucceeds ==
    /\ LoopAt("run")
    /\ loop' = [StartLoop EXCEPT !.pc = "sleep"]

RunFails == LoopAt("run") /\ Backoff

\* recover() logs the panic, and the goroutine is over.
RunPanics ==
    /\ LoopAt("run")
    /\ loop' = [StartLoop EXCEPT !.pc = "dead"]

\* Mutant: the waiting time has no limit.
WakeUnlimited ==
    \/ /\ LoopAt("sleep")
       /\ loop' = [loop EXCEPT !.pc = "config"]
    \/ /\ LoopAt("backoff")
       /\ loop' = [loop EXCEPT !.pc = "config", !.backoff = 2 * @]

Wake ==
    \/ /\ LoopAt("sleep")
       /\ loop' = [loop EXCEPT !.pc = "config"]
    \/ /\ LoopAt("backoff")
       /\ loop' = [loop EXCEPT
                     !.pc = "config",
                     !.backoff = IF 2 * @ > MaxBackoff THEN MaxBackoff ELSE 2 * @]

LoopStep == LoadConfig \/ ReadPolicyKey \/ RunSucceeds \/ RunFails \/ Wake
=============================================================================
