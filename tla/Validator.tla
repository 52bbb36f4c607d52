----------------------------- MODULE Validator -----------------------------
(***************************************************************************)
(* The pure decision of internal/security/validator.go: whether a parsed   *)
(* email passes a security policy.                                         *)
(*                                                                         *)
(* An email is a record                                                    *)
(*   [subjectToken, headerToken, size, attachments]                        *)
(* where subjectToken is what follows [ES: in the subject and headerToken  *)
(* what the X-EmailStore-Auth header holds (NoToken when there is none),   *)
(* and attachments is the sequence of attachment sizes.  Sizes and limits  *)
(* are in the same unit, so the code's multiplication by 1024 * 1024 does  *)
(* not appear.                                                             *)
(***************************************************************************)
EXTENDS Integers, Sequences

CONSTANT NoToken   \* what ExtractToken returns when it finds no token

Modes == {"strict", "balanced", "relaxed"}
TokenLocations == {"subject", "header"}

\* The policy of a fresh installation: allowed senders only, no token.
DefaultPolicy ==
    [mode |-> "relaxed", tokenRequired |-> FALSE, tokenLocation |-> "subject",
     tokens |-> {}, maxSize |-> 10, maxAttachments |-> 5, maxAttachSize |-> 5]

\* The token of an email, looked for where the policy says.
ExtractToken(e, location) ==
    IF location = "header" THEN e.headerToken ELSE e.subjectToken

MatchesToken(candidate, tokens) ==
    candidate # NoToken /\ candidate \in tokens

\* A policy that requires a token and configures none is satisfied by no email.
TokenOK(e, policy) ==
    policy.tokenRequired =>
        MatchesToken(ExtractToken(e, policy.tokenLocation), policy.tokens)

\* The switch on policy.Mode.  A mode that is none of the three is treated
\* like "relaxed", whatever its comment says about strict.
SenderGate(senderOK, tokenOK, policy) ==
    CASE policy.mode = "strict"   -> senderOK /\ (policy.tokenRequired => tokenOK)
      [] policy.mode = "balanced" -> senderOK \/ tokenOK
      [] OTHER                    -> senderOK

WithinLimits(e, policy) ==
    /\ policy.maxSize > 0 => e.size <= policy.maxSize
    /\ policy.maxAttachments > 0 => Len(e.attachments) <= policy.maxAttachments
    /\ policy.maxAttachSize > 0 =>
          \A i \in DOMAIN e.attachments : e.attachments[i] <= policy.maxAttachSize

\* ValidateEmail returns nil.
Passes(e, senderAllowed, policy) ==
    /\ SenderGate(senderAllowed, TokenOK(e, policy), policy)
    /\ WithinLimits(e, policy)
=============================================================================
