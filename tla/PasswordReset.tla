--------------------------- MODULE PasswordReset ---------------------------
(***************************************************************************)
(* The pending password resets of internal/auth/reset.go: a map, in        *)
(* memory, from the token of a URL to its code, its age and whether the    *)
(* code has come back by mail.  Each function holds one mutex.             *)
(*                                                                         *)
(* Tokens are random and never the same twice, so they are numbered in the *)
(* order of their issue; the code is known by its token.                   *)
(***************************************************************************)
EXTENDS Integers

CONSTANTS
    MaxTokens,          \* bound: how many tokens are issued
    ResetTTL            \* 5 minutes in the program

ASSUME ResetAssumption == MaxTokens \in Nat /\ ResetTTL \in Nat

VARIABLES
    tokens,             \* the pending resets: a function whose domain is a set of tokens
    issued              \* the number of tokens issued so far, hence the newest

resetVars == <<tokens, issued>>

TokenIds == 1 .. MaxTokens

NoTokens == [t \in {} |-> [age |-> 0, verified |-> FALSE]]

ResetInit == tokens = NoTokens /\ issued = 0

Remove(t) == tokens' = [u \in DOMAIN tokens \ {t} |-> tokens[u]]

InTime(t) == tokens[t].age <= ResetTTL

\* Mutant: the tokens issued before stay.
NewResetTokenBesides ==
    /\ issued < MaxTokens
    /\ issued' = issued + 1
    /\ tokens' = [t \in DOMAIN tokens \cup {issued + 1} |->
                    IF t \in DOMAIN tokens THEN tokens[t]
                    ELSE [age |-> 0, verified |-> FALSE]]

\* Any token issued before is purged.
NewResetToken ==
    /\ issued < MaxTokens
    /\ issued' = issued + 1
    /\ tokens' = [t \in {issued + 1} |-> [age |-> 0, verified |-> FALSE]]

\* The waiting page asks every 4 seconds; all but "expired" leave the map alone.
CheckResetToken(t) ==
    /\ t \in DOMAIN tokens
    /\ ~InTime(t)
    /\ Remove(t)
    /\ UNCHANGED issued

\* The code comes back by mail.
VerifyResetByCode(t) ==
    /\ t \in DOMAIN tokens
    /\ InTime(t)
    /\ tokens' = [tokens EXCEPT ![t].verified = TRUE]
    /\ UNCHANGED issued

CancelResetToken(t) ==
    /\ t \in DOMAIN tokens
    /\ Remove(t)
    /\ UNCHANGED issued

Usable(t) == tokens[t].verified /\ InTime(t)

\* Whether it returns true depends on Usable; the token is gone in any case.
ConsumeResetToken(t) ==
    /\ t \in DOMAIN tokens
    /\ Remove(t)
    /\ UNCHANGED issued

ResetTick ==
    /\ tokens' = [t \in DOMAIN tokens |->
                    [tokens[t] EXCEPT !.age = IF InTime(t) THEN @ + 1 ELSE @]]
    /\ UNCHANGED issued

\* Nothing is kept in the database.
ForgetTokens == tokens' = NoTokens /\ UNCHANGED issued
=============================================================================
