------------------------------ MODULE Delivery ------------------------------
(***************************************************************************)
(* What EmailStore promises about the mailbox, with no word about how:     *)
(* every message that arrives is first decided - its Message-ID is in the  *)
(* archive, or it was refused - and only then taken off the server.  A     *)
(* decision is never taken back.                                           *)
(***************************************************************************)
CONSTANT Message

VARIABLES
    waiting,    \* messages on the server
    arrived,    \* messages that ever were
    decided     \* messages archived or refused

dvars == <<waiting, arrived, decided>>

DInit == waiting = {} /\ arrived = {} /\ decided = {}

DArrive(m) ==
    /\ m \notin arrived
    /\ arrived' = arrived \cup {m}
    /\ waiting' = waiting \cup {m}
    /\ UNCHANGED decided

\* Archiving one message decides all copies of it, those still to come included.
Decide(S) ==
    /\ decided' = decided \cup S
    /\ UNCHANGED <<waiting, arrived>>

\* Expunging removes some decided messages, possibly several at once.
Discard(S) ==
    /\ S \subseteq decided
    /\ waiting' = waiting \ S
    /\ UNCHANGED <<arrived, decided>>

DNext ==
    \/ \E m \in Message : DArrive(m)
    \/ \E S \in SUBSET Message : Decide(S) \/ Discard(S)

DSpec == DInit /\ [][DNext]_dvars
=============================================================================
