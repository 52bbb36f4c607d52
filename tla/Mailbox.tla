------------------------------ MODULE Mailbox ------------------------------
(***************************************************************************)
(* The IMAP server's INBOX, modelled from how internal/imap/poller.go uses *)
(* it (the server and the go-imap client are not part of the repository).  *)
(*                                                                         *)
(* A message is its UID, a positive number that only grows with delivery,  *)
(* so the sequence number of a message in a set of messages is its rank.   *)
(***************************************************************************)
EXTENDS Integers, FiniteSets

VARIABLES
    delivered,      \* messages that have ever arrived
    inbox,          \* messages now in the mailbox
    flagged         \* messages of the mailbox flagged \Deleted

mailboxVars == <<delivered, inbox, flagged>>

MailboxInit == delivered = {} /\ inbox = {} /\ flagged = {}

\* The sender's side: a new message gets the next UIDs in order.
Deliver(m) ==
    /\ \A k \in delivered : k < m
    /\ delivered' = delivered \cup {m}
    /\ inbox' = inbox \cup {m}
    /\ UNCHANGED flagged

SeqNum(view, m) == Cardinality({k \in view : k <= m})

\* UID STORE m +FLAGS (\Deleted): not an error when m is gone.
StoreDeleted(m) ==
    /\ flagged' = flagged \cup ({m} \cap inbox)
    /\ UNCHANGED <<delivered, inbox>>

\* UID EXPUNGE m removes m if it is flagged.
UidExpunge(m) ==
    /\ inbox' = inbox \ ({m} \cap flagged)
    /\ flagged' = flagged \ {m}
    /\ UNCHANGED delivered

\* EXPUNGE removes everything that is flagged, by whomever.
ExpungeAll ==
    /\ inbox' = inbox \ flagged
    /\ flagged' = {}
    /\ UNCHANGED delivered
=============================================================================
