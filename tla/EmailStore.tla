----------------------------- MODULE EmailStore -----------------------------
(***************************************************************************)
(* The life of a message in EmailStore: delivered to the mailbox, triaged, *)
(* archived and expunged by runs of Poll, deleted from the archive by a    *)
(* user or by the retention sweep - with everything interleaved, failing   *)
(* and crashing.                                                           *)
(*                                                                         *)
(* Poller, Reaper and Mailbox share the archive; this module composes them *)
(* and states what must hold of the whole.                                 *)
(***************************************************************************)
EXTENDS Poller, Reaper

CONSTANTS
    SessionRowids,  \* row ids that logins may give to their session rows
    MaxArrivals,    \* bound: how many messages are delivered
    MaxCrashes      \* bound: how many times the process stops

ASSUME CompositionAssumption ==
    SessionRowids \subseteq Nat \ {0} /\ MaxArrivals \in Nat /\ MaxCrashes \in Nat

VARIABLE crashes    \* stops so far

vars == <<archiveVars, mailboxVars, pollerVars, reaperVars, faults, crashes>>

Init ==
    /\ ArchiveInit /\ MailboxInit /\ PollerInit /\ ReaperInit /\ FailureInit
    /\ crashes = 0

Arrive ==
    /\ Cardinality(delivered) < MaxArrivals
    /\ \E m \in Message : Deliver(m)
    /\ UNCHANGED <<archiveVars, pollerVars, reaperVars, faults, crashes>>

Poll(p) == PollStep(p) /\ UNCHANGED <<reaperVars, crashes>>

PollFails(p) == PollFailure(p) /\ UNCHANGED <<reaperVars, crashes>>

Delete(u) == UserStep(u) /\ UNCHANGED <<mailboxVars, pollerVars, crashes>>

Sweep(w) == SweepStep(w) /\ UNCHANGED <<mailboxVars, pollerVars, crashes>>

Retention == RetentionStep /\ UNCHANGED <<mailboxVars, pollerVars, crashes>>

\* A user logs in: the session row moves last_insert_rowid().
Login ==
    /\ \E r \in SessionRowids : r # lastRowid /\ InsertElsewhere(r)
    /\ UNCHANGED <<mailboxVars, pollerVars, reaperVars, faults, crashes>>

\* The process stops and starts again.  A shutdown is no different: main
\* cancels a context that Poll never looks at, and exits (main.go:161-172).
Crash ==
    /\ crashes < MaxCrashes
    /\ crashes' = crashes + 1
    /\ Reconnect
    /\ poll' = [p \in Pollers |-> IdlePoll]
    /\ job' = [r \in Reapers |-> IdleJob]
    /\ UNCHANGED <<mailboxVars, refused, due, deletions, faults>>

Next ==
    \/ Arrive
    \/ \E p \in Pollers : Poll(p) \/ PollFails(p)
    \/ \E u \in Users : Delete(u)
    \/ \E w \in Sweepers : Sweep(w)
    \/ Retention
    \/ Login
    \/ Crash

Spec == Init /\ [][Next]_vars

\* Fairness of the background poller: StartPoller calls Poll again and again,
\* and a run that nothing fails goes on.  Failures and crashes are not fair.
FairSpec == Spec /\ \A p \in Pollers : WF_vars(Poll(p))

----------------------------------------------------------------------------
(* Types.                                                                  *)

MessageIds ==
    {NoHeader} \cup {Mail[m].header : m \in Message} \cup
    [sender : {Mail[m].sender : m \in Message},
     subject : {Mail[m].subject : m \in Message}, seq : Nat]

Candidates == [msg : Message, mid : MessageIds]

Paths == [dir : Nat, name : STRING, unique : Nat] \cup {NoPath}

PollStates ==
    [pc : PollPcs, policy : Policies \cup {DefaultPolicy},
     view : SUBSET Message, queue : SUBSET Message,
     cands : SUBSET Candidates, dels : SUBSET Message,
     uid : Message \cup {0}, cand : Candidates \cup {NoCandidate},
     email : Nat, todo : SUBSET Nat, att : Nat, dest : Paths]

JobStates ==
    [pc : JobPcs, collect : SUBSET Nat, doomed : SUBSET Nat, paths : SUBSET Paths,
     email : Nat]

ArchiveTypeOK ==
    /\ emails \subseteq [id : Nat, mid : MessageIds, msg : Message]
    /\ attachments \subseteq [id : Nat, email : Nat, path : Paths]
    /\ history \subseteq [mid : MessageIds, msg : Message]
    /\ nextEmail \in Nat \ {0} /\ nextAttachment \in Nat \ {0}
    /\ lastRowid \in Nat /\ stamp \in Nat
    /\ DOMAIN files \subseteq Paths
    /\ dirs \subseteq Nat

MailboxTypeOK ==
    /\ delivered \subseteq Message
    /\ inbox \subseteq delivered
    /\ flagged \subseteq inbox

\* From Save on a run has a candidate, and the attachments it has yet to save
\* are attachments of that candidate.
CandidateTypeOK(p) ==
    /\ poll[p].pc \in {"save", "stat", "write", "record"} =>
          poll[p].cand \in Candidates
    /\ poll[p].pc \in {"stat", "write", "record"} =>
          poll[p].todo \subseteq DOMAIN Mail[poll[p].cand.msg].attachments

\* Every variable has its type; in particular whatever is flagged is in the
\* mailbox and whatever is in the mailbox was delivered.
TypeOK ==
    /\ ArchiveTypeOK
    /\ MailboxTypeOK
    /\ poll \in [Pollers -> PollStates]
    /\ \A p \in Pollers : CandidateTypeOK(p)
    /\ refused \subseteq Message
    /\ job \in [Reapers -> JobStates]
    /\ due \subseteq Nat
    /\ deletions \in Nat /\ faults \in Nat /\ crashes \in Nat

----------------------------------------------------------------------------
(* Safety of the mailbox.                                                  *)

HasHeader(m) == Mail[m].header # NoHeader

\* The fate of m is decided: it was refused, or an email with its Message-ID
\* has been archived (a user may have deleted it since).
Decided(m) == m \in refused \/ \E h \in history : h.mid = Mail[m].header

Safe(m) == HasHeader(m) => Decided(m)

\* No message with a Message-ID leaves the mailbox undecided, whatever other
\* runs of Poll, failures and crashes do (poller.go: a message is deleted
\* only after it was stored, found stored, or rejected).
NoMailLost == \A m \in delivered \ inbox : Safe(m)

\* Poll falls back to a plain EXPUNGE, which removes every message anybody
\* flagged (poller.go:107): so nothing undecided may ever carry \Deleted, not
\* even after a crash between STORE and EXPUNGE.
FlaggedSafe == \A m \in flagged : Safe(m)

\* Poll refines Delivery.
decidedSet == {m \in Message : Decided(m)}

D == INSTANCE Delivery WITH waiting <- inbox, arrived <- delivered,
                            decided <- decidedSet

\* EmailStore implements Delivery as long as messages carry a Message-ID.
ImplementsDelivery == D!DSpec

----------------------------------------------------------------------------
(* Safety of the archive.                                                  *)

\* A listed attachment can be opened: every attachment row of an email that
\* exists points to a file, at every moment of a deletion or a sweep
\* (email.go:137: rows go first, then the caller removes the files).
ListedAttachmentOnDisk ==
    \A a \in attachments : a.email \in EmailIds => a.path \in DOMAIN files

\* An attachment listed with an email is an attachment of that email (or of a
\* copy of it): Save returns the id of the message's own row.
AttachmentOwner ==
    \A a \in attachments, e \in emails :
        (a.email = e.id /\ a.path \in DOMAIN files /\ files[a.path] # Torn) =>
            Mail[files[a.path].msg].header = Mail[e.msg].header

\* Save's fallback for "ON CONFLICT DO NOTHING returns id=0" (email.go:63-66)
\* never runs: when an insert meets a conflict, the email was inserted over
\* this same connection after the duplicate check, so the row id it reports is
\* that of an earlier insert and never 0.
SaveNeverLooksUp ==
    \A p \in Pollers :
        (At(p, "save") /\ Exists(poll[p].cand.mid)) => lastRowid # 0

Quiet == \A p \in Pollers : At(p, "idle")

\* Once no run of Poll is in progress, every archived email has all the
\* attachments the policy keeps, each in a file of its own.
ArchivedInFull ==
    Quiet =>
        \A e \in emails : \E policy \in Policies :
            \A i \in KeptAttachments(e.msg, policy) :
                \E a \in attachments :
                    /\ a.email = e.id /\ a.path \in DOMAIN files
                    /\ files[a.path] = Content(e.msg, i)

\* A message is refused only if it is unreadable or some policy rejects it,
\* judged with its sender's real standing.
RefusedForCause ==
    \A m \in refused :
        \/ ~Mail[m].envelope \/ ~Mail[m].parses
        \/ \E policy \in Policies : ~Accepts(m, SenderAllowed(m), policy)

\* A message is archived once: after a user or the sweep deleted the email it
\* does not come back.
NeverArchivedAgain ==
    [][\A e \in emails' \ emails : \A h \in history : h.msg # e.msg]_vars

\* The files on disk are those listed with an email.
NoStrayFiles ==
    \A q \in DOMAIN files :
        \E a \in attachments : a.path = q /\ a.email \in EmailIds

\* At rest - no run of Poll, no deletion, no sweep in progress - no file is stray.
TidyAtRest ==
    (Quiet /\ \A r \in Reapers : job[r].pc = "idle") => NoStrayFiles

----------------------------------------------------------------------------
(* Liveness.                                                               *)

\* Whatever arrives is taken off the server in the end, once operations stop
\* failing.
EveryMessageLeaves ==
    \A m \in Message : m \in delivered ~> m \notin inbox
=============================================================================
