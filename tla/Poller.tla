------------------------------- MODULE Poller -------------------------------
(***************************************************************************)
(* One run of Poll (internal/imap/poller.go) per member of Pollers.  The   *)
(* background loop runs Poll, and every POST of the "poll now" button runs *)
(* another one on its own HTTP goroutine (handler.go:392); nothing keeps   *)
(* them apart.  A step is one database statement, one IMAP command or one  *)
(* file operation.                                                         *)
(*                                                                         *)
(* The policy is loaded once per run and the envelopes are triaged before  *)
(* any body is fetched, so a run works on what it read earlier.            *)
(***************************************************************************)
EXTENDS Archive, Mailbox, Failure, Validator

CONSTANTS
    Pollers,            \* the goroutines that may be inside Poll
    Mail,               \* what is in each message, see the assumption below
    NoHeader,           \* the Message-ID of a message that has none
    AllowedSenders,     \* the allowed_senders table
    Policies,           \* the policies the settings may hold
    MaxEmailsPerRun     \* 50 in the code

VARIABLES
    poll,               \* the local state of each run of Poll
    refused             \* messages dropped on purpose, never to be stored (history variable)

pollerVars == <<poll, refused>>

\* Mail[m] says: the Message-ID header, the sender and the subject, the token
\* in the subject, whether the server sends an envelope and whether the body
\* parses, and the attachments in order, each with its name and size.
ASSUME MailAssumption ==
    /\ Message \subseteq Nat \ {0}
    /\ IsFiniteSet(Message)
    /\ \A m \in Message :
          {"header", "sender", "subject", "token", "envelope", "parses", "attachments"}
              \subseteq DOMAIN Mail[m]
    /\ \A m \in Message : Mail[m].attachments \in Seq([name : STRING, size : Nat])

ASSUME CapAssumption == MaxEmailsPerRun \in Nat \ {0}

----------------------------------------------------------------------------
(* What a run computes from a message.                                     *)

\* The Message-ID header, or an id made of sender, subject and sequence number.
MessageIdOf(m, seq) ==
    IF Mail[m].header # NoHeader
    THEN Mail[m].header
    ELSE [sender |-> Mail[m].sender, subject |-> Mail[m].subject, seq |-> seq]

\* Pass 1 knows the envelope alone: no header, no size, no attachments.
EnvelopeOf(m) ==
    [subjectToken |-> Mail[m].token, headerToken |-> NoToken,
     size |-> 0, attachments |-> << >>]

\* ValidateEmail as Poll calls it.  allowed is the answer of IsAllowedSender.
Accepts(m, allowed, policy) == Passes(EnvelopeOf(m), allowed, policy)

SenderAllowed(m) == Mail[m].sender \in AllowedSenders

\* The indices of the attachments parseMessage keeps: those within the size
\* limit of the policy, and of those the first maxAttachments.
KeptAttachments(m, policy) ==
    LET atts    == Mail[m].attachments
        fits(i) == policy.maxAttachSize > 0 => atts[i].size <= policy.maxAttachSize
    IN  {i \in DOMAIN atts :
            /\ fits(i)
            /\ policy.maxAttachments > 0 =>
                  Cardinality({k \in 1 .. i : fits(k)}) <= policy.maxAttachments}

----------------------------------------------------------------------------
(* The local state of a run.                                               *)

PollPcs == {"idle", "select", "fetch", "triage", "purge", "expunge", "expungeAll",
            "body", "save", "stat", "write", "record"}

NoCandidate == [msg |-> 0, mid |-> NoHeader]

IdlePoll ==
    [pc     |-> "idle",
     policy |-> DefaultPolicy,
     view   |-> {},             \* the mailbox as SELECT showed it
     queue  |-> {},             \* envelopes not yet triaged
     cands  |-> {},             \* candidates for pass 2, a message and its id each
     dels   |-> {},             \* messages to delete (delUIDs)
     uid    |-> 0,              \* the message deleteMsgByUID works on
     cand   |-> NoCandidate,    \* the candidate pass 2 works on
     email  |-> 0,              \* the id Save returned
     todo   |-> {},             \* its attachments that are still to be saved
     att    |-> 0,              \* the attachment saveAttachment works on
     dest   |-> NoPath]         \* the file it writes

PollerInit ==
    /\ poll = [p \in Pollers |-> IdlePoll]
    /\ refused = {}

At(p, pc) == poll[p].pc = pc

\* Poll returns.
Return(p) == poll' = [poll EXCEPT ![p] = IdlePoll]

Goto(p, pc) == poll' = [poll EXCEPT ![p].pc = pc]

First(m, S) == m \in S /\ \A k \in S : m <= k

----------------------------------------------------------------------------
(* Pass 1.                                                                 *)

\* Entry of Poll up to the login: settings and policy are read here and not again.
Begin(p) ==
    /\ At(p, "idle")
    /\ \E policy \in Policies :
          poll' = [poll EXCEPT ![p].pc = "select", ![p].policy = policy]
    /\ UNCHANGED <<archiveVars, mailboxVars, refused, faults>>

\* SELECT INBOX; an empty mailbox ends the run.
Select(p) ==
    /\ At(p, "select")
    /\ IF inbox = {}
       THEN Return(p)
       ELSE poll' = [poll EXCEPT ![p].pc = "fetch", ![p].view = inbox]
    /\ UNCHANGED <<archiveVars, mailboxVars, refused, faults>>

\* Mutant: the range ends one message early.
FetchEnvelopesShort(p) ==
    /\ At(p, "fetch")
    /\ LET got == {m \in poll[p].view \cap inbox :
                      SeqNum(poll[p].view, m) < MaxEmailsPerRun
                      /\ SeqNum(poll[p].view, m) < Cardinality(poll[p].view)}
       IN  IF got = {}
           THEN Return(p)
           ELSE poll' = [poll EXCEPT ![p].pc = "triage", ![p].queue = got]
    /\ UNCHANGED <<archiveVars, mailboxVars, refused, faults>>

\* FETCH 1:n of the envelopes, n at most MaxEmailsPerRun.  Messages another
\* run expunged since SELECT are not in the answer.
FetchEnvelopes(p) ==
    /\ At(p, "fetch")
    /\ LET got == {m \in poll[p].view \cap inbox :
                      SeqNum(poll[p].view, m) <= MaxEmailsPerRun}
       IN  IF got = {}
           THEN Return(p)
           ELSE poll' = [poll EXCEPT ![p].pc = "triage", ![p].queue = got]
    /\ UNCHANGED <<archiveVars, mailboxVars, refused, faults>>

\* Dial, LOGIN, SELECT or FETCH fails: Poll returns an error.
ConnectFails(p) ==
    /\ poll[p].pc \in {"select", "fetch"}
    /\ Fails("connect")
    /\ Return(p)
    /\ UNCHANGED <<archiveVars, mailboxVars, refused>>

----------------------------------------------------------------------------
(* The triage loop, one envelope per step.                                 *)

NextEnvelope(p, m) == At(p, "triage") /\ First(m, poll[p].queue)

DropEnvelope(p, m) ==
    poll' = [poll EXCEPT ![p].queue = @ \ {m}, ![p].dels = @ \cup {m}]

IdInRun(p, m) == MessageIdOf(m, SeqNum(poll[p].view, m))

\* No envelope: the message is deleted unread.
TriageNoEnvelope(p, m) ==
    /\ NextEnvelope(p, m)
    /\ ~Mail[m].envelope
    /\ DropEnvelope(p, m)
    /\ refused' = refused \cup {m}
    /\ UNCHANGED <<archiveVars, mailboxVars, faults>>

\* Mutant: a failed duplicate check counts as a duplicate.
TriageCheckFailsAsDuplicate(p, m) ==
    /\ NextEnvelope(p, m)
    /\ Mail[m].envelope
    /\ Fails("exists")
    /\ DropEnvelope(p, m)
    /\ UNCHANGED <<archiveVars, mailboxVars, refused>>

\* The duplicate check fails: the message stays for the next run.
TriageCheckFails(p, m) ==
    /\ NextEnvelope(p, m)
    /\ Mail[m].envelope
    /\ Fails("exists")
    /\ poll' = [poll EXCEPT ![p].queue = @ \ {m}]
    /\ UNCHANGED <<archiveVars, mailboxVars, refused>>

TriageDuplicate(p, m) ==
    /\ NextEnvelope(p, m)
    /\ Mail[m].envelope
    /\ Exists(IdInRun(p, m))
    /\ DropEnvelope(p, m)
    /\ UNCHANGED <<archiveVars, mailboxVars, refused, faults>>

\* A new message, judged with the answer of IsAllowedSender.
TriageNew(p, m, allowed) ==
    /\ NextEnvelope(p, m)
    /\ Mail[m].envelope
    /\ ~Exists(IdInRun(p, m))
    /\ IF Accepts(m, allowed, poll[p].policy)
       THEN /\ poll' = [poll EXCEPT
                          ![p].queue = @ \ {m},
                          ![p].cands = @ \cup {[msg |-> m, mid |-> IdInRun(p, m)]}]
            /\ UNCHANGED refused
       ELSE /\ DropEnvelope(p, m)
            /\ refused' = refused \cup {m}
    /\ UNCHANGED <<archiveVars, mailboxVars>>

\* Mutant: the answer of IsAllowedSender ends in a shadowed variable.
TriageJudgeShadowed(p, m) ==
    TriageNew(p, m, FALSE) /\ UNCHANGED faults

TriageJudge(p, m) ==
    TriageNew(p, m, SenderAllowed(m)) /\ UNCHANGED faults

\* IsAllowedSender fails: the code goes on with allowed = false.
TriageSenderFails(p, m) ==
    TriageNew(p, m, FALSE) /\ Fails("sender")

TriageDone(p) ==
    /\ At(p, "triage")
    /\ poll[p].queue = {}
    /\ Goto(p, "purge")
    /\ UNCHANGED <<archiveVars, mailboxVars, refused, faults>>

----------------------------------------------------------------------------
(* deleteMsgByUID for each message of dels, in order.  Pass 2 comes here   *)
(* too, with the one message it has finished with.                         *)

\* Mutant: the message is named by the sequence number of pass 1, which an
\* expunge since then has shifted.
FlagDeletedBySeqNum(p, m) ==
    /\ At(p, "purge")
    /\ First(m, poll[p].dels)
    /\ LET shifted == {k \in inbox : SeqNum(inbox, k) = SeqNum(poll[p].view, m)}
       IN  flagged' = flagged \cup shifted
    /\ poll' = [poll EXCEPT ![p].pc = "expunge", ![p].uid = m, ![p].dels = @ \ {m}]
    /\ UNCHANGED <<archiveVars, delivered, inbox, refused, faults>>

\* UID STORE +FLAGS (\Deleted).
FlagDeleted(p, m) ==
    /\ At(p, "purge")
    /\ First(m, poll[p].dels)
    /\ StoreDeleted(m)
    /\ poll' = [poll EXCEPT ![p].pc = "expunge", ![p].uid = m, ![p].dels = @ \ {m}]
    /\ UNCHANGED <<archiveVars, refused, faults>>

\* STORE reports an error, whether or not the server carried it out: the
\* message stays, possibly flagged.
FlagFails(p, m) ==
    /\ At(p, "purge")
    /\ First(m, poll[p].dels)
    /\ Fails("store")
    /\ StoreDeleted(m) \/ UNCHANGED mailboxVars
    /\ poll' = [poll EXCEPT ![p].dels = @ \ {m}]
    /\ UNCHANGED <<archiveVars, refused>>

ExpungeUid(p) ==
    /\ At(p, "expunge")
    /\ UidExpunge(poll[p].uid)
    /\ Goto(p, "purge")
    /\ UNCHANGED <<archiveVars, refused, faults>>

\* UID EXPUNGE reports an error (no UIDPLUS, or a lost answer): fall back to EXPUNGE.
ExpungeUidFails(p) ==
    /\ At(p, "expunge")
    /\ Fails("uidExpunge")
    /\ UidExpunge(poll[p].uid) \/ UNCHANGED mailboxVars
    /\ Goto(p, "expungeAll")
    /\ UNCHANGED <<archiveVars, refused>>

ExpungeEverything(p) ==
    /\ At(p, "expungeAll")
    /\ ExpungeAll
    /\ Goto(p, "purge")
    /\ UNCHANGED <<archiveVars, refused, faults>>

ExpungeEverythingFails(p) ==
    /\ At(p, "expungeAll")
    /\ Fails("expunge")
    /\ Goto(p, "purge")
    /\ UNCHANGED <<archiveVars, mailboxVars, refused>>

\* Mutant: the pool closes idle connections, and pass 2 opens a new one.
PurgeDoneReconnecting(p) ==
    /\ At(p, "purge")
    /\ poll[p].dels = {}
    /\ IF poll[p].cands = {} THEN Return(p) ELSE Goto(p, "body")
    /\ Reconnect
    /\ UNCHANGED <<mailboxVars, refused, faults>>

\* delUIDs is worked off: go on with the candidates, if any.
PurgeDone(p) ==
    /\ At(p, "purge")
    /\ poll[p].dels = {}
    /\ IF poll[p].cands = {} THEN Return(p) ELSE Goto(p, "body")
    /\ UNCHANGED <<archiveVars, mailboxVars, refused, faults>>

----------------------------------------------------------------------------
(* Pass 2, one candidate after the other.                                  *)

NextCandidate(p, c) ==
    /\ At(p, "body")
    /\ c \in poll[p].cands
    /\ \A d \in poll[p].cands : c.msg <= d.msg

\* The candidate stays on the server; go on with the next one.
KeepCandidate(p, c) ==
    poll' = [poll EXCEPT ![p].pc = "purge", ![p].cands = @ \ {c}]

\* The candidate is done with; delete it.
DeleteCandidate(p, c) ==
    poll' = [poll EXCEPT ![p].pc = "purge", ![p].cands = @ \ {c},
                         ![p].dels = {c.msg}]

\* UID FETCH of a body that parses.
FetchBody(p, c) ==
    /\ NextCandidate(p, c)
    /\ c.msg \in inbox /\ Mail[c.msg].parses
    /\ poll' = [poll EXCEPT ![p].pc = "save", ![p].cands = @ \ {c}, ![p].cand = c]
    /\ UNCHANGED <<archiveVars, mailboxVars, refused, faults>>

\* The answer has no message: another run expunged it.
BodyGone(p, c) ==
    /\ NextCandidate(p, c)
    /\ c.msg \notin inbox
    /\ DeleteCandidate(p, c)
    /\ UNCHANGED <<archiveVars, mailboxVars, refused, faults>>

\* An empty body, or one parseMessage rejects, is deleted.
BodyUnreadable(p, c) ==
    /\ NextCandidate(p, c)
    /\ c.msg \in inbox /\ ~Mail[c.msg].parses
    /\ DeleteCandidate(p, c)
    /\ refused' = refused \cup {c.msg}
    /\ UNCHANGED <<archiveVars, mailboxVars, faults>>

FetchBodyFails(p, c) ==
    /\ NextCandidate(p, c)
    /\ Fails("body")
    /\ KeepCandidate(p, c)
    /\ UNCHANGED <<archiveVars, mailboxVars, refused>>

\* The attachments in todo come next; when there are none the message is
\* complete and is deleted.
Attach(p, id, todo) ==
    poll' = IF todo # {}
            THEN [poll EXCEPT ![p].pc = "stat", ![p].email = id, ![p].todo = todo]
            ELSE [poll EXCEPT ![p].pc = "purge", ![p].dels = {poll[p].cand.msg},
                              ![p].email = 0, ![p].att = 0, ![p].todo = {}]

\* Save.  Its second statement, which looks the email up when the reported
\* row id is 0, never runs: see SaveNeverLooksUp in EmailStore.
SaveEmail(p) ==
    LET mid == poll[p].cand.mid IN
    /\ At(p, "save")
    /\ InsertEmail(mid, poll[p].cand.msg)
    /\ Attach(p, SavedId(mid), KeptAttachments(poll[p].cand.msg, poll[p].policy))
    /\ UNCHANGED <<mailboxVars, refused, faults>>

\* Mutant: the error of Save is logged and the message deleted all the same.
SaveFailsAndDeletes(p) ==
    /\ At(p, "save")
    /\ Fails("save")
    /\ poll' = [poll EXCEPT ![p].pc = "purge", ![p].dels = {poll[p].cand.msg}]
    /\ UNCHANGED <<archiveVars, mailboxVars, refused>>

\* The INSERT fails: the message stays on the server.
SaveFails(p) ==
    /\ At(p, "save")
    /\ Fails("save")
    /\ Goto(p, "purge")
    /\ UNCHANGED <<archiveVars, mailboxVars, refused>>

----------------------------------------------------------------------------
(* saveAttachment, for the attachments of the candidate in order.         *)

PlainPath(p, i) ==
    Path(poll[p].email, Mail[poll[p].cand.msg].attachments[i].name, 0)

\* Mutant: no Stat, a file of the same name is overwritten.
DestinationUnchecked(p, i) == PlainPath(p, i)

\* The plain name if nothing has it, else the name with a time stamp.
Destination(p, i) ==
    IF PlainPath(p, i) \in DOMAIN files
    THEN [PlainPath(p, i) EXCEPT !.unique = stamp + 1]
    ELSE PlainPath(p, i)

\* MkdirAll, safeFilename and Stat.
ChooseFile(p, i) ==
    /\ At(p, "stat")
    /\ First(i, poll[p].todo)
    /\ poll' = [poll EXCEPT ![p].pc = "write", ![p].att = i, ![p].todo = @ \ {i},
                            ![p].dest = Destination(p, i)]
    /\ dirs' = dirs \cup {poll[p].email}
    /\ stamp' = IF PlainPath(p, i) \in DOMAIN files THEN stamp + 1 ELSE stamp
    /\ UNCHANGED <<emails, attachments, nextEmail, nextAttachment, lastRowid, files,
                   history, mailboxVars, refused, faults>>

\* MkdirAll fails; the error is logged and the next attachment is tried.
MkdirFails(p, i) ==
    /\ At(p, "stat")
    /\ First(i, poll[p].todo)
    /\ Fails("file")
    /\ Attach(p, poll[p].email, poll[p].todo \ {i})
    /\ UNCHANGED <<archiveVars, mailboxVars, refused>>

WriteAttachment(p) ==
    /\ At(p, "write")
    /\ poll[p].email \in dirs
    /\ WriteFile(poll[p].dest, Content(poll[p].cand.msg, poll[p].att))
    /\ Goto(p, "record")
    /\ UNCHANGED <<mailboxVars, refused, faults>>

\* Somebody removed the directory after MkdirAll: WriteFile fails.
WriteWithoutDir(p) ==
    /\ At(p, "write")
    /\ poll[p].email \notin dirs
    /\ Attach(p, poll[p].email, poll[p].todo)
    /\ UNCHANGED <<archiveVars, mailboxVars, refused, faults>>

\* WriteFile fails, perhaps half way.
WriteFails(p) ==
    /\ At(p, "write")
    /\ poll[p].email \in dirs
    /\ Fails("file")
    /\ WriteFile(poll[p].dest, Torn) \/ UNCHANGED archiveVars
    /\ Attach(p, poll[p].email, poll[p].todo)
    /\ UNCHANGED <<mailboxVars, refused>>

\* SaveAttachment; an error is logged, and the file stays.
RecordAttachment(p) ==
    /\ At(p, "record")
    /\ IF CanInsertAttachment(poll[p].email)
       THEN InsertAttachment(poll[p].email, poll[p].dest)
       ELSE UNCHANGED archiveVars
    /\ Attach(p, poll[p].email, poll[p].todo)
    /\ UNCHANGED <<mailboxVars, refused, faults>>

RecordFails(p) ==
    /\ At(p, "record")
    /\ Fails("record")
    /\ Attach(p, poll[p].email, poll[p].todo)
    /\ UNCHANGED <<archiveVars, mailboxVars, refused>>

----------------------------------------------------------------------------
\* Steps of a run that are not failures.
PollStep(p) ==
    \/ Begin(p) \/ Select(p) \/ FetchEnvelopes(p)
    \/ \E m \in Message :
          \/ TriageNoEnvelope(p, m) \/ TriageDuplicate(p, m) \/ TriageJudge(p, m)
          \/ FlagDeleted(p, m)
    \/ TriageDone(p) \/ PurgeDone(p)
    \/ ExpungeUid(p) \/ ExpungeEverything(p)
    \/ \E c \in poll[p].cands : FetchBody(p, c) \/ BodyGone(p, c) \/ BodyUnreadable(p, c)
    \/ SaveEmail(p)
    \/ \E i \in poll[p].todo : ChooseFile(p, i)
    \/ WriteAttachment(p) \/ WriteWithoutDir(p) \/ RecordAttachment(p)

\* Steps of a run in which an operation fails.
PollFailure(p) ==
    \/ ConnectFails(p)
    \/ \E m \in Message :
          TriageCheckFails(p, m) \/ TriageSenderFails(p, m) \/ FlagFails(p, m)
    \/ ExpungeUidFails(p) \/ ExpungeEverythingFails(p)
    \/ \E c \in poll[p].cands : FetchBodyFails(p, c)
    \/ \E i \in poll[p].todo : MkdirFails(p, i)
    \/ SaveFails(p) \/ WriteFails(p) \/ RecordFails(p)
=============================================================================
