-------------------------- MODULE EmailStoreTypes --------------------------
(***************************************************************************)
(* Type correctness of EmailStore, for every set of messages, of runs of   *)
(* Poll, of deleting goroutines, every policy and every fault.             *)
(***************************************************************************)
EXTENDS EmailStore, FiniteSetTheorems, TLAPS

(* Sequence numbers are numbers, so ids made of them are message ids.      *)
LEMMA SeqNumType ==
    ASSUME NEW view \in SUBSET Message, NEW m \in Message
    PROVE  SeqNum(view, m) \in Nat
<1>1. IsFiniteSet({k \in view : k <= m})
  BY MailAssumption, FS_Subset
<1> QED
  BY <1>1, FS_CardinalityType DEF SeqNum

LEMMA MessageIdType ==
    ASSUME NEW view \in SUBSET Message, NEW m \in Message
    PROVE  MessageIdOf(m, SeqNum(view, m)) \in MessageIds
  BY SeqNumType DEF MessageIdOf, MessageIds

(* The attachments that are kept are attachments of the message.           *)
LEMMA KeptType ==
    ASSUME NEW m \in Message, NEW policy
    PROVE  /\ KeptAttachments(m, policy) \subseteq DOMAIN Mail[m].attachments
           /\ KeptAttachments(m, policy) \subseteq Nat
  BY MailAssumption DEF KeptAttachments

LEMMA ElementType ==
    ASSUME NEW S, NEW s \in Seq(S), NEW i \in DOMAIN s
    PROVE  s[i] \in S
  OBVIOUS

(* So a file for one of them has a proper path.                            *)
LEMMA DestinationType ==
    ASSUME TypeOK, NEW p \in Pollers, At(p, "stat"), NEW i \in poll[p].todo
    PROVE  Destination(p, i) \in Paths
<1>1. poll[p].email \in Nat /\ stamp \in Nat
  BY DEF TypeOK, PollStates, ArchiveTypeOK
<1>2. poll[p].cand.msg \in Message
  BY DEF TypeOK, CandidateTypeOK, Candidates, At
<1>3. i \in DOMAIN Mail[poll[p].cand.msg].attachments
  BY DEF TypeOK, CandidateTypeOK, At
<1> DEFINE atts == Mail[poll[p].cand.msg].attachments
<1>4. atts[i].name \in STRING
  <2>1. atts \in Seq([name : STRING, size : Nat])
    BY <1>2, MailAssumption
  <2>2. atts[i] \in [name : STRING, size : Nat]
    BY <2>1, <1>3, ElementType
  <2> QED
    BY <2>2
<1> QED
  BY <1>1, <1>4 DEF Destination, PlainPath, Path, Paths

(***************************************************************************)
(* The statements and file operations keep the archive well-typed.         *)
(***************************************************************************)
LEMMA ArchiveTypes ==
    ASSUME ArchiveTypeOK
    PROVE  /\ \A mid \in MessageIds, m \in Message :
                 InsertEmail(mid, m) => ArchiveTypeOK'
           /\ \A id \in Nat, q \in Paths : InsertAttachment(id, q) => ArchiveTypeOK'
           /\ \A id \in Nat : DeleteEmailRow(id) => ArchiveTypeOK'
           /\ \A q \in Paths : \A c : WriteFile(q, c) => ArchiveTypeOK'
           /\ \A q \in Paths : RemoveFile(q) => ArchiveTypeOK'
           /\ \A id \in Nat : RemoveDir(id) => ArchiveTypeOK'
           /\ \A r \in Nat : InsertElsewhere(r) => ArchiveTypeOK'
           /\ Reconnect => ArchiveTypeOK'
           /\ UNCHANGED archiveVars => ArchiveTypeOK'
           /\ \A mid : SavedId(mid) \in Nat
           /\ \A id : AttachmentPaths(id) \subseteq Paths
<1>0. UNCHANGED archiveVars => ArchiveTypeOK'
  BY DEF ArchiveTypeOK, archiveVars
<1>1. \A mid \in MessageIds, m \in Message : InsertEmail(mid, m) => ArchiveTypeOK'
  <2> SUFFICES ASSUME NEW mid \in MessageIds, NEW m \in Message, ~Exists(mid),
                      InsertEmail(mid, m)
               PROVE  ArchiveTypeOK'
    BY <1>0 DEF InsertEmail
  <2>1. emails' \subseteq [id : Nat, mid : MessageIds, msg : Message]
    BY DEF ArchiveTypeOK, InsertEmail
  <2>2. history' \subseteq [mid : MessageIds, msg : Message]
    BY DEF ArchiveTypeOK, InsertEmail
  <2>3. /\ nextEmail' \in Nat \ {0} /\ lastRowid' \in Nat
        /\ UNCHANGED <<attachments, nextAttachment, files, dirs, stamp>>
    BY DEF ArchiveTypeOK, InsertEmail
  <2> QED
    BY <2>1, <2>2, <2>3 DEF ArchiveTypeOK
<1>2. \A id \in Nat, q \in Paths : InsertAttachment(id, q) => ArchiveTypeOK'
  BY DEF ArchiveTypeOK, InsertAttachment
<1>3. \A id \in Nat : DeleteEmailRow(id) => ArchiveTypeOK'
  BY DEF ArchiveTypeOK, DeleteEmailRow
<1>4. \A q \in Paths : \A c : WriteFile(q, c) => ArchiveTypeOK'
  BY DEF ArchiveTypeOK, WriteFile
<1>5. \A q \in Paths : RemoveFile(q) => ArchiveTypeOK'
  BY DEF ArchiveTypeOK, RemoveFile
<1>6. \A id \in Nat : RemoveDir(id) => ArchiveTypeOK'
  BY DEF ArchiveTypeOK, RemoveDir
<1>7. \A r \in Nat : InsertElsewhere(r) => ArchiveTypeOK'
  BY DEF ArchiveTypeOK, InsertElsewhere
<1>9. Reconnect => ArchiveTypeOK'
  BY DEF ArchiveTypeOK, Reconnect
<1>8. /\ \A mid : SavedId(mid) \in Nat
      /\ \A id : AttachmentPaths(id) \subseteq Paths
  BY DEF ArchiveTypeOK, SavedId, ConflictId, AttachmentPaths
<1> QED
  BY <1>0, <1>1, <1>2, <1>3, <1>4, <1>5, <1>6, <1>7, <1>8, <1>9

LEMMA MailboxTypes ==
    ASSUME MailboxTypeOK
    PROVE  /\ \A m \in Message : Deliver(m) => MailboxTypeOK'
           /\ \A m : StoreDeleted(m) => MailboxTypeOK'
           /\ \A m : UidExpunge(m) => MailboxTypeOK'
           /\ ExpungeAll => MailboxTypeOK'
           /\ UNCHANGED mailboxVars => MailboxTypeOK'
  BY DEF MailboxTypeOK, Deliver, StoreDeleted, UidExpunge, ExpungeAll, mailboxVars

(***************************************************************************)
(* Steps of Poll.                                                          *)
(***************************************************************************)
\* What a step must establish about the local states of the runs.
PollTypeOK ==
    /\ poll \in [Pollers -> PollStates]
    /\ \A p \in Pollers : CandidateTypeOK(p)

\* The steps that leave no run in the middle of a candidate.
LEMMA LeavesCandidate ==
    ASSUME PollTypeOK, NEW p \in Pollers, NEW r \in PollStates,
           r.pc \notin {"save", "stat", "write", "record"},
           poll' = [poll EXCEPT ![p] = r]
    PROVE  PollTypeOK'
<1>1. poll' \in [Pollers -> PollStates]
  BY DEF PollTypeOK
<1>2. ASSUME NEW q \in Pollers PROVE CandidateTypeOK(q)'
  BY DEF PollTypeOK, CandidateTypeOK
<1> QED
  BY <1>1, <1>2 DEF PollTypeOK

LEMMA IdleType == IdlePoll \in PollStates /\ IdlePoll.pc = "idle"
<1>1. NoPath \in Paths
  BY DEF Paths
<1>2. "idle" \in PollPcs
  BY DEF PollPcs
<1> QED
  BY <1>1, <1>2 DEF IdlePoll, PollStates

LEMMA MovesType ==
    ASSUME PollTypeOK, NEW p \in Pollers
    PROVE  /\ Return(p) => PollTypeOK'
           /\ \A pc \in PollPcs \ {"save", "stat", "write", "record"} :
                 Goto(p, pc) => PollTypeOK'
           /\ \A m \in Message : DropEnvelope(p, m) /\ At(p, "triage") => PollTypeOK'
           /\ \A c \in Candidates :
                 KeepCandidate(p, c) \/ DeleteCandidate(p, c) => PollTypeOK'
<1> DEFINE r == poll[p]
<1> r \in PollStates
  BY DEF PollTypeOK
<1>1. Return(p) => PollTypeOK'
  BY IdleType, LeavesCandidate DEF Return
<1>2. ASSUME NEW pc \in PollPcs \ {"save", "stat", "write", "record"}, Goto(p, pc)
      PROVE  PollTypeOK'
  <2>1. [r EXCEPT !.pc = pc] \in PollStates /\ [r EXCEPT !.pc = pc].pc = pc
    BY DEF PollStates
  <2>2. poll' = [poll EXCEPT ![p] = [r EXCEPT !.pc = pc]]
    BY <1>2 DEF Goto, PollTypeOK
  <2> QED
    BY <2>1, <2>2, LeavesCandidate
<1>3. ASSUME NEW m \in Message, DropEnvelope(p, m), At(p, "triage")
      PROVE  PollTypeOK'
  <2> DEFINE s == [r EXCEPT !.queue = @ \ {m}, !.dels = @ \cup {m}]
  <2>1. s \in PollStates /\ s.pc = "triage"
    BY <1>3 DEF PollStates, At
  <2>2. poll' = [poll EXCEPT ![p] = s]
    BY <1>3 DEF DropEnvelope, PollTypeOK
  <2> QED
    BY <2>1, <2>2, LeavesCandidate
<1>4. ASSUME NEW c \in Candidates, KeepCandidate(p, c)
      PROVE  PollTypeOK'
  <2> DEFINE s == [r EXCEPT !.pc = "purge", !.cands = @ \ {c}]
  <2>1. s \in PollStates /\ s.pc = "purge"
    BY DEF PollStates, PollPcs
  <2>2. poll' = [poll EXCEPT ![p] = s]
    BY <1>4 DEF KeepCandidate, PollTypeOK
  <2> QED
    BY <2>1, <2>2, LeavesCandidate
<1>5. ASSUME NEW c \in Candidates, DeleteCandidate(p, c)
      PROVE  PollTypeOK'
  <2> DEFINE s == [r EXCEPT !.pc = "purge", !.cands = @ \ {c}, !.dels = {c.msg}]
  <2>0. c.msg \in Message
    BY DEF Candidates
  <2>1. s \in PollStates /\ s.pc = "purge"
    BY <2>0 DEF PollStates, PollPcs
  <2>2. poll' = [poll EXCEPT ![p] = s]
    BY <1>5 DEF DeleteCandidate, PollTypeOK
  <2> QED
    BY <2>1, <2>2, LeavesCandidate
<1> QED
  BY <1>1, <1>2, <1>3, <1>4, <1>5

LEMMA AttachType ==
    ASSUME PollTypeOK, NEW p \in Pollers, poll[p].cand \in Candidates,
           NEW id \in Nat, NEW todo \in SUBSET Nat,
           todo \subseteq DOMAIN Mail[poll[p].cand.msg].attachments,
           Attach(p, id, todo)
    PROVE  PollTypeOK'
<1> DEFINE r == poll[p]
<1> r \in PollStates /\ r.cand.msg \in Message
  BY DEF PollTypeOK, Candidates
<1>1. CASE todo = {}
  <2> DEFINE s == [r EXCEPT !.pc = "purge", !.dels = {r.cand.msg}, !.email = 0,
                            !.att = 0, !.todo = {}]
  <2>1. s \in PollStates /\ s.pc = "purge"
    BY DEF PollStates, PollPcs
  <2>2. poll' = [poll EXCEPT ![p] = s]
    BY <1>1 DEF Attach, PollTypeOK
  <2> QED
    BY <2>1, <2>2, LeavesCandidate
<1>2. CASE todo # {}
  <2> DEFINE s == [r EXCEPT !.pc = "stat", !.email = id, !.todo = todo]
  <2>1. s \in PollStates /\ s.pc = "stat" /\ s.cand = r.cand /\ s.todo = todo
    BY DEF PollStates, PollPcs
  <2>2. poll' = [poll EXCEPT ![p] = s]
    BY <1>2 DEF Attach, PollTypeOK
  <2> HIDE DEF s
  <2>3. poll' \in [Pollers -> PollStates]
    BY <2>1, <2>2 DEF PollTypeOK
  <2>4. ASSUME NEW q \in Pollers PROVE CandidateTypeOK(q)'
    BY <2>1, <2>2 DEF PollTypeOK, CandidateTypeOK
  <2> QED
    BY <2>3, <2>4 DEF PollTypeOK
<1> QED
  BY <1>1, <1>2

\* The variables that steps of Poll change besides poll.
OthersTypeOK ==
    ArchiveTypeOK /\ MailboxTypeOK /\ refused \subseteq Message /\ faults \in Nat

LEMMA FailsType ==
    ASSUME faults \in Nat, NEW op, Fails(op) PROVE faults' \in Nat
  BY DEF Fails

LEMMA Pass1Type ==
    ASSUME PollTypeOK, OthersTypeOK, NEW p \in Pollers,
           \/ Begin(p) \/ Select(p) \/ FetchEnvelopes(p) \/ ConnectFails(p)
           \/ TriageDone(p) \/ PurgeDone(p)
    PROVE  PollTypeOK' /\ OthersTypeOK'
<1> DEFINE r == poll[p]
<1>0. r \in PollStates /\ inbox \subseteq Message
  BY DEF PollTypeOK, OthersTypeOK, MailboxTypeOK
<1>1. OthersTypeOK'
  BY ArchiveTypes, MailboxTypes, FailsType
     DEF OthersTypeOK, Begin, Select, FetchEnvelopes, ConnectFails, TriageDone, PurgeDone
<1>2. CASE Begin(p)
  <2> PICK policy \in Policies :
        poll' = [poll EXCEPT ![p].pc = "select", ![p].policy = policy]
    BY <1>2 DEF Begin
  <2> DEFINE s == [r EXCEPT !.pc = "select", !.policy = policy]
  <2>1. s \in PollStates /\ s.pc = "select"
    BY <1>0 DEF PollStates, PollPcs
  <2>2. poll' = [poll EXCEPT ![p] = s]
    BY DEF PollTypeOK
  <2> QED
    BY <1>1, <2>1, <2>2, LeavesCandidate
<1>3. CASE Select(p) /\ inbox # {}
  <2> DEFINE s == [r EXCEPT !.pc = "fetch", !.view = inbox]
  <2>1. s \in PollStates /\ s.pc = "fetch"
    BY <1>0 DEF PollStates, PollPcs
  <2>2. poll' = [poll EXCEPT ![p] = s]
    BY <1>3 DEF PollTypeOK, Select
  <2> QED
    BY <1>1, <2>1, <2>2, LeavesCandidate
<1>4. CASE FetchEnvelopes(p) /\ ~Return(p)
  <2> PICK got \in SUBSET Message :
        poll' = [poll EXCEPT ![p].pc = "triage", ![p].queue = got]
    BY <1>0, <1>4 DEF FetchEnvelopes
  <2> DEFINE s == [r EXCEPT !.pc = "triage", !.queue = got]
  <2>1. s \in PollStates /\ s.pc = "triage"
    BY <1>0 DEF PollStates, PollPcs
  <2>2. poll' = [poll EXCEPT ![p] = s]
    BY DEF PollTypeOK
  <2> QED
    BY <1>1, <2>1, <2>2, LeavesCandidate
<1>5. CASE Return(p) \/ Goto(p, "purge") \/ Goto(p, "body")
  BY <1>1, <1>5, MovesType DEF PollPcs
<1> QED
  BY <1>2, <1>3, <1>4, <1>5 DEF Select, FetchEnvelopes, ConnectFails, TriageDone, PurgeDone

LEMMA TriageType ==
    ASSUME PollTypeOK, OthersTypeOK, NEW p \in Pollers, NEW m \in Message,
           \/ TriageNoEnvelope(p, m) \/ TriageCheckFails(p, m)
           \/ TriageDuplicate(p, m) \/ TriageJudge(p, m) \/ TriageSenderFails(p, m)
    PROVE  PollTypeOK' /\ OthersTypeOK'
<1> DEFINE r == poll[p]
<1>0. r \in PollStates /\ r.view \in SUBSET Message
  BY DEF PollTypeOK, PollStates
<1>1. OthersTypeOK'
  BY ArchiveTypes, MailboxTypes, FailsType
     DEF OthersTypeOK, TriageNoEnvelope, TriageCheckFails, TriageDuplicate,
         TriageJudge, TriageSenderFails, TriageNew
<1>2. CASE At(p, "triage") /\ DropEnvelope(p, m)
  BY <1>1, <1>2, MovesType
<1>3. CASE TriageCheckFails(p, m)
  <2> DEFINE s == [r EXCEPT !.queue = @ \ {m}]
  <2>1. s \in PollStates /\ s.pc = "triage"
    BY <1>0, <1>3 DEF PollStates, PollPcs, TriageCheckFails, NextEnvelope, At
  <2>2. poll' = [poll EXCEPT ![p] = s]
    BY <1>3 DEF PollTypeOK, TriageCheckFails
  <2> QED
    BY <1>1, <2>1, <2>2, LeavesCandidate
<1>4. ASSUME NEW allowed, TriageNew(p, m, allowed), Accepts(m, allowed, r.policy)
      PROVE  PollTypeOK'
  <2> DEFINE c == [msg |-> m, mid |-> IdInRun(p, m)]
             s == [r EXCEPT !.queue = @ \ {m}, !.cands = @ \cup {c}]
  <2>0. c \in Candidates
    BY <1>0, MessageIdType DEF Candidates, IdInRun
  <2> HIDE DEF c
  <2>1. s \in PollStates /\ s.pc = "triage"
    BY <1>0, <1>4, <2>0 DEF PollStates, PollPcs, TriageNew, NextEnvelope, At
  <2>2. poll' = [poll EXCEPT ![p] = s]
    BY <1>4 DEF PollTypeOK, TriageNew, c
  <2> QED
    BY <2>1, <2>2, LeavesCandidate
<1> QED
  BY <1>1, <1>2, <1>3, <1>4
     DEF TriageNoEnvelope, TriageDuplicate, TriageJudge, TriageSenderFails, TriageNew,
         NextEnvelope

LEMMA PurgeType ==
    ASSUME PollTypeOK, OthersTypeOK, NEW p \in Pollers,
           \/ \E m \in Message : FlagDeleted(p, m) \/ FlagFails(p, m)
           \/ ExpungeUid(p) \/ ExpungeUidFails(p)
           \/ ExpungeEverything(p) \/ ExpungeEverythingFails(p)
    PROVE  PollTypeOK' /\ OthersTypeOK'
<1> DEFINE r == poll[p]
<1>0. r \in PollStates
  BY DEF PollTypeOK
<1>1. OthersTypeOK'
  BY ArchiveTypes, MailboxTypes, FailsType
     DEF OthersTypeOK, FlagDeleted, FlagFails, ExpungeUid, ExpungeUidFails,
         ExpungeEverything, ExpungeEverythingFails
<1>2. ASSUME NEW m \in Message, FlagDeleted(p, m)
      PROVE  PollTypeOK'
  <2> DEFINE s == [r EXCEPT !.pc = "expunge", !.uid = m, !.dels = @ \ {m}]
  <2>1. s \in PollStates /\ s.pc = "expunge"
    BY <1>0 DEF PollStates, PollPcs
  <2>2. poll' = [poll EXCEPT ![p] = s]
    BY <1>2 DEF PollTypeOK, FlagDeleted
  <2> QED
    BY <2>1, <2>2, LeavesCandidate
<1>3. ASSUME NEW m \in Message, FlagFails(p, m)
      PROVE  PollTypeOK'
  <2> DEFINE s == [r EXCEPT !.dels = @ \ {m}]
  <2>1. s \in PollStates /\ s.pc = "purge"
    BY <1>0, <1>3 DEF PollStates, PollPcs, FlagFails, At
  <2>2. poll' = [poll EXCEPT ![p] = s]
    BY <1>3 DEF PollTypeOK, FlagFails
  <2> QED
    BY <2>1, <2>2, LeavesCandidate
<1>4. Goto(p, "purge") \/ Goto(p, "expungeAll") => PollTypeOK'
  BY MovesType DEF PollPcs
<1>5. (\E m \in Message : FlagDeleted(p, m) \/ FlagFails(p, m)) => PollTypeOK'
  BY <1>2, <1>3
<1> QED
  BY <1>1, <1>4, <1>5
     DEF ExpungeUid, ExpungeUidFails, ExpungeEverything, ExpungeEverythingFails

LEMMA BodyType ==
    ASSUME PollTypeOK, OthersTypeOK, NEW p \in Pollers, NEW c \in poll[p].cands,
           FetchBody(p, c) \/ BodyGone(p, c) \/ BodyUnreadable(p, c) \/ FetchBodyFails(p, c)
    PROVE  PollTypeOK' /\ OthersTypeOK'
<1> DEFINE r == poll[p]
<1>0. r \in PollStates /\ c \in Candidates /\ c.msg \in Message
  BY DEF PollTypeOK, PollStates, Candidates
<1>1. OthersTypeOK'
  BY <1>0, ArchiveTypes, MailboxTypes, FailsType
     DEF OthersTypeOK, FetchBody, BodyGone, BodyUnreadable, FetchBodyFails
<1>2. CASE FetchBody(p, c)
  <2> DEFINE s == [r EXCEPT !.pc = "save", !.cands = @ \ {c}, !.cand = c]
  <2>1. s \in PollStates /\ s.pc = "save" /\ s.cand = c
    BY <1>0 DEF PollStates, PollPcs
  <2>2. poll' = [poll EXCEPT ![p] = s]
    BY <1>2 DEF FetchBody, PollTypeOK
  <2> HIDE DEF s
  <2>3. poll' \in [Pollers -> PollStates]
    BY <2>1, <2>2 DEF PollTypeOK
  <2>4. ASSUME NEW q \in Pollers PROVE CandidateTypeOK(q)'
    BY <1>0, <2>1, <2>2 DEF PollTypeOK, CandidateTypeOK
  <2>5. PollTypeOK'
    BY <2>3, <2>4 DEF PollTypeOK
  <2> QED
    BY <1>1, <2>5
<1>3. CASE KeepCandidate(p, c) \/ DeleteCandidate(p, c)
  BY <1>0, <1>1, <1>3, MovesType
<1> QED
  BY <1>2, <1>3 DEF BodyGone, BodyUnreadable, FetchBodyFails

LEMMA SaveType ==
    ASSUME PollTypeOK, OthersTypeOK, NEW p \in Pollers, SaveEmail(p) \/ SaveFails(p)
    PROVE  PollTypeOK' /\ OthersTypeOK'
<1> DEFINE mid == poll[p].cand.mid
           msg == poll[p].cand.msg
<1>1. poll[p].cand \in Candidates
  BY DEF PollTypeOK, CandidateTypeOK, SaveEmail, SaveFails, At
<1>2. mid \in MessageIds /\ msg \in Message
  BY <1>1 DEF Candidates
<1>3. OthersTypeOK'
  BY <1>2, ArchiveTypes, MailboxTypes, FailsType DEF OthersTypeOK, SaveEmail, SaveFails
<1>4. CASE SaveEmail(p)
  <2>1. SavedId(mid) \in Nat
    BY ArchiveTypes DEF OthersTypeOK
  <2>2. Attach(p, SavedId(mid), KeptAttachments(msg, poll[p].policy))
    BY <1>4 DEF SaveEmail
  <2> QED
    BY <1>1, <1>2, <1>3, <2>1, <2>2, KeptType, AttachType
<1>5. CASE SaveFails(p)
  BY <1>3, <1>5, MovesType DEF SaveFails, PollPcs
<1> QED
  BY <1>4, <1>5

LEMMA AttachmentType ==
    ASSUME PollTypeOK, OthersTypeOK, TypeOK, NEW p \in Pollers,
           \/ \E i \in poll[p].todo : ChooseFile(p, i) \/ MkdirFails(p, i)
           \/ WriteAttachment(p) \/ WriteWithoutDir(p) \/ WriteFails(p)
           \/ RecordAttachment(p) \/ RecordFails(p)
    PROVE  PollTypeOK' /\ OthersTypeOK'
<1> DEFINE r == poll[p]
<1>0. /\ r \in PollStates /\ r.email \in Nat /\ r.dest \in Paths /\ r.todo \in SUBSET Nat
      /\ r.pc \in {"stat", "write", "record"}
      /\ r.cand \in Candidates
      /\ r.todo \subseteq DOMAIN Mail[r.cand.msg].attachments
  BY DEF PollTypeOK, PollStates, CandidateTypeOK, At, ChooseFile, MkdirFails,
         WriteAttachment, WriteWithoutDir, WriteFails, RecordAttachment, RecordFails
<1>1. ASSUME NEW i \in r.todo, ChooseFile(p, i)
      PROVE  PollTypeOK' /\ OthersTypeOK'
  <2> DEFINE d == Destination(p, i)
             s == [r EXCEPT !.pc = "write", !.att = i, !.todo = @ \ {i}, !.dest = d]
  <2>1. d \in Paths
    BY <1>1, DestinationType DEF ChooseFile
  <2>2. poll' = [poll EXCEPT ![p] = s]
    BY <1>1 DEF ChooseFile, PollTypeOK
  <2> HIDE DEF d
  <2>3. s \in PollStates /\ s.pc = "write" /\ s.cand = r.cand /\ s.todo \subseteq r.todo
    BY <1>0, <2>1 DEF PollStates, PollPcs
  <2> HIDE DEF s
  <2>4. poll' \in [Pollers -> PollStates]
    BY <2>2, <2>3 DEF PollTypeOK
  <2>5. ASSUME NEW q \in Pollers PROVE CandidateTypeOK(q)'
    BY <1>0, <2>2, <2>3 DEF PollTypeOK, CandidateTypeOK
  <2>6. ArchiveTypeOK'
    <3>0. stamp \in Nat /\ dirs \subseteq Nat
      BY DEF OthersTypeOK, ArchiveTypeOK
    <3>1. stamp' \in Nat
      <4>1. stamp' = stamp + 1 \/ stamp' = stamp
        BY <1>1, Zenon DEF ChooseFile
      <4> QED
        BY <3>0, <4>1
    <3>3. dirs' \subseteq Nat
      BY <3>0, <1>0, <1>1 DEF ChooseFile
    <3>2. UNCHANGED <<emails, attachments, nextEmail, nextAttachment, lastRowid, files,
                      history>>
      BY <1>1 DEF ChooseFile
    <3> QED
      BY <3>1, <3>2, <3>3 DEF OthersTypeOK, ArchiveTypeOK
  <2>7. MailboxTypeOK' /\ refused' \subseteq Message /\ faults' \in Nat
    BY <1>1, MailboxTypes DEF OthersTypeOK, ChooseFile
  <2> QED
    BY <2>4, <2>5, <2>6, <2>7 DEF PollTypeOK, OthersTypeOK
<1>2. ASSUME NEW i \in r.todo, MkdirFails(p, i)
      PROVE  PollTypeOK' /\ OthersTypeOK'
  <2>1. PollTypeOK'
    BY <1>0, <1>2, AttachType DEF MkdirFails
  <2>2. OthersTypeOK'
    BY <1>2, ArchiveTypes, MailboxTypes, FailsType DEF OthersTypeOK, MkdirFails
  <2> QED
    BY <2>1, <2>2
<1>3. CASE WriteAttachment(p)
  <2> DEFINE s == [r EXCEPT !.pc = "record"]
  <2>1. s \in PollStates /\ s.pc = "record" /\ s.cand = r.cand /\ s.todo = r.todo
    BY <1>0 DEF PollStates, PollPcs
  <2>2. poll' = [poll EXCEPT ![p] = s]
    BY <1>3 DEF WriteAttachment, Goto, PollTypeOK
  <2> HIDE DEF s
  <2>3. poll' \in [Pollers -> PollStates]
    BY <2>1, <2>2 DEF PollTypeOK
  <2>4. ASSUME NEW q \in Pollers PROVE CandidateTypeOK(q)'
    BY <1>0, <2>1, <2>2 DEF PollTypeOK, CandidateTypeOK
  <2>5. OthersTypeOK'
    BY <1>0, <1>3, ArchiveTypes, MailboxTypes DEF OthersTypeOK, WriteAttachment
  <2> QED
    BY <2>3, <2>4, <2>5 DEF PollTypeOK
<1>4. CASE WriteWithoutDir(p) \/ WriteFails(p) \/ RecordAttachment(p) \/ RecordFails(p)
  <2>1. PollTypeOK'
    BY <1>0, <1>4, AttachType
       DEF WriteWithoutDir, WriteFails, RecordAttachment, RecordFails
  <2>2. OthersTypeOK'
    BY <1>0, <1>4, ArchiveTypes, MailboxTypes, FailsType
       DEF OthersTypeOK, WriteWithoutDir, WriteFails, RecordAttachment, RecordFails
  <2> QED
    BY <2>1, <2>2
<1> QED
  BY <1>1, <1>2, <1>3, <1>4

(***************************************************************************)
(* All steps.                                                              *)
(***************************************************************************)
LEMMA PollKeepsTypes ==
    ASSUME TypeOK, NEW p \in Pollers, Poll(p) \/ PollFails(p)
    PROVE  TypeOK'
<1>1. PollTypeOK /\ OthersTypeOK
  BY DEF TypeOK, PollTypeOK, OthersTypeOK
<1>2. PollTypeOK' /\ OthersTypeOK'
  BY <1>1, Pass1Type, TriageType, PurgeType, BodyType, SaveType, AttachmentType
     DEF Poll, PollFails, PollStep, PollFailure
<1>3. UNCHANGED <<reaperVars, crashes>>
  BY DEF Poll, PollFails
<1> QED
  BY <1>2, <1>3 DEF TypeOK, PollTypeOK, OthersTypeOK, reaperVars

\* What a step of a deletion or a sweep leaves alone.
LEMMA JobFrame ==
    ASSUME TypeOK, ArchiveTypeOK', UNCHANGED <<mailboxVars, pollerVars, crashes>>,
           job' \in [Reapers -> JobStates], due' \subseteq Nat,
           deletions' \in Nat, faults' \in Nat
    PROVE  TypeOK'
<1>1. MailboxTypeOK'
  BY MailboxTypes DEF TypeOK
<1>2. /\ poll' \in [Pollers -> PollStates] /\ refused' \subseteq Message
      /\ \A p \in Pollers : CandidateTypeOK(p)'
  BY DEF TypeOK, pollerVars, CandidateTypeOK
<1> QED
  BY <1>1, <1>2 DEF TypeOK

LEMMA JobMoves ==
    ASSUME TypeOK, NEW r \in Reapers
    PROVE  /\ EndJob(r) => job' \in [Reapers -> JobStates]
           /\ \A path \in job[r].paths :
                 job' = AfterFile(r, path) => job' \in [Reapers -> JobStates]
<1>1. IdleJob \in JobStates
  BY DEF IdleJob, JobStates, JobPcs
<1>2. EndJob(r) => job' \in [Reapers -> JobStates]
  BY <1>1 DEF EndJob, TypeOK
<1>3. ASSUME NEW path \in job[r].paths, job' = AfterFile(r, path)
      PROVE  job' \in [Reapers -> JobStates]
  <2>1. CASE job[r].paths # {path}
    BY <1>3, <2>1 DEF AfterFile, TypeOK, JobStates
  <2>2. CASE job[r].paths = {path} /\ r \in Users
    BY <1>3, <2>2 DEF AfterFile, TypeOK, JobStates, JobPcs
  <2>3. CASE job[r].paths = {path} /\ r \notin Users
    BY <1>1, <1>3, <2>3 DEF AfterFile, TypeOK
  <2> QED
    BY <2>1, <2>2, <2>3
<1> QED
  BY <1>2, <1>3

LEMMA DeleteRowType ==
    ASSUME TypeOK, NEW r \in Reapers, DeleteRow(r) \/ DeleteRowFails(r),
           UNCHANGED <<mailboxVars, pollerVars, crashes>>
    PROVE  TypeOK'
<1> USE DEF TypeOK
<1>1. CASE DeleteRow(r)
  <2> PICK id \in job[r].doomed :
        /\ DeleteEmailRow(id)
        /\ due' = due \ {id}
        /\ job' = IF job[r].doomed # {id}
                  THEN [job EXCEPT ![r].doomed = @ \ {id}]
                  ELSE IF job[r].paths = {}
                  THEN [job EXCEPT ![r] = IdleJob]
                  ELSE [job EXCEPT ![r].doomed = {}, ![r].pc = "files"]
    BY <1>1 DEF DeleteRow
  <2>1. id \in Nat
    BY DEF JobStates
  <2>2. ArchiveTypeOK'
    BY <2>1, ArchiveTypes
  <2>3. job' \in [Reapers -> JobStates]
    <3>1. IdleJob \in JobStates
      BY DEF IdleJob, JobStates, JobPcs
    <3>2. CASE job[r].doomed # {id}
      BY <3>2 DEF JobStates
    <3>3. CASE job[r].doomed = {id} /\ job[r].paths = {}
      BY <3>1, <3>3
    <3>4. CASE job[r].doomed = {id} /\ job[r].paths # {}
      BY <3>4 DEF JobStates, JobPcs
    <3> QED
      BY <3>2, <3>3, <3>4
  <2> QED
    BY <1>1, <2>2, <2>3, JobFrame DEF DeleteRow
<1>2. CASE DeleteRowFails(r)
  BY <1>2, ArchiveTypes, JobMoves, JobFrame, FailsType DEF DeleteRowFails
<1> QED
  BY <1>1, <1>2

LEMMA RemoveType ==
    ASSUME TypeOK, NEW r \in Reapers, RemovePath(r) \/ RemovePathFails(r),
           UNCHANGED <<mailboxVars, pollerVars, crashes>>
    PROVE  TypeOK'
<1>1. PICK path \in job[r].paths : job' = AfterFile(r, path)
  BY DEF RemovePath, RemovePathFails
<1>2. job' \in [Reapers -> JobStates]
  BY <1>1, JobMoves
<1>3. ArchiveTypeOK'
  <2>1. job[r].paths \subseteq Paths
    BY DEF TypeOK, JobStates
  <2> QED
    BY <2>1, ArchiveTypes DEF TypeOK, RemovePath, RemovePathFails
<1> QED
  BY <1>2, <1>3, JobFrame, FailsType DEF TypeOK, RemovePath, RemovePathFails

LEMMA UserKeepsTypes ==
    ASSUME TypeOK, NEW u \in Users, Delete(u)
    PROVE  TypeOK'
<1>0. u \in Reapers /\ UNCHANGED <<mailboxVars, pollerVars, crashes>>
  BY DEF Reapers, Delete
<1>1. ASSUME NEW id \in Nat, NEW paths \in SUBSET Paths, RequestDelete(u, id, paths),
             faults' \in Nat
      PROVE  TypeOK'
  <2>1. [IdleJob EXCEPT !.pc = "rows", !.doomed = {id}, !.paths = paths, !.email = id]
           \in JobStates
    BY DEF IdleJob, JobStates, JobPcs
  <2>2. job' \in [Reapers -> JobStates]
    BY <1>1, <2>1 DEF RequestDelete, TypeOK
  <2> QED
    BY <1>0, <1>1, <2>2, ArchiveTypes, JobFrame DEF RequestDelete, TypeOK
<1>2. ASSUME NEW id \in 1 .. nextEmail - 1, BeginDelete(u, id) \/ BeginDeleteBlind(u, id)
      PROVE  TypeOK'
  <2>1. id \in Nat /\ AttachmentPaths(id) \subseteq Paths /\ faults \in Nat
    BY ArchiveTypes DEF TypeOK, ArchiveTypeOK
  <2> QED
    BY <1>1, <1>2, <2>1, FailsType DEF BeginDelete, BeginDeleteBlind
<1>3. CASE RemoveEmailDir(u)
  <2>1. ArchiveTypeOK'
    BY <1>0, <1>3, ArchiveTypes DEF RemoveEmailDir, TypeOK, JobStates
  <2> QED
    BY <1>0, <1>3, <2>1, JobMoves, JobFrame DEF RemoveEmailDir, TypeOK
<1> QED
  BY <1>0, <1>2, <1>3, DeleteRowType, RemoveType DEF Delete, UserStep

LEMMA SweepKeepsTypes ==
    ASSUME TypeOK, NEW w \in Sweepers, Sweep(w)
    PROVE  TypeOK'
<1>0. w \in Reapers /\ UNCHANGED <<mailboxVars, pollerVars, crashes>>
  BY DEF Reapers, Sweep
<1>1. CASE BeginSweep(w)
  <2>1. PICK ids \in SUBSET Nat :
          job' = [job EXCEPT ![w] = [IdleJob EXCEPT !.pc = "collect",
                                       !.collect = ids, !.doomed = ids]]
    BY <1>1 DEF BeginSweep, TypeOK
  <2>2. [IdleJob EXCEPT !.pc = "collect", !.collect = ids, !.doomed = ids] \in JobStates
    BY DEF IdleJob, JobStates, JobPcs
  <2>3. job' \in [Reapers -> JobStates]
    BY <2>1, <2>2 DEF TypeOK
  <2> QED
    BY <1>0, <1>1, <2>3, ArchiveTypes, JobFrame DEF BeginSweep, TypeOK
<1>2. CASE CollectPaths(w)
  <2> PICK id \in job[w].collect :
        job' = [job EXCEPT
                  ![w].collect = @ \ {id},
                  ![w].paths = @ \cup AttachmentPaths(id),
                  ![w].pc = IF job[w].collect = {id} THEN "rows" ELSE "collect"]
    BY <1>2 DEF CollectPaths
  <2>1. AttachmentPaths(id) \subseteq Paths
    BY ArchiveTypes DEF TypeOK
  <2> DEFINE pc == IF job[w].collect = {id} THEN "rows" ELSE "collect"
             s  == [job[w] EXCEPT !.collect = @ \ {id}, !.pc = pc,
                                  !.paths = @ \cup AttachmentPaths(id)]
  <2>3. pc \in JobPcs
    BY DEF JobPcs
  <2>4. job' = [job EXCEPT ![w] = s]
    BY DEF TypeOK, JobStates
  <2> HIDE DEF pc
  <2>5. s \in JobStates
    BY <1>0, <2>1, <2>3 DEF TypeOK, JobStates
  <2>2. job' \in [Reapers -> JobStates]
    BY <2>4, <2>5 DEF TypeOK
  <2> QED
    BY <1>0, <1>2, <2>2, ArchiveTypes, JobFrame DEF CollectPaths, TypeOK
<1>3. CASE CollectFails(w)
  BY <1>0, <1>3, ArchiveTypes, JobMoves, JobFrame, FailsType DEF CollectFails, TypeOK
<1> QED
  BY <1>0, <1>1, <1>2, <1>3, DeleteRowType, RemoveType DEF Sweep, SweepStep

LEMMA OtherStepsKeepTypes ==
    ASSUME TypeOK, Arrive \/ Retention \/ Login \/ Crash \/ UNCHANGED vars
    PROVE  TypeOK'
<1>0. /\ UNCHANGED pollerVars =>
            /\ poll' \in [Pollers -> PollStates] /\ refused' \subseteq Message
            /\ \A p \in Pollers : CandidateTypeOK(p)'
      /\ UNCHANGED reaperVars =>
            /\ job' \in [Reapers -> JobStates] /\ due' \subseteq Nat /\ deletions' \in Nat
  BY DEF TypeOK, pollerVars, reaperVars, CandidateTypeOK
<1>1. CASE Arrive
  BY <1>0, <1>1, ArchiveTypes, MailboxTypes DEF TypeOK, Arrive
<1>2. CASE Retention
  <2>1. PICK id \in EmailIds : BecomeDue(id) \/ Reprieve(id)
    BY <1>2 DEF Retention, RetentionStep
  <2>2. id \in Nat
    BY DEF EmailIds, TypeOK, ArchiveTypeOK
  <2> QED
    BY <1>2, <2>1, <2>2, ArchiveTypes, JobFrame
       DEF Retention, BecomeDue, Reprieve, TypeOK
<1>3. CASE Login
  BY <1>0, <1>3, ArchiveTypes, MailboxTypes, CompositionAssumption DEF TypeOK, Login
<1>4. CASE Crash
  <2>1. poll' \in [Pollers -> PollStates] /\ \A p \in Pollers : CandidateTypeOK(p)'
    BY <1>4, IdleType DEF Crash, CandidateTypeOK
  <2>2. job' \in [Reapers -> JobStates]
    BY <1>4 DEF Crash, IdleJob, JobStates, JobPcs
  <2>3. ArchiveTypeOK' /\ MailboxTypeOK'
    BY <1>4, ArchiveTypes, MailboxTypes DEF TypeOK, Crash
  <2> QED
    BY <1>4, <2>1, <2>2, <2>3 DEF TypeOK, Crash
<1>5. CASE UNCHANGED vars
  BY <1>0, <1>5, ArchiveTypes, MailboxTypes DEF TypeOK, vars
<1> QED
  BY <1>1, <1>2, <1>3, <1>4, <1>5

LEMMA InitType == Init => TypeOK
<1> SUFFICES ASSUME Init PROVE TypeOK
  OBVIOUS
<1>1. ArchiveTypeOK
  BY DEF Init, ArchiveInit, ArchiveTypeOK
<1>2. MailboxTypeOK
  BY DEF Init, MailboxInit, MailboxTypeOK
<1>3. poll \in [Pollers -> PollStates] /\ \A p \in Pollers : CandidateTypeOK(p)
  BY IdleType DEF Init, PollerInit, CandidateTypeOK
<1>4. job \in [Reapers -> JobStates]
  BY DEF Init, ReaperInit, IdleJob, JobStates, JobPcs
<1> QED
  BY <1>1, <1>2, <1>3, <1>4
     DEF TypeOK, Init, PollerInit, ReaperInit, FailureInit

\* TypeOK is inductive: one step of the system.
LEMMA StepType == TypeOK /\ [Next]_vars => TypeOK'
  BY PollKeepsTypes, UserKeepsTypes, SweepKeepsTypes, OtherStepsKeepTypes DEF Next

(* Every variable always has its type, whatever the interleaving, the      *)
(* failures and the crashes; the indices of attachments that Poll uses are *)
(* in range, and only messages of the mailbox are flagged.                 *)
THEOREM TypeCorrect == Spec => []TypeOK
<1>1. Init => TypeOK
  BY InitType
<1>2. TypeOK /\ [Next]_vars => TypeOK'
  BY StepType
<1> QED
  BY <1>1, <1>2, PTL DEF Spec
=============================================================================
