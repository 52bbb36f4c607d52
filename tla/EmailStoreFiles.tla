--------------------------- MODULE EmailStoreFiles ---------------------------
(***************************************************************************)
(* Proofs about the archive side of EmailStore: a listed attachment is on  *)
(* disk, an archived email is complete, and a message is refused only for  *)
(* a cause, for any messages, policies, runs, deletions and faults.        *)
(***************************************************************************)
EXTENDS EmailStoreTypes

----------------------------------------------------------------------------
(* The steps of a run.                                                     *)

Attaching == {"stat", "write", "record"}

\* A step of run p that has nothing to do with the archive: p saves attachments
\* neither before nor after it, and goes on with the policy it has read.
Outside(p) ==
    /\ UNCHANGED archiveVars
    /\ poll[p].pc \notin Attaching /\ poll'[p].pc \notin Attaching
    /\ \/ poll[p].pc # "idle" /\ poll'[p].policy = poll[p].policy
       \/ poll'[p].policy \in Policies \/ poll'[p].pc = "idle"

SaveSteps(p) ==
    \/ SaveEmail(p) \/ \E i \in poll[p].todo : ChooseFile(p, i) \/ MkdirFails(p, i)
    \/ WriteAttachment(p) \/ WriteWithoutDir(p) \/ WriteFails(p)
    \/ RecordAttachment(p) \/ RecordFails(p)

LEMMA RunMoves ==
    ASSUME TypeOK, NEW p \in Pollers
    PROVE  /\ Return(p) => poll'[p].pc = "idle"
           /\ \A pc : Goto(p, pc) => poll'[p].pc = pc /\ poll'[p].policy = poll[p].policy
           /\ \A m : DropEnvelope(p, m) =>
                 poll'[p].pc = poll[p].pc /\ poll'[p].policy = poll[p].policy
           /\ \A c : KeepCandidate(p, c) \/ DeleteCandidate(p, c) =>
                 poll'[p].pc = "purge" /\ poll'[p].policy = poll[p].policy
<1>1. poll \in [Pollers -> PollStates]
  BY DEF TypeOK
<1>2. Return(p) => poll'[p].pc = "idle"
  BY <1>1 DEF Return, IdlePoll
<1>3. \A pc : Goto(p, pc) => poll'[p].pc = pc /\ poll'[p].policy = poll[p].policy
  BY <1>1 DEF Goto, PollStates
<1>4. \A m : DropEnvelope(p, m) =>
         poll'[p].pc = poll[p].pc /\ poll'[p].policy = poll[p].policy
  BY <1>1 DEF DropEnvelope, PollStates
<1>5. \A c : KeepCandidate(p, c) \/ DeleteCandidate(p, c) =>
         poll'[p].pc = "purge" /\ poll'[p].policy = poll[p].policy
  BY <1>1 DEF KeepCandidate, DeleteCandidate, PollStates
<1> QED
  BY <1>2, <1>3, <1>4, <1>5

LEMMA RunAlone ==
    ASSUME TypeOK, NEW p \in Pollers, Poll(p) \/ PollFails(p), NEW q \in Pollers, q # p
    PROVE  poll'[q] = poll[q]
<1>1. poll \in [Pollers -> PollStates]
  BY DEF TypeOK
<1>2. /\ Return(p) => poll'[q] = poll[q]
      /\ \A pc : Goto(p, pc) => poll'[q] = poll[q]
      /\ \A m : DropEnvelope(p, m) => poll'[q] = poll[q]
      /\ \A c : KeepCandidate(p, c) \/ DeleteCandidate(p, c) => poll'[q] = poll[q]
      /\ \A id, todo : Attach(p, id, todo) => poll'[q] = poll[q]
  BY <1>1 DEF Return, Goto, DropEnvelope, KeepCandidate, DeleteCandidate, Attach
<1>3. CASE \/ Begin(p) \/ Select(p) \/ FetchEnvelopes(p) \/ ConnectFails(p)
           \/ TriageDone(p) \/ PurgeDone(p) \/ SaveFails(p)
  BY <1>1, <1>2, <1>3 DEF Begin, Select, FetchEnvelopes, ConnectFails, TriageDone,
                          PurgeDone, SaveFails
<1>4. CASE \E m \in Message :
             \/ TriageNoEnvelope(p, m) \/ TriageCheckFails(p, m)
             \/ TriageDuplicate(p, m) \/ TriageJudge(p, m) \/ TriageSenderFails(p, m)
  BY <1>1, <1>2, <1>4 DEF TriageNoEnvelope, TriageCheckFails, TriageDuplicate,
                          TriageJudge, TriageSenderFails, TriageNew
<1>5. CASE \/ \E m \in Message : FlagDeleted(p, m) \/ FlagFails(p, m)
           \/ ExpungeUid(p) \/ ExpungeUidFails(p)
           \/ ExpungeEverything(p) \/ ExpungeEverythingFails(p)
  BY <1>1, <1>2, <1>5 DEF FlagDeleted, FlagFails, ExpungeUid, ExpungeUidFails,
                          ExpungeEverything, ExpungeEverythingFails
<1>6. CASE \E c \in poll[p].cands :
             FetchBody(p, c) \/ BodyGone(p, c) \/ BodyUnreadable(p, c) \/ FetchBodyFails(p, c)
  BY <1>1, <1>2, <1>6 DEF FetchBody, BodyGone, BodyUnreadable, FetchBodyFails
<1>7. CASE \E i \in poll[p].todo : ChooseFile(p, i)
  BY <1>1, <1>7 DEF ChooseFile
<1>8. CASE \/ SaveEmail(p) \/ (\E i \in poll[p].todo : MkdirFails(p, i)) \/ WriteWithoutDir(p)
           \/ WriteAttachment(p) \/ WriteFails(p) \/ RecordAttachment(p) \/ RecordFails(p)
  BY <1>2, <1>8 DEF SaveEmail, MkdirFails, WriteWithoutDir, WriteAttachment, WriteFails,
                    RecordAttachment, RecordFails
<1> QED
  BY <1>3, <1>4, <1>5, <1>6, <1>7, <1>8 DEF Poll, PollFails, PollStep, PollFailure

LEMMA RunSteps ==
    ASSUME TypeOK, NEW p \in Pollers, Poll(p) \/ PollFails(p)
    PROVE  Outside(p) \/ SaveSteps(p)
<1> USE DEF Attaching, At
<1>1. poll \in [Pollers -> PollStates]
  BY DEF TypeOK
<1>out. ASSUME poll[p].pc \notin Attaching \cup {"idle"}, UNCHANGED archiveVars,
              Return(p) \/ \E pc : Goto(p, pc) /\ pc \notin Attaching
       PROVE  Outside(p)
  BY <1>out, RunMoves DEF Outside
<1>2. CASE Begin(p)
  BY <1>1, <1>2 DEF Begin, Outside, PollStates
<1>3. CASE Select(p) \/ FetchEnvelopes(p) \/ ConnectFails(p)
  <2>1. CASE Return(p)
    BY <1>3, <2>1, <1>out DEF Select, FetchEnvelopes, ConnectFails
  <2>2. CASE Select(p) /\ ~Return(p)
    BY <1>1, <2>2 DEF Select, Outside, PollStates
  <2>3. CASE FetchEnvelopes(p) /\ ~Return(p)
    BY <1>1, <2>3 DEF FetchEnvelopes, Outside, PollStates
  <2> QED
    BY <1>3, <2>1, <2>2, <2>3 DEF ConnectFails
<1>4. ASSUME NEW m \in Message,
             TriageNoEnvelope(p, m) \/ TriageDuplicate(p, m) \/ TriageCheckFails(p, m)
      PROVE  Outside(p)
  <2>1. poll[p].pc = "triage" /\ UNCHANGED archiveVars
    BY <1>4 DEF TriageNoEnvelope, TriageDuplicate, TriageCheckFails, NextEnvelope
  <2>2. CASE DropEnvelope(p, m)
    BY <2>1, <2>2, RunMoves DEF Outside
  <2>3. CASE TriageCheckFails(p, m)
    BY <1>1, <2>1, <2>3 DEF TriageCheckFails, Outside, PollStates
  <2> QED
    BY <1>4, <2>2, <2>3 DEF TriageNoEnvelope, TriageDuplicate
<1>5. ASSUME NEW m \in Message, NEW allowed, TriageNew(p, m, allowed)
      PROVE  Outside(p)
  <2>1. poll[p].pc = "triage" /\ UNCHANGED archiveVars
    BY <1>5 DEF TriageNew, NextEnvelope
  <2>2. CASE DropEnvelope(p, m)
    BY <2>1, <2>2, RunMoves DEF Outside
  <2>3. CASE ~DropEnvelope(p, m)
    <3> DEFINE c == [msg |-> m, mid |-> IdInRun(p, m)]
    <3>1. poll' = [poll EXCEPT ![p].queue = @ \ {m}, ![p].cands = @ \cup {c}]
      BY <1>5, <2>3 DEF TriageNew
    <3> HIDE DEF c
    <3>2. poll'[p].pc = poll[p].pc /\ poll'[p].policy = poll[p].policy
      BY <1>1, <3>1 DEF PollStates
    <3> QED
      BY <2>1, <3>2 DEF Outside
  <2> QED
    BY <2>2, <2>3
<1>6. ASSUME NEW m \in Message, FlagDeleted(p, m) \/ FlagFails(p, m)
      PROVE  Outside(p)
  BY <1>1, <1>6 DEF FlagDeleted, FlagFails, Outside, PollStates
<1>7. CASE \/ TriageDone(p) \/ ExpungeUid(p) \/ ExpungeUidFails(p)
           \/ ExpungeEverything(p) \/ ExpungeEverythingFails(p) \/ SaveFails(p)
  BY <1>7, <1>out DEF TriageDone, ExpungeUid, ExpungeUidFails, ExpungeEverything,
                     ExpungeEverythingFails, SaveFails
<1>8. CASE PurgeDone(p)
  BY <1>8, <1>out DEF PurgeDone
<1>9. ASSUME NEW c \in poll[p].cands,
             FetchBody(p, c) \/ BodyGone(p, c) \/ BodyUnreadable(p, c) \/ FetchBodyFails(p, c)
      PROVE  Outside(p)
  <2>1. poll[p].pc = "body" /\ UNCHANGED archiveVars
    BY <1>9 DEF FetchBody, BodyGone, BodyUnreadable, FetchBodyFails, NextCandidate
  <2>2. CASE FetchBody(p, c)
    BY <1>1, <2>1, <2>2 DEF FetchBody, Outside, PollStates
  <2>3. CASE KeepCandidate(p, c) \/ DeleteCandidate(p, c)
    BY <2>1, <2>3, RunMoves DEF Outside
  <2> QED
    BY <1>9, <2>2, <2>3 DEF BodyGone, BodyUnreadable, FetchBodyFails
<1> QED
  BY <1>2, <1>3, <1>4, <1>5, <1>6, <1>7, <1>8, <1>9
     DEF Poll, PollFails, PollStep, PollFailure, SaveSteps, TriageJudge, TriageSenderFails

----------------------------------------------------------------------------
(* What is listed is on disk.                                              *)

\* The email was stored once and is deleted: its row id never comes back.
Gone(id) == id < nextEmail /\ id \notin EmailIds

\* The file is there, or belongs to an email that is deleted.
OnDisk(path) == path \in DOMAIN files \/ Gone(path.dir)

Numbered == \A e \in emails : 0 < e.id /\ e.id < nextEmail

\* Attachments lie in the directory of the email they are listed with.
RowOK(a) == a.path.dir = a.email /\ OnDisk(a.path)

\* A run that saves an attachment writes into the directory of the email it
\* lists it with, and has written the file before it lists it.
RunOK(r) ==
    /\ r.pc \in {"write", "record"} => r.dest.dir = r.email
    /\ r.pc = "record" => OnDisk(r.dest)

\* A deletion removes only files of emails whose rows it has deleted.
JobOK(j) ==
    /\ \A id \in j.doomed : id < nextEmail
    /\ j.collect \subseteq j.doomed /\ (j.pc # "collect" => j.collect = {})
    /\ \A path \in j.paths :
          Gone(path.dir) \/ (j.pc \in {"collect", "rows"} /\ path.dir \in j.doomed)
    /\ Gone(j.email) \/ (j.pc = "rows" /\ j.email \in j.doomed)

\* The inductive invariant.  ListedAttachmentOnDisk alone does not say what runs
\* and deletions in progress are about to list and to remove.
FilesInv ==
    /\ Numbered
    /\ \A a \in attachments : RowOK(a)
    /\ \A p \in Pollers : RunOK(poll[p])
    /\ \A r \in Reapers : JobOK(job[r])

\* What a step may do to the tables and the files.
ArchiveStep ==
    /\ nextEmail' \in Nat /\ nextEmail' >= nextEmail
    /\ \A e \in emails' : e \in emails \/ (e.id = nextEmail /\ nextEmail' > nextEmail)
    /\ \A path \in DOMAIN files : path \in DOMAIN files' \/ Gone(path.dir)
    /\ \A a \in attachments' : a \in attachments \/ (RowOK(a) /\ a.path \in Paths)

LEMMA PathDir == \A path \in Paths : path.dir \in Nat
<1> SUFFICES ASSUME NEW path \in Paths PROVE path.dir \in Nat
  OBVIOUS
<1>1. CASE path \in [dir : Nat, name : STRING, unique : Nat]
  BY <1>1
<1>2. CASE path = NoPath
  BY <1>2 DEF NoPath, Path
<1> QED
  BY <1>1, <1>2 DEF Paths

LEMMA StepKeeps ==
    ASSUME TypeOK, Numbered, \A a \in attachments : RowOK(a), ArchiveStep
    PROVE  /\ Numbered' /\ \A a \in attachments' : RowOK(a)'
           /\ \A id \in Nat : Gone(id) => Gone(id)'
           /\ \A path \in Paths : OnDisk(path) => OnDisk(path)'
<1>1. nextEmail \in Nat \ {0} /\ \A e \in emails : e.id \in Nat
  BY DEF TypeOK, ArchiveTypeOK
<1>2. Numbered'
  BY <1>1 DEF Numbered, ArchiveStep
<1>3. ASSUME NEW id \in Nat, Gone(id) PROVE Gone(id)'
  <2>1. id < nextEmail'
    BY <1>1, <1>3 DEF Gone, ArchiveStep
  <2> QED
    BY <1>1, <1>3, <2>1 DEF Gone, ArchiveStep, EmailIds
<1>4. ASSUME NEW path \in Paths, OnDisk(path) PROVE OnDisk(path)'
  <2>1. path.dir \in Nat
    BY PathDir
  <2> QED
    BY <1>3, <1>4, <2>1 DEF OnDisk, ArchiveStep
<1>5. ASSUME NEW a, a \in attachments' PROVE RowOK(a)'
  <2>1. RowOK(a) => a.path \in Paths
    <3>1. CASE a \in attachments
      BY <3>1 DEF TypeOK, ArchiveTypeOK
    <3>2. CASE a \notin attachments
      BY <1>5, <3>2 DEF ArchiveStep
    <3> QED
      BY <3>1, <3>2
  <2> QED
    BY <1>4, <1>5, <2>1 DEF RowOK, ArchiveStep
<1> QED
  BY <1>2, <1>3, <1>4, <1>5

(* The statements and the file operations do no more than that.            *)
LEMMA OperationsKeep ==
    ASSUME TypeOK
    PROVE  /\ UNCHANGED archiveVars => ArchiveStep
           /\ \A mid, m : InsertEmail(mid, m) => ArchiveStep
           /\ \A id : \A path \in Paths :
                 path.dir = id /\ OnDisk(path) /\ InsertAttachment(id, path) => ArchiveStep
           /\ \A id : DeleteEmailRow(id) => ArchiveStep
           /\ \A path, c : WriteFile(path, c) => ArchiveStep
           /\ \A path : Gone(path.dir) /\ RemoveFile(path) => ArchiveStep
           /\ \A id : RemoveDir(id) => ArchiveStep
           /\ \A id : InsertElsewhere(id) => ArchiveStep
           /\ Reconnect => ArchiveStep
<1>1. nextEmail \in Nat
  BY DEF TypeOK, ArchiveTypeOK
<1>2. UNCHANGED archiveVars => ArchiveStep
  BY <1>1 DEF ArchiveStep, archiveVars
<1>3. ASSUME NEW mid, NEW m, InsertEmail(mid, m) PROVE ArchiveStep
  BY <1>1, <1>2, <1>3 DEF ArchiveStep, InsertEmail
<1>4. ASSUME NEW id, NEW path \in Paths, path.dir = id, OnDisk(path),
             InsertAttachment(id, path)
      PROVE  ArchiveStep
  BY <1>1, <1>4 DEF ArchiveStep, InsertAttachment, RowOK
<1>5. ASSUME NEW id, DeleteEmailRow(id) PROVE ArchiveStep
  BY <1>1, <1>5 DEF ArchiveStep, DeleteEmailRow
<1>6. ASSUME NEW path, NEW c, WriteFile(path, c) PROVE ArchiveStep
  BY <1>1, <1>6 DEF ArchiveStep, WriteFile
<1>7. ASSUME NEW path, Gone(path.dir), RemoveFile(path) PROVE ArchiveStep
  BY <1>1, <1>7 DEF ArchiveStep, RemoveFile
<1>8. ASSUME NEW id, RemoveDir(id) \/ InsertElsewhere(id) \/ Reconnect PROVE ArchiveStep
  BY <1>1, <1>8 DEF ArchiveStep, RemoveDir, InsertElsewhere, Reconnect
<1> QED
  BY <1>2, <1>3, <1>4, <1>5, <1>6, <1>7, <1>8

\* A run and a deletion that a step does not belong to.
LEMMA JobOKKept ==
    ASSUME TypeOK, FilesInv, ArchiveStep, NEW j \in JobStates, JobOK(j)
    PROVE  JobOK(j)'
<1>1. \A id \in Nat : Gone(id) => Gone(id)'
  BY StepKeeps DEF FilesInv
<1>2. /\ j.doomed \subseteq Nat /\ j.paths \subseteq Paths /\ j.email \in Nat
      /\ nextEmail \in Nat
  BY DEF TypeOK, ArchiveTypeOK, JobStates
<1>3. \A path \in j.paths : path.dir \in Nat
  BY <1>2, PathDir
<1>4. \A id \in j.doomed : id < nextEmail'
  BY <1>2 DEF JobOK, ArchiveStep
<1> QED
  BY <1>1, <1>2, <1>3, <1>4 DEF JobOK

LEMMA BystandersKept ==
    ASSUME TypeOK, FilesInv, ArchiveStep
    PROVE  /\ \A p \in Pollers : poll'[p] = poll[p] => RunOK(poll[p])'
           /\ \A r \in Reapers : job'[r] = job[r] => JobOK(job[r])'
<1>1. \A path \in Paths : OnDisk(path) => OnDisk(path)'
  BY StepKeeps DEF FilesInv
<1>2. ASSUME NEW p \in Pollers, poll'[p] = poll[p] PROVE RunOK(poll[p])'
  <2>1. poll[p].dest \in Paths
    BY DEF TypeOK, PollStates
  <2> QED
    BY <1>1, <1>2, <2>1 DEF FilesInv, RunOK
<1>3. ASSUME NEW r \in Reapers, job'[r] = job[r] PROVE JobOK(job[r])'
  <2>1. PICK j \in JobStates : j = job[r]
    BY DEF TypeOK
  <2>2. JobOK(j)'
    BY <2>1, JobOKKept DEF FilesInv
  <2> QED
    BY <1>3, <2>1, <2>2
<1> QED
  BY <1>2, <1>3

(***************************************************************************)
(* Steps of runs.                                                          *)
(***************************************************************************)
\* What Attach leaves of the run: it goes on saving attachments, or is done.
LEMMA AttachMoves ==
    ASSUME TypeOK, NEW p \in Pollers, NEW id, NEW todo, Attach(p, id, todo)
    PROVE  /\ poll'[p].policy = poll[p].policy /\ poll'[p].cand = poll[p].cand
           /\ todo = {} => poll'[p].pc = "purge"
           /\ todo # {} => /\ poll'[p].pc = "stat"
                           /\ poll'[p].email = id /\ poll'[p].todo = todo
<1>1. poll \in [Pollers -> PollStates]
  BY DEF TypeOK
<1>2. CASE todo = {}
  BY <1>1, <1>2 DEF Attach, PollStates
<1>3. CASE todo # {}
  BY <1>1, <1>3 DEF Attach, PollStates
<1> QED
  BY <1>2, <1>3

LEMMA ChooseFileMoves ==
    ASSUME TypeOK, NEW p \in Pollers, NEW i, i \in poll[p].todo, ChooseFile(p, i)
    PROVE  /\ poll'[p].pc = "write" /\ poll'[p].email = poll[p].email
           /\ poll'[p].cand = poll[p].cand /\ poll'[p].policy = poll[p].policy
           /\ poll'[p].todo = poll[p].todo \ {i} /\ poll'[p].att = i
           /\ poll'[p].dest = Destination(p, i)
<1> DEFINE d == Destination(p, i)
<1>1. poll \in [Pollers -> PollStates]
  BY DEF TypeOK
<1>2. poll' = [poll EXCEPT ![p].pc = "write", ![p].att = i, ![p].todo = @ \ {i},
                           ![p].dest = d]
  BY DEF ChooseFile
<1> HIDE DEF d
<1>3. /\ poll'[p].pc = "write" /\ poll'[p].email = poll[p].email
      /\ poll'[p].cand = poll[p].cand /\ poll'[p].policy = poll[p].policy
      /\ poll'[p].todo = poll[p].todo \ {i} /\ poll'[p].att = i
      /\ poll'[p].dest = d
  BY <1>1, <1>2 DEF PollStates
<1> QED
  BY <1>3 DEF d

LEMMA RunArchiveStep ==
    ASSUME TypeOK, FilesInv, NEW p \in Pollers, Outside(p) \/ SaveSteps(p)
    PROVE  ArchiveStep
<1>1. RunOK(poll[p]) /\ poll[p].dest \in Paths
  BY DEF FilesInv, TypeOK, PollStates
<1>2. CASE Outside(p) \/ SaveEmail(p) \/ WriteAttachment(p) \/ WriteWithoutDir(p)
           \/ WriteFails(p) \/ RecordFails(p)
  BY <1>2, OperationsKeep DEF Outside, SaveEmail, WriteAttachment, WriteWithoutDir,
                              WriteFails, RecordFails
<1>3. ASSUME NEW i, ChooseFile(p, i) PROVE ArchiveStep
  <2>1. nextEmail \in Nat
    BY DEF TypeOK, ArchiveTypeOK
  <2> QED
    BY <1>3, <2>1 DEF ChooseFile, ArchiveStep
<1>4. ASSUME NEW i, MkdirFails(p, i) PROVE ArchiveStep
  BY <1>4, OperationsKeep DEF MkdirFails
<1>5. CASE RecordAttachment(p)
  <2>1. poll[p].dest.dir = poll[p].email /\ OnDisk(poll[p].dest)
    BY <1>1, <1>5 DEF RecordAttachment, RunOK, At
  <2>2. CASE InsertAttachment(poll[p].email, poll[p].dest)
    <3> HIDE DEF OnDisk
    <3> QED
      BY <1>1, <2>1, <2>2, OperationsKeep
  <2> QED
    BY <1>5, <2>2, OperationsKeep DEF RecordAttachment
<1> QED
  BY <1>2, <1>3, <1>4, <1>5 DEF SaveSteps

LEMMA RunStaysOK ==
    ASSUME TypeOK, NEW p \in Pollers, Outside(p) \/ SaveSteps(p), RunOK(poll[p])
    PROVE  RunOK(poll[p])'
<1> USE DEF At
<1>1. CASE Outside(p)
  BY <1>1 DEF Outside, Attaching, RunOK
<1>2. CASE \/ SaveEmail(p) \/ (\E i \in poll[p].todo : MkdirFails(p, i))
           \/ WriteWithoutDir(p) \/ WriteFails(p) \/ RecordAttachment(p) \/ RecordFails(p)
  <2>1. poll'[p].pc \in {"purge", "stat"}
    BY <1>2, AttachMoves DEF SaveEmail, MkdirFails, WriteWithoutDir, WriteFails,
                             RecordAttachment, RecordFails
  <2> QED
    BY <2>1 DEF RunOK
<1>3. ASSUME NEW i \in poll[p].todo, ChooseFile(p, i)
      PROVE  RunOK(poll[p])'
  <2>1. Destination(p, i).dir = poll[p].email
    BY DEF Destination, PlainPath, Path
  <2> QED
    BY <1>3, <2>1, ChooseFileMoves DEF RunOK
<1>4. CASE WriteAttachment(p)
  <2>1. poll'[p].pc = "record" /\ poll'[p].dest = poll[p].dest
        /\ poll'[p].email = poll[p].email
    BY <1>4 DEF WriteAttachment, Goto, TypeOK, PollStates
  <2>2. poll[p].dest \in DOMAIN files'
    BY <1>4 DEF WriteAttachment, WriteFile
  <2> QED
    BY <1>4, <2>1, <2>2 DEF RunOK, WriteAttachment, OnDisk
<1> QED
  BY <1>1, <1>2, <1>3, <1>4 DEF SaveSteps

LEMMA RunKeepsFiles ==
    ASSUME TypeOK, FilesInv, NEW p \in Pollers, Poll(p) \/ PollFails(p)
    PROVE  FilesInv' /\ ArchiveStep
<1>1. Outside(p) \/ SaveSteps(p)
  BY RunSteps
<1>2. ArchiveStep
  BY <1>1, RunArchiveStep
<1>3. Numbered' /\ \A a \in attachments' : RowOK(a)'
  BY <1>2, StepKeeps DEF FilesInv
<1>4. ASSUME NEW q \in Pollers PROVE RunOK(poll[q])'
  <2>1. CASE q = p
    BY <1>1, <2>1, RunStaysOK DEF FilesInv
  <2>2. CASE q # p
    BY <1>2, <2>2, RunAlone, BystandersKept
  <2> QED
    BY <2>1, <2>2
<1>5. ASSUME NEW r \in Reapers PROVE JobOK(job[r])'
  BY <1>2, BystandersKept DEF Poll, PollFails, reaperVars
<1> QED
  BY <1>2, <1>3, <1>4, <1>5 DEF FilesInv

(***************************************************************************)
(* Steps of deletions and sweeps.                                          *)
(***************************************************************************)
\* A deletion that is over has nothing to remove.
LEMMA IdleJobOK ==
    ASSUME TypeOK, FilesInv PROVE Gone(0) /\ JobOK(IdleJob)
<1>1. Gone(0)
  BY DEF Gone, EmailIds, FilesInv, Numbered, TypeOK, ArchiveTypeOK
<1> QED
  BY <1>1 DEF JobOK, IdleJob

LEMMA JobBegins ==
    ASSUME TypeOK, FilesInv, NEW r \in Reapers,
           \/ \E id \in 1 .. nextEmail - 1 : BeginDelete(r, id) \/ BeginDeleteBlind(r, id)
           \/ BeginSweep(r)
    PROVE  ArchiveStep /\ JobOK(job'[r])
<1>1. job \in [Reapers -> JobStates] /\ nextEmail \in Nat /\ \A e \in emails : e.id \in Nat
  BY DEF TypeOK, ArchiveTypeOK
<1>2. ASSUME NEW id \in 1 .. nextEmail - 1, NEW paths, RequestDelete(r, id, paths),
             \A path \in paths : path.dir = id
      PROVE  JobOK(job'[r])
  <2>1. job'[r] = [IdleJob EXCEPT !.pc = "rows", !.doomed = {id}, !.paths = paths,
                                  !.email = id]
    BY <1>1, <1>2 DEF RequestDelete
  <2> QED
    BY <1>1, <1>2, <2>1 DEF IdleJob, JobOK
<1>3. \A id : \A path \in AttachmentPaths(id) : path.dir = id
  BY DEF AttachmentPaths, FilesInv, RowOK
<1>4. ASSUME NEW id \in 1 .. nextEmail - 1, BeginDelete(r, id) \/ BeginDeleteBlind(r, id)
      PROVE  ArchiveStep /\ JobOK(job'[r])
  <2>1. PICK paths \in {AttachmentPaths(id), {}} : RequestDelete(r, id, paths)
    BY <1>4 DEF BeginDelete, BeginDeleteBlind
  <2>2. JobOK(job'[r])
    BY <1>2, <1>3, <2>1
  <2> QED
    BY <2>1, <2>2, OperationsKeep DEF RequestDelete
<1>5. CASE BeginSweep(r)
  <2> PICK ids : /\ ids \subseteq EmailIds
                 /\ job' = [job EXCEPT ![r] = [IdleJob EXCEPT !.pc = "collect",
                                                 !.collect = ids, !.doomed = ids]]
    BY <1>5 DEF BeginSweep
  <2>1. \A id \in ids : id < nextEmail
    BY DEF EmailIds, FilesInv, Numbered
  <2> PICK j : j = [IdleJob EXCEPT !.pc = "collect", !.collect = ids, !.doomed = ids]
    OBVIOUS
  <2>2. job'[r] = j
    BY <1>1
  <2>3. /\ j.pc = "collect" /\ j.collect = ids /\ j.doomed = ids
        /\ j.paths = {} /\ j.email = 0
    BY DEF IdleJob
  <2>4. JobOK(j)
    BY <2>1, <2>3, IdleJobOK DEF JobOK
  <2> QED
    BY <1>5, <2>2, <2>4, OperationsKeep DEF BeginSweep
<1> QED
  BY <1>4, <1>5

\* What a deletion does when a row is deleted, and after each file.
LEMMA RowDeleted ==
    ASSUME TypeOK, FilesInv, NEW r \in Reapers, DeleteRow(r)
    PROVE  ArchiveStep /\ JobOK(job[r])'
<1> PICK j : j = job[r]
  OBVIOUS
<1>1. /\ job \in [Reapers -> JobStates] /\ nextEmail \in Nat
      /\ j.doomed \subseteq Nat /\ j.paths \subseteq Paths /\ j.email \in Nat
      /\ j.pc = "rows" /\ JobOK(j)
  BY DEF TypeOK, ArchiveTypeOK, JobStates, FilesInv, DeleteRow
<1>2. PICK id \in j.doomed :
        /\ DeleteEmailRow(id)
        /\ job' = IF j.doomed # {id} THEN [job EXCEPT ![r].doomed = @ \ {id}]
                  ELSE IF j.paths = {} THEN [job EXCEPT ![r] = IdleJob]
                  ELSE [job EXCEPT ![r].doomed = {}, ![r].pc = "files"]
  BY DEF DeleteRow
<1>3. ArchiveStep
  BY <1>2, OperationsKeep
<1>4. /\ \A i \in Nat : Gone(i) => Gone(i)'
      /\ Gone(id)' /\ Gone(0)'
  <2>1. \A i \in Nat : Gone(i) => Gone(i)'
    BY <1>3, StepKeeps DEF FilesInv
  <2>2. id < nextEmail' /\ id \notin EmailIds'
    BY <1>1, <1>2 DEF DeleteEmailRow, JobOK, EmailIds
  <2> QED
    BY <2>1, <2>2, IdleJobOK DEF Gone
<1>5. \A path \in j.paths :
         path.dir \in Nat /\ (Gone(path.dir)' \/ (path.dir \in j.doomed /\ path.dir # id))
  <2> SUFFICES ASSUME NEW path \in j.paths
               PROVE  path.dir \in Nat
                      /\ (Gone(path.dir)' \/ (path.dir \in j.doomed /\ path.dir # id))
    OBVIOUS
  <2>1. path.dir \in Nat
    BY <1>1, PathDir
  <2>2. Gone(path.dir) \/ path.dir \in j.doomed
    BY <1>1 DEF JobOK
  <2> QED
    BY <1>4, <2>1, <2>2
<1>6. Gone(j.email)' \/ (j.email \in j.doomed /\ j.email # id)
  <2>1. Gone(j.email) \/ j.email \in j.doomed
    BY <1>1 DEF JobOK
  <2>2. CASE j.email = id
    BY <1>4, <2>2
  <2>3. CASE j.email # id
    BY <1>1, <1>4, <2>1, <2>3
  <2> QED
    BY <2>2, <2>3
<1>7. /\ \A i \in j.doomed : i < nextEmail'
      /\ j.collect = {}
  BY <1>1, <1>2 DEF JobOK, DeleteEmailRow
<1>8. CASE j.doomed # {id}
  <2>1. job'[r] = [j EXCEPT !.doomed = @ \ {id}]
    BY <1>1, <1>2, <1>8
  <2>2. /\ job'[r].pc = "rows" /\ job'[r].doomed = j.doomed \ {id}
        /\ job'[r].collect = j.collect /\ job'[r].paths = j.paths
        /\ job'[r].email = j.email
    BY <1>1, <2>1 DEF JobStates
  <2> QED
    BY <1>3, <1>5, <1>6, <1>7, <2>2 DEF JobOK
<1>9. CASE j.doomed = {id} /\ j.paths = {}
  <2>1. job'[r] = IdleJob
    BY <1>1, <1>2, <1>9
  <2> QED
    BY <1>3, <1>4, <2>1 DEF JobOK, IdleJob
<1>10. CASE j.doomed = {id} /\ j.paths # {}
  <2>1. job'[r] = [j EXCEPT !.doomed = {}, !.pc = "files"]
    BY <1>1, <1>2, <1>10
  <2>2. /\ job'[r].pc = "files" /\ job'[r].doomed = {} /\ job'[r].collect = j.collect
        /\ job'[r].paths = j.paths /\ job'[r].email = j.email
    BY <1>1, <2>1 DEF JobStates
  <2>3. Gone(j.email)' /\ \A path \in j.paths : Gone(path.dir)'
    BY <1>5, <1>6, <1>10
  <2> QED
    BY <1>3, <1>7, <2>2, <2>3 DEF JobOK
<1> QED
  BY <1>8, <1>9, <1>10

LEMMA PathsCollected ==
    ASSUME TypeOK, FilesInv, NEW r \in Reapers, CollectPaths(r)
    PROVE  ArchiveStep /\ JobOK(job'[r])
<1> PICK j : j = job[r]
  OBVIOUS
<1>1. /\ job \in [Reapers -> JobStates]
      /\ j.pc = "collect" /\ JobOK(j) /\ j \in JobStates
  BY DEF TypeOK, FilesInv, CollectPaths
<1>2. PICK id \in j.collect :
        job' = [job EXCEPT ![r].collect = @ \ {id},
                           ![r].paths = @ \cup AttachmentPaths(id),
                           ![r].pc = IF j.collect = {id} THEN "rows" ELSE "collect"]
  BY DEF CollectPaths
<1> DEFINE pc == IF j.collect = {id} THEN "rows" ELSE "collect"
           paths == AttachmentPaths(id)
<1>3. \A path \in paths : path.dir = id
  BY DEF AttachmentPaths, FilesInv, RowOK
<1>4. pc \in {"collect", "rows"} /\ (pc # "collect" => j.collect = {id})
  OBVIOUS
<1>5. job' = [job EXCEPT ![r].collect = @ \ {id}, ![r].paths = @ \cup paths, ![r].pc = pc]
  BY <1>2
<1> HIDE DEF pc, paths
<1>6. /\ job'[r].pc = pc /\ job'[r].collect = j.collect \ {id}
      /\ job'[r].paths = j.paths \cup paths
      /\ job'[r].doomed = j.doomed /\ job'[r].email = j.email
  BY <1>1, <1>5 DEF JobStates
<1>7. JobOK(job'[r])
  BY <1>1, <1>3, <1>4, <1>6 DEF JobOK
<1>8. ArchiveStep
  BY OperationsKeep DEF CollectPaths
<1> QED
  BY <1>7, <1>8

\* The file of an email that is gone is removed, or removing it fails.
LEMMA FileRemoved ==
    ASSUME TypeOK, FilesInv, NEW r \in Reapers, RemovePath(r) \/ RemovePathFails(r)
    PROVE  ArchiveStep /\ JobOK(job'[r])
<1> PICK j : j = job[r]
  OBVIOUS
<1>1. /\ job \in [Reapers -> JobStates]
      /\ j.pc = "files" /\ JobOK(j) /\ j \in JobStates
  BY DEF TypeOK, FilesInv, RemovePath, RemovePathFails
<1>2. PICK path \in j.paths :
        job' = AfterFile(r, path) /\ (RemoveFile(path) \/ UNCHANGED archiveVars)
  BY DEF RemovePath, RemovePathFails
<1>3. ArchiveStep
  <2>1. Gone(path.dir)
    BY <1>1 DEF JobOK
  <2> QED
    BY <1>2, <2>1, OperationsKeep
<1>4. CASE job' = [job EXCEPT ![r] = IdleJob]
  BY <1>1, <1>3, <1>4, IdleJobOK
<1>5. ASSUME NEW pc \in {"files", "dir"}, NEW paths \in SUBSET j.paths,
             job' = [job EXCEPT ![r].paths = paths, ![r].pc = pc]
      PROVE  JobOK(job'[r])
  <2>1. /\ job'[r].pc = pc /\ job'[r].paths = paths /\ job'[r].doomed = j.doomed
        /\ job'[r].collect = j.collect /\ job'[r].email = j.email
    BY <1>1, <1>5 DEF JobStates
  <2> QED
    BY <1>1, <2>1 DEF JobOK
<1>6. CASE j.paths # {path}
  <2> DEFINE left == j.paths \ {path}
  <2>1. job' = [job EXCEPT ![r].paths = left]
    BY <1>2, <1>6 DEF AfterFile
  <2> HIDE DEF left
  <2>2. /\ job'[r].pc = "files" /\ job'[r].paths = left /\ job'[r].doomed = j.doomed
        /\ job'[r].collect = j.collect /\ job'[r].email = j.email
    BY <1>1, <2>1 DEF JobStates
  <2>3. JobOK(job'[r])
    BY <1>1, <2>2 DEF JobOK, left
  <2> QED
    BY <1>3, <2>3
<1>7. CASE j.paths = {path} /\ r \in Users
  <2>1. job' = [job EXCEPT ![r].paths = {}, ![r].pc = "dir"]
    BY <1>2, <1>7 DEF AfterFile
  <2>2. {} \in SUBSET j.paths
    OBVIOUS
  <2> QED
    BY <1>3, <1>5, <2>1, <2>2
<1> QED
  BY <1>2, <1>4, <1>6, <1>7 DEF AfterFile

LEMMA JobSteps ==
    ASSUME TypeOK, TypeOK', FilesInv, NEW r \in Reapers, Delete(r) \/ Sweep(r)
    PROVE  ArchiveStep /\ JobOK(job[r])'
<1>1. CASE DeleteRow(r)
  BY <1>1, RowDeleted
<1>2. ASSUME ArchiveStep, JobOK(job'[r]) PROVE ArchiveStep /\ JobOK(job[r])'
  <2>1. PICK j \in JobStates : j = job'[r]
    BY DEF TypeOK
  <2>2. JobOK(j)'
    BY <1>2, <2>1, JobOKKept
  <2> QED
    BY <1>2, <2>1, <2>2
<1>3. CASE \/ \E id \in 1 .. nextEmail - 1 : BeginDelete(r, id) \/ BeginDeleteBlind(r, id)
           \/ BeginSweep(r)
  BY <1>2, <1>3, JobBegins
<1>4. CASE CollectPaths(r)
  BY <1>2, <1>4, PathsCollected
<1>5. CASE RemovePath(r) \/ RemovePathFails(r)
  BY <1>2, <1>5, FileRemoved
<1>6. CASE CollectFails(r) \/ DeleteRowFails(r) \/ RemoveEmailDir(r)
  <2>1. ArchiveStep
    BY <1>6, OperationsKeep DEF CollectFails, DeleteRowFails, RemoveEmailDir
  <2>2. job'[r] = IdleJob
    BY <1>6 DEF CollectFails, DeleteRowFails, RemoveEmailDir, EndJob, TypeOK
  <2> QED
    BY <1>2, <2>1, <2>2, IdleJobOK
<1> QED
  BY <1>1, <1>3, <1>4, <1>5, <1>6 DEF Delete, Sweep, UserStep, SweepStep

LEMMA JobAlone ==
    ASSUME TypeOK, NEW r \in Reapers, Delete(r) \/ Sweep(r), NEW s \in Reapers, s # r
    PROVE  job'[s] = job[s]
<1>1. job \in [Reapers -> JobStates]
  BY DEF TypeOK
<1>2. CASE \/ \E id \in 1 .. nextEmail - 1 : BeginDelete(r, id) \/ BeginDeleteBlind(r, id)
           \/ BeginSweep(r) \/ CollectPaths(r) \/ CollectFails(r)
           \/ DeleteRowFails(r) \/ RemoveEmailDir(r)
  BY <1>1, <1>2 DEF BeginDelete, BeginDeleteBlind, RequestDelete, BeginSweep, CollectPaths,
                    CollectFails, DeleteRowFails, RemoveEmailDir, EndJob
<1>3. CASE DeleteRow(r)
  BY <1>1, <1>3 DEF DeleteRow
<1>4. CASE RemovePath(r) \/ RemovePathFails(r)
  BY <1>1, <1>4 DEF RemovePath, RemovePathFails, AfterFile
<1> QED
  BY <1>2, <1>3, <1>4 DEF Delete, Sweep, UserStep, SweepStep

LEMMA JobKeepsFiles ==
    ASSUME TypeOK, TypeOK', FilesInv, NEW r \in Reapers, Delete(r) \/ Sweep(r)
    PROVE  FilesInv'
<1>1. ArchiveStep /\ JobOK(job[r])'
  BY JobSteps
<1>2. Numbered' /\ \A a \in attachments' : RowOK(a)'
  BY <1>1, StepKeeps DEF FilesInv
<1>3. ASSUME NEW p \in Pollers PROVE RunOK(poll[p])'
  BY <1>1, BystandersKept DEF Delete, Sweep, pollerVars
<1>4. ASSUME NEW s \in Reapers PROVE JobOK(job[s])'
  <2>1. CASE s = r
    BY <1>1, <2>1
  <2>2. CASE s # r
    BY <1>1, <2>2, JobAlone, BystandersKept
  <2> QED
    BY <2>1, <2>2
<1> QED
  BY <1>2, <1>3, <1>4 DEF FilesInv

(***************************************************************************)
(* All steps.                                                              *)
(***************************************************************************)
LEMMA OtherStepsKeepFiles ==
    ASSUME TypeOK, TypeOK', FilesInv,
           Arrive \/ Retention \/ Login \/ Crash \/ UNCHANGED vars
    PROVE  FilesInv'
<1>1. ArchiveStep
  BY OperationsKeep DEF Arrive, Retention, RetentionStep, BecomeDue, Reprieve, Login, Crash, vars
<1>2. Numbered' /\ \A a \in attachments' : RowOK(a)'
  BY <1>1, StepKeeps DEF FilesInv
<1>3. CASE Crash
  <2>1. \A p \in Pollers : poll'[p] = IdlePoll
    BY <1>3 DEF Crash
  <2>2. \A r \in Reapers : job'[r] = IdleJob
    BY <1>3 DEF Crash
  <2>3. IdleJob \in JobStates
    BY DEF IdleJob, JobStates, JobPcs
  <2>4. JobOK(IdleJob)'
    BY <1>1, <2>3, IdleJobOK, JobOKKept DEF IdleJob
  <2>5. \A p \in Pollers : RunOK(poll[p])'
    BY <2>1 DEF RunOK, IdlePoll
  <2>6. \A r \in Reapers : JobOK(job[r])'
    BY <2>2, <2>4
  <2> QED
    BY <1>2, <2>5, <2>6 DEF FilesInv
<1>4. CASE Arrive \/ Retention \/ Login \/ UNCHANGED vars
  <2>1. poll' = poll /\ job' = job
    BY <1>4 DEF Arrive, Retention, RetentionStep, BecomeDue, Reprieve, Login, vars,
                pollerVars, reaperVars
  <2> QED
    BY <1>1, <1>2, <2>1, BystandersKept DEF FilesInv
<1> QED
  BY <1>3, <1>4

LEMMA FilesInit == Init => FilesInv
<1> SUFFICES ASSUME Init PROVE FilesInv
  OBVIOUS
<1>1. emails = {} /\ attachments = {} /\ nextEmail = 1
  BY DEF Init, ArchiveInit
<1>2. \A p \in Pollers : RunOK(poll[p])
  BY DEF Init, PollerInit, IdlePoll, RunOK
<1>3. JobOK(IdleJob)
  BY <1>1 DEF JobOK, IdleJob, Gone, EmailIds
<1>4. \A r \in Reapers : JobOK(job[r])
  BY <1>3 DEF Init, ReaperInit
<1> QED
  BY <1>1, <1>2, <1>4 DEF FilesInv, Numbered

LEMMA FilesStep == TypeOK /\ TypeOK' /\ FilesInv /\ [Next]_vars => FilesInv'
<1>1. \A r \in Users \cup Sweepers : r \in Reapers
  BY DEF Reapers
<1> QED
  BY <1>1, RunKeepsFiles, JobKeepsFiles, OtherStepsKeepFiles DEF Next

LEMMA FilesAlways == Spec => [](TypeOK /\ FilesInv)
<1>1. Init => TypeOK /\ FilesInv
  BY InitType, FilesInit
<1>2. TypeOK /\ FilesInv /\ [Next]_vars => TypeOK' /\ FilesInv'
  BY StepType, FilesStep
<1> QED
  BY <1>1, <1>2, PTL DEF Spec

(* A listed attachment can be opened, at every moment: whatever runs of    *)
(* Poll, delete requests and sweeps do at the same time, whatever fails,   *)
(* whenever the process stops, with and without foreign keys.              *)
THEOREM ListedAttachmentOnDiskAlways == Spec => []ListedAttachmentOnDisk
<1>1. FilesInv => ListedAttachmentOnDisk
  BY DEF FilesInv, RowOK, OnDisk, Gone, ListedAttachmentOnDisk
<1> QED
  BY <1>1, FilesAlways, PTL

----------------------------------------------------------------------------
(* Why a message is refused.                                               *)

\* A run in progress goes by one of the policies the settings have held.
PolicyRead == \A p \in Pollers : At(p, "idle") \/ poll[p].policy \in Policies

LEMMA RunKeepsPolicy ==
    ASSUME TypeOK, PolicyRead, NEW p \in Pollers, Poll(p) \/ PollFails(p)
    PROVE  PolicyRead'
<1> USE DEF At
<1>1. Outside(p) \/ SaveSteps(p)
  BY RunSteps
<1>2. At(p, "idle")' \/ poll'[p].policy \in Policies
  <2>1. CASE Outside(p)
    BY <2>1 DEF Outside, PolicyRead
  <2>2. ASSUME NEW i \in poll[p].todo, ChooseFile(p, i)
        PROVE  poll'[p].policy \in Policies
    BY <2>2, ChooseFileMoves DEF ChooseFile, PolicyRead
  <2>3. CASE WriteAttachment(p)
    <3>1. poll'[p].policy = poll[p].policy
      BY <2>3 DEF WriteAttachment, Goto, TypeOK, PollStates
    <3> QED
      BY <2>3, <3>1 DEF WriteAttachment, PolicyRead
  <2>4. CASE \/ SaveEmail(p) \/ (\E i \in poll[p].todo : MkdirFails(p, i))
             \/ WriteWithoutDir(p) \/ WriteFails(p) \/ RecordAttachment(p) \/ RecordFails(p)
    <3>1. poll[p].policy \in Policies
      BY <2>4 DEF PolicyRead, SaveEmail, MkdirFails, WriteWithoutDir, WriteFails,
                  RecordAttachment, RecordFails
    <3>2. ASSUME NEW id, NEW todo, Attach(p, id, todo)
          PROVE  poll'[p].policy = poll[p].policy
      BY <3>2, AttachMoves
    <3> QED
      BY <2>4, <3>1, <3>2 DEF SaveEmail, MkdirFails, WriteWithoutDir, WriteFails,
                              RecordAttachment, RecordFails
  <2> QED
    BY <1>1, <2>1, <2>2, <2>3, <2>4 DEF SaveSteps
<1>3. ASSUME NEW q \in Pollers PROVE At(q, "idle")' \/ poll'[q].policy \in Policies
  BY <1>2, <1>3, RunAlone DEF PolicyRead
<1> QED
  BY <1>3 DEF PolicyRead

LEMMA PolicyStep == TypeOK /\ PolicyRead /\ [Next]_vars => PolicyRead'
<1> SUFFICES ASSUME TypeOK, PolicyRead, [Next]_vars PROVE PolicyRead'
  OBVIOUS
<1>1. CASE Crash
  BY <1>1 DEF Crash, IdlePoll, PolicyRead, At
<1>2. CASE UNCHANGED poll
  BY <1>2 DEF PolicyRead, At
<1>3. CASE Arrive \/ Retention \/ Login \/ UNCHANGED vars
  BY <1>2, <1>3 DEF Arrive, Retention, Login, vars, pollerVars
<1>4. CASE \/ \E u \in Users : Delete(u)
           \/ \E w \in Sweepers : Sweep(w)
  BY <1>2, <1>4 DEF Delete, Sweep, pollerVars
<1> QED
  BY <1>1, <1>3, <1>4, RunKeepsPolicy DEF Next

Cause(m) ==
    \/ ~Mail[m].envelope \/ ~Mail[m].parses
    \/ \E policy \in Policies : ~Accepts(m, SenderAllowed(m), policy)

LEMMA RunRefuses ==
    ASSUME "sender" \notin Faults, PolicyRead, NEW p \in Pollers, Poll(p) \/ PollFails(p)
    PROVE  \A m \in refused' : m \in refused \/ Cause(m)
<1>1. CASE \/ Begin(p) \/ Select(p) \/ FetchEnvelopes(p) \/ ConnectFails(p)
           \/ TriageDone(p) \/ PurgeDone(p) \/ SaveFails(p)
           \/ ExpungeUid(p) \/ ExpungeUidFails(p)
           \/ ExpungeEverything(p) \/ ExpungeEverythingFails(p)
  BY <1>1 DEF Begin, Select, FetchEnvelopes, ConnectFails, TriageDone, PurgeDone,
              SaveFails, ExpungeUid, ExpungeUidFails, ExpungeEverything,
              ExpungeEverythingFails
<1>2. CASE SaveSteps(p)
  BY <1>2 DEF SaveSteps, SaveEmail, ChooseFile, MkdirFails, WriteAttachment, WriteWithoutDir,
              WriteFails, RecordAttachment, RecordFails
<1>3. ASSUME NEW m \in Message,
             \/ TriageNoEnvelope(p, m) \/ TriageCheckFails(p, m) \/ TriageDuplicate(p, m)
             \/ FlagDeleted(p, m) \/ FlagFails(p, m)
      PROVE  \A k \in refused' : k \in refused \/ Cause(k)
  BY <1>3 DEF TriageNoEnvelope, TriageCheckFails, TriageDuplicate, FlagDeleted, FlagFails,
              Cause
<1>4. ASSUME NEW m \in Message, TriageJudge(p, m)
      PROVE  \A k \in refused' : k \in refused \/ Cause(k)
  <2>1. poll[p].policy \in Policies
    BY <1>4 DEF TriageJudge, TriageNew, NextEnvelope, At, PolicyRead
  <2> QED
    BY <1>4, <2>1 DEF TriageJudge, TriageNew, Cause
<1>5. ASSUME NEW c \in poll[p].cands,
             FetchBody(p, c) \/ BodyGone(p, c) \/ BodyUnreadable(p, c) \/ FetchBodyFails(p, c)
      PROVE  \A k \in refused' : k \in refused \/ Cause(k)
  BY <1>5 DEF FetchBody, BodyGone, BodyUnreadable, FetchBodyFails, Cause
<1>6. \A m : ~TriageSenderFails(p, m)
  BY DEF TriageSenderFails, Fails
<1> QED
  BY <1>1, <1>2, <1>3, <1>4, <1>5, <1>6
     DEF Poll, PollFails, PollStep, PollFailure, SaveSteps

LEMMA RefusedStep ==
    ASSUME "sender" \notin Faults
    PROVE  PolicyRead /\ RefusedForCause /\ [Next]_vars => RefusedForCause'
<1> SUFFICES ASSUME PolicyRead, RefusedForCause, [Next]_vars PROVE RefusedForCause'
  OBVIOUS
<1>1. ASSUME \A m \in refused' : m \in refused \/ Cause(m)
      PROVE  RefusedForCause'
  BY <1>1 DEF RefusedForCause, Cause
<1>2. CASE UNCHANGED refused
  BY <1>2, <1>1
<1>3. CASE Arrive \/ Retention \/ Login \/ Crash \/ UNCHANGED vars
  BY <1>2, <1>3 DEF Arrive, Retention, Login, Crash, vars, pollerVars
<1>4. CASE \/ \E u \in Users : Delete(u)
           \/ \E w \in Sweepers : Sweep(w)
  BY <1>2, <1>4 DEF Delete, Sweep, pollerVars
<1> QED
  BY <1>1, <1>3, <1>4, RunRefuses DEF Next

(* As long as the lookup of the sender answers, Poll refuses a message     *)
(* only because it has no envelope or an unreadable body, or because a     *)
(* policy of the settings rejects it with its sender's real standing; a    *)
(* policy changed during the run, other runs and crashes add no cause.     *)
THEOREM RefusedForCauseAlways ==
    ASSUME "sender" \notin Faults
    PROVE  Spec => []RefusedForCause
<1>1. Init => TypeOK /\ PolicyRead /\ RefusedForCause
  BY InitType DEF Init, PollerInit, IdlePoll, PolicyRead, At, RefusedForCause
<1>2. TypeOK /\ PolicyRead /\ RefusedForCause /\ [Next]_vars
         => TypeOK' /\ PolicyRead' /\ RefusedForCause'
  BY StepType, PolicyStep, RefusedStep
<1> QED
  BY <1>1, <1>2, PTL DEF Spec

----------------------------------------------------------------------------
(* What an archived email has.                                             *)

Stored(e, i) ==
    \E a \in attachments :
        a.email = e.id /\ a.path \in DOMAIN files /\ files[a.path] = Content(e.msg, i)

\* Run p is still going to store attachment i of e.
Coming(p, e, i) ==
    /\ poll[p].email = e.id /\ poll[p].cand.msg = e.msg
    /\ \/ poll[p].pc \in Attaching /\ i \in poll[p].todo
       \/ poll[p].pc = "write" /\ i = poll[p].att
       \/ /\ poll[p].pc = "record" /\ i = poll[p].att
          /\ poll[p].dest \in DOMAIN files /\ files[poll[p].dest] = Content(e.msg, i)

Complete(e, policy) ==
    \A i \in KeptAttachments(e.msg, policy) :
        Stored(e, i) \/ \E p \in Pollers : Coming(p, e, i)

\* The file a run is about to write is new, and its directory is there unless
\* the email was deleted in the meantime.
WriteOK(r) ==
    r.pc = "write" => /\ r.dest \notin DOMAIN files /\ r.dest.unique <= stamp
                      /\ r.email \in dirs \/ Gone(r.email)

\* The inductive invariant, for runs that follow one another.  A file name with
\* a time stamp is new only because no file carries a later one.
FullInv ==
    /\ \A p \in Pollers : WriteOK(poll[p])
    /\ \A path \in DOMAIN files : path.unique <= stamp
    /\ \A e \in emails : \E policy \in Policies : Complete(e, policy)

\* What a step leaves of an email: its rows, and its files with their content.
Spared(e) ==
    /\ \A a \in attachments : a.email = e.id => a \in attachments'
    /\ \A path \in DOMAIN files :
          path.dir = e.id => path \in DOMAIN files' /\ files'[path] = files[path]

LEMMA OperationsSpare ==
    ASSUME NEW e \in emails, e \in emails'
    PROVE  /\ UNCHANGED <<attachments, files>> => Spared(e)
           /\ \A mid, m : InsertEmail(mid, m) => Spared(e)
           /\ \A id, path : InsertAttachment(id, path) => Spared(e)
           /\ \A id : DeleteEmailRow(id) => Spared(e)
           /\ \A path, c : path \notin DOMAIN files /\ WriteFile(path, c) => Spared(e)
           /\ \A path : Gone(path.dir) /\ RemoveFile(path) => Spared(e)
<1>1. UNCHANGED <<attachments, files>> => Spared(e)
  BY DEF Spared
<1>2. ASSUME NEW mid, NEW m, InsertEmail(mid, m) PROVE Spared(e)
  BY <1>2, <1>1 DEF InsertEmail, archiveVars
<1>3. ASSUME NEW id, NEW path, InsertAttachment(id, path) PROVE Spared(e)
  BY <1>3 DEF InsertAttachment, Spared
<1>4. ASSUME NEW id, DeleteEmailRow(id) PROVE Spared(e)
  BY <1>4 DEF DeleteEmailRow, Spared
<1>5. ASSUME NEW path, NEW c, path \notin DOMAIN files, WriteFile(path, c) PROVE Spared(e)
  BY <1>5 DEF WriteFile, Spared
<1>6. ASSUME NEW path, Gone(path.dir), RemoveFile(path) PROVE Spared(e)
  BY <1>6 DEF RemoveFile, Spared, Gone, EmailIds
<1> QED
  BY <1>1, <1>2, <1>3, <1>4, <1>5, <1>6

LEMMA RunSpares ==
    ASSUME TypeOK, FilesInv, FullInv, NEW p \in Pollers, Outside(p) \/ SaveSteps(p),
           {"file", "record"} \cap Faults = {}, NEW e \in emails, e \in emails'
    PROVE  Spared(e)
<1>1. CASE Outside(p) \/ SaveEmail(p) \/ WriteWithoutDir(p) \/ RecordAttachment(p)
  BY <1>1, OperationsSpare DEF Outside, SaveEmail, WriteWithoutDir, RecordAttachment,
                               archiveVars
<1>2. CASE \E i \in poll[p].todo : ChooseFile(p, i)
  BY <1>2, OperationsSpare DEF ChooseFile
<1>3. CASE WriteAttachment(p)
  <2>1. poll[p].dest \notin DOMAIN files
    BY <1>3 DEF WriteAttachment, At, FullInv, WriteOK
  <2> QED
    BY <1>3, <2>1, OperationsSpare DEF WriteAttachment
<1>4. /\ \A i : ~MkdirFails(p, i)
      /\ ~WriteFails(p) /\ ~RecordFails(p)
  BY DEF MkdirFails, WriteFails, RecordFails, Fails
<1> QED
  BY <1>1, <1>2, <1>3, <1>4 DEF SaveSteps

LEMMA JobSpares ==
    ASSUME TypeOK, FilesInv, NEW r \in Reapers, Delete(r) \/ Sweep(r),
           NEW e \in emails, e \in emails'
    PROVE  Spared(e)
<1>1. CASE DeleteRow(r)
  BY <1>1, OperationsSpare DEF DeleteRow
<1>2. CASE RemovePath(r)
  <2>1. PICK path \in job[r].paths : RemoveFile(path)
    BY <1>2 DEF RemovePath
  <2>2. Gone(path.dir)
    BY <1>2, <2>1 DEF RemovePath, FilesInv, JobOK
  <2> QED
    BY <2>1, <2>2, OperationsSpare
<1>3. CASE UNCHANGED <<attachments, files>>
  BY <1>3, OperationsSpare
<1>4. CASE \/ \E id \in 1 .. nextEmail - 1 : BeginDelete(r, id) \/ BeginDeleteBlind(r, id)
           \/ BeginSweep(r) \/ CollectPaths(r) \/ CollectFails(r)
           \/ DeleteRowFails(r) \/ RemovePathFails(r) \/ RemoveEmailDir(r)
  BY <1>3, <1>4 DEF BeginDelete, BeginDeleteBlind, RequestDelete, BeginSweep, CollectPaths,
                    CollectFails, DeleteRowFails, RemovePathFails, RemoveEmailDir, RemoveDir,
                    archiveVars
<1> QED
  BY <1>1, <1>2, <1>4 DEF Delete, Sweep, UserStep, SweepStep

LEMMA StoredKept ==
    ASSUME TypeOK, FilesInv, NEW e \in emails, Spared(e), NEW i, Stored(e, i)
    PROVE  Stored(e, i)'
<1>1. PICK a \in attachments :
        a.email = e.id /\ a.path \in DOMAIN files /\ files[a.path] = Content(e.msg, i)
  BY DEF Stored
<1>2. a.path.dir = e.id
  BY <1>1 DEF FilesInv, RowOK
<1>3. a \in attachments' /\ a.path \in DOMAIN files' /\ files'[a.path] = files[a.path]
  BY <1>1, <1>2 DEF Spared
<1> QED
  BY <1>1, <1>3 DEF Stored

\* A step of anything but a run: what was coming is still coming.
LEMMA BystandersComplete ==
    ASSUME TypeOK, FilesInv, UNCHANGED poll, NEW e \in emails, Spared(e),
           NEW policy, Complete(e, policy)
    PROVE  Complete(e, policy)'
<1>1. ASSUME NEW p \in Pollers, NEW i, Coming(p, e, i) PROVE Coming(p, e, i)'
  <2>1. CASE poll[p].pc = "record"
    <3>1. poll[p].dest.dir = e.id
      BY <1>1, <2>1 DEF Coming, FilesInv, RunOK
    <3>2. poll[p].dest \in DOMAIN files =>
             poll[p].dest \in DOMAIN files' /\ files'[poll[p].dest] = files[poll[p].dest]
      BY <3>1 DEF Spared
    <3> QED
      BY <1>1, <3>2 DEF Coming
  <2>2. CASE poll[p].pc # "record"
    BY <1>1, <2>2 DEF Coming
  <2> QED
    BY <2>1, <2>2
<1> QED
  BY <1>1, StoredKept DEF Complete

LEMMA SaveComplete ==
    ASSUME TypeOK, TypeOK', FilesInv, FullInv, PolicyRead, NEW p \in Pollers, SaveEmail(p),
           \A q \in Pollers : q = p, {"file", "record"} \cap Faults = {}
    PROVE  \A e \in emails' : \E policy \in Policies : Complete(e, policy)'
<1> DEFINE mid == poll[p].cand.mid
           msg == poll[p].cand.msg
           policy == poll[p].policy
<1>1. ASSUME NEW e, e \in emails, e \in emails'
      PROVE  \E pol \in Policies : Complete(e, pol)'
  <2>1. PICK pol \in Policies : Complete(e, pol)
    BY <1>1 DEF FullInv
  <2>2. Spared(e)
    BY <1>1, RunSpares DEF SaveSteps
  <2>3. ASSUME NEW i \in KeptAttachments(e.msg, pol) PROVE Stored(e, i)'
    <3>1. \A q \in Pollers : ~Coming(q, e, i)
      BY DEF Coming, SaveEmail, At, Attaching
    <3> QED
      BY <1>1, <2>1, <2>2, <2>3, <3>1, StoredKept DEF Complete
  <2> QED
    BY <2>3 DEF Complete
<1>2. ASSUME NEW e, e \in emails', e \notin emails
      PROVE  \E pol \in Policies : Complete(e, pol)'
  <2>1. ~Exists(mid) /\ e = [id |-> nextEmail, mid |-> mid, msg |-> msg]
    BY <1>2 DEF SaveEmail, InsertEmail, archiveVars
  <2> PICK pol, todo : pol = policy /\ todo = KeptAttachments(msg, policy)
    OBVIOUS
  <2>2. pol \in Policies
    BY DEF PolicyRead, SaveEmail, At
  <2>3. Attach(p, nextEmail, todo)
    BY <2>1 DEF SaveEmail, SavedId
  <2>4. e.id = nextEmail /\ e.msg = poll[p].cand.msg /\ todo = KeptAttachments(e.msg, pol)
    BY <2>1
  <2>5. ASSUME NEW i \in KeptAttachments(e.msg, pol) PROVE Coming(p, e, i)'
    BY <2>3, <2>4, AttachMoves DEF Coming, Attaching
  <2> QED
    BY <2>2, <2>5 DEF Complete
<1> QED
  BY <1>1, <1>2

LEMMA RunCompletes ==
    ASSUME TypeOK, TypeOK', FilesInv, FullInv, NEW p \in Pollers,
           \A q \in Pollers : q = p, {"file", "record"} \cap Faults = {},
           NEW e \in emails, e \in emails', Outside(p) \/ SaveSteps(p), ~SaveEmail(p),
           NEW policy, Complete(e, policy)
    PROVE  Complete(e, policy)'
<1>0. Spared(e)
  BY RunSpares
<1> SUFFICES ASSUME NEW i \in KeptAttachments(e.msg, policy)
             PROVE  Stored(e, i)' \/ Coming(p, e, i)'
  BY DEF Complete
<1>1. CASE Stored(e, i)
  BY <1>0, <1>1, StoredKept
<1>2. CASE Coming(p, e, i)
  <2>1. ~Outside(p)
    BY <1>2 DEF Coming, Outside, Attaching
  <2>2. ASSUME NEW k \in poll[p].todo, ChooseFile(p, k)
        PROVE  Coming(p, e, i)'
    BY <1>2, <2>2, ChooseFileMoves DEF Coming, Attaching, ChooseFile, At
  <2>3. CASE WriteAttachment(p)
    <3> PICK d, c : d = poll[p].dest /\ c = Content(e.msg, poll[p].att)
      OBVIOUS
    <3>1. /\ poll'[p].pc = "record" /\ poll'[p].email = poll[p].email
          /\ poll'[p].cand = poll[p].cand /\ poll'[p].todo = poll[p].todo
          /\ poll'[p].att = poll[p].att /\ poll'[p].dest = d
      BY <2>3 DEF WriteAttachment, Goto, TypeOK, PollStates
    <3>2. WriteFile(d, c)
      BY <1>2, <2>3 DEF WriteAttachment, Coming
    <3>3. d \in DOMAIN files' /\ files'[d] = c
      BY <3>2 DEF WriteFile
    <3>4. poll[p].pc = "write"
      BY <2>3 DEF WriteAttachment, At
    <3> QED
      BY <1>2, <3>1, <3>3, <3>4 DEF Coming, Attaching
  <2>4. ~WriteWithoutDir(p)
    <3>1. e.id \in EmailIds
      BY DEF EmailIds
    <3> QED
      BY <1>2, <3>1 DEF WriteWithoutDir, At, FullInv, WriteOK, Gone, Coming
  <2>5. CASE RecordAttachment(p)
    <3>1. poll[p].email \in EmailIds /\ poll[p].pc = "record"
      BY <1>2, <2>5 DEF Coming, EmailIds, RecordAttachment, At
    <3>2. InsertAttachment(poll[p].email, poll[p].dest)
      BY <2>5, <3>1 DEF RecordAttachment, CanInsertAttachment
    <3>3. CASE i \in poll[p].todo
      BY <1>2, <2>5, <3>3, AttachMoves DEF Coming, Attaching, RecordAttachment
    <3>4. CASE poll[p].dest \in DOMAIN files /\ files[poll[p].dest] = Content(e.msg, i)
      <4>1. PICK a \in attachments' : a.email = poll[p].email /\ a.path = poll[p].dest
        <5> DEFINE row == [id |-> nextAttachment, email |-> poll[p].email,
                           path |-> poll[p].dest]
        <5>1. row \in attachments' /\ row.email = poll[p].email /\ row.path = poll[p].dest
          BY <3>2 DEF InsertAttachment
        <5> QED
          BY <5>1
      <4>2. files' = files
        BY <3>2 DEF InsertAttachment
      <4> QED
        BY <1>2, <3>4, <4>1, <4>2 DEF Stored, Coming
    <3> QED
      BY <1>2, <3>1, <3>3, <3>4 DEF Coming
  <2>6. /\ \A k : ~MkdirFails(p, k)
        /\ ~WriteFails(p) /\ ~RecordFails(p)
    BY DEF MkdirFails, WriteFails, RecordFails, Fails
  <2> QED
    BY <2>1, <2>2, <2>3, <2>4, <2>5, <2>6 DEF SaveSteps
<1> QED
  BY <1>1, <1>2 DEF Complete

\* The file names and the directories of FullInv.
Unwritten ==
    /\ \A p \in Pollers : WriteOK(poll[p])
    /\ \A path \in DOMAIN files : path.unique <= stamp

LEMMA PathUnique == \A path \in Paths : path.unique \in Nat
<1> SUFFICES ASSUME NEW path \in Paths PROVE path.unique \in Nat
  OBVIOUS
<1>1. CASE path \in [dir : Nat, name : STRING, unique : Nat]
  BY <1>1
<1>2. CASE path = NoPath
  BY <1>2 DEF NoPath, Path
<1> QED
  BY <1>1, <1>2 DEF Paths

LEMMA RunUnwritten ==
    ASSUME TypeOK, FullInv, NEW p \in Pollers, \A q \in Pollers : q = p,
           {"file", "record"} \cap Faults = {}, Outside(p) \/ SaveSteps(p)
    PROVE  Unwritten'
<1> USE DEF At
<1>1. ASSUME poll'[p].pc # "write" PROVE \A q \in Pollers : WriteOK(poll[q])'
  BY <1>1 DEF WriteOK
<1>2. stamp \in Nat /\ DOMAIN files \subseteq Paths
  BY DEF TypeOK, ArchiveTypeOK
<1>3. CASE Outside(p) \/ SaveEmail(p) \/ WriteWithoutDir(p) \/ RecordAttachment(p)
  <2>1. poll'[p].pc # "write"
    BY <1>3, AttachMoves
       DEF Outside, Attaching, SaveEmail, WriteWithoutDir, RecordAttachment
  <2>2. files' = files /\ stamp' = stamp
    BY <1>3 DEF Outside, SaveEmail, InsertEmail, WriteWithoutDir, RecordAttachment,
                InsertAttachment, archiveVars
  <2> QED
    BY <1>1, <2>1, <2>2 DEF Unwritten, FullInv
<1>4. ASSUME NEW i \in poll[p].todo, ChooseFile(p, i)
      PROVE  Unwritten'
  <2> PICK d, plain : d = Destination(p, i) /\ plain = PlainPath(p, i)
    OBVIOUS
  <2>1. files' = files /\ dirs' = dirs \cup {poll[p].email}
    BY <1>4 DEF ChooseFile
  <2>2. /\ plain \in DOMAIN files => stamp' = stamp + 1 /\ d = [plain EXCEPT !.unique = stamp + 1]
        /\ plain \notin DOMAIN files => stamp' = stamp /\ d = plain
    BY <1>4 DEF ChooseFile, Destination
  <2>3. plain.unique = 0 /\ DOMAIN plain = {"dir", "name", "unique"}
    BY DEF PlainPath, Path
  <2>4. \A path \in DOMAIN files : path.unique \in Nat /\ path.unique <= stamp
    BY <1>2, PathUnique DEF FullInv
  <2>5. d \notin DOMAIN files /\ d.unique <= stamp'
    <3>1. CASE plain \in DOMAIN files
      <4>1. d.unique = stamp + 1
        BY <2>2, <2>3, <3>1
      <4> QED
        BY <1>2, <2>2, <2>4, <3>1, <4>1
    <3>2. CASE plain \notin DOMAIN files
      BY <1>2, <2>2, <2>3, <3>2
    <3> QED
      BY <3>1, <3>2
  <2>6. poll'[p].dest = d /\ poll'[p].email = poll[p].email
    BY <1>4, ChooseFileMoves
  <2>7. \A q \in Pollers : WriteOK(poll[q])'
    BY <2>1, <2>5, <2>6 DEF WriteOK
  <2>8. \A path \in DOMAIN files' : path.unique <= stamp'
    BY <1>2, <2>1, <2>2, <2>4
  <2> QED
    BY <2>7, <2>8 DEF Unwritten
<1>5. CASE WriteAttachment(p)
  <2>1. poll'[p].pc # "write"
    BY <1>5 DEF WriteAttachment, Goto, TypeOK
  <2>2. poll[p].dest.unique <= stamp
    BY <1>5 DEF WriteAttachment, FullInv, WriteOK
  <2>3. DOMAIN files' = DOMAIN files \cup {poll[p].dest} /\ stamp' = stamp
    BY <1>5 DEF WriteAttachment, WriteFile
  <2> QED
    BY <1>1, <2>1, <2>2, <2>3 DEF Unwritten, FullInv
<1>6. /\ \A i : ~MkdirFails(p, i)
      /\ ~WriteFails(p) /\ ~RecordFails(p)
  BY DEF MkdirFails, WriteFails, RecordFails, Fails
<1> QED
  BY <1>3, <1>4, <1>5, <1>6 DEF SaveSteps

\* Deletions take files and directories away, the directories only of emails
\* that are gone.
LEMMA OthersUnwritten ==
    ASSUME TypeOK, TypeOK', FilesInv, FullInv, ArchiveStep, UNCHANGED <<poll, stamp>>,
           DOMAIN files' \subseteq DOMAIN files,
           \A id \in dirs : id \in dirs' \/ Gone(id)
    PROVE  Unwritten'
<1>1. \A id \in Nat : Gone(id) => Gone(id)'
  BY StepKeeps DEF FilesInv
<1>2. ASSUME NEW p \in Pollers PROVE WriteOK(poll[p])'
  <2> PICK id \in Nat : id = poll[p].email
    BY DEF TypeOK, PollStates
  <2>1. poll[p].pc = "write" => id \in dirs \/ Gone(id)
    BY DEF FullInv, WriteOK
  <2>2. poll[p].pc = "write" => id \in dirs' \/ Gone(id)'
    BY <1>1, <2>1
  <2> QED
    BY <2>2 DEF FullInv, WriteOK
<1>3. \A path \in DOMAIN files' : path.unique <= stamp'
  BY DEF FullInv
<1> QED
  BY <1>2, <1>3 DEF Unwritten

LEMMA JobTakesAway ==
    ASSUME TypeOK, FilesInv, NEW r \in Reapers, Delete(r) \/ Sweep(r)
    PROVE  /\ UNCHANGED <<poll, stamp>> /\ emails' \subseteq emails
           /\ DOMAIN files' \subseteq DOMAIN files
           /\ \A id \in dirs : id \in dirs' \/ Gone(id)
<1>1. UNCHANGED poll
  BY DEF Delete, Sweep, pollerVars
<1>2. CASE \/ \E id \in 1 .. nextEmail - 1 : BeginDelete(r, id) \/ BeginDeleteBlind(r, id)
           \/ BeginSweep(r) \/ CollectPaths(r) \/ CollectFails(r)
           \/ DeleteRowFails(r) \/ RemovePathFails(r)
  BY <1>1, <1>2 DEF BeginDelete, BeginDeleteBlind, RequestDelete, BeginSweep, CollectPaths,
                    CollectFails, DeleteRowFails, RemovePathFails, archiveVars
<1>3. CASE DeleteRow(r) \/ RemovePath(r)
  BY <1>1, <1>3 DEF DeleteRow, DeleteEmailRow, RemovePath, RemoveFile
<1>4. CASE RemoveEmailDir(r)
  <2>1. Gone(job[r].email)
    BY <1>4 DEF RemoveEmailDir, FilesInv, JobOK
  <2> QED
    BY <1>1, <1>4, <2>1 DEF RemoveEmailDir, RemoveDir
<1> QED
  BY <1>2, <1>3, <1>4 DEF Delete, Sweep, UserStep, SweepStep

LEMMA OthersFull ==
    ASSUME TypeOK, TypeOK', FilesInv, FullInv, ArchiveStep, UNCHANGED <<poll, stamp>>,
           emails' \subseteq emails, DOMAIN files' \subseteq DOMAIN files,
           \A id \in dirs : id \in dirs' \/ Gone(id),
           \A e \in emails : e \in emails' => Spared(e)
    PROVE  FullInv'
<1>1. Unwritten'
  BY OthersUnwritten
<1>2. ASSUME NEW e, e \in emails' PROVE \E policy \in Policies : Complete(e, policy)'
  <2>1. PICK policy \in Policies : Complete(e, policy)
    BY <1>2 DEF FullInv
  <2> QED
    BY <1>2, <2>1, BystandersComplete
<1> QED
  BY <1>1, <1>2 DEF FullInv, Unwritten

LEMMA RunFull ==
    ASSUME TypeOK, TypeOK', FilesInv, FullInv, PolicyRead,
           NEW p \in Pollers, Poll(p) \/ PollFails(p),
           \A q \in Pollers : q = p, {"file", "record"} \cap Faults = {}
    PROVE  FullInv'
<1>1. Outside(p) \/ SaveSteps(p)
  BY RunSteps
<1>2. Unwritten'
  BY <1>1, RunUnwritten
<1>3. ASSUME NEW e, e \in emails' PROVE \E policy \in Policies : Complete(e, policy)'
  <2>1. CASE SaveEmail(p)
    BY <1>3, <2>1, SaveComplete
  <2>2. CASE ~SaveEmail(p)
    <3>1. emails' = emails
      BY <1>1, <2>2 DEF Outside, SaveSteps, ChooseFile, MkdirFails, WriteAttachment,
                        WriteWithoutDir, WriteFails, WriteFile, RecordAttachment,
                        InsertAttachment, RecordFails, archiveVars
    <3>2. PICK policy \in Policies : Complete(e, policy)
      BY <1>3, <3>1 DEF FullInv
    <3> QED
      BY <1>1, <1>3, <2>2, <3>1, <3>2, RunCompletes
  <2> QED
    BY <2>1, <2>2
<1> QED
  BY <1>2, <1>3 DEF FullInv, Unwritten

LEMMA FullStep ==
    ASSUME \A p, q \in Pollers : p = q, MaxCrashes = 0, {"file", "record"} \cap Faults = {}
    PROVE  TypeOK /\ TypeOK' /\ FilesInv /\ PolicyRead /\ FullInv /\ [Next]_vars => FullInv'
<1> SUFFICES ASSUME TypeOK, TypeOK', FilesInv, PolicyRead, FullInv, [Next]_vars
             PROVE  FullInv'
  OBVIOUS
<1>1. ASSUME NEW p \in Pollers, Poll(p) \/ PollFails(p) PROVE FullInv'
  BY <1>1, RunFull
<1>2. ASSUME NEW r \in Reapers, Delete(r) \/ Sweep(r) PROVE FullInv'
  <2>1. ArchiveStep
    BY <1>2, JobSteps
  <2>2. \A e \in emails : e \in emails' => Spared(e)
    BY <1>2, JobSpares
  <2> QED
    BY <1>2, <2>1, <2>2, JobTakesAway, OthersFull
<1>3. CASE Arrive \/ Retention \/ Login \/ UNCHANGED vars
  <2>1. UNCHANGED <<poll, stamp, emails, attachments, files, dirs>>
    BY <1>3 DEF Arrive, Retention, RetentionStep, BecomeDue, Reprieve, Login,
                InsertElsewhere, vars, archiveVars, pollerVars
  <2>2. ArchiveStep
    BY <1>3, OperationsKeep
       DEF Arrive, Retention, RetentionStep, BecomeDue, Reprieve, Login, vars
  <2>3. \A e \in emails : Spared(e)
    BY <2>1 DEF Spared
  <2> QED
    BY <2>1, <2>2, <2>3, OthersFull
<1>4. ~Crash
  BY DEF Crash, TypeOK
<1>5. \A r \in Users \cup Sweepers : r \in Reapers
  BY DEF Reapers
<1> QED
  BY <1>1, <1>2, <1>3, <1>4, <1>5 DEF Next

LEMMA FullInit == Init => FullInv
  BY DEF Init, ArchiveInit, PollerInit, IdlePoll, FullInv, WriteOK

(* As long as runs of Poll follow one another, none is cut off, and no     *)
(* file or attachment row fails, an archived email has - once the run is   *)
(* over - every attachment some policy keeps, each in a file of its own:   *)
(* attachments of one name do not overwrite each other, and no deletion    *)
(* or sweep, complete or failed, takes the files of another email.         *)
THEOREM ArchivedInFullAlways ==
    ASSUME \A p, q \in Pollers : p = q, MaxCrashes = 0, {"file", "record"} \cap Faults = {}
    PROVE  Spec => []ArchivedInFull
<1>1. Init => TypeOK /\ FilesInv /\ PolicyRead /\ FullInv
  BY InitType, FilesInit, FullInit DEF Init, PollerInit, IdlePoll, PolicyRead, At
<1>2. TypeOK /\ FilesInv /\ PolicyRead /\ FullInv /\ [Next]_vars
         => TypeOK' /\ FilesInv' /\ PolicyRead' /\ FullInv'
  BY StepType, FilesStep, PolicyStep, FullStep
<1>3. FullInv => ArchivedInFull
  <2> SUFFICES ASSUME FullInv, Quiet, NEW e \in emails
               PROVE  \E policy \in Policies : \A i \in KeptAttachments(e.msg, policy) :
                         Stored(e, i)
    BY DEF ArchivedInFull, Stored
  <2>1. PICK policy \in Policies : Complete(e, policy)
    BY DEF FullInv
  <2>2. \A p \in Pollers, i \in KeptAttachments(e.msg, policy) : ~Coming(p, e, i)
    BY DEF Quiet, At, Coming, Attaching
  <2> QED
    BY <2>1, <2>2 DEF Complete
<1> QED
  BY <1>1, <1>2, <1>3, PTL DEF Spec
=============================================================================
