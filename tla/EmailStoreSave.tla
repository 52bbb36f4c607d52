-------------------------- MODULE EmailStoreSave --------------------------
(***************************************************************************)
(* What Save does to a message (email.go:41).  When its insert hits a      *)
(* conflict, the lookup written for that case is dead code: the row id the *)
(* connection reports is never 0.  It is that of an earlier insert, and    *)
(* nothing but a conflict puts an attachment into an email it is not of.   *)
(* And a message is saved once, as long as what was saved leaves the       *)
(* mailbox in the same run.                                                *)
(***************************************************************************)
EXTENDS EmailStoreFiles

(***************************************************************************)
(* What a run plans: the steps of a run but the triage of a new message    *)
(* give it neither an envelope nor a candidate.                            *)
(***************************************************************************)
\* A step after which the run has the same view, no envelope and no candidate but
\* those it had, and the candidate it saves is no longer one of them.
Continues(p) ==
    /\ poll'[p].pc \notin {"idle", "select", "fetch"}
    /\ poll'[p].view = poll[p].view
    /\ poll'[p].queue \subseteq poll[p].queue
    /\ poll[p].pc = "triage" /\ poll'[p].pc # "triage" => poll[p].queue = {}
    /\ poll'[p].cands \subseteq poll[p].cands
    /\ poll'[p].pc = "save" =>
          poll'[p].cand \in poll[p].cands /\ poll'[p].cand \notin poll'[p].cands

LEMMA AttachContinues ==
    ASSUME TypeOK, NEW p \in Pollers, NEW id, NEW todo, Attach(p, id, todo)
    PROVE  /\ poll'[p].pc \in {"stat", "purge"} /\ poll'[p].view = poll[p].view
           /\ poll'[p].queue = poll[p].queue /\ poll'[p].cands = poll[p].cands
<1>1. poll \in [Pollers -> PollStates]
  BY DEF TypeOK
<1>2. CASE todo = {}
  BY <1>1, <1>2 DEF Attach, PollStates
<1>3. CASE todo # {}
  BY <1>1, <1>3 DEF Attach, PollStates
<1> QED
  BY <1>2, <1>3

LEMMA RunContinues ==
    ASSUME TypeOK, NEW p \in Pollers, Poll(p) \/ PollFails(p),
           \A m \in Message : \A allowed : ~TriageNew(p, m, allowed)
    PROVE  \/ Continues(p) \/ poll'[p] = IdlePoll
           \/ Begin(p) \/ Select(p) \/ FetchEnvelopes(p)
<1> USE DEF At
<1>1. poll \in [Pollers -> PollStates]
  BY DEF TypeOK
<1>2. CASE Return(p)
  BY <1>1, <1>2 DEF Return
<1>3. ASSUME NEW pc \in PollPcs \ {"save", "idle", "select", "fetch"}, Goto(p, pc),
             At(p, "triage") => poll[p].queue = {}
      PROVE  Continues(p)
  BY <1>1, <1>3 DEF Goto, PollStates, Continues
<1>4. ASSUME NEW id, NEW todo, Attach(p, id, todo), ~At(p, "triage") PROVE Continues(p)
  BY <1>4, AttachContinues DEF Continues
<1>5. ASSUME NEW m \in Message, DropEnvelope(p, m), At(p, "triage") PROVE Continues(p)
  BY <1>1, <1>5 DEF DropEnvelope, PollStates, Continues
<1>6. ASSUME NEW m \in Message, TriageCheckFails(p, m) \/ FlagDeleted(p, m) \/ FlagFails(p, m)
      PROVE  Continues(p)
  BY <1>1, <1>6 DEF TriageCheckFails, NextEnvelope, FlagDeleted, FlagFails, PollStates, Continues
<1>7. ASSUME NEW c \in poll[p].cands,
             FetchBody(p, c) \/ KeepCandidate(p, c) \/ DeleteCandidate(p, c),
             At(p, "body")
      PROVE  Continues(p)
  BY <1>1, <1>7 DEF FetchBody, KeepCandidate, DeleteCandidate, PollStates, Continues
<1>8. ASSUME NEW i, i \in poll[p].todo, ChooseFile(p, i) PROVE Continues(p)
  <2> DEFINE d == Destination(p, i)
  <2>1. /\ poll[p].pc = "stat"
        /\ poll' = [poll EXCEPT ![p].pc = "write", ![p].att = i, ![p].todo = @ \ {i},
                                ![p].dest = d]
    BY <1>8 DEF ChooseFile
  <2> HIDE DEF d
  <2> QED
    BY <1>1, <2>1 DEF PollStates, Continues
<1>9. CASE ConnectFails(p)
  BY <1>2, <1>9 DEF ConnectFails
<1>10. CASE \E m \in Message :
              \/ TriageNoEnvelope(p, m) \/ TriageDuplicate(p, m)
              \/ TriageCheckFails(p, m) \/ FlagDeleted(p, m) \/ FlagFails(p, m)
  BY <1>5, <1>6, <1>10 DEF TriageNoEnvelope, TriageDuplicate, NextEnvelope
<1>11. CASE \E c \in poll[p].cands :
              FetchBody(p, c) \/ BodyGone(p, c) \/ BodyUnreadable(p, c) \/ FetchBodyFails(p, c)
  BY <1>7, <1>11 DEF FetchBody, BodyGone, BodyUnreadable, FetchBodyFails, NextCandidate
<1>12. CASE \/ TriageDone(p) \/ PurgeDone(p) \/ ExpungeUid(p) \/ ExpungeUidFails(p)
            \/ ExpungeEverything(p) \/ ExpungeEverythingFails(p) \/ SaveFails(p)
            \/ WriteAttachment(p)
  BY <1>2, <1>3, <1>12 DEF TriageDone, PurgeDone, ExpungeUid, ExpungeUidFails,
     ExpungeEverything, ExpungeEverythingFails, SaveFails, WriteAttachment, PollPcs
<1>13. CASE \/ SaveEmail(p) \/ (\E i \in poll[p].todo : MkdirFails(p, i)) \/ WriteWithoutDir(p)
            \/ WriteFails(p) \/ RecordAttachment(p) \/ RecordFails(p)
  BY <1>4, <1>13 DEF SaveEmail, MkdirFails, WriteWithoutDir, WriteFails, RecordAttachment,
                     RecordFails
<1>14. ~(\E m \in Message : TriageJudge(p, m) \/ TriageSenderFails(p, m))
  BY DEF TriageJudge, TriageSenderFails
<1> QED
  BY <1>8, <1>9, <1>10, <1>11, <1>12, <1>13, <1>14
     DEF Poll, PollFails, PollStep, PollFailure

(***************************************************************************)
(* The lookup after a conflict.                                            *)
(***************************************************************************)
\* No candidate of a run in local state r is archived.
Unarchived(r) ==
    /\ \A c \in r.cands : ~Exists(c.mid)
    /\ r.pc = "save" => ~Exists(r.cand.mid)

\* The inductive invariant.  A candidate was not in the archive when its
\* triage looked; as long as the connection has inserted nothing, it still is not.
Fresh == lastRowid = 0 => \A p \in Pollers : Unarchived(poll[p])

LEMMA FreshImplies == Fresh => SaveNeverLooksUp
  BY DEF Fresh, Unarchived, SaveNeverLooksUp, At

LEMMA FreshInit == Init => Fresh
  BY DEF Init, ArchiveInit, Fresh, Unarchived, Exists

\* The archive gains no email while the connection has inserted nothing.
NoInsert == lastRowid' = 0 => lastRowid = 0 /\ emails' \subseteq emails

\* A run takes on no candidate but those it has.
NoNewCandidate(p) ==
    /\ \A q \in Pollers \ {p} : poll'[q] = poll[q]
    /\ poll'[p].cands \subseteq poll[p].cands
    /\ poll'[p].pc = "save" => poll'[p].cand \in poll[p].cands

LEMMA FreshKept ==
    ASSUME Fresh, NoInsert, NEW p \in Pollers, NoNewCandidate(p)
    PROVE  Fresh'
<1> SUFFICES ASSUME lastRowid' = 0, NEW q \in Pollers PROVE Unarchived(poll[q])'
  BY DEF Fresh
<1>1. \A mid : ~Exists(mid) => ~Exists(mid)'
  BY DEF NoInsert, Exists
<1>2. Unarchived(poll[q]) /\ Unarchived(poll[p])
  BY DEF Fresh, NoInsert
<1>3. CASE q = p
  BY <1>1, <1>2, <1>3 DEF NoNewCandidate, Unarchived
<1>4. CASE q # p
  <2>1. poll'[q] = poll[q]
    BY <1>4 DEF NoNewCandidate
  <2> QED
    BY <1>1, <1>2, <2>1 DEF Unarchived
<1> QED
  BY <1>3, <1>4

\* Only an insert changes both the emails and the row id of the connection.
LEMMA StatementsFresh ==
    ASSUME ArchiveTypeOK
    PROVE  /\ \A mid, m : InsertEmail(mid, m) => NoInsert
           /\ \A id, q : InsertAttachment(id, q) => NoInsert
           /\ UNCHANGED <<emails, lastRowid>> => NoInsert
           /\ \A id : DeleteEmailRow(id) => NoInsert
           /\ \A r \in Nat \ {0} : InsertElsewhere(r) => NoInsert
<1>1. ASSUME NEW mid, NEW m, InsertEmail(mid, m) PROVE NoInsert
  <2>1. CASE Exists(mid)
    <3>1. UNCHANGED archiveVars
      BY <1>1, <2>1 DEF InsertEmail
    <3> QED
      BY <3>1 DEF archiveVars, NoInsert
  <2>2. CASE ~Exists(mid)
    <3>1. lastRowid' = nextEmail
      BY <1>1, <2>2 DEF InsertEmail
    <3> QED
      BY <3>1 DEF ArchiveTypeOK, NoInsert
  <2> QED
    BY <2>1, <2>2
<1>2. \A id, q : InsertAttachment(id, q) => NoInsert
  BY DEF ArchiveTypeOK, InsertAttachment, NoInsert
<1>3. /\ UNCHANGED <<emails, lastRowid>> => NoInsert
      /\ \A id : DeleteEmailRow(id) => NoInsert
      /\ \A r \in Nat \ {0} : InsertElsewhere(r) => NoInsert
  BY DEF DeleteEmailRow, InsertElsewhere, NoInsert
<1> QED
  BY <1>1, <1>2, <1>3

\* No step of Poll inserts an email without moving the row id.
LEMMA PollNoInsert ==
    ASSUME TypeOK, NEW p \in Pollers, Poll(p) \/ PollFails(p)
    PROVE  NoInsert
<1>0. ArchiveTypeOK
  BY DEF TypeOK
<1>1. CASE SaveEmail(p)
  BY <1>0, <1>1, StatementsFresh DEF SaveEmail
<1>2. CASE RecordAttachment(p)
  BY <1>0, <1>2, StatementsFresh DEF RecordAttachment, archiveVars
<1>3. CASE ~SaveEmail(p) /\ ~RecordAttachment(p)
  <2>1. UNCHANGED <<emails, lastRowid>>
    BY <1>3
       DEF Poll, PollFails, PollStep, PollFailure, Begin, Select, FetchEnvelopes,
           ConnectFails, TriageNoEnvelope, TriageCheckFails, TriageDuplicate, TriageJudge,
           TriageSenderFails, TriageNew, TriageDone, FlagDeleted, FlagFails, ExpungeUid,
           ExpungeUidFails, ExpungeEverything, ExpungeEverythingFails, PurgeDone,
           FetchBody, BodyGone, BodyUnreadable, FetchBodyFails, SaveFails, ChooseFile,
           MkdirFails, WriteAttachment, WriteWithoutDir, WriteFails, WriteFile,
           RecordFails, archiveVars
  <2> QED
    BY <1>0, <2>1, StatementsFresh
<1> QED
  BY <1>1, <1>2, <1>3

\* All steps of Poll but the triage of a new message.
LEMMA PollCandidates ==
    ASSUME TypeOK, NEW p \in Pollers, Poll(p) \/ PollFails(p),
           \A m \in Message : \A allowed : ~TriageNew(p, m, allowed)
    PROVE  NoNewCandidate(p)
<1>1. poll \in [Pollers -> PollStates]
  BY DEF TypeOK
<1>2. \A q \in Pollers \ {p} : poll'[q] = poll[q]
  BY RunAlone
<1>3. CASE Continues(p) \/ poll'[p] = IdlePoll
  BY <1>2, <1>3 DEF Continues, IdlePoll, NoNewCandidate
<1>4. CASE Begin(p) \/ Select(p) \/ FetchEnvelopes(p)
  BY <1>1, <1>4 DEF Begin, Select, FetchEnvelopes, Return, IdlePoll, At, PollStates,
                    NoNewCandidate
<1> QED
  BY <1>3, <1>4, RunContinues

\* The triage of a new message asks the archive before it adds the candidate.
LEMMA TriageFresh ==
    ASSUME TypeOK, Fresh, NEW p \in Pollers, NEW m \in Message, NEW allowed,
           TriageNew(p, m, allowed)
    PROVE  Fresh'
<1> DEFINE r == poll[p]
           c == [msg |-> m, mid |-> IdInRun(p, m)]
<1>1. r \in PollStates /\ r.pc = "triage" /\ UNCHANGED archiveVars /\ ~Exists(c.mid)
  BY DEF TypeOK, TriageNew, NextEnvelope, At
<1> HIDE DEF c
<1>2. /\ \A q \in Pollers \ {p} : poll'[q] = poll[q]
      /\ poll'[p].cands \subseteq r.cands \cup {c}
      /\ poll'[p].pc = "triage"
  BY <1>1 DEF TriageNew, DropEnvelope, TypeOK, PollStates, c
<1>3. lastRowid' = lastRowid /\ \A mid : Exists(mid)' = Exists(mid)
  BY <1>1 DEF archiveVars, Exists
<1> SUFFICES ASSUME lastRowid' = 0, NEW q \in Pollers PROVE Unarchived(poll[q])'
  BY DEF Fresh
<1>4. Unarchived(poll[q]) /\ Unarchived(r)
  BY <1>3 DEF Fresh
<1>5. CASE q = p
  BY <1>1, <1>2, <1>3, <1>4, <1>5 DEF Unarchived
<1>6. CASE q # p
  <2>1. poll'[q] = poll[q]
    BY <1>2, <1>6
  <2> QED
    BY <1>3, <1>4, <2>1 DEF Unarchived
<1> QED
  BY <1>5, <1>6

LEMMA OthersFresh ==
    ASSUME TypeOK, Fresh,
           \/ Arrive \/ Retention \/ Login \/ UNCHANGED vars
           \/ \E u \in Users : Delete(u)
           \/ \E w \in Sweepers : Sweep(w)
    PROVE  Fresh'
<1>0. ArchiveTypeOK
  BY DEF TypeOK
<1>1. UNCHANGED poll
  BY DEF Arrive, Retention, Login, Delete, Sweep, vars, pollerVars
<1>2. \/ UNCHANGED <<emails, lastRowid>>
      \/ \E id : DeleteEmailRow(id)
      \/ \E r \in Nat \ {0} : InsertElsewhere(r)
  BY CompositionAssumption
     DEF Arrive, Login, Delete, UserStep, Sweep, SweepStep, Retention, RetentionStep,
         BeginDelete, BeginDeleteBlind, RequestDelete, BeginSweep, CollectPaths,
         CollectFails, DeleteRow, DeleteRowFails, RemovePath, RemovePathFails, RemoveFile,
         RemoveEmailDir, RemoveDir, BecomeDue, Reprieve, archiveVars, vars
<1>3. NoInsert
  BY <1>0, <1>2, StatementsFresh
<1>4. \A mid : lastRowid' = 0 /\ ~Exists(mid) => ~Exists(mid)'
  BY <1>3 DEF NoInsert, Exists
<1> QED
  BY <1>1, <1>3, <1>4 DEF NoInsert, Fresh, Unarchived

LEMMA StepFresh == TypeOK /\ Fresh /\ [Next]_vars => Fresh'
<1>1. ASSUME TypeOK, Fresh, NEW p \in Pollers, Poll(p) \/ PollFails(p)
      PROVE  Fresh'
  BY <1>1, TriageFresh, PollNoInsert, PollCandidates, FreshKept
<1>2. ASSUME Crash PROVE Fresh'
  BY <1>2 DEF Crash, Fresh, Unarchived, IdlePoll
<1> QED
  BY <1>1, <1>2, OthersFresh DEF Next

(* When Save's insert meets a conflict, last_insert_rowid() is never 0, so *)
(* the lookup that email.go:63 writes for that case is never made.         *)
THEOREM SaveNeverLooksUpAlways == Spec => []SaveNeverLooksUp
<1>1. Init => Fresh
  BY FreshInit
<1>2. TypeOK /\ Fresh /\ [Next]_vars => Fresh'
  BY StepFresh
<1>3. Fresh => SaveNeverLooksUp
  BY FreshImplies
<1> QED
  BY <1>1, <1>2, <1>3, TypeCorrect, PTL DEF Spec

(***************************************************************************)
(* Whose attachment is it?  When an insert meets a conflict, the row id of *)
(* the connection's previous insert passes for that of the email.          *)
(***************************************************************************)
\* Nobody but the email of message msg has, or had, the row id.
Belongs(id, msg) == id < nextEmail /\ \A e \in emails : e.id = id => e.msg = msg

\* A run saves attachments for the email of its candidate.
OwnFolder(r) == r.pc \in Attaching => Belongs(r.email, r.cand.msg)

\* A file lies in the directory of the email it came with.
OwnContent(path) == files[path] # Torn => Belongs(path.dir, files[path].msg)

\* The inductive invariant, as long as no insert meets a conflict.
OwnerInv ==
    /\ \A p \in Pollers : OwnFolder(poll[p])
    /\ \A path \in DOMAIN files : OwnContent(path)

NoConflict == \A p \in Pollers : At(p, "save") => ~Exists(poll[p].cand.mid)

LEMMA OwnerImplies == FilesInv /\ OwnerInv => AttachmentOwner
  BY DEF FilesInv, RowOK, OwnerInv, OwnContent, Belongs, AttachmentOwner

LEMMA BelongsKept ==
    ASSUME TypeOK, ArchiveStep, NEW id \in Nat, NEW msg, Belongs(id, msg)
    PROVE  Belongs(id, msg)'
<1>1. nextEmail \in Nat
  BY DEF TypeOK, ArchiveTypeOK
<1> QED
  BY <1>1 DEF Belongs, ArchiveStep

\* The files that a step leaves hold what they held, or less, or what the run
\* that wrote them saves.
Rewritten(path) ==
    \/ path \in DOMAIN files /\ files'[path] = files[path]
    \/ files'[path] = Torn
    \/ \E p \in Pollers :
          /\ poll[p].pc = "write" /\ path = poll[p].dest
          /\ files'[path].msg = poll[p].cand.msg

LEMMA RunRewrites ==
    ASSUME NEW p \in Pollers, Outside(p) \/ SaveSteps(p), NEW path, path \in DOMAIN files'
    PROVE  Rewritten(path)
<1>1. CASE files' = files
  BY <1>1 DEF Rewritten
<1>2. CASE Outside(p) \/ SaveEmail(p) \/ WriteWithoutDir(p) \/ RecordAttachment(p)
           \/ RecordFails(p)
           \/ \E i \in poll[p].todo : ChooseFile(p, i) \/ MkdirFails(p, i)
  BY <1>1, <1>2 DEF Outside, SaveEmail, InsertEmail, WriteWithoutDir, RecordAttachment,
                    InsertAttachment, RecordFails, ChooseFile, MkdirFails, archiveVars
<1>3. CASE WriteAttachment(p)
  <2>1. WriteFile(poll[p].dest, Content(poll[p].cand.msg, poll[p].att))
    BY <1>3 DEF WriteAttachment
  <2>2. CASE path = poll[p].dest
    BY <1>3, <2>1, <2>2 DEF WriteAttachment, At, WriteFile, Content, Rewritten
  <2>3. CASE path # poll[p].dest
    BY <2>1, <2>3 DEF WriteFile, Rewritten
  <2> QED
    BY <2>2, <2>3
<1>4. CASE WriteFails(p) /\ WriteFile(poll[p].dest, Torn)
  BY <1>4 DEF WriteFile, Rewritten
<1> QED
  BY <1>1, <1>2, <1>3, <1>4 DEF SaveSteps, WriteFails, archiveVars

LEMMA ContentKept ==
    ASSUME TypeOK, FilesInv, OwnerInv, ArchiveStep, NEW path, path \in DOMAIN files',
           path \in Paths, Rewritten(path)
    PROVE  OwnContent(path)'
<1>1. path.dir \in Nat
  BY PathDir
<1>2. CASE path \in DOMAIN files /\ files'[path] = files[path]
  <2> PICK msg : msg = files[path].msg
    OBVIOUS
  <2>1. files[path] # Torn => Belongs(path.dir, msg)
    BY <1>2 DEF OwnerInv, OwnContent
  <2>2. files[path] # Torn => Belongs(path.dir, msg)'
    BY <1>1, <2>1, BelongsKept
  <2> QED
    BY <1>2, <2>2 DEF OwnContent
<1>3. ASSUME NEW p \in Pollers, poll[p].pc = "write", path = poll[p].dest,
             files'[path].msg = poll[p].cand.msg
      PROVE  OwnContent(path)'
  <2> PICK msg : msg = poll[p].cand.msg
    OBVIOUS
  <2>1. path.dir = poll[p].email
    BY <1>3 DEF FilesInv, RunOK
  <2>2. Belongs(path.dir, msg)
    BY <1>3, <2>1 DEF OwnerInv, OwnFolder, Attaching
  <2>3. Belongs(path.dir, msg)'
    BY <1>1, <2>2, BelongsKept
  <2> QED
    BY <1>3, <2>3 DEF OwnContent
<1> QED
  BY <1>2, <1>3 DEF Rewritten, OwnContent

\* A run whose local state and candidate a step leaves, or that goes on with them.
LEMMA FolderKept ==
    ASSUME TypeOK, ArchiveStep, NEW p \in Pollers, OwnFolder(poll[p]),
           \/ poll'[p].pc \notin Attaching
           \/ /\ poll[p].pc \in Attaching
              /\ poll'[p].email = poll[p].email /\ poll'[p].cand = poll[p].cand
    PROVE  OwnFolder(poll[p])'
<1>1. CASE poll'[p].pc \notin Attaching
  BY <1>1 DEF OwnFolder
<1>2. CASE /\ poll[p].pc \in Attaching
           /\ poll'[p].email = poll[p].email /\ poll'[p].cand = poll[p].cand
  <2> PICK id \in Nat : id = poll[p].email
    BY DEF TypeOK, PollStates
  <2> PICK msg : msg = poll[p].cand.msg
    OBVIOUS
  <2>1. Belongs(id, msg)'
    BY <1>2, BelongsKept DEF OwnFolder
  <2> QED
    BY <1>2, <2>1 DEF OwnFolder
<1> QED
  BY <1>1, <1>2

\* Save without a conflict: the row is new, and so is its id.
LEMMA SaveOwns ==
    ASSUME TypeOK, FilesInv, NEW p \in Pollers, SaveEmail(p), ~Exists(poll[p].cand.mid)
    PROVE  OwnFolder(poll[p])'
<1> PICK msg, new : msg = poll[p].cand.msg /\ new = nextEmail
  OBVIOUS
<1>1. /\ emails' = emails \cup {[id |-> new, mid |-> poll[p].cand.mid, msg |-> msg]}
      /\ nextEmail' = new + 1 /\ new \in Nat
  BY DEF SaveEmail, InsertEmail, TypeOK, ArchiveTypeOK
<1>2. \A e \in emails : e.id # new
  BY DEF FilesInv, Numbered, TypeOK, ArchiveTypeOK
<1>3. Belongs(new, msg)'
  BY <1>1, <1>2 DEF Belongs
<1>4. poll'[p].cand.msg = msg /\ (poll'[p].pc # "purge" => poll'[p].email = new)
  BY AttachMoves DEF SaveEmail, SavedId
<1> QED
  BY <1>3, <1>4 DEF OwnFolder, Attaching

LEMMA RunOwns ==
    ASSUME TypeOK, FilesInv, OwnerInv, NoConflict, ArchiveStep, NEW p \in Pollers,
           Outside(p) \/ SaveSteps(p)
    PROVE  OwnFolder(poll[p])'
<1> USE DEF At
<1>0. OwnFolder(poll[p])
  BY DEF OwnerInv
<1>1. CASE Outside(p)
  BY <1>0, <1>1, FolderKept DEF Outside
<1>2. CASE SaveEmail(p)
  BY <1>2, SaveOwns DEF NoConflict, SaveEmail
<1>3. ASSUME NEW i, i \in poll[p].todo, ChooseFile(p, i)
      PROVE  OwnFolder(poll[p])'
  <2>1. poll[p].pc \in Attaching
    BY <1>3 DEF ChooseFile, Attaching
  <2> QED
    BY <1>0, <1>3, <2>1, ChooseFileMoves, FolderKept
<1>4. CASE WriteAttachment(p)
  <2>1. poll[p].pc = "write" /\ poll'[p].email = poll[p].email /\ poll'[p].cand = poll[p].cand
    BY <1>4 DEF WriteAttachment, Goto, TypeOK, PollStates
  <2> QED
    BY <1>0, <2>1, FolderKept DEF Attaching
<1>5. CASE \/ \E i \in poll[p].todo : MkdirFails(p, i)
           \/ WriteWithoutDir(p) \/ WriteFails(p) \/ RecordAttachment(p) \/ RecordFails(p)
  <2>1. PICK todo : Attach(p, poll[p].email, todo)
    BY <1>5 DEF MkdirFails, WriteWithoutDir, WriteFails, RecordAttachment, RecordFails
  <2>2. poll[p].pc \in Attaching
    BY <1>5 DEF MkdirFails, WriteWithoutDir, WriteFails, RecordAttachment, RecordFails,
                Attaching
  <2>3. poll'[p].pc \notin Attaching \/ poll'[p].email = poll[p].email
    BY <2>1, AttachMoves DEF Attaching
  <2>4. poll'[p].cand = poll[p].cand
    BY <2>1, AttachMoves
  <2> QED
    BY <1>0, <2>2, <2>3, <2>4, FolderKept
<1> QED
  BY <1>1, <1>2, <1>3, <1>4, <1>5 DEF SaveSteps

\* A deletion, the sweep or a stop writes no file.
LEMMA OthersRewrite ==
    ASSUME \/ Arrive \/ Retention \/ Login \/ Crash \/ UNCHANGED vars
           \/ \E u \in Users : Delete(u)
           \/ \E w \in Sweepers : Sweep(w)
    PROVE  \A path \in DOMAIN files' : Rewritten(path)
<1>1. files' = files \/ \E path : RemoveFile(path)
  BY DEF Arrive, Retention, RetentionStep, BecomeDue, Reprieve, Login, InsertElsewhere, Crash,
         Reconnect, Delete, UserStep, Sweep, SweepStep, BeginDelete, BeginDeleteBlind,
         RequestDelete, BeginSweep, CollectPaths, CollectFails, DeleteRow, DeleteEmailRow,
         DeleteRowFails, RemovePath, RemovePathFails, RemoveEmailDir, RemoveDir, archiveVars,
         vars
<1> QED
  BY <1>1 DEF RemoveFile, Rewritten

LEMMA OwnerStep ==
    TypeOK /\ TypeOK' /\ FilesInv /\ OwnerInv /\ NoConflict /\ [Next]_vars => OwnerInv'
<1> SUFFICES ASSUME TypeOK, TypeOK', FilesInv, OwnerInv, NoConflict, [Next]_vars
             PROVE  OwnerInv'
  OBVIOUS
<1>0. DOMAIN files' \subseteq Paths
  BY DEF TypeOK, ArchiveTypeOK
<1>1. ASSUME NEW p \in Pollers, Poll(p) \/ PollFails(p)
      PROVE  OwnerInv'
  <2>1. ArchiveStep /\ (Outside(p) \/ SaveSteps(p))
    BY <1>1, RunKeepsFiles, RunSteps
  <2>2. ASSUME NEW q \in Pollers PROVE OwnFolder(poll[q])'
    <3>1. CASE q = p
      BY <2>1, <3>1, RunOwns
    <3>2. CASE q # p
      BY <1>1, <2>1, <3>2, RunAlone, FolderKept DEF OwnerInv
    <3> QED
      BY <3>1, <3>2
  <2>3. \A path \in DOMAIN files' : OwnContent(path)'
    BY <1>0, <2>1, RunRewrites, ContentKept
  <2> QED
    BY <2>2, <2>3 DEF OwnerInv
<1>2. ASSUME ArchiveStep, \A path \in DOMAIN files' : Rewritten(path),
             \A p \in Pollers : poll'[p] = poll[p] \/ poll'[p].pc = "idle"
      PROVE  OwnerInv'
  <2>1. \A path \in DOMAIN files' : OwnContent(path)'
    BY <1>0, <1>2, ContentKept
  <2>2. ASSUME NEW p \in Pollers PROVE OwnFolder(poll[p])'
    BY <1>2, FolderKept DEF OwnerInv, Attaching
  <2> QED
    BY <2>1, <2>2 DEF OwnerInv
<1>3. CASE \/ Arrive \/ Retention \/ Login \/ Crash \/ UNCHANGED vars
           \/ \E u \in Users : Delete(u)
           \/ \E w \in Sweepers : Sweep(w)
  <2>1. ArchiveStep
    BY <1>3, OperationsKeep, JobSteps
       DEF Arrive, Retention, RetentionStep, BecomeDue, Reprieve, Login, Crash, vars, Reapers
  <2>2. \A p \in Pollers : poll'[p] = poll[p] \/ poll'[p].pc = "idle"
    BY <1>3 DEF Arrive, Retention, Login, Crash, Delete, Sweep, IdlePoll, vars, pollerVars
  <2> QED
    BY <1>2, <1>3, <2>1, <2>2, OthersRewrite
<1> QED
  BY <1>1, <1>3 DEF Next

(* Conflicts are the only way in which an attachment gets into another     *)
(* email: as long as no INSERT of Save (email.go:43) finds its Message-ID  *)
(* taken, every listed attachment is one of the email it is listed with,   *)
(* for any number of concurrent runs, deletions, faults and stops.         *)
THEOREM OwnerUnlessConflict == Spec /\ []NoConflict => []AttachmentOwner
<1>1. Init => OwnerInv
  BY DEF Init, ArchiveInit, PollerInit, IdlePoll, OwnerInv, OwnFolder, Attaching
<1>2. TypeOK /\ TypeOK' /\ FilesInv /\ OwnerInv /\ NoConflict /\ [Next]_vars => OwnerInv'
  BY OwnerStep
<1>3. FilesInv /\ OwnerInv => AttachmentOwner
  BY OwnerImplies
<1> QED
  BY <1>1, <1>2, <1>3, FilesAlways, PTL DEF Spec

(***************************************************************************)
(* The plan of a run.                                                      *)
(***************************************************************************)
\* The candidate was in the mailbox when the run selected it, and has its id.
Planned(r, c) ==
    c.msg \in r.view /\ c.mid = MessageIdOf(c.msg, SeqNum(r.view, c.msg))

\* The inductive invariant: what the envelopes and the candidates of a run are,
\* and that the candidate it saves is none of those that remain.
PlanOK(r) ==
    /\ r.pc \in {"idle", "select"} => r.cands = {}
    /\ r.pc # "triage" => r.queue = {}
    /\ r.queue \subseteq r.view /\ r.view \subseteq delivered
    /\ \A c \in r.cands : Planned(r, c)
    /\ r.pc = "save" => Planned(r, r.cand) /\ \A c \in r.cands : c.msg # r.cand.msg

PlansOK == \A p \in Pollers : PlanOK(poll[p])

LEMMA ContinuesPlan ==
    ASSUME TypeOK, NEW p \in Pollers, PlanOK(poll[p]), Continues(p),
           delivered \subseteq delivered'
    PROVE  PlanOK(poll[p])'
<1>1. poll[p] \in PollStates
  BY DEF TypeOK
<1>2. \A c : Planned(poll[p], c) => Planned(poll[p], c)'
  BY DEF Planned, Continues
<1>3. \A c \in poll'[p].cands : Planned(poll[p], c)'
  BY <1>2 DEF PlanOK, Continues
<1>4. ASSUME poll'[p].pc = "save"
      PROVE  /\ Planned(poll[p], poll[p].cand)'
             /\ \A c \in poll'[p].cands : c.msg # poll'[p].cand.msg
  <2> PICK d : d = poll'[p].cand
    OBVIOUS
  <2>1. d \in poll[p].cands /\ d \notin poll'[p].cands /\ Planned(poll[p], d)
    BY <1>4 DEF Continues, PlanOK
  <2>2. Planned(poll[p], d)'
    BY <1>2, <2>1
  <2>3. ASSUME NEW c \in poll'[p].cands PROVE c.msg # d.msg
    <3>1. c \in poll[p].cands /\ Planned(poll[p], c)
      BY DEF Continues, PlanOK
    <3>2. c \in Candidates /\ d \in Candidates
      BY <1>1, <2>1, <3>1 DEF PollStates
    <3>3. c.msg = d.msg => c.mid = d.mid
      BY <2>1, <3>1 DEF Planned
    <3> QED
      BY <2>1, <3>2, <3>3 DEF Candidates
  <2> QED
    BY <2>2, <2>3 DEF Planned
<1>5. /\ poll'[p].queue \subseteq poll'[p].view /\ poll'[p].view \subseteq delivered'
      /\ poll'[p].pc # "triage" => poll'[p].queue = {}
  BY DEF Continues, PlanOK
<1> QED
  BY <1>3, <1>4, <1>5 DEF PlanOK, Continues

\* The triage of a new message plans what is in its envelope.
LEMMA TriageMoves ==
    ASSUME TypeOK, NEW p \in Pollers, NEW m \in Message, NEW allowed, TriageNew(p, m, allowed)
    PROVE  /\ poll[p].pc = "triage" /\ m \in poll[p].queue /\ ~Exists(IdInRun(p, m))
           /\ UNCHANGED <<archiveVars, mailboxVars>>
           /\ poll'[p].pc = "triage" /\ poll'[p].view = poll[p].view
           /\ poll'[p].queue \subseteq poll[p].queue
           /\ \A c \in poll'[p].cands :
                 c \in poll[p].cands \/ c = [msg |-> m, mid |-> IdInRun(p, m)]
<1> PICK c : c = [msg |-> m, mid |-> IdInRun(p, m)]
  OBVIOUS
<1>1. poll \in [Pollers -> PollStates]
  BY DEF TypeOK
<1>2. /\ poll[p].pc = "triage" /\ m \in poll[p].queue /\ ~Exists(IdInRun(p, m))
      /\ UNCHANGED <<archiveVars, mailboxVars>>
      /\ \/ DropEnvelope(p, m)
         \/ poll' = [poll EXCEPT ![p].queue = @ \ {m}, ![p].cands = @ \cup {c}]
  BY DEF TriageNew, NextEnvelope, First, At
<1>3. /\ poll'[p].pc = "triage" /\ poll'[p].view = poll[p].view
      /\ poll'[p].queue \subseteq poll[p].queue
      /\ poll'[p].cands \subseteq poll[p].cands \cup {c}
  BY <1>1, <1>2 DEF DropEnvelope, PollStates
<1> QED
  BY <1>2, <1>3

\* What the first steps of a run leave.
LEMMA RunBegins ==
    ASSUME TypeOK, NEW p \in Pollers, Begin(p) \/ Select(p) \/ FetchEnvelopes(p)
    PROVE  /\ poll[p].pc \in {"idle", "select", "fetch"}
           /\ UNCHANGED <<archiveVars, mailboxVars>>
           /\ \/ poll'[p] = IdlePoll
              \/ /\ poll[p].pc = "idle" /\ poll'[p].pc = "select"
                 /\ poll'[p].view = poll[p].view
                 /\ poll'[p].queue = poll[p].queue /\ poll'[p].cands = poll[p].cands
              \/ /\ poll[p].pc = "select" /\ poll'[p].pc = "fetch"
                 /\ poll'[p].view = inbox
                 /\ poll'[p].queue = poll[p].queue /\ poll'[p].cands = poll[p].cands
              \/ /\ poll[p].pc = "fetch" /\ poll'[p].pc = "triage"
                 /\ poll'[p].view = poll[p].view
                 /\ poll'[p].queue \subseteq poll[p].view /\ poll'[p].cands = poll[p].cands
<1> USE DEF At
<1>1. poll \in [Pollers -> PollStates]
  BY DEF TypeOK
<1>2. CASE Return(p)
  BY <1>1, <1>2 DEF Return, Begin, Select, FetchEnvelopes
<1>3. CASE Begin(p)
  BY <1>1, <1>3 DEF Begin, PollStates
<1>4. CASE Select(p) /\ ~Return(p)
  BY <1>1, <1>4 DEF Select, PollStates
<1>5. CASE FetchEnvelopes(p) /\ ~Return(p)
  BY <1>1, <1>5 DEF FetchEnvelopes, PollStates
<1> QED
  BY <1>2, <1>3, <1>4, <1>5

LEMMA RunKeepsPlan ==
    ASSUME TypeOK, NEW p \in Pollers, PlanOK(poll[p]), Poll(p) \/ PollFails(p),
           delivered \subseteq delivered'
    PROVE  PlanOK(poll[p])'
<1>1. CASE Continues(p)
  BY <1>1, ContinuesPlan
<1>2. CASE poll'[p] = IdlePoll
  BY <1>2 DEF IdlePoll, PlanOK
<1>3. CASE Begin(p) \/ Select(p) \/ FetchEnvelopes(p)
  <2>1. inbox \subseteq delivered
    BY DEF TypeOK, MailboxTypeOK
  <2>2. CASE /\ poll'[p].pc \in {"select", "triage"}
             /\ poll'[p].cands = poll[p].cands /\ poll'[p].view = poll[p].view
    <3>1. \A c \in poll'[p].cands : Planned(poll[p], c)'
      BY <2>2 DEF PlanOK, Planned
    <3>2. /\ poll'[p].pc = "select" => poll'[p].cands = {} /\ poll'[p].queue = {}
          /\ poll'[p].queue \subseteq poll[p].view
      BY <1>2, <1>3, <2>2, RunBegins DEF PlanOK, IdlePoll
    <3> QED
      BY <2>2, <3>1, <3>2 DEF PlanOK
  <2>3. CASE /\ poll[p].pc = "select" /\ poll'[p].pc = "fetch" /\ poll'[p].view = inbox
             /\ poll'[p].cands = poll[p].cands /\ poll'[p].queue = poll[p].queue
    BY <2>1, <2>3 DEF PlanOK
  <2> QED
    BY <1>2, <1>3, <2>2, <2>3, RunBegins
<1>4. ASSUME NEW m \in Message, NEW allowed, TriageNew(p, m, allowed)
      PROVE  PlanOK(poll[p])'
  <2>1. poll'[p].pc = "triage" /\ poll'[p].view = poll[p].view
        /\ poll'[p].queue \subseteq poll[p].queue
    BY <1>4, TriageMoves
  <2>2. ASSUME NEW c \in poll'[p].cands PROVE Planned(poll[p], c)'
    <3>1. CASE c \in poll[p].cands
      BY <2>1, <3>1 DEF PlanOK, Planned
    <3>2. CASE c = [msg |-> m, mid |-> IdInRun(p, m)]
      <4>1. m \in poll[p].view
        BY <1>4, TriageMoves DEF PlanOK
      <4> QED
        BY <2>1, <3>2, <4>1 DEF Planned, IdInRun
    <3> QED
      BY <1>4, <3>1, <3>2, TriageMoves
  <2> QED
    BY <2>1, <2>2 DEF PlanOK
<1> QED
  BY <1>1, <1>2, <1>3, <1>4, RunContinues

\* What a run does to the mailbox.
LEMMA RunMailbox ==
    ASSUME NEW p \in Pollers, Poll(p) \/ PollFails(p)
    PROVE  \/ \E m : StoreDeleted(m) \/ UidExpunge(m)
           \/ ExpungeAll \/ UNCHANGED mailboxVars
<1>1. CASE SaveSteps(p)
  BY <1>1 DEF SaveSteps, SaveEmail, ChooseFile, MkdirFails, WriteAttachment, WriteWithoutDir,
              WriteFails, RecordAttachment, RecordFails
<1>2. CASE \/ Begin(p) \/ Select(p) \/ FetchEnvelopes(p) \/ ConnectFails(p)
           \/ TriageDone(p) \/ PurgeDone(p) \/ SaveFails(p)
           \/ ExpungeUid(p) \/ ExpungeUidFails(p)
           \/ ExpungeEverything(p) \/ ExpungeEverythingFails(p)
  BY <1>2 DEF Begin, Select, FetchEnvelopes, ConnectFails, TriageDone, PurgeDone, SaveFails,
              ExpungeUid, ExpungeUidFails, ExpungeEverything, ExpungeEverythingFails
<1>3. CASE \E m \in Message :
             \/ TriageNoEnvelope(p, m) \/ TriageCheckFails(p, m) \/ TriageDuplicate(p, m)
             \/ TriageJudge(p, m) \/ TriageSenderFails(p, m)
             \/ FlagDeleted(p, m) \/ FlagFails(p, m)
  BY <1>3 DEF TriageNoEnvelope, TriageCheckFails, TriageDuplicate, TriageJudge,
              TriageSenderFails, TriageNew, FlagDeleted, FlagFails
<1>4. CASE \E c \in poll[p].cands :
             FetchBody(p, c) \/ BodyGone(p, c) \/ BodyUnreadable(p, c) \/ FetchBodyFails(p, c)
  BY <1>4 DEF FetchBody, BodyGone, BodyUnreadable, FetchBodyFails
<1> QED
  BY <1>1, <1>2, <1>3, <1>4 DEF Poll, PollFails, PollStep, PollFailure, SaveSteps

LEMMA RunBringsNone ==
    ASSUME NEW p \in Pollers, Poll(p) \/ PollFails(p)
    PROVE  delivered' = delivered /\ inbox' \subseteq inbox
  BY RunMailbox DEF StoreDeleted, UidExpunge, ExpungeAll, mailboxVars

LEMMA DeliveredGrows == [Next]_vars => delivered \subseteq delivered'
<1>1. CASE Arrive
  BY <1>1 DEF Arrive, Deliver
<1>2. CASE \/ Retention \/ Login \/ Crash \/ UNCHANGED vars
           \/ \E u \in Users : Delete(u)
           \/ \E w \in Sweepers : Sweep(w)
  BY <1>2 DEF Retention, Login, Crash, Delete, Sweep, mailboxVars, vars
<1> QED
  BY <1>1, <1>2, RunBringsNone DEF Next

LEMMA PlanStep == TypeOK /\ PlansOK /\ [Next]_vars => PlansOK'
<1> SUFFICES ASSUME TypeOK, PlansOK, [Next]_vars, NEW p \in Pollers
             PROVE  PlanOK(poll[p])'
  BY DEF PlansOK
<1>0. delivered \subseteq delivered' /\ PlanOK(poll[p])
  BY DeliveredGrows DEF PlansOK
<1>1. CASE poll'[p] = poll[p]
  <2>1. \A c : Planned(poll[p], c) => Planned(poll[p], c)'
    BY <1>1 DEF Planned
  <2>2. poll'[p].pc = "save" => Planned(poll[p], poll[p].cand)'
    BY <1>0, <1>1 DEF PlanOK, Planned
  <2> QED
    BY <1>0, <1>1, <2>1, <2>2 DEF PlanOK
<1>2. ASSUME NEW q \in Pollers, Poll(q) \/ PollFails(q)
      PROVE  PlanOK(poll[p])'
  BY <1>0, <1>1, <1>2, RunKeepsPlan, RunAlone
<1>3. CASE Crash
  BY <1>3 DEF Crash, IdlePoll, PlanOK
<1>4. CASE \/ Arrive \/ Retention \/ Login \/ UNCHANGED vars
           \/ \E u \in Users : Delete(u)
           \/ \E w \in Sweepers : Sweep(w)
  BY <1>1, <1>4 DEF Arrive, Retention, Login, Delete, Sweep, vars, pollerVars
<1> QED
  BY <1>2, <1>3, <1>4 DEF Next

LEMMA PlansAlways == Spec => [](TypeOK /\ PlansOK)
<1>1. Init => TypeOK /\ PlansOK
  BY InitType DEF Init, PollerInit, IdlePoll, PlansOK, PlanOK
<1>2. TypeOK /\ PlansOK /\ [Next]_vars => TypeOK' /\ PlansOK'
  BY StepType, PlanStep
<1> QED
  BY <1>1, <1>2, PTL DEF Spec

(***************************************************************************)
(* Without copies of an email, a single run at a time meets no conflict.   *)
(***************************************************************************)
\* No two messages that one run may see get the same Message-ID.  A generated
\* id contains the sequence number, so this is about headers.
NoCopies ==
    \A m, n \in Message : \A i, j \in Nat :
        m # n /\ i # j => MessageIdOf(m, i) # MessageIdOf(n, j)

LEMMA SeqNumsDiffer ==
    ASSUME NEW view \in SUBSET Message, NEW m \in view, NEW n \in view, m # n
    PROVE  /\ SeqNum(view, m) \in Nat /\ SeqNum(view, n) \in Nat
           /\ SeqNum(view, m) # SeqNum(view, n)
<1> DEFINE upTo(k) == {l \in view : l <= k}
<1>1. IsFiniteSet(view) /\ view \subseteq Nat
  BY MailAssumption, FS_Subset
<1>2. IsFiniteSet(upTo(m)) /\ IsFiniteSet(upTo(n))
  BY <1>1, FS_Subset
<1>3. Cardinality(upTo(m)) \in Nat /\ Cardinality(upTo(n)) \in Nat
  BY <1>2, FS_CardinalityType
<1>4. upTo(m) # upTo(n)
  BY <1>1
<1>5. upTo(m) \subseteq upTo(n) \/ upTo(n) \subseteq upTo(m)
  <2>1. \A a, b \in view : a <= b => \A k \in view : k <= a => k <= b
    BY <1>1
  <2>2. m <= n \/ n <= m
    BY <1>1
  <2> QED
    BY <2>1, <2>2
<1>6. Cardinality(upTo(m)) # Cardinality(upTo(n))
  <2> HIDE DEF upTo
  <2> QED
    BY <1>2, <1>4, <1>5, FS_Subset
<1> QED
  BY <1>3, <1>6 DEF SeqNum

LEMMA PlannedDiffer ==
    ASSUME NoCopies, NEW r \in PollStates, NEW c, NEW d, Planned(r, c), Planned(r, d),
           c.msg # d.msg
    PROVE  c.mid # d.mid
<1>1. r.view \in SUBSET Message
  BY DEF PollStates
<1>2. /\ SeqNum(r.view, c.msg) \in Nat /\ SeqNum(r.view, d.msg) \in Nat
      /\ SeqNum(r.view, c.msg) # SeqNum(r.view, d.msg)
  BY <1>1, SeqNumsDiffer DEF Planned
<1> QED
  BY <1>1, <1>2 DEF Planned, NoCopies

\* The candidate that is saved is none of those that remain.
LEMMA SaveStaysNew ==
    ASSUME TypeOK, NoCopies, NEW p \in Pollers, PlanOK(poll[p]), Unarchived(poll[p]),
           SaveEmail(p)
    PROVE  Unarchived(poll[p])'
<1> PICK d : d = poll[p].cand
  OBVIOUS
<1>1. PICK id, todo : Attach(p, id, todo)
  BY DEF SaveEmail
<1>2. poll'[p].pc # "save" /\ poll'[p].cands = poll[p].cands
  BY <1>1, AttachContinues
<1>3. Planned(poll[p], d) /\ \A c \in poll[p].cands : c.msg # d.msg /\ Planned(poll[p], c)
  BY DEF SaveEmail, At, PlanOK
<1>4. poll[p] \in PollStates
  BY DEF TypeOK
<1>5. \A c \in poll[p].cands : c.mid # d.mid
  BY <1>3, <1>4, PlannedDiffer
<1>6. \A e \in emails' : e \in emails \/ e.mid = d.mid
  BY DEF SaveEmail, InsertEmail, archiveVars
<1>7. \A c \in poll[p].cands : ~Exists(c.mid)'
  BY <1>5, <1>6 DEF Unarchived, Exists
<1> QED
  BY <1>2, <1>7 DEF Unarchived

LEMMA RunStaysNew ==
    ASSUME TypeOK, NoCopies, NEW p \in Pollers, PlanOK(poll[p]), Unarchived(poll[p]),
           Poll(p) \/ PollFails(p)
    PROVE  Unarchived(poll[p])'
<1>1. CASE SaveEmail(p)
  BY <1>1, SaveStaysNew
<1>2. ASSUME NEW m \in Message, NEW allowed, TriageNew(p, m, allowed)
      PROVE  Unarchived(poll[p])'
  <2>1. emails' = emails
    BY <1>2, TriageMoves DEF archiveVars
  <2>2. \A c \in poll'[p].cands : ~Exists(c.mid)'
    BY <1>2, <2>1, TriageMoves DEF Unarchived, Exists
  <2> QED
    BY <1>2, <2>2, TriageMoves DEF Unarchived
<1>3. CASE poll'[p] = IdlePoll
  BY <1>3 DEF IdlePoll, Unarchived
<1>4. CASE Begin(p) \/ Select(p) \/ FetchEnvelopes(p)
  <2>1. emails' = emails
    BY <1>4, RunBegins DEF archiveVars
  <2>2. \/ poll'[p].pc # "save" /\ poll'[p].cands = poll[p].cands
        \/ poll'[p] = IdlePoll
    BY <1>4, RunBegins
  <2> QED
    BY <1>3, <2>1, <2>2 DEF Unarchived, Exists
<1>5. CASE Continues(p) /\ ~SaveEmail(p)
  <2>1. emails' = emails
    BY <1>5, RunSteps
       DEF Outside, SaveSteps, ChooseFile, MkdirFails, WriteAttachment, WriteWithoutDir,
           WriteFails, WriteFile, RecordAttachment, InsertAttachment, RecordFails, archiveVars
  <2> QED
    BY <1>5, <2>1 DEF Continues, Unarchived, Exists
<1> QED
  BY <1>1, <1>2, <1>3, <1>4, <1>5, RunContinues

\* Only a run of Poll adds emails.
LEMMA OthersAddNone ==
    ASSUME \/ Arrive \/ Retention \/ Login \/ Crash \/ UNCHANGED vars
           \/ \E u \in Users : Delete(u)
           \/ \E w \in Sweepers : Sweep(w)
    PROVE  emails' \subseteq emails /\ history' = history
<1>1. \/ UNCHANGED <<emails, history>> \/ \E id : DeleteEmailRow(id)
  BY DEF Arrive, Login, InsertElsewhere, Delete, UserStep, Sweep, SweepStep, Retention,
         RetentionStep, BeginDelete, BeginDeleteBlind, RequestDelete, BeginSweep,
         CollectPaths, CollectFails, DeleteRow, DeleteRowFails, RemovePath,
         RemovePathFails, RemoveFile, RemoveEmailDir, RemoveDir, BecomeDue, Reprieve,
         Crash, Reconnect, archiveVars, vars
<1> QED
  BY <1>1 DEF DeleteEmailRow

\* The inductive invariant.
NewOnly == \A p \in Pollers : Unarchived(poll[p])

LEMMA NewOnlyStep ==
    ASSUME \A p, q \in Pollers : p = q, NoCopies
    PROVE  TypeOK /\ PlansOK /\ NewOnly /\ [Next]_vars => NewOnly'
<1> SUFFICES ASSUME TypeOK, PlansOK, NewOnly, [Next]_vars, NEW p \in Pollers
             PROVE  Unarchived(poll[p])'
  BY DEF NewOnly
<1>1. ASSUME NEW q \in Pollers, Poll(q) \/ PollFails(q)
      PROVE  Unarchived(poll[p])'
  BY <1>1, RunStaysNew DEF PlansOK, NewOnly
<1>2. CASE Crash
  BY <1>2 DEF Crash, IdlePoll, Unarchived
<1>3. CASE \/ Arrive \/ Retention \/ Login \/ UNCHANGED vars
           \/ \E u \in Users : Delete(u)
           \/ \E w \in Sweepers : Sweep(w)
  <2>1. UNCHANGED poll
    BY <1>3 DEF Arrive, Retention, Login, Delete, Sweep, vars, pollerVars
  <2>2. emails' \subseteq emails
    BY <1>3, OthersAddNone
  <2> QED
    BY <2>1, <2>2 DEF NewOnly, Unarchived, Exists
<1> QED
  BY <1>1, <1>2, <1>3 DEF Next

(* With one run of Poll at a time (poller.go:124) and no two messages that *)
(* share a Message-ID, every listed attachment is one of the email it is   *)
(* listed with, whatever fails and whenever the process stops.             *)
THEOREM AttachmentOwnerAlone ==
    ASSUME \A p, q \in Pollers : p = q, NoCopies
    PROVE  Spec => []AttachmentOwner
<1>1. Init => NewOnly
  BY DEF Init, PollerInit, IdlePoll, NewOnly, Unarchived
<1>2. TypeOK /\ PlansOK /\ NewOnly /\ [Next]_vars => NewOnly'
  BY NewOnlyStep
<1>3. NewOnly => NoConflict
  BY DEF NewOnly, Unarchived, NoConflict, At
<1> QED
  BY <1>1, <1>2, <1>3, PlansAlways, OwnerUnlessConflict, PTL DEF Spec

(***************************************************************************)
(* What was saved leaves the mailbox and is not saved again.               *)
(***************************************************************************)
Purging == {"purge", "expunge", "expungeAll"}

Archived(m) == \E h \in history : h.msg = m

\* A run in local state r is about to take message m off the server.
Leaving(r, m) ==
    \/ r.pc \in Attaching /\ m = r.cand.msg
    \/ r.pc \in Purging /\ m \in r.dels
    \/ r.pc \in {"expunge", "expungeAll"} /\ m = r.uid /\ m \in flagged

\* A run in local state r has yet to save what it looks at.
Unsaved(r) ==
    /\ r.pc = "fetch" => \A m \in r.view : ~Archived(m)
    /\ \A m \in r.queue : ~Archived(m)
    /\ \A c \in r.cands : ~Archived(c.msg)
    /\ r.pc = "save" => ~Archived(r.cand.msg)

\* The inductive invariant: an archived message that is still on the server is
\* being taken off it by the run that saved it.
OnceInv ==
    /\ \A h \in history : h.msg \in delivered
    /\ \A m \in inbox : Archived(m) => \E p \in Pollers : Leaving(poll[p], m)
    /\ \A p \in Pollers : Unsaved(poll[p])

LEMMA PurgeSteps ==
    ASSUME NEW p \in Pollers, Poll(p) \/ PollFails(p), poll[p].pc \in Purging
    PROVE  \/ \E m \in Message : FlagDeleted(p, m) \/ FlagFails(p, m)
           \/ ExpungeUid(p) \/ ExpungeUidFails(p)
           \/ ExpungeEverything(p) \/ ExpungeEverythingFails(p) \/ PurgeDone(p)
<1> USE DEF At, Purging
<1>1. ~SaveSteps(p) /\ ~SaveFails(p)
  BY DEF SaveSteps, SaveEmail, ChooseFile, MkdirFails, WriteAttachment, WriteWithoutDir,
         WriteFails, RecordAttachment, RecordFails, SaveFails
<1>2. ~Begin(p) /\ ~Select(p) /\ ~FetchEnvelopes(p) /\ ~ConnectFails(p) /\ ~TriageDone(p)
  BY DEF Begin, Select, FetchEnvelopes, ConnectFails, TriageDone
<1>3. ~ \E m \in Message :
           \/ TriageNoEnvelope(p, m) \/ TriageCheckFails(p, m) \/ TriageDuplicate(p, m)
           \/ TriageJudge(p, m) \/ TriageSenderFails(p, m)
  BY DEF TriageNoEnvelope, TriageCheckFails, TriageDuplicate, TriageJudge,
         TriageSenderFails, TriageNew, NextEnvelope
<1>4. ~ \E c \in poll[p].cands :
           FetchBody(p, c) \/ BodyGone(p, c) \/ BodyUnreadable(p, c) \/ FetchBodyFails(p, c)
  BY DEF FetchBody, BodyGone, BodyUnreadable, FetchBodyFails, NextCandidate
<1> QED
  BY <1>1, <1>2, <1>3, <1>4 DEF Poll, PollFails, PollStep, PollFailure, SaveSteps

LEMMA AttachLeaves ==
    ASSUME TypeOK, NEW p \in Pollers, NEW id, NEW todo, Attach(p, id, todo)
    PROVE  Leaving(poll[p], poll[p].cand.msg)'
<1>1. poll \in [Pollers -> PollStates]
  BY DEF TypeOK
<1>2. CASE todo = {}
  <2>1. poll'[p].pc = "purge" /\ poll'[p].dels = {poll[p].cand.msg}
        /\ poll'[p].cand = poll[p].cand
    BY <1>1, <1>2 DEF Attach, PollStates
  <2> QED
    BY <2>1 DEF Leaving, Purging
<1>3. CASE todo # {}
  BY <1>3, AttachMoves DEF Leaving, Attaching
<1> QED
  BY <1>2, <1>3

LEMMA RunTakesOff ==
    ASSUME TypeOK, {"store", "expunge"} \cap Faults = {}, NEW p \in Pollers,
           Poll(p) \/ PollFails(p), NEW m, m \in inbox', Leaving(poll[p], m)
    PROVE  Leaving(poll[p], m)'
<1> USE DEF At
<1>1. poll \in [Pollers -> PollStates]
  BY DEF TypeOK
<1>2. CASE poll[p].pc \in Attaching /\ m = poll[p].cand.msg
  <2>1. ASSUME NEW id, NEW todo, Attach(p, id, todo) PROVE Leaving(poll[p], m)'
    BY <1>2, <2>1, AttachLeaves, AttachMoves DEF Leaving
  <2>2. ASSUME NEW i, i \in poll[p].todo, ChooseFile(p, i) PROVE Leaving(poll[p], m)'
    BY <1>2, <2>2, ChooseFileMoves DEF Leaving, Attaching
  <2>3. CASE WriteAttachment(p)
    <3>1. poll'[p].pc = "record" /\ poll'[p].cand = poll[p].cand
      BY <1>1, <2>3 DEF WriteAttachment, Goto, PollStates
    <3> QED
      BY <1>2, <3>1 DEF Leaving, Attaching
  <2>4. ~Outside(p)
    BY <1>2 DEF Outside
  <2> QED
    BY <2>1, <2>2, <2>3, <2>4, RunSteps
       DEF SaveSteps, SaveEmail, MkdirFails, WriteWithoutDir, WriteFails, RecordAttachment,
           RecordFails
<1>3. CASE poll[p].pc \in Purging
  <2>1. /\ m \in inbox
        /\ poll[p].pc = "purge" => m \in poll[p].dels
        /\ m \in poll[p].dels \/ (m = poll[p].uid /\ m \in flagged)
    BY <1>3, PurgeSteps
       DEF Leaving, Purging, Attaching, FlagDeleted, FlagFails, StoreDeleted, ExpungeUid,
           ExpungeUidFails, UidExpunge, ExpungeEverything, ExpungeEverythingFails, ExpungeAll,
           PurgeDone, mailboxVars
  <2>2. ASSUME NEW k \in Message, FlagDeleted(p, k) PROVE Leaving(poll[p], m)'
    <3>1. /\ poll[p].pc = "purge" /\ poll'[p].pc = "expunge" /\ poll'[p].uid = k
          /\ poll'[p].dels = poll[p].dels \ {k}
          /\ k \in inbox => k \in flagged'
      BY <1>1, <2>2 DEF FlagDeleted, StoreDeleted, PollStates
    <3> QED
      BY <2>1, <3>1 DEF Leaving, Purging
  <2>3. ASSUME NEW pc \in Purging, Goto(p, pc)
        PROVE  poll'[p].pc = pc /\ poll'[p].dels = poll[p].dels /\ poll'[p].uid = poll[p].uid
    BY <1>1, <2>3 DEF Goto, PollStates
  <2>4. CASE ExpungeUid(p)
    <3>1. m \in poll[p].dels
      BY <2>1, <2>4 DEF ExpungeUid, UidExpunge
    <3> QED
      BY <2>3, <2>4, <3>1 DEF ExpungeUid, Leaving, Purging
  <2>5. CASE ExpungeUidFails(p)
    <3>1. m \in poll[p].dels \/ (m = poll[p].uid /\ m \in flagged')
      BY <2>1, <2>5 DEF ExpungeUidFails, UidExpunge, mailboxVars
    <3> QED
      BY <2>3, <2>5, <3>1 DEF ExpungeUidFails, Leaving, Purging
  <2>6. CASE ExpungeEverything(p)
    <3>1. m \in poll[p].dels
      BY <2>1, <2>6 DEF ExpungeEverything, ExpungeAll
    <3> QED
      BY <2>3, <2>6, <3>1 DEF ExpungeEverything, Leaving, Purging
  <2>7. ~PurgeDone(p) /\ ~ExpungeEverythingFails(p) /\ \A k \in Message : ~FlagFails(p, k)
    BY <2>1 DEF PurgeDone, ExpungeEverythingFails, FlagFails, Fails
  <2> QED
    BY <1>3, <2>2, <2>4, <2>5, <2>6, <2>7, PurgeSteps
<1> QED
  BY <1>2, <1>3 DEF Leaving, Purging

\* A run fetches, plans and saves what has not been saved.
LEMMA RunStaysUnsaved ==
    ASSUME TypeOK, OnceInv, NEW p \in Pollers, \A q \in Pollers : q = p, PlanOK(poll[p]),
           Poll(p) \/ PollFails(p)
    PROVE  Unsaved(poll[p])'
<1>0. Unsaved(poll[p])
  BY DEF OnceInv
<1>1. CASE SaveEmail(p)
  <2> PICK d : d = poll[p].cand
    OBVIOUS
  <2>1. PICK id, todo : Attach(p, id, todo)
    BY <1>1 DEF SaveEmail
  <2>2. /\ poll'[p].pc \notin {"save", "fetch"} /\ poll'[p].cands = poll[p].cands
        /\ poll'[p].queue = {}
    BY <1>1, <2>1, AttachContinues DEF SaveEmail, At, PlanOK
  <2>3. \A c \in poll[p].cands : c.msg # d.msg
    BY <1>1 DEF SaveEmail, At, PlanOK
  <2>4. \A h \in history' : h \in history \/ h.msg = d.msg
    BY <1>1 DEF SaveEmail, InsertEmail, archiveVars
  <2>5. \A c \in poll[p].cands : ~Archived(c.msg)'
    BY <1>0, <2>3, <2>4 DEF Unsaved, Archived
  <2> QED
    BY <2>2, <2>5 DEF Unsaved
<1>2. ASSUME NEW m \in Message, NEW allowed, TriageNew(p, m, allowed)
      PROVE  Unsaved(poll[p])'
  <2>1. history' = history
    BY <1>2, TriageMoves DEF archiveVars
  <2>2. \A c \in poll'[p].cands : ~Archived(c.msg)'
    BY <1>0, <1>2, <2>1, TriageMoves DEF Unsaved, Archived
  <2>3. \A k \in poll'[p].queue : ~Archived(k)'
    BY <1>0, <1>2, <2>1, TriageMoves DEF Unsaved, Archived
  <2> QED
    BY <1>2, <2>2, <2>3, TriageMoves DEF Unsaved
<1>3. CASE poll'[p] = IdlePoll
  BY <1>3 DEF IdlePoll, Unsaved
<1>4. CASE Begin(p) \/ Select(p) \/ FetchEnvelopes(p)
  <2>1. history' = history
    BY <1>4, RunBegins DEF archiveVars
  <2>2. \A m : Archived(m)' = Archived(m)
    BY <2>1 DEF Archived
  <2>3. poll[p].pc = "select" => \A m \in inbox : ~Archived(m)
    BY DEF OnceInv, Leaving, Purging, Attaching
  <2>4. poll[p].pc # "triage" => poll[p].queue = {}
    BY DEF PlanOK
  <2>5. CASE poll[p].pc = "idle" /\ poll'[p].pc = "select"
    BY <1>0, <1>3, <1>4, <2>2, <2>4, <2>5, RunBegins DEF Unsaved
  <2>6. CASE poll[p].pc = "select" /\ poll'[p].pc = "fetch"
    BY <1>0, <1>3, <1>4, <2>2, <2>3, <2>4, <2>6, RunBegins DEF Unsaved
  <2>7. CASE poll[p].pc = "fetch" /\ poll'[p].pc = "triage"
    BY <1>0, <1>3, <1>4, <2>2, <2>7, RunBegins DEF Unsaved
  <2> QED
    BY <1>3, <1>4, <2>5, <2>6, <2>7, RunBegins
<1>5. CASE Continues(p) /\ ~SaveEmail(p)
  <2>1. history' = history
    BY <1>5, RunSteps
       DEF Outside, SaveSteps, ChooseFile, MkdirFails, WriteAttachment, WriteWithoutDir,
           WriteFails, WriteFile, RecordAttachment, InsertAttachment, RecordFails, archiveVars
  <2>2. poll'[p].pc # "fetch"
    BY <1>5 DEF Continues
  <2> QED
    BY <1>0, <1>5, <2>1, <2>2 DEF Continues, Unsaved, Archived
<1> QED
  BY <1>1, <1>2, <1>3, <1>4, <1>5, RunContinues

LEMMA OnceStep ==
    ASSUME \A p, q \in Pollers : p = q, MaxCrashes = 0, {"store", "expunge"} \cap Faults = {}
    PROVE  TypeOK /\ PlansOK /\ OnceInv /\ [Next]_vars
           => OnceInv' /\ \A e \in emails' \ emails : \A h \in history : h.msg # e.msg
<1> SUFFICES ASSUME TypeOK, PlansOK, OnceInv, [Next]_vars
             PROVE  OnceInv' /\ \A e \in emails' \ emails : \A h \in history : h.msg # e.msg
  OBVIOUS
<1>0. delivered \subseteq delivered'
  BY DeliveredGrows
<1>1. ASSUME NEW p \in Pollers, Poll(p) \/ PollFails(p)
      PROVE  OnceInv' /\ \A e \in emails' \ emails : \A h \in history : h.msg # e.msg
  <2>1. Unsaved(poll[p]) /\ PlanOK(poll[p])
    BY DEF OnceInv, PlansOK
  <2>2. Unsaved(poll[p])'
    BY <1>1, <2>1, RunStaysUnsaved
  <2>3. inbox' \subseteq inbox
    BY <1>1, RunBringsNone
  <2>4. CASE SaveEmail(p)
    <3> PICK d : d = poll[p].cand
      OBVIOUS
    <3>1. /\ \A h \in history' : h \in history \/ h.msg = d.msg
          /\ \A e \in emails' : e \in emails \/ e.msg = d.msg
      BY <2>4 DEF SaveEmail, InsertEmail, archiveVars
    <3>2. d.msg \in delivered /\ \A h \in history : h.msg # d.msg
      <4>1. Planned(poll[p], d) /\ ~Archived(d.msg) /\ poll[p].view \subseteq delivered
        BY <2>1, <2>4 DEF SaveEmail, At, PlanOK, Unsaved
      <4> QED
        BY <4>1 DEF Planned, Archived
    <3>3. Leaving(poll[p], d.msg)'
      <4>1. PICK id, todo : Attach(p, id, todo)
        BY <2>4 DEF SaveEmail
      <4>2. Leaving(poll[p], poll[p].cand.msg)'
        BY <4>1, AttachLeaves
      <4>3. poll'[p].cand = poll[p].cand
        BY <4>1, AttachMoves
      <4> QED
        BY <4>2, <4>3
    <3>4. ASSUME NEW m, m \in inbox', Archived(m)' PROVE Leaving(poll[p], m)'
      <4>1. CASE Archived(m)
        <5>1. Leaving(poll[p], m)
          BY <2>3, <3>4, <4>1 DEF OnceInv
        <5> QED
          BY <1>1, <3>4, <5>1, RunTakesOff
      <4>2. CASE m = d.msg
        BY <3>3, <4>2
      <4> QED
        BY <3>1, <3>4, <4>1, <4>2 DEF Archived
    <3>5. \A h \in history' : h.msg \in delivered'
      BY <1>0, <3>1, <3>2 DEF OnceInv
    <3> QED
      BY <2>2, <3>1, <3>2, <3>4, <3>5 DEF OnceInv
  <2>5. CASE ~SaveEmail(p)
    <3>1. history' = history /\ emails' = emails
      BY <1>1, <2>5, RunSteps
         DEF Outside, SaveSteps, ChooseFile, MkdirFails, WriteAttachment, WriteWithoutDir,
             WriteFails, WriteFile, RecordAttachment, InsertAttachment, RecordFails, archiveVars
    <3>2. ASSUME NEW m, m \in inbox', Archived(m)' PROVE Leaving(poll[p], m)'
      <4>1. Leaving(poll[p], m)
        BY <2>3, <3>1, <3>2 DEF OnceInv, Archived
      <4> QED
        BY <1>1, <3>2, <4>1, RunTakesOff
    <3> QED
      BY <1>0, <2>2, <3>1, <3>2 DEF OnceInv
  <2> QED
    BY <2>4, <2>5
<1>2. CASE \/ Arrive \/ Retention \/ Login \/ UNCHANGED vars
           \/ \E u \in Users : Delete(u)
           \/ \E w \in Sweepers : Sweep(w)
  <2>1. /\ UNCHANGED poll
        /\ UNCHANGED mailboxVars \/ \E m : Deliver(m)
    BY <1>2 DEF Arrive, Retention, Login, Delete, Sweep, vars, pollerVars
  <2>2. emails' \subseteq emails /\ history' = history
    BY <1>2, OthersAddNone
  <2>3. /\ flagged' = flagged
        /\ \A m \in inbox' : m \in inbox \/ m \notin delivered
    <3>1. CASE UNCHANGED mailboxVars
      BY <3>1 DEF mailboxVars
    <3>2. ASSUME NEW m, Deliver(m)
          PROVE  flagged' = flagged /\ inbox' = inbox \cup {m} /\ m \notin delivered
      <4>1. \A k \in delivered : k \in Nat /\ k < m
        BY <3>2, MailAssumption DEF Deliver, TypeOK, MailboxTypeOK
      <4>2. m \notin delivered
        BY <4>1
      <4> QED
        BY <3>2, <4>2 DEF Deliver
    <3> QED
      BY <2>1, <3>1, <3>2
  <2>4. ASSUME NEW m, m \in inbox', Archived(m)' PROVE \E p \in Pollers : Leaving(poll[p], m)'
    <3>1. Archived(m) /\ m \in inbox
      BY <2>2, <2>3, <2>4 DEF Archived, OnceInv
    <3>2. PICK p \in Pollers : Leaving(poll[p], m)
      BY <3>1 DEF OnceInv
    <3>3. Leaving(poll[p], m)'
      BY <2>1, <2>3, <3>2 DEF Leaving
    <3> QED
      BY <3>3
  <2>5. \A p \in Pollers : Unsaved(poll[p])'
    BY <2>1, <2>2 DEF OnceInv, Unsaved, Archived
  <2> QED
    BY <1>0, <2>2, <2>4, <2>5 DEF OnceInv
<1>3. ~Crash
  BY DEF Crash, TypeOK
<1> QED
  BY <1>1, <1>2, <1>3 DEF Next

(* A message is archived once, whatever users and the sweep delete, as     *)
(* long as runs do not overlap, the process does not stop, and the server  *)
(* does as it is told: STORE succeeds, and so does EXPUNGE where it is the *)
(* last resort (poller.go:93-112).  All else may fail.                     *)
THEOREM ArchivedOnceAlone ==
    ASSUME \A p, q \in Pollers : p = q, MaxCrashes = 0, {"store", "expunge"} \cap Faults = {}
    PROVE  Spec => NeverArchivedAgain
<1>1. Init => OnceInv
  BY DEF Init, ArchiveInit, MailboxInit, PollerInit, IdlePoll, OnceInv, Unsaved, Archived
<1>2. TypeOK /\ PlansOK /\ OnceInv /\ [Next]_vars
         => OnceInv' /\ \A e \in emails' \ emails : \A h \in history : h.msg # e.msg
  BY OnceStep
<1> QED
  BY <1>1, <1>2, PlansAlways, PTL DEF Spec, NeverArchivedAgain
=============================================================================
