------------------------ MODULE EmailStoreRefinement ------------------------
(***************************************************************************)
(* EmailStore implements Delivery: seen from the mailbox, every step of    *)
(* the system is the arrival of a message, a decision, or the removal of   *)
(* decided messages.                                                       *)
(***************************************************************************)
EXTENDS EmailStoreSafety

\* The three ways a step shows in the mailbox and in what is decided.
Arrives ==
    /\ \E m \in Message : Deliver(m)
    /\ UNCHANGED <<history, refused>>

Decides == HistoryGrows /\ UNCHANGED <<inbox, delivered>>

Discards ==
    /\ inbox' \subseteq inbox /\ inbox \ inbox' \subseteq flagged
    /\ UNCHANGED <<delivered, history, refused>>

LEMMA PollShows ==
    ASSUME NEW p \in Pollers, Poll(p) \/ PollFails(p)
    PROVE  Decides \/ Discards
<1> USE DEF archiveVars, mailboxVars, HistoryGrows
<1>1. CASE \/ Begin(p) \/ Select(p) \/ FetchEnvelopes(p) \/ ConnectFails(p)
           \/ TriageDone(p) \/ PurgeDone(p) \/ SaveFails(p)
  BY <1>1 DEF Decides, Begin, Select, FetchEnvelopes, ConnectFails, TriageDone,
              PurgeDone, SaveFails
<1>2. CASE \E m \in Message :
             \/ TriageNoEnvelope(p, m) \/ TriageCheckFails(p, m)
             \/ TriageDuplicate(p, m) \/ TriageJudge(p, m) \/ TriageSenderFails(p, m)
  BY <1>2 DEF Decides, TriageNoEnvelope, TriageCheckFails, TriageDuplicate,
              TriageJudge, TriageSenderFails, TriageNew
<1>3. CASE \E m \in Message : FlagDeleted(p, m) \/ FlagFails(p, m)
  BY <1>3 DEF Decides, FlagDeleted, FlagFails, StoreDeleted
<1>4. CASE \/ ExpungeUid(p) \/ ExpungeUidFails(p)
           \/ ExpungeEverything(p) \/ ExpungeEverythingFails(p)
  BY <1>4 DEF Discards, ExpungeUid, ExpungeUidFails, ExpungeEverything,
              ExpungeEverythingFails, UidExpunge, ExpungeAll
<1>5. CASE \E c \in poll[p].cands :
             FetchBody(p, c) \/ BodyGone(p, c) \/ BodyUnreadable(p, c) \/ FetchBodyFails(p, c)
  BY <1>5 DEF Decides, FetchBody, BodyGone, BodyUnreadable, FetchBodyFails
<1>6. CASE SaveEmail(p)
  <2>1. PICK mid, m : InsertEmail(mid, m)
    BY <1>6 DEF SaveEmail
  <2>2. history \subseteq history'
    BY <2>1 DEF InsertEmail
  <2> QED
    BY <1>6, <2>2 DEF Decides, SaveEmail
<1>7. CASE \/ \E i \in poll[p].todo : ChooseFile(p, i) \/ MkdirFails(p, i)
           \/ WriteAttachment(p) \/ WriteWithoutDir(p) \/ WriteFails(p)
           \/ RecordAttachment(p) \/ RecordFails(p)
  BY <1>7 DEF Decides, ChooseFile, MkdirFails, WriteAttachment, WriteWithoutDir,
              WriteFails, RecordAttachment, RecordFails, WriteFile, InsertAttachment
<1> QED
  BY <1>1, <1>2, <1>3, <1>4, <1>5, <1>6, <1>7 DEF Poll, PollFails, PollStep, PollFailure

LEMMA ReaperShows ==
    ASSUME \/ \E u \in Users : Delete(u)
           \/ \E w \in Sweepers : Sweep(w)
           \/ Retention
    PROVE  Decides
<1>1. UNCHANGED <<inbox, delivered, refused>>
  BY DEF Delete, Sweep, Retention, mailboxVars, pollerVars
<1>2. UNCHANGED history
  BY DEF Delete, UserStep, Sweep, SweepStep, Retention, RetentionStep,
         BeginDelete, BeginDeleteBlind, RequestDelete, BeginSweep, CollectPaths,
         CollectFails, DeleteRow, DeleteRowFails, DeleteEmailRow, RemovePath,
         RemovePathFails, RemoveFile, RemoveEmailDir, RemoveDir, BecomeDue, Reprieve,
         archiveVars
<1> QED
  BY <1>1, <1>2 DEF Decides, HistoryGrows

LEMMA StepShows == [Next]_vars => Arrives \/ Decides \/ Discards
<1>1. Arrive => Arrives
  BY DEF Arrive, Arrives, archiveVars, pollerVars
<1>2. Login \/ Crash \/ UNCHANGED vars => Decides
  BY DEF Login, Crash, Reconnect, InsertElsewhere, vars, archiveVars, mailboxVars,
         pollerVars, Decides, HistoryGrows
<1> QED
  BY <1>1, <1>2, PollShows, ReaperShows DEF Next

LEMMA DecidedGrows == HistoryGrows => decidedSet \subseteq decidedSet'
  BY DEF HistoryGrows, decidedSet, Decided

LEMMA InitRefines == Init => D!DInit
  BY DEF Init, ArchiveInit, MailboxInit, PollerInit, D!DInit, decidedSet, Decided

LEMMA StepRefines ==
    ASSUME \A m \in Message : HasHeader(m), TypeOK, SafetyInv, [Next]_vars
    PROVE  [D!DNext]_(D!dvars)
<1>1. safe = decidedSet
  BY DEF safe, Safe, decidedSet
<1>2. CASE Arrives
  <2>1. PICK m \in Message : Deliver(m)
    BY <1>2 DEF Arrives
  <2>2. m \notin delivered
    BY <2>1, MailAssumption DEF Deliver
  <2>3. decidedSet' = decidedSet
    BY <1>2 DEF Arrives, decidedSet, Decided
  <2>4. D!DArrive(m)
    BY <2>1, <2>2, <2>3 DEF Deliver, D!DArrive
  <2> QED
    BY <2>4 DEF D!DNext
<1>3. CASE Decides
  <2>1. decidedSet' = decidedSet \cup decidedSet' /\ decidedSet' \in SUBSET Message
    BY <1>3, DecidedGrows DEF Decides, decidedSet
  <2>2. D!Decide(decidedSet')
    BY <1>3, <2>1 DEF Decides, D!Decide
  <2> QED
    BY <2>1, <2>2 DEF D!DNext
<1>4. CASE Discards
  <2> DEFINE S == inbox \ inbox'
  <2>1. S \subseteq decidedSet /\ S \in SUBSET Message
    BY <1>1, <1>4 DEF Discards, SafetyInv, TypeOK, MailboxTypeOK
  <2>2. inbox' = inbox \ S /\ decidedSet' = decidedSet
    BY <1>4 DEF Discards, decidedSet, Decided
  <2>3. D!Discard(S)
    BY <1>4, <2>1, <2>2 DEF Discards, D!Discard
  <2> QED
    BY <2>1, <2>3 DEF D!DNext
<1> QED
  BY <1>2, <1>3, <1>4, StepShows

(* EmailStore implements Delivery when every message carries a Message-ID: *)
(* seen from the mailbox, Poll's triage, save and delete steps - of any    *)
(* number of runs, with failures and stops - never remove a message before *)
(* its fate is decided, and never take a decision back.                    *)
THEOREM EmailStoreImplementsDelivery ==
    ASSUME \A m \in Message : HasHeader(m)
    PROVE  Spec => ImplementsDelivery
<1>1. Init => D!DInit
  BY InitRefines
<1>2. TypeOK /\ SafetyInv /\ [Next]_vars => [D!DNext]_(D!dvars)
  BY StepRefines
<1> QED
  BY <1>1, <1>2, TypeCorrect, SafetyAlways, PTL DEF Spec, ImplementsDelivery, D!DSpec
=============================================================================
