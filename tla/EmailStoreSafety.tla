-------------------------- MODULE EmailStoreSafety --------------------------
(***************************************************************************)
(* No mail is lost: proofs about the mailbox side of EmailStore, for any   *)
(* number of concurrent runs of Poll, any faults and any crashes.          *)
(***************************************************************************)
EXTENDS EmailStoreTypes

\* The messages whose loss would be no loss.
safe == {m \in Message : Safe(m)}

\* The id Poll works with is the Message-ID header, if there is one.
IdOK(c) == HasHeader(c.msg) => c.mid = Mail[c.msg].header

\* What a run in local state r relies on, when S are the safe messages and seen
\* the delivered ones: it is about to delete safe messages only, its candidates
\* have the right ids, and the candidate it has saved is safe.
RunSafe(r, S, seen) ==
    /\ r.dels \subseteq S
    /\ r.view \subseteq seen /\ r.queue \subseteq seen
    /\ \A c \in r.cands : IdOK(c) /\ c.msg \in seen
    /\ r.pc \in {"save", "stat", "write", "record"} => IdOK(r.cand)
    /\ r.pc \in {"stat", "write", "record"} => r.cand.msg \in S

\* Every email of the archive has been recorded in the history.
Recorded == \A e \in emails : \E h \in history : h.mid = e.mid

\* The inductive invariant.  NoMailLost alone is not inductive: that what is
\* expunged is safe rests on FlaggedSafe, which rests on what each run of Poll
\* carries from its triage to its deletions.
SafetyInv ==
    /\ \A p \in Pollers : RunSafe(poll[p], safe, delivered)
    /\ Recorded
    /\ flagged \subseteq safe
    /\ delivered \ inbox \subseteq safe

LEMMA SafetyInvImplies ==
    ASSUME TypeOK, SafetyInv PROVE NoMailLost /\ FlaggedSafe
  BY DEF TypeOK, MailboxTypeOK, SafetyInv, NoMailLost, FlaggedSafe, safe

LEMMA SafetyInvInit == Init => SafetyInv
  BY DEF Init, ArchiveInit, MailboxInit, PollerInit, IdlePoll, SafetyInv, RunSafe,
         Recorded, IdOK

----------------------------------------------------------------------------
(* The history and the refusals only grow, so what is safe stays safe.     *)

HistoryGrows == history \subseteq history' /\ refused \subseteq refused'

LEMMA SafeGrows == HistoryGrows => safe \subseteq safe'
  BY DEF HistoryGrows, safe, Safe, Decided

LEMMA ArchiveFrame ==
    ASSUME Recorded,
           \/ UNCHANGED archiveVars
           \/ \E mid, m : InsertEmail(mid, m)
           \/ UNCHANGED <<emails, history>>
           \/ \E id : DeleteEmailRow(id)
    PROVE  Recorded' /\ history \subseteq history'
<1>1. CASE UNCHANGED <<emails, history>>
  BY <1>1 DEF Recorded
<1>2. CASE UNCHANGED archiveVars
  BY <1>2 DEF archiveVars, Recorded
<1>3. ASSUME NEW mid, NEW m, InsertEmail(mid, m)
      PROVE  Recorded' /\ history \subseteq history'
  <2>1. CASE Exists(mid)
    <3>1. UNCHANGED archiveVars
      BY <1>3, <2>1 DEF InsertEmail
    <3> QED
      BY <3>1 DEF archiveVars, Recorded
  <2>2. CASE ~Exists(mid)
    <3>1. /\ emails' = emails \cup {[id |-> nextEmail, mid |-> mid, msg |-> m]}
          /\ history' = history \cup {[mid |-> mid, msg |-> m]}
      BY <1>3, <2>2 DEF InsertEmail
    <3>2. ASSUME NEW e \in emails' PROVE \E h \in history' : h.mid = e.mid
      <4>1. CASE e \in emails
        BY <3>1, <4>1 DEF Recorded
      <4>2. CASE e = [id |-> nextEmail, mid |-> mid, msg |-> m]
        <5> DEFINE h == [mid |-> mid, msg |-> m]
        <5>1. h \in history' /\ h.mid = e.mid
          BY <3>1, <4>2
        <5> QED
          BY <5>1
      <4> QED
        BY <3>1, <4>1, <4>2
    <3> QED
      BY <3>1, <3>2 DEF Recorded
  <2> QED
    BY <2>1, <2>2
<1>4. ASSUME NEW id, DeleteEmailRow(id)
      PROVE  Recorded' /\ history \subseteq history'
  BY <1>4 DEF DeleteEmailRow, Recorded
<1> QED
  BY <1>1, <1>2, <1>3, <1>4

LEMMA RunSafeGrows ==
    ASSUME NEW r, NEW S, NEW T, S \subseteq T, NEW seen, NEW more, seen \subseteq more,
           RunSafe(r, S, seen)
    PROVE  RunSafe(r, T, more)
  BY DEF RunSafe

\* A step of run p that ends in local state r and expunges flagged messages only.
LEMMA RunStep ==
    ASSUME TypeOK, SafetyInv, Recorded', HistoryGrows,
           NEW p \in Pollers, NEW r, poll' = [poll EXCEPT ![p] = r],
           RunSafe(r, safe', delivered'),
           delivered' = delivered, inbox \ inbox' \subseteq flagged, flagged' \subseteq safe'
    PROVE  SafetyInv'
<1>1. safe \subseteq safe'
  BY SafeGrows
<1>2. ASSUME NEW q \in Pollers PROVE RunSafe(poll[q], safe, delivered)'
  <2>1. CASE q = p
    <3>1. poll'[q] = r
      BY <2>1 DEF TypeOK
    <3> QED
      BY <3>1 DEF RunSafe
  <2>2. CASE q # p
    <3>1. poll'[q] = poll[q] /\ RunSafe(poll[q], safe, delivered)
      BY <2>2 DEF TypeOK, SafetyInv
    <3>2. RunSafe(poll[q], safe', delivered')
      BY <1>1, <3>1, RunSafeGrows
    <3> QED
      BY <3>1, <3>2 DEF RunSafe
  <2> QED
    BY <2>1, <2>2
<1>3. delivered' \ inbox' \subseteq safe'
  BY <1>1 DEF SafetyInv
<1> QED
  BY <1>2, <1>3 DEF SafetyInv

\* The same for a step that leaves archive and mailbox alone.
LEMMA QuietRunStep ==
    ASSUME TypeOK, SafetyInv, UNCHANGED <<archiveVars, mailboxVars>>,
           refused \subseteq refused',
           NEW p \in Pollers, NEW r, poll' = [poll EXCEPT ![p] = r],
           RunSafe(r, safe', delivered)
    PROVE  SafetyInv'
<1>1. Recorded' /\ HistoryGrows
  BY DEF archiveVars, SafetyInv, Recorded, HistoryGrows
<1>2. delivered' = delivered /\ inbox' = inbox /\ flagged' = flagged
  BY DEF mailboxVars
<1>3. flagged' \subseteq safe'
  BY <1>1, <1>2, SafeGrows DEF SafetyInv
<1> QED
  BY <1>1, <1>2, <1>3, RunStep

\* Returning and moving on.
LEMMA MovesSafe ==
    ASSUME TypeOK, SafetyInv, UNCHANGED <<archiveVars, mailboxVars>>,
           refused \subseteq refused', NEW p \in Pollers
    PROVE  /\ Return(p) => SafetyInv'
           /\ \A pc \in PollPcs \ {"save", "stat", "write", "record"} :
                 Goto(p, pc) => SafetyInv'
<1> DEFINE r == poll[p]
<1>1. r \in PollStates /\ RunSafe(r, safe, delivered)
  BY DEF TypeOK, SafetyInv
<1>2. safe \subseteq safe'
  BY SafeGrows DEF HistoryGrows, archiveVars
<1>3. RunSafe(IdlePoll, safe', delivered)
  BY DEF RunSafe, IdlePoll
<1>4. ASSUME NEW pc \in PollPcs \ {"save", "stat", "write", "record"}, Goto(p, pc)
      PROVE  SafetyInv'
  <2> DEFINE s == [r EXCEPT !.pc = pc]
  <2>1. RunSafe(s, safe', delivered)
    BY <1>1, <1>2 DEF RunSafe, PollStates
  <2>2. poll' = [poll EXCEPT ![p] = s]
    BY <1>4 DEF Goto, TypeOK
  <2> QED
    BY <2>1, <2>2, QuietRunStep
<1> QED
  BY <1>3, <1>4, QuietRunStep DEF Return

----------------------------------------------------------------------------
(* The steps of Poll.                                                      *)

LEMMA Pass1Safe ==
    ASSUME TypeOK, SafetyInv, NEW p \in Pollers,
           \/ Begin(p) \/ Select(p) \/ FetchEnvelopes(p) \/ ConnectFails(p)
           \/ TriageDone(p) \/ PurgeDone(p)
    PROVE  SafetyInv'
<1> DEFINE r == poll[p]
<1>1. r \in PollStates /\ RunSafe(r, safe, delivered) /\ inbox \subseteq delivered
  BY DEF TypeOK, MailboxTypeOK, SafetyInv
<1>2. UNCHANGED <<archiveVars, mailboxVars, refused>>
  BY DEF Begin, Select, FetchEnvelopes, ConnectFails, TriageDone, PurgeDone
<1>3. safe \subseteq safe'
  BY <1>2, SafeGrows DEF HistoryGrows, archiveVars
<1>4. CASE Begin(p)
  <2> PICK policy \in Policies :
        poll' = [poll EXCEPT ![p].pc = "select", ![p].policy = policy]
    BY <1>4 DEF Begin
  <2> DEFINE s == [r EXCEPT !.pc = "select", !.policy = policy]
  <2>1. RunSafe(s, safe', delivered)
    BY <1>1, <1>3 DEF RunSafe, PollStates
  <2>2. poll' = [poll EXCEPT ![p] = s]
    BY DEF TypeOK
  <2> QED
    BY <1>2, <2>1, <2>2, QuietRunStep
<1>5. CASE Select(p) /\ inbox # {}
  <2> DEFINE s == [r EXCEPT !.pc = "fetch", !.view = inbox]
  <2>1. RunSafe(s, safe', delivered)
    BY <1>1, <1>3 DEF RunSafe, PollStates
  <2>2. poll' = [poll EXCEPT ![p] = s]
    BY <1>5 DEF TypeOK, Select
  <2> QED
    BY <1>2, <2>1, <2>2, QuietRunStep
<1>6. CASE FetchEnvelopes(p) /\ ~Return(p)
  <2> PICK got \in SUBSET inbox :
        poll' = [poll EXCEPT ![p].pc = "triage", ![p].queue = got]
    BY <1>6 DEF FetchEnvelopes
  <2> DEFINE s == [r EXCEPT !.pc = "triage", !.queue = got]
  <2>1. RunSafe(s, safe', delivered)
    BY <1>1, <1>3 DEF RunSafe, PollStates
  <2>2. poll' = [poll EXCEPT ![p] = s]
    BY DEF TypeOK
  <2> QED
    BY <1>2, <2>1, <2>2, QuietRunStep
<1>7. CASE Return(p) \/ Goto(p, "purge") \/ Goto(p, "body")
  BY <1>2, <1>7, MovesSafe DEF PollPcs
<1> QED
  BY <1>4, <1>5, <1>6, <1>7
     DEF Select, FetchEnvelopes, ConnectFails, TriageDone, PurgeDone

\* A message that is dropped in the triage is safe.
LEMMA DropSafe ==
    ASSUME TypeOK, SafetyInv, UNCHANGED <<archiveVars, mailboxVars>>,
           refused \subseteq refused', NEW p \in Pollers, NEW m \in safe',
           At(p, "triage"), DropEnvelope(p, m)
    PROVE  SafetyInv'
<1> DEFINE r == poll[p]
           s == [r EXCEPT !.queue = @ \ {m}, !.dels = @ \cup {m}]
<1>1. r \in PollStates /\ RunSafe(r, safe, delivered) /\ r.pc = "triage"
  BY DEF TypeOK, SafetyInv, At
<1>2. safe \subseteq safe'
  BY SafeGrows DEF HistoryGrows, archiveVars
<1>3. RunSafe(s, safe', delivered)
  BY <1>1, <1>2 DEF RunSafe, PollStates
<1>4. poll' = [poll EXCEPT ![p] = s]
  BY DEF DropEnvelope, TypeOK
<1> QED
  BY <1>3, <1>4, QuietRunStep

LEMMA TriageSafe ==
    ASSUME TypeOK, SafetyInv, NEW p \in Pollers, NEW m \in Message,
           \/ TriageNoEnvelope(p, m) \/ TriageCheckFails(p, m)
           \/ TriageDuplicate(p, m) \/ TriageJudge(p, m) \/ TriageSenderFails(p, m)
    PROVE  SafetyInv'
<1> DEFINE r == poll[p]
<1>1. r \in PollStates /\ RunSafe(r, safe, delivered) /\ r.pc = "triage"
  BY DEF TypeOK, SafetyInv, At, TriageNoEnvelope, TriageCheckFails, TriageDuplicate,
         TriageJudge, TriageSenderFails, TriageNew, NextEnvelope
<1>2. UNCHANGED <<archiveVars, mailboxVars>> /\ refused \subseteq refused'
  BY DEF TriageNoEnvelope, TriageCheckFails, TriageDuplicate, TriageJudge,
         TriageSenderFails, TriageNew
<1>3. safe \subseteq safe'
  BY <1>2, SafeGrows DEF HistoryGrows, archiveVars
<1>4. m \in r.queue /\ m \in delivered
  BY <1>1 DEF RunSafe, First, TriageNoEnvelope, TriageCheckFails, TriageDuplicate,
              TriageJudge, TriageSenderFails, TriageNew, NextEnvelope
<1>5. HasHeader(m) => IdInRun(p, m) = Mail[m].header
  BY DEF HasHeader, IdInRun, MessageIdOf
<1>6. CASE m \in refused' /\ DropEnvelope(p, m)
  <2>1. m \in safe'
    BY <1>6 DEF safe, Safe, Decided
  <2> QED
    BY <1>1, <1>2, <1>6, <2>1, DropSafe DEF At
<1>7. CASE TriageDuplicate(p, m)
  <2>1. m \in safe
    BY <1>5, <1>7 DEF safe, Safe, Decided, SafetyInv, Recorded, TriageDuplicate, Exists
  <2> QED
    BY <1>1, <1>2, <1>3, <1>7, <2>1, DropSafe DEF At, TriageDuplicate
<1>8. CASE TriageCheckFails(p, m)
  <2> DEFINE s == [r EXCEPT !.queue = @ \ {m}]
  <2>1. RunSafe(s, safe', delivered)
    BY <1>1, <1>3 DEF RunSafe, PollStates
  <2>2. poll' = [poll EXCEPT ![p] = s]
    BY <1>8 DEF TypeOK, TriageCheckFails
  <2> QED
    BY <1>2, <2>1, <2>2, QuietRunStep
<1>9. ASSUME NEW allowed, TriageNew(p, m, allowed), Accepts(m, allowed, r.policy)
      PROVE  SafetyInv'
  <2> DEFINE c == [msg |-> m, mid |-> IdInRun(p, m)]
             s == [r EXCEPT !.queue = @ \ {m}, !.cands = @ \cup {c}]
  <2>1. IdOK(c) /\ c.msg \in delivered
    BY <1>4, <1>5 DEF IdOK
  <2>2. poll' = [poll EXCEPT ![p] = s]
    BY <1>9 DEF TypeOK, TriageNew
  <2> HIDE DEF c
  <2>3. RunSafe(s, safe', delivered)
    BY <1>1, <1>3, <2>1 DEF RunSafe, PollStates
  <2> QED
    BY <1>2, <2>2, <2>3, QuietRunStep
<1> QED
  BY <1>6, <1>7, <1>8, <1>9
     DEF TriageNoEnvelope, TriageJudge, TriageSenderFails, TriageNew

LEMMA PurgeSafe ==
    ASSUME TypeOK, SafetyInv, NEW p \in Pollers,
           \/ \E m \in Message : FlagDeleted(p, m) \/ FlagFails(p, m)
           \/ ExpungeUid(p) \/ ExpungeUidFails(p)
           \/ ExpungeEverything(p) \/ ExpungeEverythingFails(p)
    PROVE  SafetyInv'
<1> DEFINE r == poll[p]
<1>1. r \in PollStates /\ RunSafe(r, safe, delivered) /\ flagged \subseteq safe
  BY DEF TypeOK, SafetyInv
<1>2. UNCHANGED <<archiveVars, refused>>
  BY DEF FlagDeleted, FlagFails, ExpungeUid, ExpungeUidFails, ExpungeEverything,
         ExpungeEverythingFails
<1>3. Recorded' /\ HistoryGrows /\ safe \subseteq safe'
  BY <1>2, SafeGrows DEF HistoryGrows, archiveVars, SafetyInv, Recorded
<1>4. ASSUME NEW m \in Message, FlagDeleted(p, m) \/ FlagFails(p, m)
      PROVE  SafetyInv'
  <2>1. m \in safe /\ r.pc = "purge"
    BY <1>1, <1>4 DEF RunSafe, First, FlagDeleted, FlagFails, At
  <2>2. /\ delivered' = delivered /\ inbox' = inbox
        /\ flagged' \subseteq flagged \cup {m}
    BY <1>4 DEF FlagDeleted, FlagFails, StoreDeleted, mailboxVars
  <2>3. PICK s : /\ poll' = [poll EXCEPT ![p] = s]
                 /\ RunSafe(s, safe', delivered')
    <3>1. CASE FlagDeleted(p, m)
      <4> DEFINE s == [r EXCEPT !.pc = "expunge", !.uid = m, !.dels = @ \ {m}]
      <4>1. RunSafe(s, safe', delivered')
        BY <1>1, <1>3, <2>2 DEF RunSafe, PollStates
      <4>2. poll' = [poll EXCEPT ![p] = s]
        BY <3>1 DEF TypeOK, FlagDeleted
      <4> QED
        BY <4>1, <4>2
    <3>2. CASE FlagFails(p, m)
      <4> DEFINE s == [r EXCEPT !.dels = @ \ {m}]
      <4>1. RunSafe(s, safe', delivered')
        BY <1>1, <1>3, <2>2 DEF RunSafe, PollStates
      <4>2. poll' = [poll EXCEPT ![p] = s]
        BY <3>2 DEF TypeOK, FlagFails
      <4> QED
        BY <4>1, <4>2
    <3> QED
      BY <1>4, <3>1, <3>2
  <2> QED
    BY <1>1, <1>3, <2>1, <2>2, <2>3, RunStep
<1>5. ASSUME NEW pc \in {"purge", "expungeAll"}, Goto(p, pc),
             UidExpunge(r.uid) \/ ExpungeAll \/ UNCHANGED mailboxVars
      PROVE  SafetyInv'
  <2> DEFINE s == [r EXCEPT !.pc = pc]
  <2>1. /\ delivered' = delivered /\ inbox \ inbox' \subseteq flagged
        /\ flagged' \subseteq flagged
    BY <1>5 DEF UidExpunge, ExpungeAll, mailboxVars
  <2>2. RunSafe(s, safe', delivered')
    BY <1>1, <1>3, <2>1 DEF RunSafe, PollStates
  <2>3. poll' = [poll EXCEPT ![p] = s]
    BY <1>5 DEF Goto, TypeOK
  <2> QED
    BY <1>1, <1>3, <2>1, <2>2, <2>3, RunStep
<1> QED
  BY <1>4, <1>5 DEF ExpungeUid, ExpungeUidFails, ExpungeEverything, ExpungeEverythingFails

LEMMA BodySafe ==
    ASSUME TypeOK, SafetyInv, NEW p \in Pollers, NEW c \in poll[p].cands,
           FetchBody(p, c) \/ BodyGone(p, c) \/ BodyUnreadable(p, c) \/ FetchBodyFails(p, c)
    PROVE  SafetyInv'
<1> DEFINE r == poll[p]
<1>1. /\ r \in PollStates /\ RunSafe(r, safe, delivered) /\ r.pc = "body"
      /\ IdOK(c) /\ c.msg \in delivered /\ c.msg \in Message
  BY DEF TypeOK, MailboxTypeOK, SafetyInv, RunSafe, At, FetchBody, BodyGone,
         BodyUnreadable, FetchBodyFails, NextCandidate
<1>2. UNCHANGED <<archiveVars, mailboxVars>> /\ refused \subseteq refused'
  BY DEF FetchBody, BodyGone, BodyUnreadable, FetchBodyFails
<1>3. safe \subseteq safe'
  BY <1>2, SafeGrows DEF HistoryGrows, archiveVars
<1>4. CASE FetchBody(p, c)
  <2> DEFINE s == [r EXCEPT !.pc = "save", !.cands = @ \ {c}, !.cand = c]
  <2>1. RunSafe(s, safe', delivered)
    BY <1>1, <1>3 DEF RunSafe, PollStates
  <2>2. poll' = [poll EXCEPT ![p] = s]
    BY <1>4 DEF FetchBody, TypeOK
  <2> QED
    BY <1>2, <2>1, <2>2, QuietRunStep
<1>5. CASE FetchBodyFails(p, c)
  <2> DEFINE s == [r EXCEPT !.pc = "purge", !.cands = @ \ {c}]
  <2>1. RunSafe(s, safe', delivered)
    BY <1>1, <1>3 DEF RunSafe, PollStates
  <2>2. poll' = [poll EXCEPT ![p] = s]
    BY <1>5 DEF FetchBodyFails, KeepCandidate, TypeOK
  <2> QED
    BY <1>2, <2>1, <2>2, QuietRunStep
<1>6. CASE BodyGone(p, c) \/ BodyUnreadable(p, c)
  <2> DEFINE s == [r EXCEPT !.pc = "purge", !.cands = @ \ {c}, !.dels = {c.msg}]
  <2>1. c.msg \in safe'
    <3>1. CASE BodyGone(p, c)
      BY <1>1, <1>3, <3>1 DEF BodyGone, SafetyInv
    <3>2. CASE BodyUnreadable(p, c)
      BY <1>1, <3>2 DEF BodyUnreadable, safe, Safe, Decided
    <3> QED
      BY <1>6, <3>1, <3>2
  <2>2. RunSafe(s, safe', delivered)
    BY <1>1, <1>3, <2>1 DEF RunSafe, PollStates
  <2>3. poll' = [poll EXCEPT ![p] = s]
    BY <1>6 DEF BodyGone, BodyUnreadable, DeleteCandidate, TypeOK
  <2> QED
    BY <1>2, <2>2, <2>3, QuietRunStep
<1> QED
  BY <1>4, <1>5, <1>6

\* Once the candidate is archived, its run may attach files to it or delete it.
LEMMA AttachSafe ==
    ASSUME TypeOK, SafetyInv, Recorded', HistoryGrows, UNCHANGED mailboxVars,
           NEW p \in Pollers, poll[p].pc \in {"save", "stat", "write", "record"},
           poll[p].cand.msg \in safe', NEW id, NEW todo, Attach(p, id, todo)
    PROVE  SafetyInv'
<1> DEFINE r == poll[p]
<1>1. r \in PollStates /\ RunSafe(r, safe, delivered) /\ flagged \subseteq safe
  BY DEF TypeOK, SafetyInv
<1>2. safe \subseteq safe' /\ delivered' = delivered /\ inbox' = inbox /\ flagged' = flagged
  BY SafeGrows DEF mailboxVars
<1>3. PICK s : poll' = [poll EXCEPT ![p] = s] /\ RunSafe(s, safe', delivered')
  <2>1. CASE todo = {}
    <3> DEFINE s == [r EXCEPT !.pc = "purge", !.dels = {r.cand.msg}, !.email = 0,
                              !.att = 0, !.todo = {}]
    <3>1. RunSafe(s, safe', delivered')
      BY <1>1, <1>2 DEF RunSafe, PollStates
    <3>2. poll' = [poll EXCEPT ![p] = s]
      BY <2>1 DEF Attach, TypeOK
    <3> QED
      BY <3>1, <3>2
  <2>2. CASE todo # {}
    <3> DEFINE s == [r EXCEPT !.pc = "stat", !.email = id, !.todo = todo]
    <3>1. RunSafe(s, safe', delivered')
      BY <1>1, <1>2 DEF RunSafe, PollStates
    <3>2. poll' = [poll EXCEPT ![p] = s]
      BY <2>2 DEF Attach, TypeOK
    <3> QED
      BY <3>1, <3>2
  <2> QED
    BY <2>1, <2>2
<1> QED
  BY <1>1, <1>2, <1>3, RunStep

LEMMA SaveSafe ==
    ASSUME TypeOK, SafetyInv, NEW p \in Pollers, SaveEmail(p) \/ SaveFails(p)
    PROVE  SafetyInv'
<1> DEFINE mid == poll[p].cand.mid
           m   == poll[p].cand.msg
<1>1. m \in Message /\ IdOK(poll[p].cand) /\ poll[p].pc = "save"
  BY DEF TypeOK, CandidateTypeOK, Candidates, SafetyInv, RunSafe, SaveEmail, SaveFails, At
<1>2. CASE SaveEmail(p)
  <2>1. InsertEmail(mid, m) /\ UNCHANGED <<mailboxVars, refused>>
    BY <1>2 DEF SaveEmail
  <2>2. Recorded' /\ HistoryGrows
    BY <2>1, ArchiveFrame DEF HistoryGrows, SafetyInv
  <2>3. \E h \in history' : h.mid = mid
    <3>1. CASE Exists(mid)
      BY <2>2, <3>1 DEF Exists, SafetyInv, Recorded, HistoryGrows
    <3>2. CASE ~Exists(mid)
      <4> DEFINE h == [mid |-> mid, msg |-> m]
      <4>1. h \in history' /\ h.mid = mid
        BY <2>1, <3>2 DEF InsertEmail
      <4> QED
        BY <4>1
    <3> QED
      BY <3>1, <3>2
  <2>4. m \in safe'
    BY <1>1, <2>3 DEF IdOK, safe, Safe, Decided
  <2> QED
    BY <1>1, <1>2, <2>1, <2>2, <2>4, AttachSafe DEF SaveEmail
<1>3. CASE SaveFails(p)
  BY <1>3, MovesSafe DEF SaveFails, PollPcs
<1> QED
  BY <1>2, <1>3

LEMMA AttachmentSafe ==
    ASSUME TypeOK, SafetyInv, NEW p \in Pollers,
           \/ \E i \in poll[p].todo : ChooseFile(p, i) \/ MkdirFails(p, i)
           \/ WriteAttachment(p) \/ WriteWithoutDir(p) \/ WriteFails(p)
           \/ RecordAttachment(p) \/ RecordFails(p)
    PROVE  SafetyInv'
<1> DEFINE r == poll[p]
<1>1. /\ r \in PollStates /\ RunSafe(r, safe, delivered) /\ flagged \subseteq safe
      /\ r.pc \in {"stat", "write", "record"} /\ r.cand.msg \in safe
  BY DEF TypeOK, SafetyInv, RunSafe, At, ChooseFile, MkdirFails, WriteAttachment,
         WriteWithoutDir, WriteFails, RecordAttachment, RecordFails
<1>2. UNCHANGED <<emails, history, mailboxVars, refused>>
  BY DEF ChooseFile, MkdirFails, WriteAttachment, WriteWithoutDir, WriteFails,
         RecordAttachment, RecordFails, archiveVars, WriteFile, InsertAttachment
<1>3. Recorded' /\ HistoryGrows
  BY <1>2 DEF Recorded, SafetyInv, HistoryGrows
<1>4. safe \subseteq safe'
  BY <1>3, SafeGrows
<1>5. ASSUME NEW id, NEW todo, Attach(p, id, todo) PROVE SafetyInv'
  BY <1>1, <1>2, <1>3, <1>4, <1>5, AttachSafe
<1>6. ASSUME NEW s, poll' = [poll EXCEPT ![p] = s], RunSafe(s, safe', delivered')
      PROVE  SafetyInv'
  BY <1>1, <1>2, <1>3, <1>4, <1>6, RunStep DEF mailboxVars
<1>7. ASSUME NEW i \in r.todo, ChooseFile(p, i) PROVE SafetyInv'
  <2> DEFINE d == Destination(p, i)
             s == [r EXCEPT !.pc = "write", !.att = i, !.todo = @ \ {i}, !.dest = d]
  <2>1. poll' = [poll EXCEPT ![p] = s]
    BY <1>7 DEF ChooseFile, TypeOK
  <2> HIDE DEF d
  <2>2. RunSafe(s, safe', delivered')
    BY <1>1, <1>2, <1>4 DEF RunSafe, PollStates, mailboxVars
  <2> QED
    BY <1>6, <2>1, <2>2
<1>8. CASE WriteAttachment(p)
  <2> DEFINE s == [r EXCEPT !.pc = "record"]
  <2>1. poll' = [poll EXCEPT ![p] = s]
    BY <1>8 DEF WriteAttachment, Goto, TypeOK
  <2>2. RunSafe(s, safe', delivered')
    BY <1>1, <1>2, <1>4 DEF RunSafe, PollStates, mailboxVars
  <2> QED
    BY <1>6, <2>1, <2>2
<1> QED
  BY <1>5, <1>7, <1>8
     DEF MkdirFails, WriteWithoutDir, WriteFails, RecordAttachment, RecordFails

----------------------------------------------------------------------------
(* The other steps, and the theorems.                                      *)

LEMMA OtherStepsSafe ==
    ASSUME TypeOK, SafetyInv,
           \/ \E u \in Users : Delete(u)
           \/ \E w \in Sweepers : Sweep(w)
           \/ Retention \/ Login \/ UNCHANGED vars
    PROVE  SafetyInv'
<1>1. UNCHANGED <<mailboxVars, pollerVars>>
  BY DEF Delete, Sweep, Retention, Login, vars
<1>2. \/ UNCHANGED <<emails, history>>
      \/ \E id : DeleteEmailRow(id)
  BY DEF Delete, UserStep, Sweep, SweepStep, Retention, RetentionStep, Login, vars,
         BeginDelete, BeginDeleteBlind, RequestDelete, BeginSweep, CollectPaths,
         CollectFails, DeleteRow, DeleteRowFails, RemovePath, RemovePathFails, RemoveFile,
         RemoveEmailDir, RemoveDir, BecomeDue, Reprieve, InsertElsewhere, archiveVars
<1>3. Recorded' /\ history \subseteq history'
  BY <1>2, ArchiveFrame DEF SafetyInv
<1>4. safe \subseteq safe'
  BY <1>1, <1>3, SafeGrows DEF HistoryGrows, pollerVars
<1>5. ASSUME NEW q \in Pollers PROVE RunSafe(poll[q], safe, delivered)'
  <2>1. RunSafe(poll[q], safe', delivered)
    BY <1>4, RunSafeGrows DEF SafetyInv
  <2>2. poll' = poll /\ delivered' = delivered
    BY <1>1 DEF pollerVars, mailboxVars
  <2> QED
    BY <2>1, <2>2 DEF RunSafe
<1> QED
  BY <1>1, <1>3, <1>4, <1>5 DEF SafetyInv, mailboxVars

LEMMA ArriveSafe ==
    ASSUME TypeOK, SafetyInv, Arrive PROVE SafetyInv'
<1>1. PICK m \in Message : Deliver(m)
  BY DEF Arrive
<1>2. UNCHANGED <<emails, history, pollerVars>>
  BY DEF Arrive, archiveVars
<1>3. safe' = safe /\ Recorded'
  BY <1>2 DEF safe, Safe, Decided, Recorded, SafetyInv, pollerVars
<1>4. ASSUME NEW q \in Pollers PROVE RunSafe(poll[q], safe, delivered)'
  <2>1. delivered \subseteq delivered' /\ poll' = poll
    BY <1>1, <1>2 DEF Deliver, pollerVars
  <2>2. RunSafe(poll[q], safe', delivered')
    BY <1>3, <2>1, RunSafeGrows DEF SafetyInv
  <2> QED
    BY <2>1, <2>2 DEF RunSafe
<1>5. flagged' \subseteq safe' /\ delivered' \ inbox' \subseteq safe'
  BY <1>1, <1>3 DEF Deliver, SafetyInv
<1> QED
  BY <1>3, <1>4, <1>5 DEF SafetyInv

LEMMA CrashSafe ==
    ASSUME TypeOK, SafetyInv, Crash PROVE SafetyInv'
<1>1. UNCHANGED <<emails, history, mailboxVars, refused>>
  BY DEF Crash, Reconnect
<1>2. safe' = safe /\ Recorded'
  BY <1>1 DEF safe, Safe, Decided, Recorded, SafetyInv
<1>3. ASSUME NEW q \in Pollers PROVE RunSafe(poll[q], safe, delivered)'
  BY DEF Crash, RunSafe, IdlePoll
<1> QED
  BY <1>1, <1>2, <1>3 DEF SafetyInv, mailboxVars

LEMMA StepSafe == TypeOK /\ SafetyInv /\ [Next]_vars => SafetyInv'
<1>1. ASSUME TypeOK, SafetyInv, NEW p \in Pollers, Poll(p) \/ PollFails(p)
      PROVE  SafetyInv'
  BY <1>1, Pass1Safe, TriageSafe, PurgeSafe, BodySafe, SaveSafe, AttachmentSafe
     DEF Poll, PollFails, PollStep, PollFailure
<1> QED
  BY <1>1, OtherStepsSafe, ArriveSafe, CrashSafe DEF Next

(* The inductive invariant holds in every reachable state: what a run of    *)
(* Poll is going to delete, what anybody has flagged and what has left the  *)
(* mailbox was archived or refused (poller.go:211-302, 93-112).             *)
THEOREM SafetyAlways == Spec => []SafetyInv
<1>1. Init => SafetyInv
  BY SafetyInvInit
<1>2. TypeOK /\ SafetyInv /\ [Next]_vars => SafetyInv'
  BY StepSafe
<1> QED
  BY <1>1, <1>2, TypeCorrect, PTL DEF Spec

(* No message with a Message-ID ever leaves the mailbox before it has been *)
(* archived or refused, however many runs of Poll interleave and whatever  *)
(* fails or stops: Poll deletes a message only after Save, a positive      *)
(* duplicate check, or a rejection (poller.go:211-262, 282-370).           *)
THEOREM NoMailLostAlways == Spec => []NoMailLost
<1>1. TypeOK /\ SafetyInv => NoMailLost
  BY SafetyInvImplies
<1> QED
  BY <1>1, TypeCorrect, SafetyAlways, PTL

(* Whatever carries \Deleted is archived or refused, so the plain EXPUNGE  *)
(* that deleteMsgByUID falls back to (poller.go:107) removes nothing that  *)
(* anybody still needs, also after a stop between STORE and EXPUNGE.       *)
THEOREM FlaggedSafeAlways == Spec => []FlaggedSafe
<1>1. TypeOK /\ SafetyInv => FlaggedSafe
  BY SafetyInvImplies
<1> QED
  BY <1>1, TypeCorrect, SafetyAlways, PTL
=============================================================================
