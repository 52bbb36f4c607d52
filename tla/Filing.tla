------------------------------- MODULE Filing -------------------------------
(***************************************************************************)
(* How a run of Poll files an email (imap/poller.go:332-357): a rule, the  *)
(* [slug] tag of the subject or the inbox names its category; a            *)
(* [slug:days] tag sets the retention of that category if none is set; and *)
(* the email is saved.  Each database statement is a step, so what was     *)
(* looked up may be gone or changed when it is used.                       *)
(***************************************************************************)
EXTENDS Categories

CONSTANTS
    Pollers,            \* runs of Poll
    Subject,            \* what the subject of each email says, see below
    NoTag               \* a subject without a tag

\* A subject's tag, the days in it (0: a plain [slug] tag), and the rule
\* patterns it contains.
ASSUME SubjectAssumption ==
    \A e \in Email : /\ Subject[e].tag \in Slug \cup {NoTag}
                     /\ Subject[e].days \in Days
                     /\ Subject[e].words \subseteq Word

VARIABLE filing         \* the local state of each run

\* email holds the email at hand, if any; tagged the category whose retention
\* the tag will set.
IdleFiling == [pc |-> "idle", email |-> {}, cat |-> Unfiled, tagged |-> 0]

FilingInit == filing = [p \in Pollers |-> IdleFiling]

In(p, pc, e) == filing[p].pc = pc /\ filing[p].email = {e}

Move(p, pc) == filing' = [filing EXCEPT ![p].pc = pc]

\* The category is found; a tag with days comes next, if there is one.
Found(p, e, id) ==
    filing' = [filing EXCEPT ![p].cat = id,
                             ![p].pc = IF Subject[e].days > 0 /\ Subject[e].tag # NoTag
                                       THEN "retain" ELSE "save"]

\* The body of e is parsed.  e was not stored when the run looked (pass 1).
TakeUp(p, e) ==
    /\ filing[p].pc = "idle"
    /\ e \notin DOMAIN filed
    /\ filing' = [filing EXCEPT ![p] = [IdleFiling EXCEPT !.pc = "rules", !.email = {e}]]
    /\ UNCHANGED <<categoryVars, faults>>

----------------------------------------------------------------------------
(* MatchCategory and InboxCategoryID.                                      *)

Hits(e) == {r \in rules : r.word \in Subject[e].words}

NoRule(p, e) == Move(p, IF Subject[e].tag # NoTag THEN "tag" ELSE "inbox")

\* The first rule that matches wins, and it wins over any tag.  Nobody asks
\* whether its category is still there.
MatchRule(p, e) ==
    /\ In(p, "rules", e)
    /\ \/ \E r \in Hits(e) : (\A s \in Hits(e) : r.id <= s.id) /\ Found(p, e, r.cat)
       \/ Hits(e) = {} /\ NoRule(p, e)
    /\ UNCHANGED <<categoryVars, faults>>

\* When the query fails the tag is not looked at either.  A row that cannot be
\* read is passed over, and an error ends the rows: a later rule wins, or none.
MatchRuleFails(p, e) ==
    /\ In(p, "rules", e)
    /\ Fails("match")
    /\ \/ Move(p, "inbox")
       \/ \E r \in Hits(e) : Found(p, e, r.cat)
       \/ NoRule(p, e)
    /\ UNCHANGED categoryVars

\* The text in the brackets is taken for a slug, and "slug:days" never is one.
TaggedIds(e) == IF Subject[e].days = 0 THEN IdsOf(Subject[e].tag) ELSE {}

\* Mutant: an email with an unknown tag is left for the next run.
MatchTagOrLeave(p, e) ==
    /\ In(p, "tag", e)
    /\ \/ \E id \in TaggedIds(e) : Found(p, e, id)
       \/ TaggedIds(e) = {} /\ filing' = [filing EXCEPT ![p] = IdleFiling]
    /\ UNCHANGED <<categoryVars, faults>>

MatchTag(p, e) ==
    /\ In(p, "tag", e)
    /\ \/ \E id \in TaggedIds(e) : Found(p, e, id)
       \/ TaggedIds(e) = {} /\ Move(p, "inbox")
    /\ UNCHANGED <<categoryVars, faults>>

MatchTagFails(p, e) ==
    /\ In(p, "tag", e)
    /\ Fails("match")
    /\ Move(p, "inbox")
    /\ UNCHANGED categoryVars

\* The id of the inbox, or 0.
InboxCategoryID == IF HasSlug(Inbox) THEN CHOOSE id \in IdsOf(Inbox) : TRUE ELSE Unfiled

UseInbox(p, e) ==
    /\ In(p, "inbox", e)
    /\ Found(p, e, InboxCategoryID)
    /\ UNCHANGED <<categoryVars, faults>>

\* Mutant: -1 stands for "not found".
UseInboxFailsMinusOne(p, e) ==
    /\ In(p, "inbox", e)
    /\ Fails("match")
    /\ Found(p, e, -1)
    /\ UNCHANGED categoryVars

UseInboxFails(p, e) ==
    /\ In(p, "inbox", e)
    /\ Fails("match")
    /\ Found(p, e, Unfiled)
    /\ UNCHANGED categoryVars

----------------------------------------------------------------------------
(* The retention tag.                                                      *)

\* CategoryBySlug: only a category that keeps emails for ever is changed.
LookUpRetain(p, e) ==
    /\ In(p, "retain", e)
    /\ \/ \E c \in categories :
             /\ c.slug = Subject[e].tag /\ c.days = 0
             /\ filing' = [filing EXCEPT ![p].pc = "setDays", ![p].tagged = c.id]
       \/ /\ \A c \in categories : c.slug = Subject[e].tag => c.days # 0
          /\ Move(p, "save")
    /\ UNCHANGED <<categoryVars, faults>>

\* SetCategoryRetainDays, on what LookUpRetain read.
SetRetainFromTag(p, e) ==
    /\ In(p, "setDays", e)
    /\ SetDays(filing[p].tagged, Subject[e].days)
    /\ Move(p, "save")
    /\ UNCHANGED <<edit, requests, faults>>

\* Either statement fails: the email is saved all the same.
RetainFails(p, e) ==
    /\ In(p, "retain", e) \/ In(p, "setDays", e)
    /\ Fails("retain")
    /\ Move(p, "save")
    /\ UNCHANGED categoryVars

----------------------------------------------------------------------------
(* Save.                                                                   *)

\* ON CONFLICT DO NOTHING leaves a stored email alone.  A category that is gone
\* is an error under foreign keys; the message stays on the server.
SaveFiled(p, e) ==
    /\ In(p, "save", e)
    /\ filed' = IF e \in DOMAIN filed \/ ~MayRefer(filing[p].cat) THEN filed
                ELSE [d \in DOMAIN filed \cup {e} |->
                         IF d = e THEN filing[p].cat ELSE filed[d]]
    /\ filing' = [filing EXCEPT ![p] = IdleFiling]
    /\ UNCHANGED <<categories, rules, nextCategory, nextRule, edit, requests, faults>>

SaveFiledFails(p, e) ==
    /\ In(p, "save", e)
    /\ Fails("save")
    /\ filing' = [filing EXCEPT ![p] = IdleFiling]
    /\ UNCHANGED categoryVars

FilingStep(p) ==
    \E e \in Email :
        \/ TakeUp(p, e) \/ MatchRule(p, e) \/ MatchTag(p, e) \/ UseInbox(p, e)
        \/ LookUpRetain(p, e) \/ SetRetainFromTag(p, e) \/ SaveFiled(p, e)

FilingFailure(p) ==
    \E e \in Email :
        \/ MatchRuleFails(p, e) \/ MatchTagFails(p, e) \/ UseInboxFails(p, e)
        \/ RetainFails(p, e) \/ SaveFiledFails(p, e)
=============================================================================
