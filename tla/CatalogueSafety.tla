-------------------------- MODULE CatalogueSafety --------------------------
(***************************************************************************)
(* Proofs about Catalogue, for any number of users, wizards and runs of    *)
(* Poll, any faults and stops, with foreign keys or without: the types,    *)
(* the inbox that is never lost, and the ids of deleted categories, which  *)
(* no category gets again.                                                 *)
(***************************************************************************)
EXTENDS Catalogue, SequenceTheorems, TLAPS

----------------------------------------------------------------------------
(* Types.                                                                  *)

LEMMA InsertTypes ==
    ASSUME TablesTypeOK, NEW slug \in Slug, InsertCategory(slug)
    PROVE  TablesTypeOK'
<1>1. [id |-> nextCategory, slug |-> slug, days |-> 0] \in Rows
  BY DEF TablesTypeOK, Rows
<1> QED
  BY <1>1 DEF TablesTypeOK, InsertCategory

LEMMA DeleteTypes ==
    ASSUME TablesTypeOK, NEW gone, DeleteRows(gone)
    PROVE  TablesTypeOK'
BY DEF TablesTypeOK, DeleteRows, Unfiled

LEMMA SetDaysTypes ==
    ASSUME TablesTypeOK, NEW id, NEW days \in Nat, SetDays(id, days)
    PROVE  TablesTypeOK'
BY DEF TablesTypeOK, SetDays, Rows

LEMMA RenameTypes ==
    ASSUME TablesTypeOK, NEW id, NEW slug \in Slug, Rename(id, slug)
    PROVE  TablesTypeOK'
BY DEF TablesTypeOK, Rename, Rows

LEMMA SeededTypes ==
    ASSUME TablesTypeOK
    PROVE  Seeded \subseteq Rows
<1>1. \A i \in DOMAIN DefaultSlugs : i \in Nat \ {0} /\ DefaultSlugs[i] \in Slug
  BY CategoriesAssumption
<1>2. \A i \in DOMAIN DefaultSlugs : nextCategory + i - 1 \in Nat \ {0}
  BY <1>1 DEF TablesTypeOK
<1> QED
  BY <1>1, <1>2 DEF TablesTypeOK, Seeded, Rows

LEMMA RestartTypes ==
    ASSUME TablesTypeOK, Restart
    PROVE  TablesTypeOK'
<1> DEFINE counter == IF categories # {} THEN nextCategory
                      ELSE nextCategory + Len(DefaultSlugs)
<1>1. counter \in Nat \ {0}
  BY CategoriesAssumption DEF TablesTypeOK
<1>2. [id |-> counter, slug |-> Inbox, days |-> 0] \in Rows
  BY <1>1, CategoriesAssumption DEF Rows
<1>3. /\ categories' = Seeded \/ categories' = Seeded \cup
             {[id |-> counter, slug |-> Inbox, days |-> 0]}
      /\ nextCategory' = counter \/ nextCategory' = counter + 1
      /\ UNCHANGED <<rules, nextRule>>
  BY DEF Restart
<1> HIDE DEF counter
<1>4. InboxOf(Seeded) \subseteq Nat
  BY SeededTypes DEF InboxOf, Rows
<1>5. DOMAIN filed' = DOMAIN filed /\ \A e \in DOMAIN filed : filed'[e] \in Nat
  BY <1>4 DEF Restart, TablesTypeOK
<1> QED
  BY <1>1, <1>2, <1>3, <1>5, SeededTypes DEF TablesTypeOK

LEMMA TypeSettings ==
    ASSUME TypeOK, Settings
    PROVE  TypeOK'
<1>1. UNCHANGED <<filing, setupVars, faults, stops>>
  BY DEF Settings
<1>2. (Request => requests' \in Nat) /\ (UNCHANGED requests => requests' \in Nat)
  BY DEF TypeOK, Request
<1>3. ASSUME TablesTypeOK', requests' \in Nat, edit' \in [Admins -> Edits]
      PROVE  TypeOK'
  BY <1>1, <1>3 DEF TypeOK, setupVars
<1>4. ASSUME NEW slug \in Slug, AddCategory(slug) PROVE TypeOK'
  BY <1>2, <1>3, <1>4, InsertTypes DEF AddCategory, TypeOK
<1>5. ASSUME NEW id \in FormIds, NEW word \in Word, AddRule(id, word) PROVE TypeOK'
  <2>1. id \in Nat
    BY DEF FormIds, TypeOK, TablesTypeOK
  <2>2. TablesTypeOK'
    BY <1>5, <2>1 DEF AddRule, TypeOK, TablesTypeOK
  <2> QED
    BY <1>2, <1>3, <1>5, <2>2 DEF AddRule, TypeOK
<1>6. ASSUME NEW r \in rules, DeleteRule(r) PROVE TypeOK'
  <2>1. TablesTypeOK'
    BY <1>6 DEF DeleteRule, TypeOK, TablesTypeOK
  <2> QED
    BY <1>2, <1>3, <1>6, <2>1 DEF DeleteRule, TypeOK
<1>7. ASSUME NEW id \in FormIds, NEW days \in Days, SetRetain(id, days) PROVE TypeOK'
  <2>1. days \in Nat
    BY CategoriesAssumption
  <2> QED
    BY <1>2, <1>3, <1>7, <2>1, SetDaysTypes DEF SetRetain, TypeOK
<1>8. ASSUME NEW e \in DOMAIN filed, NEW id \in FormIds, SetCategory(e, id) PROVE TypeOK'
  <2>1. id \in Nat
    BY DEF FormIds, TypeOK, TablesTypeOK
  <2>2. TablesTypeOK'
    BY <1>8, <2>1 DEF SetCategory, TypeOK, TablesTypeOK
  <2> QED
    BY <1>2, <1>3, <1>8, <2>2 DEF SetCategory, TypeOK
<1>9. IdleEdit \in Edits
  BY CategoriesAssumption DEF IdleEdit, Edits
<1>10. ASSUME NEW u \in Admins, EndEdit(u)
       PROVE  requests' \in Nat /\ edit' \in [Admins -> Edits]
  BY <1>2, <1>9, <1>10 DEF EndEdit, TypeOK
<1>11. ASSUME NEW u \in Admins, DeleteCategory(u) PROVE TypeOK'
  BY <1>3, <1>10, <1>11, DeleteTypes DEF DeleteCategory, TypeOK
<1>12. ASSUME NEW u \in Admins, RenameCategory(u) PROVE TypeOK'
  <2>1. edit[u].slug \in Slug
    BY DEF TypeOK, Edits
  <2> QED
    BY <1>3, <1>10, <1>12, <2>1, RenameTypes DEF RenameCategory, TypeOK
<1>13. ASSUME NEW u \in Admins, NEW c \in categories, NEW slug \in Slug,
              NEW pc \in {"delete", "rename"}, StartEdit(u, c, pc, slug)
       PROVE  TypeOK'
  <2>1. [pc |-> pc, id |-> c.id, slug |-> slug] \in Edits
    BY DEF TypeOK, TablesTypeOK, Rows, Edits
  <2>2. TablesTypeOK'
    BY <1>13 DEF StartEdit, tables, TypeOK, TablesTypeOK
  <2>3. edit' \in [Admins -> Edits]
    BY <1>13, <2>1 DEF StartEdit, TypeOK
  <2> QED
    BY <1>2, <1>3, <1>13, <2>2, <2>3 DEF StartEdit
<1> QED
  BY <1>4, <1>5, <1>6, <1>7, <1>8, <1>11, <1>12, <1>13, CategoriesAssumption
     DEF Settings, SettingsStep

LEMMA TypeSettingsFail ==
    ASSUME TypeOK, NEW u \in Admins, SettingsFail(u)
    PROVE  TypeOK'
<1>1. IdleEdit \in Edits
  BY CategoriesAssumption DEF IdleEdit, Edits
<1> QED
  BY <1>1 DEF SettingsFail, EditFails, EndEdit, Fails, tables, setupVars, TypeOK, TablesTypeOK

\* Filing changes the tables in SetRetainFromTag and SaveFiled only.
LEMMA TypeFiling ==
    ASSUME TypeOK, NEW p \in Pollers, File(p) \/ FileFails(p)
    PROVE  TypeOK'
<1>1. UNCHANGED <<setupVars, stops>>
  BY DEF File, FileFails
<1>2. PICK e \in Email :
         \/ TakeUp(p, e) \/ MatchRule(p, e) \/ MatchTag(p, e) \/ UseInbox(p, e)
         \/ LookUpRetain(p, e) \/ SetRetainFromTag(p, e) \/ SaveFiled(p, e)
         \/ MatchRuleFails(p, e) \/ MatchTagFails(p, e) \/ UseInboxFails(p, e)
         \/ RetainFails(p, e) \/ SaveFiledFails(p, e)
  BY DEF File, FileFails, FilingStep, FilingFailure
<1>3. filing[p] \in Filings /\ Subject[e].days \in Nat
  BY SubjectAssumption, CategoriesAssumption DEF TypeOK
<1>4. ASSUME NEW f \in Filings, filing' = [filing EXCEPT ![p] = f]
      PROVE  filing' \in [Pollers -> Filings]
  BY <1>4 DEF TypeOK
<1>5. IdleFiling \in Filings
  BY DEF IdleFiling, Filings, Unfiled
<1>6. ASSUME NEW pc \in {"idle", "rules", "tag", "inbox", "retain", "setDays", "save"},
             Move(p, pc)
      PROVE  filing' \in [Pollers -> Filings]
  BY <1>3, <1>6 DEF Move, TypeOK, Filings
<1>7. ASSUME NEW id \in Nat, Found(p, e, id)
      PROVE  filing' \in [Pollers -> Filings]
  BY <1>3, <1>7 DEF Found, TypeOK, Filings
<1>8. (\E op \in Faults : Fails(op)) \/ UNCHANGED faults => faults' \in Nat
  BY DEF Fails, TypeOK
<1>9. ASSUME filing' \in [Pollers -> Filings], faults' \in Nat, UNCHANGED categoryVars
      PROVE  TypeOK'
  BY <1>1, <1>9 DEF TypeOK, TablesTypeOK, categoryVars, tables, setupVars
<1>10. \A id \in CategoryIds : id \in Nat
  BY DEF CategoryIds, TypeOK, TablesTypeOK, Rows
<1>11. CASE TakeUp(p, e)
  <2>1. [IdleFiling EXCEPT !.pc = "rules", !.email = {e}] \in Filings
    BY DEF IdleFiling, Filings, Unfiled
  <2> QED
    BY <1>4, <1>8, <1>9, <1>11, <2>1 DEF TakeUp
<1>12. CASE MatchRule(p, e)
  <2>1. CASE \E r \in Hits(e) : Found(p, e, r.cat)
    BY <1>7, <1>8, <1>9, <1>12, <2>1 DEF MatchRule, Hits, TypeOK, TablesTypeOK
  <2>2. CASE Move(p, "tag") \/ Move(p, "inbox")
    BY <1>6, <1>8, <1>9, <1>12, <2>2 DEF MatchRule
  <2> QED
    BY <1>12, <2>1, <2>2 DEF MatchRule, NoRule
<1>13. CASE MatchTag(p, e)
  <2>1. \A id \in TaggedIds(e) : id \in Nat
    BY DEF TaggedIds, IdsOf, TypeOK, TablesTypeOK, Rows
  <2>2. CASE \E id \in TaggedIds(e) : Found(p, e, id)
    BY <1>7, <1>8, <1>9, <1>13, <2>1, <2>2 DEF MatchTag
  <2>3. CASE Move(p, "inbox")
    BY <1>6, <1>8, <1>9, <1>13, <2>3 DEF MatchTag
  <2> QED
    BY <1>13, <2>2, <2>3 DEF MatchTag
<1>14. CASE UseInbox(p, e)
  <2>1. InboxCategoryID \in Nat
    BY DEF InboxCategoryID, HasSlug, IdsOf, Unfiled, TypeOK, TablesTypeOK, Rows
  <2> QED
    BY <1>7, <1>8, <1>9, <1>14, <2>1 DEF UseInbox
<1>15. CASE LookUpRetain(p, e)
  <2>1. CASE Move(p, "save")
    BY <1>6, <1>8, <1>9, <1>15, <2>1 DEF LookUpRetain
  <2>2. ASSUME NEW c \in categories,
               filing' = [filing EXCEPT ![p].pc = "setDays", ![p].tagged = c.id]
        PROVE  TypeOK'
    <3>1. c.id \in Nat
      BY DEF TypeOK, TablesTypeOK, Rows
    <3>2. filing' \in [Pollers -> Filings]
      BY <1>3, <2>2, <3>1 DEF TypeOK, Filings
    <3> QED
      BY <1>8, <1>9, <1>15, <3>2 DEF LookUpRetain
  <2> QED
    BY <1>15, <2>1, <2>2 DEF LookUpRetain
<1>16. CASE SetRetainFromTag(p, e)
  <2>1. TablesTypeOK'
    BY <1>3, <1>16, SetDaysTypes DEF SetRetainFromTag, TypeOK
  <2> QED
    BY <1>1, <1>6, <1>16, <2>1 DEF SetRetainFromTag, TypeOK, setupVars
<1>17. CASE SaveFiled(p, e)
  <2>1. filing[p].cat \in Nat
    BY <1>3 DEF Filings
  <2>2. DOMAIN filed' \subseteq Email /\ \A d \in DOMAIN filed' : filed'[d] \in Nat
    <3>1. CASE e \in DOMAIN filed \/ ~MayRefer(filing[p].cat)
      BY <1>17, <3>1 DEF SaveFiled, TypeOK, TablesTypeOK
    <3>2. CASE ~(e \in DOMAIN filed \/ ~MayRefer(filing[p].cat))
      BY <1>17, <2>1, <3>2 DEF SaveFiled, TypeOK, TablesTypeOK
    <3> QED
      BY <3>1, <3>2
  <2>3. TablesTypeOK'
    BY <1>17, <2>2 DEF SaveFiled, TypeOK, TablesTypeOK
  <2>4. filing' \in [Pollers -> Filings]
    BY <1>4, <1>5, <1>17 DEF SaveFiled
  <2> QED
    BY <1>1, <1>17, <2>3, <2>4 DEF SaveFiled, TypeOK, setupVars
<1>18. CASE MatchRuleFails(p, e) \/ MatchTagFails(p, e) \/ RetainFails(p, e)
  <2>1. faults' \in Nat /\ UNCHANGED categoryVars
    BY <1>18 DEF MatchRuleFails, MatchTagFails, RetainFails, Fails, TypeOK
  <2>2. CASE \E pc \in {"tag", "inbox", "save"} : Move(p, pc)
    BY <1>6, <1>9, <2>1, <2>2
  <2>3. CASE \E r \in Hits(e) : Found(p, e, r.cat)
    BY <1>7, <1>9, <2>1, <2>3 DEF Hits, TypeOK, TablesTypeOK
  <2> QED
    BY <1>18, <2>2, <2>3 DEF MatchRuleFails, MatchTagFails, RetainFails, NoRule
<1>19. CASE UseInboxFails(p, e)
  BY <1>7, <1>8, <1>9, <1>19 DEF UseInboxFails, Fails, Unfiled
<1>20. CASE SaveFiledFails(p, e)
  BY <1>4, <1>5, <1>8, <1>9, <1>20 DEF SaveFiledFails, Fails
<1> QED
  BY <1>2, <1>11, <1>12, <1>13, <1>14, <1>15, <1>16, <1>17, <1>18, <1>19, <1>20

LEMMA LongTail ==
    ASSUME NEW S, NEW s \in Seq(S), s # << >>, Len(s) # 1
    PROVE  Tail(s) # << >>
<1>1. Len(s) \in Nat /\ Len(s) # 0
  OBVIOUS
<1>2. Len(Tail(s)) = Len(s) - 1
  OBVIOUS
<1>3. Len(Tail(s)) # 0
  BY <1>1, <1>2
<1>4. Len(<< >>) = 0
  BY EmptySeq
<1> QED
  BY <1>3, <1>4, Zenon

\* A statement of the wizard that has run or failed: its list gets shorter.
LEMMA TypeAfter ==
    ASSUME TypeOK, NEW w \in Wizards,
           \/ wizard[w].pc = "clear" /\ wizard[w].clear # << >> /\ AfterClear(w)
           \/ AfterInbox(w)
           \/ wizard[w].pc = "insert" /\ wizard[w].chosen # << >> /\ AfterInsert(w)
           \/ wizard' = [wizard EXCEPT ![w] = IdleWizard]
    PROVE  wizard' \in [Wizards -> WizardStates]
<1> DEFINE v == wizard[w]
<1>1. v \in WizardStates
  BY DEF TypeOK
<1>2. v.clear \in Seq(Slug) /\ v.chosen \in Seq(Slug)
  BY <1>1 DEF WizardStates
<1>3. CASE v.clear # << >> /\ AfterClear(w)
  <2>1. Tail(v.clear) \in Seq(Slug)
    BY <1>2, <1>3
  <2>2. PICK pc \in {"clear", "inbox"} :
           wizard' = [wizard EXCEPT ![w] = [v EXCEPT !.clear = Tail(v.clear), !.pc = pc]]
    BY <1>1, <1>3 DEF AfterClear, TypeOK, WizardStates
  <2>3. [v EXCEPT !.clear = Tail(v.clear), !.pc = pc] \in WizardStates
    BY <1>1, <2>1 DEF WizardStates
  <2> QED
    BY <2>2, <2>3 DEF TypeOK
<1>4. CASE AfterInbox(w)
  BY <1>1, <1>4 DEF AfterInbox, TypeOK, WizardStates
<1>5. CASE v.chosen # << >> /\ AfterInsert(w)
  <2>1. Tail(v.chosen) \in Seq(Slug)
    BY <1>2, <1>5
  <2>2. PICK pc \in {"insert", "done"} :
           wizard' = [wizard EXCEPT ![w] = [v EXCEPT !.chosen = Tail(v.chosen), !.pc = pc]]
    BY <1>1, <1>5 DEF AfterInsert, TypeOK, WizardStates
  <2>3. [v EXCEPT !.chosen = Tail(v.chosen), !.pc = pc] \in WizardStates
    BY <1>1, <2>1 DEF WizardStates
  <2> QED
    BY <2>2, <2>3 DEF TypeOK
<1>6. CASE wizard' = [wizard EXCEPT ![w] = IdleWizard]
  <2>1. IdleWizard \in WizardStates
    BY DEF IdleWizard, WizardStates
  <2> QED
    BY <1>6, <2>1 DEF TypeOK
<1> QED
  BY <1>3, <1>4, <1>5, <1>6

\* A wizard with a list to work through has something in it.
ListsNonempty ==
    \A w \in Wizards : /\ wizard[w].pc = "clear" => wizard[w].clear # << >>
                       /\ wizard[w].pc = "insert" => wizard[w].chosen # << >>

LEMMA TypeWizardry ==
    ASSUME TypeOK, ListsNonempty, Wizardry
    PROVE  TypeOK'
<1>1. UNCHANGED <<edit, filing, stops>>
  BY DEF Wizardry
<1>2. ASSUME TablesTypeOK', wizard' \in [Wizards -> WizardStates], setupDone' \in BOOLEAN,
             requests' \in Nat, faults' \in Nat
      PROVE  TypeOK'
  BY <1>1, <1>2 DEF TypeOK
<1>3. UNCHANGED tables => TablesTypeOK'
  BY DEF TypeOK, TablesTypeOK, tables
<1>4. UNCHANGED <<setupDone, requests, faults>> =>
         setupDone' \in BOOLEAN /\ requests' \in Nat /\ faults' \in Nat
  BY DEF TypeOK
<1>5. ASSUME NEW w \in Wizards, NEW choice \in Choices, BeginSetup(w, choice)
      PROVE  TypeOK'
  <2>1. OtherDefaults \in Seq(Slug) /\ choice \in Seq(Slug)
    BY CategoriesAssumption, SetupAssumption DEF OtherDefaults
  <2>2. wizard' \in [Wizards -> WizardStates]
    BY <1>5, <2>1 DEF BeginSetup, TypeOK, WizardStates
  <2>3. faults' \in Nat
    BY <1>5 DEF BeginSetup, Fails, TypeOK
  <2> QED
    BY <1>2, <1>3, <1>5, <2>2, <2>3 DEF BeginSetup, TypeOK
<1>6. ASSUME NEW w \in Wizards, ClearDefault(w) PROVE TypeOK'
  BY <1>2, <1>4, <1>6, TypeAfter, DeleteTypes DEF ClearDefault, ListsNonempty, TypeOK
<1>7. ASSUME NEW w \in Wizards, EnsureInbox(w) PROVE TypeOK'
  BY <1>2, <1>4, <1>7, TypeAfter, InsertTypes, CategoriesAssumption DEF EnsureInbox, TypeOK
<1>8. ASSUME NEW w \in Wizards, InsertChosen(w) PROVE TypeOK'
  <2>1. wizard[w].chosen \in Seq(Slug) /\ wizard[w].chosen # << >>
    BY <1>8 DEF InsertChosen, ListsNonempty, TypeOK, WizardStates
  <2>2. Head(wizard[w].chosen) \in Slug
    BY <2>1
  <2> QED
    BY <1>2, <1>4, <1>8, <2>1, <2>2, TypeAfter, InsertTypes DEF InsertChosen, TypeOK
<1>9. ASSUME NEW w \in Wizards, FinishSetup(w) PROVE TypeOK'
  BY <1>2, <1>3, <1>9, TypeAfter DEF FinishSetup, TypeOK
<1>10. ASSUME NEW w \in Wizards, SetupFails(w) PROVE TypeOK'
  <2>1. wizard' \in [Wizards -> WizardStates]
    BY <1>10, TypeAfter DEF SetupFails, ListsNonempty
  <2> QED
    BY <1>2, <1>3, <1>10, <2>1 DEF SetupFails, Fails, TypeOK
<1>11. CASE ResetSetup
  <2>1. UNCHANGED <<tables, wizard, faults>> /\ setupDone' = FALSE
    BY <1>11 DEF ResetSetup
  <2>2. requests' \in Nat
    BY <1>11 DEF ResetSetup, Request, TypeOK
  <2>3. wizard' \in [Wizards -> WizardStates] /\ faults' \in Nat
    BY <2>1 DEF TypeOK
  <2>4. setupDone' \in BOOLEAN
    BY <2>1
  <2> QED
    BY <1>2, <1>3, <2>1, <2>2, <2>3, <2>4
<1> QED
  BY <1>5, <1>6, <1>7, <1>8, <1>9, <1>10, <1>11 DEF Wizardry, SetupStep

LEMMA TypeStop ==
    ASSUME TypeOK, Stop
    PROVE  TypeOK'
<1>1. /\ IdleEdit \in Edits
      /\ IdleFiling \in Filings
      /\ IdleWizard \in WizardStates
  BY CategoriesAssumption
     DEF IdleEdit, Edits, IdleFiling, Filings, Unfiled, IdleWizard, WizardStates
<1>2. TablesTypeOK'
  BY RestartTypes DEF Stop, TypeOK
<1> QED
  BY <1>1, <1>2 DEF Stop, Restart, TypeOK

LEMMA TypeInit ==
    ASSUME Init
    PROVE  TypeOK
<1>1. /\ IdleEdit \in Edits
      /\ IdleFiling \in Filings
      /\ IdleWizard \in WizardStates
  BY CategoriesAssumption
     DEF IdleEdit, Edits, IdleFiling, Filings, Unfiled, IdleWizard, WizardStates
<1>2. \A i \in DOMAIN DefaultSlugs : i \in Nat \ {0} /\ DefaultSlugs[i] \in Slug
  BY CategoriesAssumption
<1>3. categories \subseteq Rows /\ nextCategory \in Nat \ {0}
  BY <1>2, CategoriesAssumption DEF Init, CategoriesInit, Rows
<1>4. TablesTypeOK
  BY <1>3 DEF Init, CategoriesInit, TablesTypeOK
<1> QED
  BY <1>1, <1>4 DEF Init, CategoriesInit, FilingInit, SetupInit, FailureInit, TypeOK

----------------------------------------------------------------------------
(* The inductive invariant.                                                *)

\* What the table of categories is like at all times.
TableOK ==
    /\ categories \subseteq Rows
    /\ nextCategory \in Nat \ {0}
    /\ HasSlug(Inbox)
    /\ \A c, d \in categories : c.id = d.id \/ c.slug = d.slug => c = d
    /\ \A c \in categories : c.id < nextCategory

\* No request that is past its look-up is about to delete or rename the inbox.
EditsSpareInbox ==
    \A u \in Admins : edit[u].pc # "idle" =>
        \A c \in categories : c.id = edit[u].id => c.slug # Inbox

WizardsSpareInbox ==
    \A w \in Wizards : \A i \in DOMAIN wizard[w].clear : wizard[w].clear[i] # Inbox

\* The inductive invariant.  That the inbox exists is what makes it last: its
\* slug is UNIQUE, so no other category can take it while it is there, and so
\* what an edit has looked up stays true until its second statement.
InboxInv ==
    TypeOK /\ TableOK /\ EditsSpareInbox /\ ListsNonempty /\ WizardsSpareInbox

\* A step makes no category the inbox.
InboxStable ==
    \A c \in categories' : c.slug = Inbox =>
        \E d \in categories : d.id = c.id /\ d.slug = Inbox

----------------------------------------------------------------------------
(* Statements.                                                             *)

LEMMA InsertKeeps ==
    ASSUME TableOK, NEW slug \in Slug, InsertCategory(slug)
    PROVE  TableOK' /\ InboxStable
<1>1. CASE HasSlug(slug)
  BY <1>1 DEF TableOK, InsertCategory, InboxStable, HasSlug
<1>2. CASE ~HasSlug(slug)
  <2> DEFINE row == [id |-> nextCategory, slug |-> slug, days |-> 0]
  <2>1. categories' = categories \cup {row} /\ nextCategory' = nextCategory + 1
    BY <1>2 DEF InsertCategory
  <2>2. row \in Rows /\ row.id = nextCategory /\ row.slug = slug
    BY DEF TableOK, Rows
  <2>3. \A c \in categories : c.id # row.id /\ c.slug # row.slug /\ c.id \in Nat
    BY <1>2, <2>2 DEF TableOK, HasSlug, Rows
  <2>4. slug # Inbox
    BY <1>2 DEF TableOK
  <2> HIDE DEF row
  <2>5. \A c, d \in categories' : c.id = d.id \/ c.slug = d.slug => c = d
    BY <2>1, <2>3 DEF TableOK
  <2>6. \A c \in categories' : c.id < nextCategory'
    BY <2>1, <2>2, <2>3 DEF TableOK
  <2>7. HasSlug(Inbox)'
    BY <2>1 DEF TableOK, HasSlug
  <2>8. InboxStable
    BY <2>1, <2>2, <2>4 DEF InboxStable
  <2> QED
    BY <2>1, <2>2, <2>5, <2>6, <2>7, <2>8 DEF TableOK
<1> QED
  BY <1>1, <1>2

LEMMA DeleteKeeps ==
    ASSUME TableOK, NEW gone, DeleteRows(gone),
           \A c \in categories : c.slug = Inbox => c.id \notin gone
    PROVE  TableOK' /\ InboxStable
<1>1. categories' = {c \in categories : c.id \notin gone} /\ nextCategory' = nextCategory
  BY DEF DeleteRows
<1>2. HasSlug(Inbox)'
  BY <1>1 DEF TableOK, HasSlug
<1> QED
  BY <1>1, <1>2 DEF TableOK, InboxStable

LEMMA SetDaysKeeps ==
    ASSUME TableOK, NEW id, NEW days \in Nat, SetDays(id, days)
    PROVE  TableOK' /\ InboxStable
<1> DEFINE new(c) == IF c.id = id THEN [c EXCEPT !.days = days] ELSE c
<1>1. categories' = {new(c) : c \in categories} /\ nextCategory' = nextCategory
  BY DEF SetDays
<1>2. \A c \in categories : new(c) \in Rows /\ new(c).id = c.id /\ new(c).slug = c.slug
  BY DEF TableOK, Rows
<1> HIDE DEF new
<1>3. \A c \in categories' : \E d \in categories : c = new(d)
  BY <1>1
<1>4. HasSlug(Inbox)'
  BY <1>1, <1>2 DEF TableOK, HasSlug
<1>5. \A c, d \in categories' : c.id = d.id \/ c.slug = d.slug => c = d
  BY <1>2, <1>3 DEF TableOK
<1> QED
  BY <1>1, <1>2, <1>3, <1>4, <1>5 DEF TableOK, InboxStable

LEMMA RenameKeeps ==
    ASSUME TableOK, NEW id, NEW slug \in Slug, Rename(id, slug),
           \A c \in categories : c.id = id => c.slug # Inbox
    PROVE  TableOK' /\ InboxStable
<1>1. CASE \E c \in categories : c.slug = slug /\ c.id # id
  BY <1>1 DEF TableOK, Rename, InboxStable, HasSlug
<1>2. CASE ~\E c \in categories : c.slug = slug /\ c.id # id
  <2> DEFINE new(c) == IF c.id = id THEN [c EXCEPT !.slug = slug] ELSE c
  <2>1. categories' = {new(c) : c \in categories} /\ nextCategory' = nextCategory
    BY <1>2 DEF Rename
  <2>2. \A c \in categories :
           /\ new(c) \in Rows /\ new(c).id = c.id
           /\ new(c).slug = IF c.id = id THEN slug ELSE c.slug
    BY DEF TableOK, Rows
  <2>3. slug # Inbox
    BY <1>2 DEF TableOK, HasSlug
  <2> HIDE DEF new
  <2>4. \A c \in categories' : \E d \in categories : c = new(d)
    BY <2>1
  <2>5. HasSlug(Inbox)'
    BY <2>1, <2>2 DEF TableOK, HasSlug
  <2>6. \A c, d \in categories : new(c).slug = new(d).slug => c = d
    BY <1>2, <2>2 DEF TableOK
  <2>7. \A c, d \in categories' : c.id = d.id \/ c.slug = d.slug => c = d
    BY <2>2, <2>4, <2>6 DEF TableOK
  <2>8. InboxStable
    BY <2>2, <2>3, <2>4 DEF InboxStable
  <2> QED
    BY <2>1, <2>2, <2>4, <2>5, <2>7, <2>8 DEF TableOK
<1> QED
  BY <1>1, <1>2

\* As long as there is an inbox, a restart leaves the table alone.
LEMMA RestartKeeps ==
    ASSUME TableOK, Restart
    PROVE  UNCHANGED <<categories, nextCategory>>
<1>1. categories # {} /\ Seeded = categories
  BY DEF TableOK, HasSlug, Seeded
<1>2. InboxOf(Seeded) # {}
  BY <1>1 DEF TableOK, HasSlug, InboxOf
<1> QED
  BY <1>1, <1>2 DEF Restart

LEMMA SameTable ==
    ASSUME TableOK, UNCHANGED <<categories, nextCategory>>
    PROVE  TableOK' /\ InboxStable
BY DEF TableOK, HasSlug, InboxStable

----------------------------------------------------------------------------
(* Steps.                                                                  *)

\* What an edit has looked up stays true, as no category becomes the inbox.
LEMMA EditsKept ==
    ASSUME EditsSpareInbox, InboxStable,
           \A u \in Admins : edit'[u].pc = "idle" \/ edit'[u] = edit[u]
    PROVE  EditsSpareInbox'
BY DEF EditsSpareInbox, InboxStable

LEMMA WizardsKept ==
    ASSUME ListsNonempty, WizardsSpareInbox, UNCHANGED wizard
    PROVE  ListsNonempty' /\ WizardsSpareInbox'
BY DEF ListsNonempty, WizardsSpareInbox

LEMMA InvSettings ==
    ASSUME InboxInv, Settings
    PROVE  InboxInv'
<1>1. TypeOK /\ TableOK /\ EditsSpareInbox /\ UNCHANGED wizard
  BY DEF InboxInv, Settings, setupVars
<1>2. TypeOK' /\ ListsNonempty' /\ WizardsSpareInbox'
  BY <1>1, TypeSettings, WizardsKept DEF InboxInv
<1>3. ASSUME TableOK', EditsSpareInbox' PROVE InboxInv'
  BY <1>2, <1>3 DEF InboxInv
<1>4. ASSUME TableOK', InboxStable,
             \A u \in Admins : edit'[u].pc = "idle" \/ edit'[u] = edit[u]
      PROVE  InboxInv'
  BY <1>1, <1>3, <1>4, EditsKept
<1>5. ASSUME NEW u \in Admins, EndEdit(u)
      PROVE  \A v \in Admins : edit'[v].pc = "idle" \/ edit'[v] = edit[v]
  BY <1>1, <1>5 DEF EndEdit, IdleEdit, TypeOK
<1>6. ASSUME NEW slug \in Slug, AddCategory(slug) PROVE InboxInv'
  BY <1>1, <1>4, <1>6, InsertKeeps DEF AddCategory
<1>7. ASSUME \/ \E id \in FormIds, word \in Word : AddRule(id, word)
             \/ \E r \in rules : DeleteRule(r)
             \/ \E e \in DOMAIN filed, id \in FormIds : SetCategory(e, id)
      PROVE  InboxInv'
  <2>1. UNCHANGED <<categories, nextCategory, edit>>
    BY <1>7 DEF AddRule, DeleteRule, SetCategory
  <2> QED
    BY <1>1, <1>4, <2>1, SameTable
<1>8. ASSUME NEW id \in FormIds, NEW days \in Days, SetRetain(id, days) PROVE InboxInv'
  <2>1. days \in Nat
    BY CategoriesAssumption
  <2> QED
    BY <1>1, <1>4, <1>8, <2>1, SetDaysKeeps DEF SetRetain
<1>9. ASSUME NEW u \in Admins, DeleteCategory(u) PROVE InboxInv'
  <2>1. \A c \in categories : c.slug = Inbox => c.id \notin {edit[u].id}
    BY <1>1, <1>9 DEF EditsSpareInbox, DeleteCategory
  <2> QED
    BY <1>1, <1>4, <1>5, <1>9, <2>1, DeleteKeeps DEF DeleteCategory
<1>10. ASSUME NEW u \in Admins, RenameCategory(u) PROVE InboxInv'
  <2>1. edit[u].slug \in Slug
    BY <1>1 DEF TypeOK, Edits
  <2>2. \A c \in categories : c.id = edit[u].id => c.slug # Inbox
    BY <1>1, <1>10 DEF EditsSpareInbox, RenameCategory
  <2> QED
    BY <1>1, <1>4, <1>5, <1>10, <2>1, <2>2, RenameKeeps DEF RenameCategory
<1>11. ASSUME NEW u \in Admins, NEW c \in categories, NEW pc, NEW slug,
              StartEdit(u, c, pc, slug)
       PROVE  InboxInv'
  <2>1. UNCHANGED <<categories, nextCategory>> /\ c.slug # Inbox
    BY <1>11 DEF StartEdit, tables
  <2>2. edit' = [edit EXCEPT ![u] = [pc |-> pc, id |-> c.id, slug |-> slug]]
    BY <1>11 DEF StartEdit
  <2>3. \A d \in categories : d.id = c.id => d.slug # Inbox
    BY <1>1, <2>1 DEF TableOK
  <2>4. EditsSpareInbox'
    BY <1>1, <2>1, <2>2, <2>3 DEF EditsSpareInbox, TypeOK
  <2> QED
    BY <1>1, <1>3, <2>1, <2>4, SameTable
<1> QED
  BY <1>6, <1>7, <1>8, <1>9, <1>10, <1>11 DEF Settings, SettingsStep

LEMMA InvFiling ==
    ASSUME InboxInv, NEW p \in Pollers, File(p) \/ FileFails(p)
    PROVE  InboxInv'
<1>1. TypeOK /\ TableOK /\ EditsSpareInbox
  BY DEF InboxInv
<1>2. UNCHANGED wizard
  BY DEF File, FileFails, setupVars
<1>3. TypeOK' /\ ListsNonempty' /\ WizardsSpareInbox'
  BY <1>1, <1>2, TypeFiling, WizardsKept DEF InboxInv
<1>4. ASSUME TableOK', InboxStable, UNCHANGED edit PROVE InboxInv'
  BY <1>1, <1>3, <1>4, EditsKept DEF InboxInv
<1>5. ASSUME NEW e \in Email, SetRetainFromTag(p, e) PROVE InboxInv'
  <2>1. Subject[e].days \in Nat
    BY SubjectAssumption, CategoriesAssumption
  <2> QED
    BY <1>1, <1>4, <1>5, <2>1, SetDaysKeeps DEF SetRetainFromTag
<1>6. ASSUME UNCHANGED <<categories, nextCategory, edit>> PROVE InboxInv'
  BY <1>1, <1>4, <1>6, SameTable
<1>7. PICK e \in Email :
         \/ TakeUp(p, e) \/ MatchRule(p, e) \/ MatchTag(p, e) \/ UseInbox(p, e)
         \/ LookUpRetain(p, e) \/ SetRetainFromTag(p, e) \/ SaveFiled(p, e)
         \/ MatchRuleFails(p, e) \/ MatchTagFails(p, e) \/ UseInboxFails(p, e)
         \/ RetainFails(p, e) \/ SaveFiledFails(p, e)
  BY DEF File, FileFails, FilingStep, FilingFailure
<1>8. CASE ~SetRetainFromTag(p, e)
  <2>1. UNCHANGED <<categories, nextCategory, edit>>
    BY <1>7, <1>8 DEF TakeUp, MatchRule, MatchTag, UseInbox, LookUpRetain, SaveFiled,
          MatchRuleFails, MatchTagFails, UseInboxFails, RetainFails, SaveFiledFails,
          categoryVars, tables
  <2> QED
    BY <1>6, <2>1
<1> QED
  BY <1>5, <1>8

\* A wizard deletes what is left in its list, and the inbox never is.
LEMMA InvWizardry ==
    ASSUME InboxInv, Wizardry
    PROVE  InboxInv'
<1>1. TypeOK /\ TableOK /\ EditsSpareInbox /\ ListsNonempty /\ WizardsSpareInbox
      /\ UNCHANGED edit
  BY DEF InboxInv, Wizardry
<1>2. TypeOK'
  BY <1>1, TypeWizardry
<1>3. ASSUME TableOK', InboxStable, ListsNonempty', WizardsSpareInbox' PROVE InboxInv'
  BY <1>1, <1>2, <1>3, EditsKept DEF InboxInv
<1>4. UNCHANGED <<categories, nextCategory>> => TableOK' /\ InboxStable
  BY <1>1, SameTable
<1>5. ASSUME NEW w \in Wizards, wizard'[w] \in WizardStates,
             wizard' = [wizard EXCEPT ![w] = wizard'[w]],
             \A i \in DOMAIN wizard'[w].clear : wizard'[w].clear[i] # Inbox,
             wizard'[w].pc = "clear" => wizard'[w].clear # << >>,
             wizard'[w].pc = "insert" => wizard'[w].chosen # << >>
      PROVE  ListsNonempty' /\ WizardsSpareInbox'
  BY <1>1, <1>5 DEF ListsNonempty, WizardsSpareInbox, TypeOK
<1>6. ASSUME NEW w \in Wizards, wizard[w].pc = "clear", AfterClear(w)
      PROVE  ListsNonempty' /\ WizardsSpareInbox'
  <2> DEFINE v == wizard[w]
  <2>1. v \in WizardStates /\ v.clear \in Seq(Slug) /\ v.clear # << >>
        /\ \A i \in DOMAIN v.clear : v.clear[i] # Inbox
    BY <1>1, <1>6 DEF TypeOK, WizardStates, ListsNonempty, WizardsSpareInbox
  <2>2. wizard'[w] = [v EXCEPT !.clear = Tail(v.clear),
                               !.pc = IF Len(v.clear) = 1 THEN "inbox" ELSE "clear"]
        /\ wizard' = [wizard EXCEPT ![w] = wizard'[w]]
    BY <1>1, <1>6, <2>1 DEF AfterClear, TypeOK, WizardStates
  <2>3. wizard'[w].clear = Tail(v.clear)
        /\ wizard'[w].pc = IF Len(v.clear) = 1 THEN "inbox" ELSE "clear"
    BY <2>1, <2>2 DEF WizardStates
  <2>4. \A i \in DOMAIN Tail(v.clear) : Tail(v.clear)[i] # Inbox
    BY <2>1
  <2>5. Len(v.clear) # 1 => Tail(v.clear) # << >>
    BY <2>1, LongTail
  <2>6. wizard'[w] \in WizardStates
    BY <1>2 DEF TypeOK
  <2> HIDE DEF v
  <2> QED
    BY <1>5, <2>2, <2>3, <2>4, <2>5, <2>6
<1>7. ASSUME NEW w \in Wizards, wizard[w].pc = "inbox", AfterInbox(w)
      PROVE  ListsNonempty' /\ WizardsSpareInbox'
  BY <1>1, <1>7 DEF AfterInbox, ListsNonempty, WizardsSpareInbox, TypeOK, WizardStates
<1>8. ASSUME NEW w \in Wizards, wizard[w].pc = "insert", AfterInsert(w)
      PROVE  ListsNonempty' /\ WizardsSpareInbox'
  <2> DEFINE v == wizard[w]
  <2>1. v \in WizardStates /\ v.chosen \in Seq(Slug) /\ v.chosen # << >>
        /\ \A i \in DOMAIN v.clear : v.clear[i] # Inbox
    BY <1>1, <1>8 DEF TypeOK, WizardStates, ListsNonempty, WizardsSpareInbox
  <2>2. wizard'[w] = [v EXCEPT !.chosen = Tail(v.chosen),
                               !.pc = IF Len(v.chosen) = 1 THEN "done" ELSE "insert"]
        /\ wizard' = [wizard EXCEPT ![w] = wizard'[w]]
    BY <1>1, <1>8, <2>1 DEF AfterInsert, TypeOK, WizardStates
  <2>3. /\ wizard'[w].chosen = Tail(v.chosen) /\ wizard'[w].clear = v.clear
        /\ wizard'[w].pc = IF Len(v.chosen) = 1 THEN "done" ELSE "insert"
    BY <2>1, <2>2 DEF WizardStates
  <2>4. Len(v.chosen) # 1 => Tail(v.chosen) # << >>
    BY <2>1, LongTail
  <2>5. wizard'[w] \in WizardStates
    BY <1>2 DEF TypeOK
  <2> HIDE DEF v
  <2> QED
    BY <1>5, <2>1, <2>2, <2>3, <2>4, <2>5
<1>9. ASSUME NEW w \in Wizards, wizard' = [wizard EXCEPT ![w] = IdleWizard]
      PROVE  ListsNonempty' /\ WizardsSpareInbox'
  BY <1>1, <1>9 DEF IdleWizard, ListsNonempty, WizardsSpareInbox, TypeOK
<1>10. ASSUME NEW w \in Wizards, NEW choice \in Choices, BeginSetup(w, choice)
       PROVE  InboxInv'
  <2>1. OtherDefaults \in Seq(Slug) /\ OtherDefaults # << >>
        /\ \A i \in DOMAIN OtherDefaults : OtherDefaults[i] # Inbox
    <3>1. OtherDefaults # << >>
      BY LongTail, CategoriesAssumption, SetupAssumption DEF OtherDefaults
    <3>2. \A i \in DOMAIN OtherDefaults : i + 1 \in DOMAIN DefaultSlugs /\ i + 1 # 1
                                          /\ OtherDefaults[i] = DefaultSlugs[i + 1]
      BY CategoriesAssumption DEF OtherDefaults
    <3>3. 1 \in DOMAIN DefaultSlugs
      BY CategoriesAssumption
    <3> QED
      BY <3>1, <3>2, <3>3, CategoriesAssumption DEF OtherDefaults
  <2>2. wizard' = [wizard EXCEPT ![w] = [pc |-> "clear", clear |-> OtherDefaults,
                                         chosen |-> choice]]
    BY <1>10 DEF BeginSetup
  <2>3. ListsNonempty' /\ WizardsSpareInbox'
    BY <1>1, <2>1, <2>2 DEF ListsNonempty, WizardsSpareInbox, TypeOK
  <2> QED
    BY <1>3, <1>4, <1>10, <2>3 DEF BeginSetup, tables
<1>11. ASSUME NEW w \in Wizards, ClearDefault(w) PROVE InboxInv'
  <2>1. Head(wizard[w].clear) # Inbox
    BY <1>1, <1>11 DEF ClearDefault, ListsNonempty, WizardsSpareInbox, TypeOK, WizardStates
  <2>2. \A c \in categories : c.slug = Inbox => c.id \notin IdsOf(Head(wizard[w].clear))
    BY <1>1, <2>1 DEF IdsOf, TableOK
  <2> QED
    BY <1>1, <1>3, <1>6, <1>11, <2>2, DeleteKeeps DEF ClearDefault
<1>12. ASSUME NEW w \in Wizards, EnsureInbox(w) PROVE InboxInv'
  BY <1>1, <1>3, <1>7, <1>12, InsertKeeps, CategoriesAssumption DEF EnsureInbox
<1>13. ASSUME NEW w \in Wizards, InsertChosen(w) PROVE InboxInv'
  <2>1. Head(wizard[w].chosen) \in Slug
    BY <1>1, <1>13 DEF InsertChosen, ListsNonempty, TypeOK, WizardStates
  <2> QED
    BY <1>1, <1>3, <1>8, <1>13, <2>1, InsertKeeps DEF InsertChosen
<1>14. ASSUME NEW w \in Wizards, FinishSetup(w) \/ SetupFails(w) PROVE InboxInv'
  <2>1. UNCHANGED <<categories, nextCategory>>
    BY <1>14 DEF FinishSetup, SetupFails, tables
  <2>2. ListsNonempty' /\ WizardsSpareInbox'
    BY <1>6, <1>7, <1>8, <1>9, <1>14 DEF FinishSetup, SetupFails
  <2> QED
    BY <1>3, <1>4, <2>1, <2>2
<1>15. ASSUME ResetSetup PROVE InboxInv'
  BY <1>1, <1>3, <1>4, <1>15, WizardsKept DEF ResetSetup, tables
<1> QED
  BY <1>10, <1>11, <1>12, <1>13, <1>14, <1>15 DEF Wizardry, SetupStep

LEMMA InvStop ==
    ASSUME InboxInv, Stop
    PROVE  InboxInv'
<1>1. UNCHANGED <<categories, nextCategory>>
  BY RestartKeeps DEF InboxInv, Stop
<1>2. TypeOK' /\ TableOK'
  BY <1>1, TypeStop, SameTable DEF InboxInv
<1>3. EditsSpareInbox'
  BY DEF Stop, Restart, IdleEdit, EditsSpareInbox
<1>4. ListsNonempty' /\ WizardsSpareInbox'
  BY DEF Stop, IdleWizard, ListsNonempty, WizardsSpareInbox
<1> QED
  BY <1>2, <1>3, <1>4 DEF InboxInv

LEMMA InvInit ==
    ASSUME Init
    PROVE  InboxInv
<1>1. \A i \in DOMAIN DefaultSlugs : i \in 1 .. Len(DefaultSlugs)
  BY CategoriesAssumption
<1>2. \A c \in categories : c.id \in DOMAIN DefaultSlugs /\ c.slug = DefaultSlugs[c.id]
                            /\ c.days = 0
  BY DEF Init, CategoriesInit
<1>3. 1 \in DOMAIN DefaultSlugs
  BY CategoriesAssumption
<1>4. HasSlug(Inbox)
  <2>1. [id |-> 1, slug |-> DefaultSlugs[1], days |-> 0] \in categories
    BY <1>3 DEF Init, CategoriesInit
  <2> QED
    BY <2>1, CategoriesAssumption DEF HasSlug
<1>5. \A c, d \in categories : c.id = d.id \/ c.slug = d.slug => c = d
  <2> SUFFICES ASSUME NEW c \in categories, NEW d \in categories, c.id = d.id \/ c.slug = d.slug
               PROVE  c = d
    OBVIOUS
  <2>1. c.id = d.id
    BY <1>2, CategoriesAssumption
  <2>2. c = [id |-> c.id, slug |-> DefaultSlugs[c.id], days |-> 0]
        /\ d = [id |-> d.id, slug |-> DefaultSlugs[d.id], days |-> 0]
    BY DEF Init, CategoriesInit
  <2> QED
    BY <2>1, <2>2
<1>6. \A c \in categories : c.id < nextCategory
  BY <1>1, <1>2, CategoriesAssumption DEF Init, CategoriesInit
<1>7. TypeOK /\ TableOK
  BY <1>4, <1>5, <1>6, TypeInit DEF TypeOK, TablesTypeOK, TableOK
<1>8. EditsSpareInbox /\ ListsNonempty /\ WizardsSpareInbox
  BY DEF Init, CategoriesInit, SetupInit, IdleEdit, IdleWizard, EditsSpareInbox,
         ListsNonempty, WizardsSpareInbox
<1> QED
  BY <1>7, <1>8 DEF InboxInv

LEMMA InvNext ==
    ASSUME InboxInv, [Next]_vars
    PROVE  InboxInv'
<1>1. ASSUME NEW u \in Admins, SettingsFail(u) PROVE InboxInv'
  <2>1. UNCHANGED <<categories, nextCategory, wizard>>
    BY <1>1 DEF SettingsFail, EditFails, tables, setupVars
  <2>2. TableOK' /\ InboxStable /\ ListsNonempty' /\ WizardsSpareInbox'
    BY <2>1, SameTable, WizardsKept DEF InboxInv
  <2>3. \A v \in Admins : edit'[v].pc = "idle" \/ edit'[v] = edit[v]
    BY <1>1 DEF SettingsFail, EditFails, EndEdit, IdleEdit, InboxInv, TypeOK
  <2> QED
    BY <1>1, <2>2, <2>3, EditsKept, TypeSettingsFail DEF InboxInv
<1>2. CASE UNCHANGED vars
  BY <1>2 DEF vars, categoryVars, tables, setupVars, InboxInv, TypeOK, TablesTypeOK,
              TableOK, HasSlug, EditsSpareInbox, ListsNonempty, WizardsSpareInbox
<1> QED
  BY <1>1, <1>2, InvSettings, InvFiling, InvWizardry, InvStop DEF Next

----------------------------------------------------------------------------
(* Theorems.                                                               *)

\* The inductive invariant holds in every reachable state: the inbox is there,
\* and nobody is about to delete or rename it.
THEOREM InboxInvAlways == Spec => []InboxInv
BY InvInit, InvNext, PTL DEF Spec

\* Every variable always has its type.
THEOREM CatalogueTypes == Spec => []TypeOK
<1>1. InboxInv => TypeOK
  BY DEF InboxInv
<1> QED
  BY <1>1, InboxInvAlways, PTL

\* The inbox is never lost, whatever users, wizards and runs of Poll do between
\* each other's statements (settings.go:315-391, handler.go:258-329).
THEOREM InboxKeptAlways == Spec => []InboxKept
<1>1. InboxInv => InboxKept
  BY DEF InboxInv, TableOK, InboxKept
<1> QED
  BY <1>1, InboxInvAlways, PTL

\* The statements that run at each start leave the categories as they are
\* (db.go:122-129, main.go:63).
THEOREM RestartKeepsCategoriesAlways == Spec => RestartKeepsCategories
<1>1. InboxInv /\ [Next]_vars => [Stop => UNCHANGED categories]_vars
  BY RestartKeeps DEF InboxInv, Stop
<1> QED
  BY <1>1, InboxInvAlways, PTL DEF Spec, RestartKeepsCategories

----------------------------------------------------------------------------
(* The ids of deleted categories.                                          *)

\* Everything that holds the id of a category got it after it was issued.
RowsHoldIssued ==
    /\ \A e \in DOMAIN filed : filed[e] < nextCategory
    /\ \A r \in rules : r.cat < nextCategory

LocalsHoldIssued ==
    /\ \A p \in Pollers : filing[p].cat < nextCategory /\ filing[p].tagged < nextCategory
    /\ \A u \in Admins : edit[u].id < nextCategory

\* The inductive invariant: AUTOINCREMENT never goes back, so an id below the
\* counter is a category that is there or was there.
HeldInv == RowsHoldIssued /\ LocalsHoldIssued

\* The counter does not go back, and a new category gets an id from it on.
IdsFresh ==
    /\ nextCategory <= nextCategory'
    /\ \A c \in categories' : c.id \in CategoryIds \/ nextCategory <= c.id

LEMMA InsertFresh ==
    ASSUME TablesTypeOK, NEW slug, InsertCategory(slug)
    PROVE  IdsFresh
BY DEF TablesTypeOK, InsertCategory, IdsFresh, CategoryIds

LEMMA SetDaysFresh ==
    ASSUME TablesTypeOK, NEW id, NEW days, SetDays(id, days)
    PROVE  IdsFresh
<1> DEFINE new(c) == IF c.id = id THEN [c EXCEPT !.days = days] ELSE c
<1>1. categories' = {new(c) : c \in categories} /\ nextCategory' = nextCategory
  BY DEF SetDays
<1>2. \A c \in categories : new(c).id = c.id
  BY DEF TablesTypeOK, Rows
<1> HIDE DEF new
<1> QED
  BY <1>1, <1>2 DEF TablesTypeOK, IdsFresh, CategoryIds

LEMMA RenameFresh ==
    ASSUME TablesTypeOK, NEW id, NEW slug, Rename(id, slug)
    PROVE  IdsFresh
<1> DEFINE new(c) == IF c.id = id THEN [c EXCEPT !.slug = slug] ELSE c
<1>1. (UNCHANGED categories \/ categories' = {new(c) : c \in categories})
      /\ nextCategory' = nextCategory
  BY DEF Rename
<1>2. \A c \in categories : new(c).id = c.id
  BY DEF TablesTypeOK, Rows
<1> HIDE DEF new
<1> QED
  BY <1>1, <1>2 DEF TablesTypeOK, IdsFresh, CategoryIds

LEMMA DeleteFresh ==
    ASSUME TablesTypeOK, NEW gone, DeleteRows(gone)
    PROVE  IdsFresh
BY DEF TablesTypeOK, DeleteRows, IdsFresh, CategoryIds

LEMMA SameFresh ==
    ASSUME TablesTypeOK, UNCHANGED <<categories, nextCategory>>
    PROVE  IdsFresh
BY DEF TablesTypeOK, IdsFresh, CategoryIds

\* What is held stays issued when nobody takes up an id.
LEMMA RowsStay ==
    ASSUME TablesTypeOK, RowsHoldIssued, nextCategory' \in Nat, nextCategory <= nextCategory',
           UNCHANGED <<rules, filed>>
    PROVE  RowsHoldIssued'
BY DEF TablesTypeOK, RowsHoldIssued

LEMMA LocalsStay ==
    ASSUME TypeOK, LocalsHoldIssued, nextCategory' \in Nat, nextCategory <= nextCategory',
           UNCHANGED filing,
           \A u \in Admins : edit'[u] = IdleEdit \/ edit'[u] = edit[u]
    PROVE  LocalsHoldIssued'
<1>1. nextCategory \in Nat \ {0}
  BY DEF TypeOK, TablesTypeOK
<1>2. \A p \in Pollers : filing[p].cat \in Nat /\ filing[p].tagged \in Nat
  BY DEF TypeOK, Filings
<1>3. \A u \in Admins : edit[u].id \in Nat
  BY DEF TypeOK, Edits
<1>4. \A u \in Admins : edit'[u].id < nextCategory'
  BY <1>1, <1>3 DEF LocalsHoldIssued, IdleEdit
<1> QED
  BY <1>1, <1>2, <1>4 DEF LocalsHoldIssued

LEMMA DeleteRowsHold ==
    ASSUME TablesTypeOK, RowsHoldIssued, NEW gone, DeleteRows(gone)
    PROVE  RowsHoldIssued'
BY DEF TablesTypeOK, RowsHoldIssued, DeleteRows, Unfiled

LEMMA HeldSettings ==
    ASSUME InboxInv, HeldInv, Settings
    PROVE  HeldInv' /\ IdsFresh
<1>1. TypeOK /\ TablesTypeOK /\ TypeOK' /\ nextCategory \in Nat \ {0} /\ nextCategory' \in Nat
      /\ RowsHoldIssued /\ LocalsHoldIssued /\ UNCHANGED filing
  BY TypeSettings DEF InboxInv, HeldInv, TypeOK, TablesTypeOK, Settings
<1>2. ASSUME IdsFresh, RowsHoldIssued',
             \A u \in Admins : edit'[u] = IdleEdit \/ edit'[u] = edit[u]
      PROVE  HeldInv' /\ IdsFresh
  BY <1>1, <1>2, LocalsStay DEF HeldInv, IdsFresh
<1>3. ASSUME IdsFresh, UNCHANGED <<rules, filed>> PROVE RowsHoldIssued'
  BY <1>1, <1>3, RowsStay DEF IdsFresh
<1>4. ASSUME NEW u \in Admins, EndEdit(u)
      PROVE  \A v \in Admins : edit'[v] = IdleEdit \/ edit'[v] = edit[v]
  BY <1>1, <1>4 DEF EndEdit, TypeOK
<1>5. ASSUME NEW slug, AddCategory(slug) PROVE HeldInv' /\ IdsFresh
  <2>1. IdsFresh /\ UNCHANGED <<rules, filed, edit>>
    BY <1>1, <1>5, InsertFresh DEF AddCategory, InsertCategory
  <2> QED
    BY <1>2, <1>3, <2>1
<1>6. ASSUME NEW id \in FormIds, NEW word \in Word, AddRule(id, word)
      PROVE  HeldInv' /\ IdsFresh
  <2>1. IdsFresh /\ UNCHANGED <<edit, filed, nextCategory>>
    BY <1>1, <1>6, SameFresh DEF AddRule
  <2>2. id < nextCategory
    BY <1>1 DEF FormIds
  <2>3. rules' = rules \cup {[id |-> nextRule, cat |-> id, word |-> word]}
    BY <1>6 DEF AddRule
  <2>4. \A r \in rules' : r.cat < nextCategory
    BY <1>1, <2>2, <2>3 DEF RowsHoldIssued
  <2> QED
    BY <1>1, <1>2, <2>1, <2>4 DEF RowsHoldIssued
<1>7. ASSUME NEW r \in rules, DeleteRule(r) PROVE HeldInv' /\ IdsFresh
  <2>1. IdsFresh /\ UNCHANGED <<edit, filed, nextCategory>> /\ rules' \subseteq rules
    BY <1>1, <1>7, SameFresh DEF DeleteRule
  <2> QED
    BY <1>1, <1>2, <2>1 DEF RowsHoldIssued
<1>8. ASSUME NEW id, NEW days, SetRetain(id, days) PROVE HeldInv' /\ IdsFresh
  <2>1. IdsFresh /\ UNCHANGED <<rules, filed, edit>>
    BY <1>1, <1>8, SetDaysFresh DEF SetRetain, SetDays
  <2> QED
    BY <1>2, <1>3, <2>1
<1>9. ASSUME NEW e \in DOMAIN filed, NEW id \in FormIds, SetCategory(e, id)
      PROVE  HeldInv' /\ IdsFresh
  <2>1. IdsFresh /\ UNCHANGED <<edit, rules, nextCategory>>
    BY <1>1, <1>9, SameFresh DEF SetCategory
  <2>2. id < nextCategory
    BY <1>1 DEF FormIds
  <2>3. filed' = [filed EXCEPT ![e] = id]
    BY <1>9 DEF SetCategory
  <2>4. \A d \in DOMAIN filed' : filed'[d] < nextCategory
    BY <1>1, <2>2, <2>3 DEF RowsHoldIssued
  <2> QED
    BY <1>1, <1>2, <2>1, <2>4 DEF RowsHoldIssued
<1>10. ASSUME NEW u \in Admins, DeleteCategory(u) PROVE HeldInv' /\ IdsFresh
  BY <1>1, <1>2, <1>4, <1>10, DeleteFresh, DeleteRowsHold DEF DeleteCategory
<1>11. ASSUME NEW u \in Admins, RenameCategory(u) PROVE HeldInv' /\ IdsFresh
  <2>1. IdsFresh
    BY <1>1, <1>11, RenameFresh DEF RenameCategory
  <2>2. UNCHANGED <<rules, filed>>
    BY <1>11 DEF RenameCategory, Rename
  <2> QED
    BY <1>2, <1>3, <1>4, <1>11, <2>1, <2>2 DEF RenameCategory
<1>12. ASSUME NEW u \in Admins, NEW c \in categories, NEW pc, NEW slug,
              StartEdit(u, c, pc, slug)
       PROVE  HeldInv' /\ IdsFresh
  <2>1. IdsFresh /\ UNCHANGED <<rules, filed, nextCategory>>
    BY <1>1, <1>12, SameFresh DEF StartEdit, tables
  <2>2. edit' = [edit EXCEPT ![u] = [pc |-> pc, id |-> c.id, slug |-> slug]]
    BY <1>12 DEF StartEdit
  <2>3. c.id < nextCategory
    BY DEF InboxInv, TableOK
  <2>4. \A v \in Admins : edit'[v].id < nextCategory
    BY <1>1, <2>2, <2>3 DEF LocalsHoldIssued, TypeOK
  <2> QED
    BY <1>1, <1>3, <2>1, <2>4 DEF HeldInv, LocalsHoldIssued
<1> QED
  BY <1>5, <1>6, <1>7, <1>8, <1>9, <1>10, <1>11, <1>12 DEF Settings, SettingsStep

LEMMA HeldFiling ==
    ASSUME InboxInv, HeldInv, NEW p \in Pollers, File(p) \/ FileFails(p)
    PROVE  HeldInv' /\ IdsFresh
<1>1. TypeOK /\ TablesTypeOK /\ nextCategory \in Nat \ {0} /\ RowsHoldIssued /\ LocalsHoldIssued
  BY DEF InboxInv, HeldInv, TypeOK, TablesTypeOK
<1>2. PICK e \in Email :
         \/ TakeUp(p, e) \/ MatchRule(p, e) \/ MatchTag(p, e) \/ UseInbox(p, e)
         \/ LookUpRetain(p, e) \/ SetRetainFromTag(p, e) \/ SaveFiled(p, e)
         \/ MatchRuleFails(p, e) \/ MatchTagFails(p, e) \/ UseInboxFails(p, e)
         \/ RetainFails(p, e) \/ SaveFiledFails(p, e)
  BY DEF File, FileFails, FilingStep, FilingFailure
<1>3. UNCHANGED <<edit, nextCategory>>
  BY <1>2 DEF TakeUp, MatchRule, MatchTag, UseInbox, LookUpRetain, SetRetainFromTag, SetDays,
        SaveFiled, MatchRuleFails, MatchTagFails, UseInboxFails, RetainFails, SaveFiledFails,
        categoryVars, tables
<1>4. IdsFresh
  <2>1. CASE SetRetainFromTag(p, e)
    BY <1>1, <2>1, SetDaysFresh DEF SetRetainFromTag
  <2>2. CASE ~SetRetainFromTag(p, e)
    <3>1. UNCHANGED categories
      BY <1>2, <2>2 DEF TakeUp, MatchRule, MatchTag, UseInbox, LookUpRetain, SaveFiled,
            MatchRuleFails, MatchTagFails, UseInboxFails, RetainFails, SaveFiledFails,
            categoryVars, tables
    <3> QED
      BY <1>1, <1>3, <3>1, SameFresh
  <2> QED
    BY <2>1, <2>2
<1>5. \A c \in categories : c.id \in Nat /\ c.id < nextCategory
  BY DEF InboxInv, TableOK, Rows
<1>6. RowsHoldIssued'
  <2>1. CASE SaveFiled(p, e)
    <3>1. UNCHANGED rules /\ \A d \in DOMAIN filed' :
             filed'[d] = filing[p].cat \/ (d \in DOMAIN filed /\ filed'[d] = filed[d])
      BY <2>1 DEF SaveFiled
    <3> QED
      BY <1>1, <1>3, <3>1 DEF RowsHoldIssued, LocalsHoldIssued
  <2>2. CASE ~SaveFiled(p, e)
    <3>1. UNCHANGED <<rules, filed>>
      BY <1>2, <2>2 DEF TakeUp, MatchRule, MatchTag, UseInbox, LookUpRetain,
            SetRetainFromTag, SetDays, MatchRuleFails, MatchTagFails, UseInboxFails,
            RetainFails, SaveFiledFails, categoryVars, tables
    <3> QED
      BY <1>1, <1>3, <3>1 DEF RowsHoldIssued
  <2> QED
    BY <2>1, <2>2
<1>7. ASSUME NEW f \in Filings, filing' = [filing EXCEPT ![p] = f],
             f.cat < nextCategory, f.tagged < nextCategory
      PROVE  LocalsHoldIssued'
  BY <1>1, <1>3, <1>7 DEF LocalsHoldIssued, TypeOK
<1>8. IdleFiling \in Filings
      /\ IdleFiling.cat < nextCategory /\ IdleFiling.tagged < nextCategory
  BY <1>1 DEF IdleFiling, Filings, Unfiled
<1>9. filing[p] \in Filings /\ filing[p].cat < nextCategory /\ filing[p].tagged < nextCategory
  BY <1>1 DEF TypeOK, LocalsHoldIssued
<1>10. ASSUME NEW pc \in {"tag", "inbox", "save"}, Move(p, pc) PROVE LocalsHoldIssued'
  <2>1. filing' = [filing EXCEPT ![p] = [filing[p] EXCEPT !.pc = pc]]
    BY <1>10 DEF Move
  <2>2. [filing[p] EXCEPT !.pc = pc] \in Filings
    BY <1>9 DEF Filings
  <2> QED
    BY <1>7, <1>9, <2>1, <2>2 DEF Filings
<1>11. ASSUME NEW id \in Nat, id < nextCategory, Found(p, e, id) PROVE LocalsHoldIssued'
  <2>1. PICK pc \in {"retain", "save"} :
           filing' = [filing EXCEPT ![p] = [filing[p] EXCEPT !.cat = id, !.pc = pc]]
    BY <1>1, <1>9, <1>11 DEF Found, TypeOK, Filings
  <2>2. [filing[p] EXCEPT !.cat = id, !.pc = pc] \in Filings
    BY <1>9, <1>11 DEF Filings
  <2> QED
    BY <1>7, <1>9, <1>11, <2>1, <2>2 DEF Filings
<1>12. ASSUME filing' = [filing EXCEPT ![p] = IdleFiling] PROVE LocalsHoldIssued'
  BY <1>7, <1>8, <1>12
<1>13. ASSUME TakeUp(p, e) PROVE LocalsHoldIssued'
  <2> DEFINE f == [IdleFiling EXCEPT !.pc = "rules", !.email = {e}]
  <2>1. f.cat = IdleFiling.cat /\ f.tagged = IdleFiling.tagged
    BY DEF IdleFiling
  <2>2. filing' = [filing EXCEPT ![p] = f]
    BY <1>13 DEF TakeUp
  <2>3. f \in Filings
    BY DEF IdleFiling, Filings, Unfiled
  <2> HIDE DEF f
  <2> QED
    BY <1>7, <1>8, <2>1, <2>2, <2>3
<1>14. ASSUME MatchRule(p, e) \/ MatchRuleFails(p, e) PROVE LocalsHoldIssued'
  <2>1. \A r \in Hits(e) : r.cat \in Nat /\ r.cat < nextCategory
    BY <1>1 DEF Hits, RowsHoldIssued, TablesTypeOK
  <2>2. CASE \E r \in Hits(e) : Found(p, e, r.cat)
    BY <1>11, <2>1, <2>2
  <2>3. CASE \E pc \in {"tag", "inbox"} : Move(p, pc)
    BY <1>10, <2>3
  <2> QED
    BY <1>14, <2>2, <2>3 DEF MatchRule, MatchRuleFails, NoRule
<1>15. ASSUME MatchTag(p, e) \/ MatchTagFails(p, e) PROVE LocalsHoldIssued'
  <2>1. \A id \in TaggedIds(e) : id \in Nat /\ id < nextCategory
    BY <1>5 DEF TaggedIds, IdsOf
  <2>2. CASE \E id \in TaggedIds(e) : Found(p, e, id)
    BY <1>11, <2>1, <2>2
  <2>3. CASE Move(p, "inbox")
    BY <1>10, <2>3
  <2> QED
    BY <1>15, <2>2, <2>3 DEF MatchTag, MatchTagFails
<1>16. ASSUME UseInbox(p, e) \/ UseInboxFails(p, e) PROVE LocalsHoldIssued'
  <2>1. InboxCategoryID \in Nat /\ InboxCategoryID < nextCategory
    BY <1>1, <1>5 DEF InboxCategoryID, HasSlug, IdsOf, Unfiled
  <2>2. Unfiled \in Nat /\ Unfiled < nextCategory
    BY <1>1 DEF Unfiled
  <2> QED
    BY <1>11, <1>16, <2>1, <2>2 DEF UseInbox, UseInboxFails
<1>17. ASSUME LookUpRetain(p, e) PROVE LocalsHoldIssued'
  <2>1. CASE Move(p, "save")
    BY <1>10, <2>1
  <2>2. ASSUME NEW c \in categories,
               filing' = [filing EXCEPT ![p].pc = "setDays", ![p].tagged = c.id]
        PROVE  LocalsHoldIssued'
    <3>1. filing' = [filing EXCEPT ![p] = [filing[p] EXCEPT !.pc = "setDays",
                                                            !.tagged = c.id]]
      BY <1>1, <1>9, <2>2 DEF TypeOK, Filings
    <3>2. [filing[p] EXCEPT !.pc = "setDays", !.tagged = c.id] \in Filings
      BY <1>5, <1>9 DEF Filings
    <3> QED
      BY <1>5, <1>7, <1>9, <3>1, <3>2 DEF Filings
  <2> QED
    BY <1>17, <2>1, <2>2 DEF LookUpRetain
<1>18. LocalsHoldIssued'
  BY <1>2, <1>10, <1>12, <1>13, <1>14, <1>15, <1>16, <1>17
     DEF SetRetainFromTag, SaveFiled, RetainFails, SaveFiledFails
<1> QED
  BY <1>4, <1>6, <1>18 DEF HeldInv

LEMMA HeldWizardry ==
    ASSUME InboxInv, HeldInv, Wizardry
    PROVE  HeldInv' /\ IdsFresh
<1>1. TypeOK /\ TablesTypeOK /\ RowsHoldIssued /\ LocalsHoldIssued /\ UNCHANGED <<edit, filing>>
      /\ nextCategory' \in Nat
  BY TypeWizardry DEF InboxInv, HeldInv, TypeOK, TablesTypeOK, Wizardry
<1>2. ASSUME IdsFresh, RowsHoldIssued' PROVE HeldInv' /\ IdsFresh
  BY <1>1, <1>2, LocalsStay DEF HeldInv, IdsFresh
<1>3. ASSUME IdsFresh, UNCHANGED <<rules, filed>> PROVE HeldInv' /\ IdsFresh
  BY <1>1, <1>2, <1>3, RowsStay DEF IdsFresh
<1>4. ASSUME NEW w \in Wizards, ClearDefault(w) PROVE HeldInv' /\ IdsFresh
  BY <1>1, <1>2, <1>4, DeleteFresh, DeleteRowsHold DEF ClearDefault
<1>5. ASSUME NEW w \in Wizards, EnsureInbox(w) \/ InsertChosen(w) PROVE HeldInv' /\ IdsFresh
  <2>1. IdsFresh /\ UNCHANGED <<rules, filed>>
    BY <1>1, <1>5, InsertFresh DEF EnsureInbox, InsertChosen, InsertCategory
  <2> QED
    BY <1>3, <2>1
<1>6. ASSUME \/ \E w \in Wizards, choice \in Choices : BeginSetup(w, choice)
             \/ \E w \in Wizards : FinishSetup(w) \/ SetupFails(w)
             \/ ResetSetup
      PROVE  HeldInv' /\ IdsFresh
  <2>1. UNCHANGED tables
    BY <1>6 DEF BeginSetup, FinishSetup, SetupFails, ResetSetup
  <2> QED
    BY <1>1, <1>3, <2>1, SameFresh DEF tables
<1> QED
  BY <1>4, <1>5, <1>6 DEF Wizardry, SetupStep

LEMMA HeldStop ==
    ASSUME InboxInv, HeldInv, Stop
    PROVE  HeldInv' /\ IdsFresh
<1>1. TypeOK /\ TablesTypeOK /\ nextCategory \in Nat \ {0} /\ RowsHoldIssued
  BY DEF InboxInv, HeldInv, TypeOK, TablesTypeOK
<1>2. UNCHANGED <<categories, nextCategory, rules>>
  BY RestartKeeps DEF InboxInv, Stop, Restart
<1>3. \A id \in InboxOf(Seeded) : id < nextCategory
  BY DEF InboxInv, TableOK, HasSlug, Seeded, InboxOf
<1>4. DOMAIN filed' = DOMAIN filed /\ \A e \in DOMAIN filed :
         filed'[e] \in InboxOf(Seeded) \cup {filed[e]}
  BY DEF Stop, Restart
<1>5. RowsHoldIssued'
  BY <1>1, <1>2, <1>3, <1>4 DEF RowsHoldIssued
<1>6. LocalsHoldIssued'
  BY <1>1, <1>2 DEF Stop, Restart, IdleEdit, IdleFiling, Unfiled, LocalsHoldIssued
<1> QED
  BY <1>1, <1>2, <1>5, <1>6, SameFresh DEF HeldInv

LEMMA HeldNext ==
    ASSUME InboxInv, HeldInv, [Next]_vars
    PROVE  HeldInv' /\ IdsFresh
<1>1. TypeOK /\ TablesTypeOK /\ RowsHoldIssued /\ LocalsHoldIssued /\ nextCategory \in Nat
  BY DEF InboxInv, HeldInv, TypeOK, TablesTypeOK
<1>2. CASE (\E u \in Admins : SettingsFail(u)) \/ UNCHANGED vars
  <2>1. UNCHANGED <<categories, nextCategory, rules, filed, filing>>
    BY <1>2 DEF SettingsFail, EditFails, vars, categoryVars, tables
  <2>2. \A u \in Admins : edit'[u] = IdleEdit \/ edit'[u] = edit[u]
    BY <1>1, <1>2 DEF SettingsFail, EditFails, EndEdit, vars, categoryVars, TypeOK
  <2>3. RowsHoldIssued' /\ LocalsHoldIssued'
    BY <1>1, <2>1, <2>2, RowsStay, LocalsStay
  <2> QED
    BY <1>1, <2>1, <2>3, SameFresh DEF HeldInv
<1> QED
  BY <1>2, HeldSettings, HeldFiling, HeldWizardry, HeldStop DEF Next

\* An id that an email, a rule, a run or a request still holds after its
\* category was deleted never comes to mean another category, with foreign keys
\* or without (db.go:71, email.go:172).
THEOREM NoAdoptionAlways == Spec => NoAdoption
<1>1. Init => HeldInv
  <2> SUFFICES ASSUME Init PROVE HeldInv
    OBVIOUS
  <2>1. nextCategory \in Nat \ {0}
    BY TypeInit DEF TypeOK, TablesTypeOK
  <2>2. RowsHoldIssued
    BY DEF Init, CategoriesInit, RowsHoldIssued
  <2>3. LocalsHoldIssued
    BY <2>1 DEF Init, CategoriesInit, FilingInit, IdleEdit, IdleFiling, Unfiled,
                LocalsHoldIssued
  <2> QED
    BY <2>2, <2>3 DEF HeldInv
<1>2. InboxInv /\ HeldInv /\ [Next]_vars => HeldInv'
  BY HeldNext
<1>3. InboxInv /\ HeldInv /\ [Next]_vars =>
         [\A id \in HeldIds : id \in CategoryIds' => id \in CategoryIds]_vars
  <2> SUFFICES ASSUME InboxInv, HeldInv, [Next]_vars,
                      NEW id \in HeldIds, id \in CategoryIds'
               PROVE  id \in CategoryIds
    OBVIOUS
  <2>1. nextCategory \in Nat
    BY DEF InboxInv, TypeOK, TablesTypeOK
  <2>2. id < nextCategory
    <3>1. \/ \E e \in DOMAIN filed : id = filed[e]
          \/ \E r \in rules : id = r.cat
          \/ \E p \in Pollers : id = filing[p].cat \/ id = filing[p].tagged
          \/ \E u \in Admins : id = edit[u].id
      BY DEF HeldIds
    <3> QED
      BY <3>1 DEF HeldInv, RowsHoldIssued, LocalsHoldIssued
  <2>3. PICK c \in categories' : c.id = id
    BY DEF CategoryIds
  <2>4. c.id \in CategoryIds \/ nextCategory <= c.id
    BY HeldNext DEF IdsFresh
  <2>5. c.id \in Nat
    BY InvNext DEF InboxInv, TableOK, Rows
  <2> QED
    BY <2>1, <2>2, <2>3, <2>4, <2>5
<1> QED
  BY <1>1, <1>2, <1>3, InboxInvAlways, PTL DEF Spec, NoAdoption
=============================================================================
