----------------------------- MODULE Catalogue -----------------------------
(***************************************************************************)
(* Categories as a whole: runs of Poll file emails while users edit the    *)
(* categories, the setup wizard deletes and inserts them, statements fail  *)
(* and the process stops.                                                  *)
(***************************************************************************)
EXTENDS Filing, Setup

CONSTANT MaxStops       \* bound: how many times the process stops

ASSUME StopsAssumption == MaxStops \in Nat

VARIABLE stops          \* stops so far

vars == <<categoryVars, filing, setupVars, faults, stops>>

Init == CategoriesInit /\ FilingInit /\ SetupInit /\ FailureInit /\ stops = 0

Settings == SettingsStep /\ UNCHANGED <<filing, setupVars, faults, stops>>

SettingsFail(u) == EditFails(u) /\ UNCHANGED <<filing, setupVars, stops>>

File(p) == FilingStep(p) /\ UNCHANGED <<setupVars, stops>>

FileFails(p) == FilingFailure(p) /\ UNCHANGED <<setupVars, stops>>

Wizardry == SetupStep /\ UNCHANGED <<edit, filing, stops>>

\* The process stops, at any point of any request, and starts again.
Stop ==
    /\ stops < MaxStops
    /\ stops' = stops + 1
    /\ Restart
    /\ filing' = [p \in Pollers |-> IdleFiling]
    /\ wizard' = [w \in Wizards |-> IdleWizard]
    /\ UNCHANGED <<setupDone, faults>>

Next ==
    \/ Settings
    \/ \E u \in Admins : SettingsFail(u)
    \/ \E p \in Pollers : File(p) \/ FileFails(p)
    \/ Wizardry
    \/ Stop

Spec == Init /\ [][Next]_vars

\* A run of Poll that nothing fails goes on, and the loop starts the next one.
FairSpec == Spec /\ \A p \in Pollers : WF_vars(File(p))

----------------------------------------------------------------------------
(* Types.                                                                  *)

Rows == [id : Nat \ {0}, slug : Slug, days : Nat]

Edits == [pc : {"idle", "delete", "rename"}, id : Nat, slug : Slug]

Filings ==
    [pc : {"idle", "rules", "tag", "inbox", "retain", "setDays", "save"},
     email : SUBSET Email, cat : Nat, tagged : Nat]

WizardStates ==
    [pc : {"idle", "clear", "inbox", "insert", "done"},
     clear : Seq(Slug), chosen : Seq(Slug)]

TablesTypeOK ==
    /\ categories \subseteq Rows
    /\ rules \subseteq [id : Nat, cat : Nat, word : Word]
    /\ nextCategory \in Nat \ {0} /\ nextRule \in Nat
    /\ DOMAIN filed \subseteq Email /\ \A e \in DOMAIN filed : filed[e] \in Nat

\* Every variable has its type.
TypeOK ==
    /\ TablesTypeOK
    /\ edit \in [Admins -> Edits]
    /\ filing \in [Pollers -> Filings]
    /\ setupDone \in BOOLEAN
    /\ wizard \in [Wizards -> WizardStates]
    /\ requests \in Nat /\ stops \in Nat /\ faults \in Nat

----------------------------------------------------------------------------
(* Safety.                                                                 *)

\* There is an inbox at every moment: no interleaving of look-ups, deletions
\* and renamings, no wizard, failure or stop removes it ("Inbox is the
\* permanent fallback category", settings.go:324, handler.go:268).
InboxKept == HasSlug(Inbox)

\* A restart changes no category: as the inbox is always there, the migration
\* never finds the table empty, so deleted default categories stay deleted
\* ("Inbox only", db.go:121).
RestartKeepsCategories == [][Stop => UNCHANGED categories]_vars

\* The ids of categories that are kept somewhere: with emails and rules, where
\* they stay when their category is deleted, and with the runs and requests that
\* are past their look-up.
HeldIds ==
    {filed[e] : e \in DOMAIN filed} \cup {r.cat : r \in rules}
    \cup {filing[p].cat : p \in Pollers} \cup {filing[p].tagged : p \in Pollers}
    \cup {edit[u].id : u \in Admins}

\* No new category takes over what another one left behind: an id that is held
\* and means no category never comes to mean one.  Emails of a deleted category
\* do not turn up in another (and do not expire with it), its rules do not file
\* mail there, and a request that was under way does not delete or rename it.
\* Nothing clears those ids, as foreign keys are off (db.go:71, email.go:172,
\* settings.go:364, 376, poller.go:332).
NoAdoption ==
    [][\A id \in HeldIds : id \in CategoryIds' => id \in CategoryIds]_vars

\* An email whose subject names a category that exists is filed there when
\* nobody edits anything (help.html:133-137: the tag comes before the rules;
\* README.md:172: a tag with days names a category too).
TagObeyed ==
    \A e \in DOMAIN filed :
        HasSlug(Subject[e].tag) => filed[e] \in IdsOf(Subject[e].tag)

----------------------------------------------------------------------------
(* Liveness.                                                               *)

\* Every email is stored in the end, whatever becomes of the categories, rules
\* and tags that name them while it is being filed, and whatever fails.
EventuallyFiled == \A e \in Email : <>(e \in DOMAIN filed)
=============================================================================
