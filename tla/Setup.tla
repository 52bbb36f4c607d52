------------------------------- MODULE Setup -------------------------------
(***************************************************************************)
(* The last step of the setup wizard (handler.go:258-300 and 306-329): it  *)
(* checks setup_done, deletes the default categories but the inbox, makes  *)
(* sure of the inbox, inserts those the user chose and sets setup_done -   *)
(* one statement after the other, with no transaction, while other         *)
(* requests, another wizard among them, and the poller run.                *)
(*                                                                         *)
(* Values of the form that name no default category are skipped by the     *)
(* code, as is the inbox, so a choice holds only the others.               *)
(***************************************************************************)
EXTENDS Categories

CONSTANTS
    Wizards,            \* goroutines that serve the wizard
    Choices             \* lists of default categories a user may choose; none is "Inbox only"

ASSUME SetupAssumption ==
    Choices \subseteq Seq(Slug) /\ Len(DefaultSlugs) > 1

VARIABLES
    setupDone,          \* the setting setup_done
    wizard              \* the local state of each request

setupVars == <<setupDone, wizard>>

IdleWizard == [pc |-> "idle", clear |-> << >>, chosen |-> << >>]

SetupInit ==
    /\ setupDone = FALSE
    /\ wizard = [w \in Wizards |-> IdleWizard]

OtherDefaults == Tail(DefaultSlugs)

\* From here on setup_done is not looked at again.  An error of the one look is
\* discarded: the wizard then runs on a program that is set up.
BeginSetup(w, choice) ==
    /\ wizard[w].pc = "idle"
    /\ (~setupDone /\ UNCHANGED faults) \/ Fails("setup")
    /\ wizard' = [wizard EXCEPT ![w] = [pc |-> "clear", clear |-> OtherDefaults,
                                        chosen |-> choice]]
    /\ UNCHANGED <<tables, setupDone, requests>>

\* What follows a statement, done or failed: an error is logged, no more.
AfterClear(w) ==
    wizard' = [wizard EXCEPT
                 ![w].clear = Tail(@),
                 ![w].pc = IF Len(wizard[w].clear) = 1 THEN "inbox" ELSE "clear"]

AfterInbox(w) ==
    wizard' = [wizard EXCEPT ![w].pc = IF wizard[w].chosen = << >> THEN "done" ELSE "insert"]

AfterInsert(w) ==
    wizard' = [wizard EXCEPT
                 ![w].chosen = Tail(@),
                 ![w].pc = IF Len(wizard[w].chosen) = 1 THEN "done" ELSE "insert"]

ClearDefault(w) ==
    /\ wizard[w].pc = "clear"
    /\ DeleteRows(IdsOf(Head(wizard[w].clear)))
    /\ AfterClear(w)
    /\ UNCHANGED <<setupDone, requests, faults>>

EnsureInbox(w) ==
    /\ wizard[w].pc = "inbox"
    /\ InsertCategory(Inbox)
    /\ AfterInbox(w)
    /\ UNCHANGED <<setupDone, requests, faults>>

InsertChosen(w) ==
    /\ wizard[w].pc = "insert"
    /\ InsertCategory(Head(wizard[w].chosen))
    /\ AfterInsert(w)
    /\ UNCHANGED <<setupDone, requests, faults>>

FinishSetup(w) ==
    /\ wizard[w].pc = "done"
    /\ setupDone' = TRUE
    /\ wizard' = [wizard EXCEPT ![w] = IdleWizard]
    /\ UNCHANGED <<tables, requests, faults>>

SetupFails(w) ==
    /\ \/ wizard[w].pc = "clear" /\ AfterClear(w)
       \/ wizard[w].pc = "inbox" /\ AfterInbox(w)
       \/ wizard[w].pc = "insert" /\ AfterInsert(w)
       \/ wizard[w].pc = "done" /\ wizard' = [wizard EXCEPT ![w] = IdleWizard]
    /\ Fails("setup")
    /\ UNCHANGED <<tables, setupDone, requests>>

\* "Re-run setup" of the settings page.
ResetSetup ==
    /\ Request
    /\ setupDone' = FALSE
    /\ UNCHANGED <<tables, wizard, faults>>

SetupStep ==
    \/ \E w \in Wizards : \E choice \in Choices : BeginSetup(w, choice)
    \/ \E w \in Wizards :
          ClearDefault(w) \/ EnsureInbox(w) \/ InsertChosen(w) \/ FinishSetup(w)
          \/ SetupFails(w)
    \/ ResetSetup
=============================================================================
