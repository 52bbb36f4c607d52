---------------------------- MODULE MCCatalogue ----------------------------
(* Instances of Catalogue for TLC. *)
EXTENDS Catalogue, TLC

CONSTANTS inbox, work, misc, urgent, e1, e2

Seeds == <<inbox, work>>

InboxOnlyOrWork == {<< >>, <<work>>}

InboxOnly == {<< >>}

\* One email with a plain tag and a rule's word, one with a retention tag.
Subjects ==
    e1 :> [tag |-> work, days |-> 0, words |-> {urgent}] @@
    e2 :> [tag |-> inbox, days |-> 30, words |-> {}]

\* An email for the category "work", to be kept 30 days.
RetainWork == e1 :> [tag |-> work, days |-> 30, words |-> {}]
=============================================================================
