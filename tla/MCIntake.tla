------------------------------ MODULE MCIntake ------------------------------
(* Instances of Intake for TLC. *)
EXTENDS Intake, TLC

CONSTANTS v4, v6, token, imap, me

\* The database has had these forms saved: a loose policy that lets only v4 in,
\* over STARTTLS.
Loose ==
    [mode |-> "anything", require |-> TRUE, location |-> "subject", tokens |-> Blank,
     maxEmail |-> 20, maxAttachments |-> 7, maxAttach |-> Invalid,
     subnets |-> {v4}, disableIPv6 |-> FALSE]

OverStartTLS == [host |-> imap, user |-> me, mode |-> "starttls"]

Apply(w, table) == [table EXCEPT ![w.key] = w.value]

Installed ==
    FoldRight(Apply, PolicyWrites(Loose) \o FilterWrites(Loose) \o MailboxWrites(OverStartTLS),
              NoSettings)

Tables == {NoSettings, Installed}

\* A tight policy that shuts IPv6 out, with 0 attachments and a blank limit.
Tight ==
    [mode |-> "strict", require |-> TRUE, location |-> "header", tokens |-> {token},
     maxEmail |-> Blank, maxAttachments |-> 0, maxAttach |-> 8,
     subnets |-> {v4, v6}, disableIPv6 |-> TRUE]

\* One with an error in its subnets.
Wrong == [Tight EXCEPT !.mode = "balanced", !.require = FALSE, !.subnets = Invalid]

OverTLS == [host |-> imap, user |-> me, mode |-> "tls"]

\* One key of each kind: a choice, a box, a list and a number.
OneOfEachKind == <<"mode", "require_token", "tokens", "max_attachments">>

PolicyChoices == {Tight, Wrong}
MailboxChoices == {OverTLS, OverStartTLS}
=============================================================================
