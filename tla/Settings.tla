------------------------------ MODULE Settings ------------------------------
(***************************************************************************)
(* The settings of the mail intake: the table settings as far as the poll  *)
(* loop and the IP filter read it, and what the forms of the settings      *)
(* pages write into it (internal/db/settings.go, handler/settings.go).     *)
(*                                                                         *)
(* A form is saved by one SettingSet for each key, one after the other,    *)
(* with no transaction; it is modelled by the sequence of its writes.  The *)
(* mailbox step of the setup wizard (handler.go:242-256) writes the same   *)
(* keys in the same order as the mailbox form, but leaves them alone when  *)
(* the host is blank, and to it an unknown mode is "plain".  Keys that     *)
(* only go into the dialled address, the login, the log or the length of   *)
(* the sleep (port, password, debug, poll interval) are left out.          *)
(***************************************************************************)
EXTENDS Validator, SequencesExt

CONSTANTS
    Blank,              \* the empty string: a key that is not set reads like it
    Invalid,            \* a text that does not parse
    Tokens,             \* the tokens that may be set
    PolicyForms,        \* what users submit on the security policy page
    MailboxForms,       \* and on the mailbox page
    Stored,             \* the tables that the process may find when it starts
    PolicyKeys          \* bound: the keys of the policy, in the order in which they
                        \* are written and read; all seven in the program

ChoiceKeys == {"mode", "token_location"}
LimitKeys == {"max_email_mb", "max_attachments", "max_attach_mb"}

ASSUME PolicyKeysAssumption ==
    /\ PolicyKeys \in Seq(ChoiceKeys \cup LimitKeys \cup {"require_token", "tokens"})
    /\ PolicyKeys # << >> /\ IsInjective(PolicyKeys)

FilterKeys == {"allowed_subnets", "disable_ipv6"}

MailboxKeys == <<"host", "user", "tls", "starttls">>

Keys == ToSet(PolicyKeys) \cup FilterKeys \cup ToSet(MailboxKeys)

Numbers == Int \cup {Blank, Invalid}
TokenLists == {Blank} \cup SUBSET Tokens

ASSUME TextAssumption ==
    Blank \notin Int \cup BOOLEAN \cup Modes \cup TokenLocations /\ Invalid \notin Int

ASSUME FormsAssumption ==
    \A f \in PolicyForms :
        /\ f.require \in BOOLEAN /\ f.tokens \in TokenLists
        /\ {f.maxEmail, f.maxAttachments, f.maxAttach} \subseteq Numbers

VARIABLE settings       \* the table: the value of each key

\* A new database.
NoSettings == [k \in Keys |-> Blank]

SettingsInit == settings \in Stored

\* What is stored for a key of the policy: any text for a choice, ignored when
\* it is none of them.
TypedValue(key, value) ==
    /\ key \in LimitKeys => value \in Numbers
    /\ key = "require_token" => value \in BOOLEAN \cup {Blank}
    /\ key = "tokens" => value \in TokenLists

Typed(table) == \A key \in ToSet(PolicyKeys) : TypedValue(key, table[key])

ASSUME StoredAssumption == \A table \in Stored : DOMAIN table = Keys /\ Typed(table)

Write(key, value) == [key |-> key, value |-> value]

Unusable(n) == n \in {Blank, Invalid}

\* A size that is blank, no number or not positive becomes the default.
PositiveOr(default, n) == IF Unusable(n) \/ n <= 0 THEN default ELSE n

\* A number of attachments may be 0.
NaturalOr(default, n) == IF Unusable(n) \/ n < 0 THEN default ELSE n

\* What the form stores for a key of the policy.
PolicyValue(f, key) ==
    CASE key = "mode" -> IF f.mode \in Modes THEN f.mode ELSE "relaxed"
      [] key = "require_token" -> f.require
      [] key = "token_location" ->
            IF f.location \in TokenLocations THEN f.location ELSE "subject"
      [] key = "tokens" -> f.tokens
      [] key = "max_email_mb" -> PositiveOr(10, f.maxEmail)
      [] key = "max_attachments" -> NaturalOr(5, f.maxAttachments)
      [] key = "max_attach_mb" -> PositiveOr(5, f.maxAttach)

\* Mutant: an unchecked box is not written.
PolicyWritesChecked(f) ==
    LET written(key) == key # "require_token" \/ f.require
        keys         == SelectSeq(PolicyKeys, written)
    IN  [i \in DOMAIN keys |-> Write(keys[i], PolicyValue(f, keys[i]))]

\* The keys of the policy, every one of them in every save.
PolicyWrites(f) ==
    [i \in DOMAIN PolicyKeys |-> Write(PolicyKeys[i], PolicyValue(f, PolicyKeys[i]))]

\* Mutant: the two keys of the filter in the order in which they are read.
FilterWritesInReadOrder(f) ==
    IF f.subnets = Invalid THEN << >>
    ELSE <<Write("disable_ipv6", f.disableIPv6), Write("allowed_subnets", f.subnets)>>

\* The subnets are validated once the policy is saved: an error of the form
\* leaves the filter as it was and the policy changed.
FilterWrites(f) ==
    IF f.subnets = Invalid THEN << >>
    ELSE <<Write("allowed_subnets", f.subnets), Write("disable_ipv6", f.disableIPv6)>>

\* A mode that is unknown becomes TLS.
ModeOf(f) == IF f.mode \in {"starttls", "plain"} THEN f.mode ELSE "tls"

\* Mutant: the flag that goes is cleared before the one that comes is set.
MailboxWritesStartTLSFirst(f) ==
    <<Write("host", f.host), Write("user", f.user),
      Write("starttls", ModeOf(f) = "starttls"), Write("tls", ModeOf(f) = "tls")>>

\* The connection mode is kept in two keys.
MailboxWrites(f) ==
    <<Write("host", f.host), Write("user", f.user),
      Write("tls", ModeOf(f) = "tls"), Write("starttls", ModeOf(f) = "starttls")>>

FormWrites(f) ==
    IF f \in PolicyForms THEN PolicyWrites(f) \o FilterWrites(f) ELSE MailboxWrites(f)
=============================================================================
