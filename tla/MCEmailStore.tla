---------------------------- MODULE MCEmailStore ----------------------------
(* Instances of EmailStore for TLC. *)
EXTENDS EmailStore, TLC

CONSTANTS h1, h2, amy, eve, token

Pdf == [name |-> "a.pdf", size |-> 1]

Letter(header, sender, atts) ==
    [header |-> header, sender |-> sender, subject |-> "s", token |-> NoToken,
     envelope |-> TRUE, parses |-> TRUE, attachments |-> atts]

Relaxed == {DefaultPolicy}

Interchangeable == Permutations(Pollers)

FiveMessages == 1 .. 5

\* Two copies of one email, one from a sender who is not allowed, one whose
\* body does not parse and one without an envelope.
MailKinds ==
    1 :> Letter(h1, amy, <<Pdf>>) @@ 2 :> Letter(h1, amy, << >>) @@
    3 :> Letter(h2, eve, << >>) @@
    4 :> [Letter(h2, amy, << >>) EXCEPT !.parses = FALSE] @@
    5 :> [Letter(NoHeader, eve, << >>) EXCEPT !.envelope = FALSE]

Two == 1 .. 2

\* An email with two attachments of the same name, and one with a further one.
MailWithAttachments ==
    1 :> Letter(h1, amy, <<Pdf, Pdf>>) @@ 2 :> Letter(h2, amy, <<Pdf>>)

\* Two copies of one email, each with its attachment.
MailTwice ==
    1 :> Letter(h1, amy, <<Pdf>>) @@ 2 :> Letter(h1, amy, <<Pdf>>)

\* An email, then two copies of another, each with its attachment.
MailThenTwice ==
    1 :> Letter(h1, amy, << >>) @@ 2 :> Letter(h2, amy, <<Pdf>>) @@
    3 :> Letter(h2, amy, <<Pdf>>)

\* A sender who is not allowed may send with the token of the policy.
Balanced ==
    {[DefaultPolicy EXCEPT !.mode = "balanced", !.tokenRequired = TRUE,
                           !.tokens = {token}, !.maxAttachments = 2]}

Huge == [name |-> "b.pdf", size |-> 9]

\* An email whose first two attachments within the limits share their name, an
\* email that the token admits, and a copy of it that lacks the token.
MailMixed ==
    1 :> Letter(h1, amy, <<Pdf, Huge, Pdf, Pdf>>) @@
    2 :> [Letter(h2, eve, <<Pdf>>) EXCEPT !.token = token] @@
    3 :> Letter(h2, eve, <<Pdf>>)

Three == 1 .. 3
=============================================================================
