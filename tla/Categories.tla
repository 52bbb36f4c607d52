----------------------------- MODULE Categories -----------------------------
(***************************************************************************)
(* The categories and category_rules tables, the category of each stored   *)
(* email, and the settings page that edits them (handler/settings.go:289,  *)
(* handler.go:499).  One statement is one step; "delete" and "edit" look   *)
(* the category up first, and other requests run in between.               *)
(*                                                                         *)
(* A category's slug is made from its name, so equal names have equal      *)
(* slugs, and of the two UNIQUE columns only the slug is modelled.         *)
(***************************************************************************)
EXTENDS Integers, Sequences, FiniteSets, Failure

CONSTANTS
    Slug, Inbox,        \* slugs of categories, and the one of the protected category
    DefaultSlugs,       \* the slugs that the migrations seed, in order, Inbox first
    Word,               \* the patterns of rules
    Email,              \* the emails that may be stored
    Days,               \* retention periods; 0 keeps emails for ever
    Admins,             \* goroutines that serve the settings page
    MaxRequests,        \* bound on forms that users send
    ForeignKeys         \* TRUE iff SQLite enforces the REFERENCES clauses

ASSUME CategoriesAssumption ==
    /\ Inbox \in Slug
    /\ DefaultSlugs \in Seq(Slug) /\ DefaultSlugs # << >> /\ DefaultSlugs[1] = Inbox
    /\ \A i, j \in DOMAIN DefaultSlugs : DefaultSlugs[i] = DefaultSlugs[j] => i = j
    /\ Days \subseteq Nat /\ 0 \in Days
    /\ MaxRequests \in Nat

VARIABLES
    categories,         \* rows of the table: [id, slug, days]
    rules,              \* rows of category_rules: [id, cat, word]
    nextCategory,       \* the AUTOINCREMENT counters of the two tables
    nextRule,
    filed,              \* stored email -> its category_id, or Unfiled
    edit,               \* the local state of each request that edits a category
    requests            \* forms sent so far

tables == <<categories, rules, nextCategory, nextRule, filed>>
categoryVars == <<tables, edit, requests>>

Unfiled == 0            \* a NULL category_id

CategoryIds == {c.id : c \in categories}

HasSlug(slug) == \E c \in categories : c.slug = slug

\* The category with that slug, one at most: the column is UNIQUE.
IdsOf(slug) == {c.id : c \in {d \in categories : d.slug = slug}}

IdleEdit == [pc |-> "idle", id |-> 0, slug |-> Inbox]

\* A fresh database after migrate and main: the default categories, Inbox included.
CategoriesInit ==
    /\ categories = {[id |-> i, slug |-> DefaultSlugs[i], days |-> 0] :
                        i \in DOMAIN DefaultSlugs}
    /\ nextCategory = Len(DefaultSlugs) + 1
    /\ rules = {} /\ nextRule = 1
    /\ filed = << >>
    /\ edit = [u \in Admins |-> IdleEdit]
    /\ requests = 0

----------------------------------------------------------------------------
(* Statements.                                                             *)

\* Mutant: the key is no AUTOINCREMENT, so a new row gets the largest id plus one.
InsertCategoryReusing(slug) ==
    LET next == IF categories = {} THEN 1
                ELSE 1 + CHOOSE m \in CategoryIds : \A id \in CategoryIds : id <= m
    IN  /\ categories' = IF HasSlug(slug) THEN categories
                         ELSE categories \cup {[id |-> next, slug |-> slug, days |-> 0]}
        /\ nextCategory' = IF HasSlug(slug) \/ next < nextCategory
                           THEN nextCategory ELSE nextCategory + 1
        /\ UNCHANGED <<rules, nextRule, filed>>

\* INSERT OR IGNORE INTO categories
InsertCategory(slug) ==
    /\ IF HasSlug(slug)
       THEN UNCHANGED <<categories, nextCategory>>
       ELSE /\ categories' = categories \cup
                  {[id |-> nextCategory, slug |-> slug, days |-> 0]}
            /\ nextCategory' = nextCategory + 1
    /\ UNCHANGED <<rules, nextRule, filed>>

\* DELETE FROM categories, with ON DELETE CASCADE and ON DELETE SET NULL where
\* they are enforced; where they are not, emails and rules keep the id.
DeleteRows(gone) ==
    /\ categories' = {c \in categories : c.id \notin gone}
    /\ IF ForeignKeys
       THEN /\ rules' = {r \in rules : r.cat \notin gone}
            /\ filed' = [e \in DOMAIN filed |->
                            IF filed[e] \in gone THEN Unfiled ELSE filed[e]]
       ELSE UNCHANGED <<rules, filed>>
    /\ UNCHANGED <<nextCategory, nextRule>>

\* SetCategoryRetainDays, and the same UPDATE of the settings page.
SetDays(id, days) ==
    /\ categories' = {IF c.id = id THEN [c EXCEPT !.days = days] ELSE c :
                        c \in categories}
    /\ UNCHANGED <<rules, nextCategory, nextRule, filed>>

\* UPDATE of name and slug: an error when another category has the slug.
Rename(id, slug) ==
    /\ categories' = IF \E c \in categories : c.slug = slug /\ c.id # id
                     THEN categories
                     ELSE {IF c.id = id THEN [c EXCEPT !.slug = slug] ELSE c :
                             c \in categories}
    /\ UNCHANGED <<rules, nextCategory, nextRule, filed>>

\* A category_id that may be stored.
MayRefer(id) == ForeignKeys => id \in CategoryIds \cup {Unfiled}

----------------------------------------------------------------------------
(* Requests.  Ids come from forms, so their categories may be gone.        *)

FormIds == 1 .. nextCategory - 1

Request == requests < MaxRequests /\ requests' = requests + 1

AddCategory(slug) ==
    /\ Request
    /\ InsertCategory(slug)
    /\ UNCHANGED edit

AddRule(id, word) ==
    /\ Request
    /\ MayRefer(id)
    /\ rules' = rules \cup {[id |-> nextRule, cat |-> id, word |-> word]}
    /\ nextRule' = nextRule + 1
    /\ UNCHANGED <<categories, nextCategory, filed, edit>>

DeleteRule(r) ==
    /\ Request
    /\ rules' = rules \ {r}
    /\ UNCHANGED <<categories, nextCategory, nextRule, filed, edit>>

SetRetain(id, days) == Request /\ SetDays(id, days) /\ UNCHANGED edit

\* The category dropdown of an email.
SetCategory(e, id) ==
    /\ Request
    /\ MayRefer(id)
    /\ filed' = [filed EXCEPT ![e] = id]
    /\ UNCHANGED <<categories, rules, nextCategory, nextRule, edit>>

\* Mutant: the protection of the inbox is missing.
StartEditUnchecked(u, c, pc, slug) ==
    /\ Request
    /\ edit[u].pc = "idle"
    /\ edit' = [edit EXCEPT ![u] = [pc |-> pc, id |-> c.id, slug |-> slug]]
    /\ UNCHANGED tables

\* "delete" and "edit" read the slug; only a category that is there and is not
\* the inbox goes on.
StartEdit(u, c, pc, slug) ==
    /\ Request
    /\ edit[u].pc = "idle"
    /\ c.slug # Inbox
    /\ edit' = [edit EXCEPT ![u] = [pc |-> pc, id |-> c.id, slug |-> slug]]
    /\ UNCHANGED tables

EndEdit(u) == edit' = [edit EXCEPT ![u] = IdleEdit] /\ UNCHANGED requests

DeleteCategory(u) ==
    /\ edit[u].pc = "delete"
    /\ DeleteRows({edit[u].id})
    /\ EndEdit(u)

RenameCategory(u) ==
    /\ edit[u].pc = "rename"
    /\ Rename(edit[u].id, edit[u].slug)
    /\ EndEdit(u)

\* A statement of a request fails: it is logged, and nothing changes.
EditFails(u) ==
    /\ edit[u].pc # "idle"
    /\ Fails("settings")
    /\ EndEdit(u)
    /\ UNCHANGED tables

SettingsStep ==
    \/ \E slug \in Slug : AddCategory(slug)
    \/ \E id \in FormIds, word \in Word : AddRule(id, word)
    \/ \E r \in rules : DeleteRule(r)
    \/ \E id \in FormIds, days \in Days : SetRetain(id, days)
    \/ \E e \in DOMAIN filed, id \in FormIds : SetCategory(e, id)
    \/ \E u \in Admins : DeleteCategory(u) \/ RenameCategory(u)
    \/ \E u \in Admins, c \in categories :
          StartEdit(u, c, "delete", Inbox) \/ \E slug \in Slug : StartEdit(u, c, "rename", slug)

----------------------------------------------------------------------------
(* Start of the process: migrate (db.go:121-137), then main.go:62.         *)

\* Mutant: each default category that is missing is seeded.
SeededEachMissing ==
    categories \cup
        {[id |-> nextCategory + i - 1, slug |-> DefaultSlugs[i], days |-> 0] :
            i \in {j \in DOMAIN DefaultSlugs : ~HasSlug(DefaultSlugs[j])}}

\* The default categories, if there are no categories at all.
Seeded ==
    IF categories # {} THEN categories
    ELSE {[id |-> nextCategory + i - 1, slug |-> DefaultSlugs[i], days |-> 0] :
            i \in DOMAIN DefaultSlugs}

InboxOf(rows) == {c.id : c \in {d \in rows : d.slug = Inbox}}

\* Emails without a category move to the inbox; main makes sure there is one.
Restart ==
    LET counter == IF categories # {} THEN nextCategory
                   ELSE nextCategory + Len(DefaultSlugs)
        ids     == InboxOf(Seeded)
    IN  /\ categories' = IF ids # {} THEN Seeded
                         ELSE Seeded \cup {[id |-> counter, slug |-> Inbox, days |-> 0]}
        /\ nextCategory' = IF ids # {} THEN counter ELSE counter + 1
        /\ filed' = [e \in DOMAIN filed |->
                        IF filed[e] = Unfiled /\ ids # {}
                        THEN CHOOSE id \in ids : TRUE ELSE filed[e]]
        /\ edit' = [u \in Admins |-> IdleEdit]
        /\ UNCHANGED <<rules, nextRule, requests>>
=============================================================================
