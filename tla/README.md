# EmailStore in TLA+

EmailStore is a Go program that empties an IMAP mailbox into a local archive: a
poller fetches mail, a policy decides what is kept, SQLite holds the emails, the
disk holds the attachments, a web interface shows and deletes them, and a daily
sweep removes what has outlived its retention. This directory models the parts
of it that run concurrently or fail, checks them with TLC, and proves the most
important statements with TLAPS. Line numbers are those of the Go sources.

## 1. The system

| Component | State it keeps | Operations | Talks to |
|---|---|---|---|
| IMAP poller (`internal/imap/poller.go`) | nothing between runs; per run: policy, envelopes, candidates, UIDs to delete | `Poll` (two passes), `deleteMsgByUID`, `saveAttachment`, `StartPoller` | IMAP server, archive, policy settings, disk |
| Email archive (`internal/email/email.go`, `internal/db/db.go`) | tables `emails`, `attachments`; attachment files | `Exists`, `Save`, `SaveAttachment`, `Delete`, `GetAttachmentPaths` | called by poller, web handlers, sweep |
| Deletion and sweep (`handler.go:520`, `email.go:243`, `main.go:80`) | paths collected so far | `deleteEmail`, `DeleteExpiredEmails`, file removal | archive, disk |
| Email validation (`internal/security/validator.go`) | none | `ValidateEmail`, `ExtractToken` | called by the poller's first pass |
| Policy settings (`policy.go`, `settings.go:460`) | rows of `settings` | `LoadPolicy`, `settingsPolicyPost` | read by every run of `Poll` |
| Login, sessions, rate limiter (`auth.go`, `ratelimit.go`) | `sessions`, failed attempts per IP (memory) | `Login`, `RequireAuth`, `Allow`, `RecordFailure`, `Reset`, `cleanup` | web handlers |
| Password reset (`reset.go`, `handler/reset.go`) | one token (memory) | new, check, verify, cancel, consume | sessions, password |
| Setup wizard (`handler.go:152-329`) | `setup_done`, seeded categories | the wizard's steps, finish, reset | settings, categories |
| Categories (`email.go`, `settings.go:289`) | `categories`, `category_rules` | match, add, delete, retention | poller, sweep |
| IP filter (`ipfilter.go`) | none (reads settings) | allow or refuse a request | every request but `/healthz` |
| Pages, downloads, configuration, version | none | rendering, start-up | - |

### How the parts meet

* `POST /poll` (`handler.go:392`) runs `Poll` on its own goroutine, next to the
  background loop and to other such requests. Nothing serialises them.
* `database/sql` is limited to ONE connection (`db.go:17`): each statement is
  atomic, no two statements are, and `last_insert_rowid()` is shared by all
  goroutines, those that insert session rows included.
* A deletion reads the attachment paths, deletes the rows and then removes the
  files; the poller writes a file and then its row. They share a directory per
  email.
* The process may stop between any two of these steps. A regular shutdown is
  no different: `main` cancels a context that `Poll` never looks at.

### What is hard, and what has to be right

* **Poller and mailbox.** A message is destroyed on the server on the strength
  of something read earlier, over two passes, next to other runs, with a fallback
  (`EXPUNGE`) that removes whatever anybody flagged. It must not go before it is
  archived or refused; it must go in the end; what is refused must have been
  refused for a reason.
* **Archive.** An email must be complete, its attachments must be its own, what
  is listed must be on disk, what is deleted must stay deleted and leave nothing
  behind.
* **Access** (rate limiter, sessions, reset): counting under concurrent requests,
  expiry at the edges of the windows, sessions against a change of password.
* **Settings** (policy, setup, categories): several rows read and written one by
  one, without a transaction.

`PROJECT.json` lists each hazard at its line under "hazards".

## 2. The modules

| Module | Models | State | Actions |
|---|---|---|---|
| `Failure` | operations that return an error | `faults` | `Fails(op)`, a conjunct of failing actions |
| `Archive` | statements of `email.go`, file operations | `emails`, `attachments`, AUTOINCREMENT counters, `lastRowid`, `files`, `dirs`, `stamp` | one operator per statement or file operation |
| `Mailbox` | the IMAP server's INBOX (external) | `delivered`, `inbox`, `flagged` | `Deliver`, `StoreDeleted`, `UidExpunge`, `ExpungeAll` |
| `Validator` | `ValidateEmail` | - | operators only |
| `Poller` | `Poll` | `poll` (one record per concurrent run), `refused` | one action per statement, IMAP command or file operation, and one per way it fails |
| `Reaper` | `deleteEmail`, the sweep | `job`, `due`, `deletions` | the same for deletions |
| `EmailStore` | the whole: poller, reaper, arrivals, logins, stops | `crashes` | `Next`, `Spec`, `FairSpec`; all properties |
| `Delivery` | what EmailStore promises of the mailbox | `waiting`, `arrived`, `decided` | abstract specification |
| `MCEmailStore` | instances for TLC | - | - |
| `EmailStoreTypes`, `EmailStoreSafety`, `EmailStoreRefinement`, `EmailStoreFiles`, `EmailStoreSave` | proofs | - | - |
| `Categories` | categories, rules, the settings page, start-up repair | `categories`, `rules`, two counters, `filed` (the category of each stored email), `edit`, `requests` | one per statement of `settingsCategoriesPost` and `setCategory`; `Restart` |
| `Filing` | `MatchCategory`, the retention tag and `Save` inside `Poll` | `filing` (one record per run) | one per statement, one per way it fails |
| `Setup` | the categories step of the wizard, `setup_done` | `setupDone`, `wizard` (one record per request) | one per statement, `ResetSetup` |
| `Catalogue` | the three together, and stops | `stops` | `Next`, `Spec`, `FairSpec`; properties |
| `MCCatalogue` | instances for TLC | - | - |
| `CatalogueSafety` | proofs | - | - |
| `RateLimiter` | `auth/ratelimit.go` | `attempts` | `Allow`, `Refuse`, `RecordFailure`, `Reset`, `Cleanup`, one tick of the clock |
| `Accounts` | the password hash, `setup_done`, the table `sessions` | `password`, `setupDone`, `sessions` | one operator per statement of `auth.go` |
| `PasswordReset` | `auth/reset.go` | `tokens`, `issued` | one per function, one tick |
| `Access` | login, change of password, reset, the wizard's password step, pruners, restarts | `request` (one record per concurrent request) | one per critical section or statement; `Next`, `Spec`, `FairSpec`; properties |
| `MCAccess` | instances for TLC | - | - |
| `AccessSafety` | proofs | - | - |
| `Settings` | the policy and mailbox forms | `settings` | the sequence of writes of a form |
| `IPFilter` | `ipfilter.go` | - | the two checks of a request |
| `PollLoop` | `LoadConfig`, `LoadPolicy`, `StartPoller` | `loop` | `LoadConfig`, one per key read, the outcomes of a run, `Wake` |
| `Intake` | the three together: requests through the filter, forms saved key by key, the loop, faults, stops | `saver`, counters, history | `Next`, `Spec`, `FairSpec`; properties |
| `MCIntake` | instances for TLC | - | - |
| `IntakeSafety` | proofs | - | - |

`history` and `refused` are history variables: no action reads them, only
properties do. So are the fields `with` and `outlived` of a session, `settled`, `chosen`
and `torn` of `Intake`, the fields `clean`, `admitted` and `changes` of a request there, and
`failures` of the loop.

### Correspondence with the code

`poll[p].pc` is the place in `Poll` at which goroutine p is about to execute its
next statement, command or file operation:

| pc | next step | lines of poller.go |
|---|---|---|
| `idle` | load settings and policy, dial, log in | 124-166 |
| `select` | `SELECT INBOX` | 168-182 |
| `fetch` | `FETCH` of the envelopes | 184-206 |
| `triage` | one envelope: no envelope, duplicate, rejected, or candidate | 211-262 |
| `purge` | `UID STORE` for the next message to delete, or go on | 93-102, 266-268, 282 |
| `expunge`, `expungeAll` | `UID EXPUNGE`, and the fallback | 103-112 |
| `body` | `UID FETCH` of a candidate's body, and parsing | 284-331 |
| `save` | `email.Save` | 352-357 |
| `stat`, `write`, `record` | `saveAttachment`: directory, name and `Stat`; `WriteFile`; row | 529-551 |

An envelope's triage is one step although it makes two statements (`Exists`,
`IsAllowedSender`). Nothing another goroutine does between them matters: the
table of senders is constant in the model and nothing else is read. The same
goes for `MkdirAll` together with `Stat`: only the sweep's and the handler's
removal of files and directories could come between them, and a directory removed
after `MkdirAll` is modelled (`WriteWithoutDir`).

What is abstracted: a message is its UID, and `Mail` says what the properties
tell apart in it (Message-ID, sender, subject, token, attachments with names and
sizes, whether the server sends an envelope, whether the body parses). A file is
its path and whose content it holds, or `Torn`. Dates are absent: which emails are
past their retention is decided by `BecomeDue` and `Reprieve`, freely. Times are
absent but for `stamp`, the nanosecond stamp in a file name, taken to be different
each time. Sequence numbers are computed (`SeqNum`), since the generated
Message-ID contains one and since mistaking them for UIDs is the bug CHANGELOG.md:17
records.

`Catalogue` looks at the same runs of `Poll` from the other side: what matters
there is the category an email gets (`poller.go:332-357`), against users, wizards
and stops that change the categories between any two statements. `edit[u]` is a
request of the settings page between its look-up and its second statement
(`settings.go:319`, `settings.go:366`); requests of one statement are one step.
`wizard[w].clear` and `.chosen` are what the two loops of the wizard
(`handler.go:269`, `handler.go:283`) still have to do; "Inbox only" (`setupFinish`) is
the wizard with nothing chosen. `Restart` is `migrate` and `main`'s `INSERT OR IGNORE`.
Names and colours are left out: a slug is made from the name, so equal names have
equal slugs, and what the UNIQUE name refuses the UNIQUE slug refuses too. An email
stays in `filed` once it is stored; its deletion belongs to `Reaper`. The subject is
what `Subject` says of it: its tag, the days in the tag, the rule patterns it contains.

`Access` runs requests step by step. `request[r].pc` is the next critical section or statement
of the handler that request r is in:

| pc | next step | lines |
|---|---|---|
| `idle` | `Allow`; the session check of a settings page; `ConsumeResetToken`; the look at `setup_done` | handler.go:352, auth.go:110, handler/reset.go:74, handler.go:196 |
| `compare`, `open` | read the hash and compare; insert the session | auth.go:132-142 |
| `clear`, `failed` | `Reset`, `RecordFailure` | handler.go:363, 372 |
| `current`, `change` | read the hash and compare; write the new one | settings.go:49, 80 |
| `set`, `sweep` | write the new hash; delete all sessions | handler/reset.go:106, 109 |
| `setup` | the wizard writes the hash | handler.go:232-240 |

What a user typed is chosen where the code compares it, so every request is at once one that
knows the password and one that does not. A password stands for its hash. Time is `Tick`:
limiter, sessions and tokens age together. The minutes of the program become the ticks
`Window`, `LockFor`, `MaxLife` and `ResetTTL`; what matters of them is `LockFor > Window`.
The two statements of "Re-run setup" are one step; what comes between them is reached by its
variant in which the second fails. `VerifyResetByCode` has no caller in the program, though
its comment (`auth/reset.go:76`) says that the poller calls it: the model calls it, since
otherwise no reset gets any further and there is nothing to check.

`Intake` is about rows of `settings` that are written and read one by one. A form is the
sequence of its `SettingSet`s (`FormWrites`), the loop reads the
keys of `PolicyKeys` one after the other, and the filter reads two. Every read and every write is a step of its own. A list of subnets is the set of
addresses in it, a number is a number, or `Blank`, or `Invalid`; a setting that holds an
unknown choice or no number at all is read as `LoadPolicy` reads it (`Take`). The run of `Poll` itself is one step here:
it succeeds, fails or panics. `POST /poll` reads the same keys in the same way and then ends; it is
left out of `Intake` because nothing of it outlasts the run.

**Foreign keys.** `db.go:13` opens the database with `_fk=true`, the spelling of
another driver; the driver of `go.mod` (modernc.org/sqlite) ignores it. Whether
`ON DELETE CASCADE` is enforced is therefore the constant `ForeignKeys`. The
runs `archive`, `filing` and `tag` and the finding runs use FALSE, what this driver does; the run
`complete` uses TRUE, what the code means; the theorems about EmailStore and `Catalogue` hold for
both. A category that is deleted thus leaves its id behind, in emails, rules and requests under
way, and nothing repairs it: the start-up UPDATE (`db.go:133`) looks for emails without an id.
What holds of these ids is `NoAdoption`.

## 3. The runs

The runs `filing` and `tag` are instances of `MCCatalogue`, `access` of `MCAccess`, `intake` of
`MCIntake`, all others of `MCEmailStore`. Bounds are constants: `MaxArrivals`,
`MaxDeletions`, `MaxFaults`, `MaxCrashes`, and `MaxEmailsPerRun` (50 in the code); `SessionIds` and
`MaxTokens` in `Access`; `MaxSaves`, `MaxFaults`, `MaxStops` in `Intake`,
where `PolicyKeys` names the policy keys that are followed, in the order of `LoadPolicy`; the program's are seven.

| Run | Specification | Instance | Checks |
|---|---|---|---|
| `poll` | `Spec` | two runs of `Poll`; any two of five kinds of message (two copies of one email, a sender who is not allowed, a body that does not parse, no envelope); one failure of any operation; one stop | `TypeOK`, `NoMailLost`, `FlaggedSafe`, `SaveNeverLooksUp`, `ImplementsDelivery` |
| `archive` | `Spec` | one run of `Poll`, one delete request, the sweep, a login; two copies of one email with an attachment; one failure of a file or database operation or of `UID EXPUNGE`; foreign keys off | `ListedAttachmentOnDisk`, `NeverArchivedAgain` |
| `complete` | `FairSpec` | one poller; three messages, the first with four attachments of which three fit, two of them kept, both of one name; balanced policy with a token; a user who deletes; two failures | `ArchivedInFull`, `AttachmentOwner`, `RefusedForCause`, `EveryMessageLeaves` |
| `owner`, `stop`, `sender`, `comeback`, `stray` | `Spec` | see section 5 | one property each, violated |
| `filing` | `FairSpec` | one run of `Poll`, two emails (a plain tag together with a rule's word; a tag with days); three slugs, of which two are seeded; one settings page, one wizard that chooses "Inbox only" or the other default; two requests, one failure of any statement, one stop; foreign keys off | `TypeOK`, `InboxKept`, `RestartKeepsCategories`, `NoAdoption`, `EventuallyFiled` |
| `tag` | `Spec` | one email with a tag with days, nothing else happening | `TagObeyed`, violated |
| `access` | `FairSpec` | two requests, one address, two passwords, one session row at a time; three failures lock, a window of one tick, a lock of two; two tokens that live one tick; any statement may fail, restarts at any time | `TypeOK`, `FailuresBounded`, `FullMeansLocked`, `OldPasswordClosed`, `LockKept`, `ResetSpendsNewest`, `LockEnds` |
| `intake` | `FairSpec` | two forms of four (two policies, one of them with an error in its subnets; two mailbox modes), from an IPv4 or an IPv6 address, on a new database or one with a loose policy and STARTTLS; four of the seven policy keys; one statement fails, one stop, a panic; waits of 1, 2, 3 | `TypeOK`, `EncryptionKept`, `BackoffSchedule`, `PolicyAsSaved`, `AdmittedAtOnce`, `PolicyTakesEffect` |

**Why these bounds are enough to meet the cases.** Two runs of `Poll` is the
smallest number at which a run meets another's flags, expunges and inserts; two
messages is the smallest at which a plain `EXPUNGE` can remove a message other
than one's own and at which sequence numbers shift. One failure together with one
stop reaches "STORE succeeded, EXPUNGE did not, the process stopped, another run
expunges". `MaxEmailsPerRun` is 2 with up to 3 messages, so a run does leave messages
behind. In `complete`, two attachments share a name, so the time-stamped name is
taken, and one message is admitted by its token alone, of a pair of copies of which the other is
refused: `AttachmentOwner` holds there because no insert meets a conflict. In `poll`, the runs of
`Poll` are interchangeable and no temporal property other than a safety property is
checked, so symmetry is sound there.

In `filing`, two requests are what it takes to delete or rename a category between the
look-up and the use of another actor, or to add a rule and delete its category; the
wizard and its re-run ("Re-run setup" is a request) come on top. One stop falls into every gap
of the wizard.

In `access`, two requests are what it takes for one to pass `Allow` while another compares, and for
a login to straddle a reset. With three failures to a lock, two requests can raise the count
beyond it; a lock of two ticks outlives a window of one, so every order of "window over", "lock
over" and "late failure" occurs. Two tokens give an older one. One session row at a time is enough because
`OldPasswordClosed` speaks of one row, and a row that is deleted makes room for the next. Addresses share
nothing but the clock, so one stands for all; the theorems hold for any number.

In `intake`, two forms are a change during another change, during a load, or during a check. The
policy form writes a choice, a box, a list and three numbers; one key of each kind is tracked
(`OneOfEachKind`), the other three are treated like one of these. Doubling from 1
with a limit of 3 has a step that doubles and a step that is cut.

**Fairness.** `EmailStore!FairSpec` assumes weak fairness of the steps of each run of `Poll`,
and of nothing else. `StartPoller` (`poller.go:377`) calls `Poll` again and again,
so a run always begins once the previous one has ended; inside a run, every step
follows the previous one unless something fails. It is thus assumed that IMAP
commands return (the code sets no timeout, see the hazards) and that `Poll` does not
panic. Failing steps, stops, users and the sweep are not fair. Failures are bounded by
`MaxFaults`, so `EveryMessageLeaves` says: once operations stop failing, every
message leaves the server.

`Catalogue!FairSpec` assumes the same of the steps with which a run files an email,
and of nothing else. `EventuallyFiled` thus says: once users stop sending forms and
statements stop failing, every email is stored, whatever was deleted meanwhile.

`Access!FairSpec` assumes that time goes on, and nothing about requests: `LockEnds` holds even if no
request that is under way ever ends. `Intake!FairSpec` assumes weak fairness of the steps of the
poll loop: reading, running, waiting. As in `EmailStore` this supposes that a run of `Poll`
returns; that it may panic instead, after which nothing starts the loop again, is in the model.

**Deadlock** is checked in every run of `MCEmailStore`, where a poller can always begin a
run, and in `access`, where time always goes on. The two of `MCCatalogue` switch it off: the model ends once all
emails are stored and the bounds on requests, faults and stops are used up. So does `intake`: once the loop
has panicked and the bounds are used up, nothing happens any more.

## 4. The properties

Mailbox:

* `NoMailLost` - a message with a Message-ID has left the mailbox only if it was
  refused or its Message-ID was archived. A message without one may be lost: its
  generated id contains its sequence number (`poller.go:230`), so it can pass for
  an earlier message with the same sender and subject.
* `FlaggedSafe` - nothing undecided carries `\Deleted`, at any moment: the
  condition under which the fallback `EXPUNGE` is harmless.
* `ImplementsDelivery` - with `waiting <- inbox`, `arrived <- delivered` and
  `decided <- ` the refused or archived messages, EmailStore implements `Delivery`: a
  message arrives once, is decided, and is discarded only then; no decision is ever
  taken back, though users and the sweep delete emails.
* `EveryMessageLeaves` - liveness, see above.
* `RefusedForCause` - a refused message is unreadable or is rejected by the
  policy with its sender's real standing.

Archive:

* `ListedAttachmentOnDisk` - the attachments of an existing email have their files,
  also in the middle of a deletion, a sweep or a save.
* `ArchivedInFull` - when no run of `Poll` is in progress, each archived email has every
  attachment the policy keeps, each in a file with its own content.
* `SaveNeverLooksUp` - the fallback of `Save` for a row id of 0 is dead code: a
  conflict can only be with an email that was inserted over this same connection.
* `AttachmentOwner`, `NeverArchivedAgain` - do not hold in general, section 5. The runs `complete` and `archive` check
  them where nothing of section 5 happens, and section 6 says what exactly they need.
* `TidyAtRest` - does not hold, section 5.

Categories:

* `InboxKept` - there is an inbox at every moment, though the page that protects it
  looks it up in one statement and deletes or renames in another.
* `RestartKeepsCategories` - a start changes no category: the default ones are never
  seeded a second time, whatever a stop interrupted.
* `NoAdoption` - the id of a deleted category never comes to mean another one while anything still holds it: a stored
  email, a rule, or a run or a request past its look-up. It rests on AUTOINCREMENT and on every id being one that was read; emails of
  a deleted category neither turn up in another nor expire with it, and its rules file nothing there.
* `EventuallyFiled` - liveness: whatever becomes of the categories, rules and tags an email names, it is stored.
* `TagObeyed` - does not hold, section 5.

Access:

* `FailuresBounded` - an address has fewer than `MaxAttempts` failures plus the number of requests,
  those under way counted: what the gap between `Allow` and `RecordFailure` costs, exactly.
* `FullMeansLocked` - an entry with `MaxAttempts` failures is locked or out of its window. The window
  starts with the first failure and the lock with the last, so this rests on `LockFor > Window`; the last test of
  `Allow` (`ratelimit.go:57`) never decides.
* `LockKept` - a lock is not shortened by clean-up, by the end of the window or by other addresses.
* `LockEnds` - liveness: a refused request does not extend a lock.
* `ResetSpendsNewest` - a password is set by mail only with the newest token, verified, and no token is left.
* `OldPasswordClosed` - after a reset no session of an old password remains, with the exceptions
  the code leaves open, which the definition lists: a failed statement or a stop inside the reset,
  a login that had read the old hash, and the two other ways to change a password.

Intake:

* `PolicyAsSaved` - the policy a run works with is one that was saved as a whole, unless a write fell between its reads, a
  read failed, or the save itself was disturbed. That all keys are written in every save is what it rests on.
* `EncryptionKept` - a mailbox saved with an encrypted mode (`chosen`) is not dialled in plain while the next form is being
  saved, unless that form is for STARTTLS or plain: then the flags pass through plain between the two writes
  (`settings.go:158-159`). It says nothing of a mailbox whose mode was never stored, of one that was plain, and of saves that
  failed, were cut short or ran into each other (`NoMode`). In the first two cases the code does dial in plain, section 5.
* `AdmittedAtOnce` - the filter's two reads admit nobody whom the stored filter has not admitted at one moment,
  unless two saves change it meanwhile. It rests on the writes coming in the opposite order of the reads.
* `BackoffSchedule` - the wait is the base doubled once for each failure in a row, up to the limit.
* `PolicyTakesEffect` - liveness: a saved policy is used in the end, whatever runs fail.

Each property of a passing run has a mutant of the code that violates it (a failed
duplicate check taken for a duplicate, a sequence number taken for a UID, a
missing return after a failed `DELETE`, a shadowed variable, ...), kept next to the
definition it mutates.

## 5. What the runs found

1. **`owner`: an attachment is stored with another email** (`email.go:59`). `Save`
   takes `LastInsertId()` after `INSERT ... ON CONFLICT DO NOTHING` and expects 0
   after a conflict ("ON CONFLICT DO NOTHING returns id=0 - look up the existing
   row", `email.go:63`). SQLite does not reset the row id: it is the one of the
   connection's previous insert. With two copies of an email in one run - both pass the
   duplicate check before either is saved - the second copy's attachment is
   filed under the row id of the first copy's attachment.
2. **`stop`: a stop between `Save` and the attachments loses them.** The next
   run finds the Message-ID, takes the message for a duplicate and deletes it
   (`help.html:123` promises "attachments saved to disk, then the message is deleted").
3. **`sender`: a database error refuses mail.** "DB error - skip without deleting,
   retry next poll" (`poller.go:236`) holds for the duplicate check; nine lines on, an
   error of `IsAllowedSender` counts as "not allowed" and the message is deleted.
4. **`comeback`: a deleted email comes back.** If `STORE` failed after `Save`, the
   message is still on the server; once a user has deleted the email, the next run
   archives it again (`help.html:238` promises "permanently remove").
5. **`stray`: files that belong to nobody.** The sweep reads an email's paths
   while a run is still saving its attachments; what is written afterwards stays
   (`help.html:199` promises that files are removed too). Nothing needs to fail.
6. **`tag`: a tag with days does not assign a category** (`email.go:228`). README.md:172 says
   of `[work:90] Annual report` "Assign to work, auto-delete after 90 days", but
   `MatchCategory` takes all of `work:90` for a slug. The email goes to the inbox, and the
   category work, where it is not, gets the retention. (`help.html:133-137` also gives the
   tag precedence over keyword rules; the code matches rules first.)

These have no run of their own. The first and the third contradict the program's documentation, the second a
comment; of the others they say nothing:

* `Poll` calls `ValidateEmail` with no headers and size 0 (`poller.go:251`). A token in the header `X-EmailStore-Auth` is never
  found, though README.md:143 and help.html:71 offer it: with a required token and the location "header",
  strict mode refuses and deletes every message, balanced mode every one of an unlisted sender. The limit on
  an email's size (help.html:74) never applies. `RefusedForCause` judges by the call `Poll` makes, so it does not show this.
* The first save of a mailbox writes host, user and password before the TLS flag (`settings.go:148-158`), and a missing flag is
  read as plain (`poller.go:44`, `144-151`): a poll in between sends the password unencrypted, though "tls" is the "safe
  default" of the form (`settings.go:156`). The same happens with a new password when a plain mailbox is changed to
  TLS. `EncryptionKept` leaves both out.
* A deleted category leaves its id in emails and rules (`email.go:172`; `db.go:87` and `db.go:95` mean it not to). A rule that
  stays goes on filing mail under that id (help.html:132 says unmatched mail is placed in Inbox), and such mail never
  expires, since the sweep joins the categories.
* An error of reading `setup_done` is taken for "not set up" (`handler.go:196`, `310`): the wizard then runs on a program that is
  set up. The model has these variants (`BeginSetup` of `Setup`, `BeginSetupUnread` of `Access`).

* A failed attempt that was let in before the lock and is recorded after the window's end
  lifts the lock (`ratelimit.go:70-75`); `LockKept` excepts it.
* A change of password in the settings, and a second password step of the wizard, keep all sessions.
* `max_attachments = 0` is stored and shown by the form and read as 5 (`settings.go:502`, `policy.go:101`); `PolicyAsSaved`
  takes 0 for the default too, so it does not show this.
* To the wizard, other than to the settings page, an unknown mode is plain.

## 6. The proofs

TLAPS proves, for every set of messages, runs, users and sweepers, every policy,
every set of faults and every bound:

| Theorem | Module | Says |
|---|---|---|
| `TypeCorrect` | `EmailStoreTypes` | `Spec => []TypeOK` |
| `SafetyAlways` | `EmailStoreSafety` | `Spec => []SafetyInv`, the inductive invariant |
| `NoMailLostAlways`, `FlaggedSafeAlways` | `EmailStoreSafety` | the two invariants that rest on it |
| `EmailStoreImplementsDelivery` | `EmailStoreRefinement` | `Spec => ImplementsDelivery` if every message has a Message-ID |
| `ListedAttachmentOnDiskAlways` | `EmailStoreFiles` | `Spec => []ListedAttachmentOnDisk` |
| `ArchivedInFullAlways` | `EmailStoreFiles` | `Spec => []ArchivedInFull`, if runs do not overlap, the process does not stop, and no file and no attachment row fails to be written |
| `RefusedForCauseAlways` | `EmailStoreFiles` | `Spec => []RefusedForCause`, if the look-up of senders does not fail |
| `SaveNeverLooksUpAlways` | `EmailStoreSave` | `Spec => []SaveNeverLooksUp` |
| `OwnerUnlessConflict` | `EmailStoreSave` | `Spec /\ []NoConflict => []AttachmentOwner` |
| `AttachmentOwnerAlone` | `EmailStoreSave` | `Spec => []AttachmentOwner`, if runs do not overlap and no two messages share a Message-ID |
| `ArchivedOnceAlone` | `EmailStoreSave` | `Spec => NeverArchivedAgain`, if runs do not overlap, the process does not stop, and neither `STORE` nor the plain `EXPUNGE` fails |
| `InboxInvAlways` | `CatalogueSafety` | `Spec => []InboxInv`, the inductive invariant of the categories |
| `CatalogueTypes`, `InboxKeptAlways` | `CatalogueSafety` | `Spec => []TypeOK`, `Spec => []InboxKept` |
| `RestartKeepsCategoriesAlways` | `CatalogueSafety` | `Spec => RestartKeepsCategories` |
| `NoAdoptionAlways` | `CatalogueSafety` | `Spec => NoAdoption` |
| `LimiterInvAlways` | `AccessSafety` | `Spec => []LimiterInv`, the inductive invariant of `Access` |
| `AccessTypes`, `FullMeansLockedAlways` | `AccessSafety` | `Spec => []TypeOK`, `Spec => []FullMeansLocked` |
| `FailuresBoundedAlways`, `OldPasswordClosedAlways` | `AccessSafety` | `Spec => []FailuresBounded`, `Spec => []OldPasswordClosed` |
| `LockKeptAlways`, `ResetSpendsNewestAlways` | `AccessSafety` | `Spec => LockKept`, `Spec => ResetSpendsNewest` |
| `TypeInvAlways`, `IntakeTypes` | `IntakeSafety` | `Spec => []TypeInv`, the invariant behind the types of `Intake`; `Spec => []TypeOK` |
| `BackoffScheduleAlways` | `IntakeSafety` | `Spec => []BackoffSchedule` |
| `EncryptionKeptAlways` | `IntakeSafety` | `Spec => []EncryptionKept` |
| `RunsPolicyAsSaved` | `IntakeSafety` | `Spec => PolicyAsSaved` |
| `FilterAdmitsAtOnce` | `IntakeSafety` | `Spec => AdmittedAtOnce` |

"If" is a hypothesis of the theorem; all other theorems have none but the assumptions on constants. That runs do not
overlap is written `\A p, q \in Pollers : p = q`: the background loop alone, with nobody pressing "Poll now".

**Assumptions.** `MailAssumption` (UIDs are positive, finitely many messages,
attachments are sequences of names and sizes), `CapAssumption` (a run takes at least one
message), `FaultsAssumption`, `CompositionAssumption` (bounds are natural numbers,
session row ids are positive). Those about `Catalogue` rest on `CategoriesAssumption` (the
default slugs are distinct and begin with the inbox, retention periods are natural numbers),
`SubjectAssumption` and `SetupAssumption` (there is a default category besides the inbox). Those about `Access` rest on `LimiterAssumption` (`MaxAttempts > 1`, `LockFor > Window`), `AccountsAssumption`,
`ResetAssumption` and `AccessAssumption` (finitely many requests at a time). Those about `Intake` rest on
`PolicyKeysAssumption` (the keys that are followed are policy keys, each once), `TextAssumption` (a blank and an
unreadable text are no values), `FormsAssumption` and `StoredAssumption` (forms and stored tables hold values of the
right kinds), `AddressAssumption`, `BackoffAssumption` (the base is positive and at most the limit) and
`IntakeAssumption`. TLC evaluates them in every run of their module.

**The argument for `NoMailLost`.** It is not inductive: that `EXPUNGE` removes only
decided messages rests on the flags, the flags rest on what each run has put into
`dels`, and that rests on what the run's triage learnt, perhaps long ago.
`SafetyInv` says so: each run's `dels` are safe, its candidates carry their right
ids, and the candidate whose attachments are being saved is safe (`RunSafe`); every email
of the archive is in the history (`Recorded`); what is flagged is safe; what has
left is safe. The pivot is that safety is stable: `history` and `refused` only grow,
so what one run learnt is true for ever, whatever another run, a user or the sweep
does since (`SafeGrows`). That is why the stale duplicate check is harmless to
the mailbox, although it is not to the archive (finding 1).

**The refinement.** Every step shows on the mailbox side as an arrival, a decision or
a discard (`StepShows`); with `SafetyInv` each of these is a step of `Delivery` or
a stutter. The hypothesis that messages carry a Message-ID is needed, see `NoMailLost`.

**The files.** `ListedAttachmentOnDisk` says nothing of what is about to be listed or removed, so `FilesInv` does:
a run that will list a file has written it, in the directory of the email it lists it with (`RunOK`); a deletion
removes only files of emails whose rows are gone, or are in the transaction that will delete them (`JobOK`).
The pivot is AUTOINCREMENT: a row id that is gone (`Gone`) never comes back, so a path collected from a deleted email
cannot become a path of another one, however long the goroutine waits before it removes the file.

**Completeness.** `FullInv`: each attachment that the policy keeps is stored, or the run that saves the email has yet
to store it (`Coming`), and the file it is about to write is new. A name is new because it was not there at `Stat`,
or because it carries a stamp later than any file's; between `Stat` and `WriteFile` another run could take it, which is
one reason why runs must not overlap. The other is the conflict in `Save` of finding 1, which two runs meet without any
copies of an email. Each hypothesis is needed: with two runs, one stop (the run `stop`), or one failed file or
row, TLC finds `ArchivedInFull` violated. The last of these is the failure at `poller.go:360`
that is logged and forgotten.

**The refusals.** A run past its beginning holds one of the policies (`PolicyRead`), so `ValidateEmail` refuses by one
of them; only triage and an unreadable body enter anything into `refused`. The hypothesis is the run `sender`.

**Whose attachment.** As long as no insert of `Save` meets a conflict (`NoConflict`), what `LastInsertId` returns is
the id of the row just inserted, and nobody else has it (`Belongs`). So `OwnerUnlessConflict` says of finding 1 that the conflict is
its only cause, for any number of runs. When does no conflict arise? A run alone learns from `Exists` that its candidates are not in
the archive, and it is then the only one to insert; what remains is that two of its own candidates share
an id. `PlanOK` says that a candidate was in the mailbox when the run selected it and carries the id computed from
there; `NoCopies` that two messages that one run may see do not get the same id. A generated id contains the
sequence number, and two messages of one view have different ones (`SeqNumsDiffer`), so `NoCopies` is
about headers only. Its violation is the run `owner`.

**Archived once.** `OnceInv`: an archived message that is still on the server is being taken off it by the run that
saved it (`Leaving`), and no run is about to save an archived message (`Unsaved`). A failed `STORE` (the run
`comeback`), a failed plain `EXPUNGE`, a stop, or a second run that fetched the message before the first one
expunged it each leave an archived message behind that somebody will look at again; TLC finds `NeverArchivedAgain`
violated with each of them. `UID EXPUNGE` may fail: the plain one then follows.

**The fallback.** `Fresh`: if the connection has inserted nothing (`lastRowid = 0`)
then no run holds a candidate whose Message-ID is in the archive. A restart sets
`lastRowid` to 0 and ends all runs; after it the first insert makes it positive.

**The inbox.** `InboxInv` says that ids and slugs are unique, that the inbox is there, and that
no edit past its look-up and no wizard holds its id or slug. The circle closes because the
slug is UNIQUE: as long as the inbox exists no other category can be renamed to `inbox`
(`InboxStable`), so a category that was not the inbox when it was looked up is not the
inbox when it is deleted. That is why the check-then-act of the settings page is safe
without a transaction, and why `migrate` never finds the table empty.

**The ids of deleted categories.** `HeldInv` says that every id held anywhere has been issued: it is below `nextCategory`, the AUTOINCREMENT
counter. A statement that inserts a category gives it an id from there on (`IdsFresh`), so no held id comes to mean a new
category, whatever foreign keys do.

**The limiter.** `FullMeansLocked` is not inductive: a tick ends a lock. `LocksCover` is: for a full
entry, the time left of the lock and the age of the window add up to more than the window. A failure
sets the lock to `LockFor > Window`; a tick moves one unit from the one to the other, until the window is over.
`FailuresBounded` is inductive by itself: what `RecordFailure` adds to the count it takes from the
undecided requests, and a request is let in only below the limit, when at most all requests are undecided.

**The reset.** `TokensOK` has the domain of `tokens` in `{issued}`: issuing purges the others, so the token that is
consumed is the newest and none remains. For `OldPasswordClosed`, every row stays as it should be
(`RowsStayFine`) unless a reset writes the password, and from then on its request stands between its two
statements (`SweepStays`) until it has deleted the sessions.

**The policy a run works with.** `PolicyAsSaved` joins three facts about a key at a time. What an undisturbed save has written so far
is still stored (`KeysKept`); the form saved last is what is stored (`KeysSettled`); what an undisturbed load has read
so far is what is stored, the rest is the default (`KeysLoaded`). All hold for any sequence of keys without repetition,
so for the seven of the program. Because `Take` changes one field per key (`Field`, `Loads`), a load of the keys of a
form gives the policy of that form.

**The connection mode.** `ModeInv`: the request that stands between its two writes finds the flag for TLS as it wrote it
(`FlagKept`), and while the mode saved last is known, the flag of an encrypted mode is set but for the one for TLS that a save has just
written (`ModeKnown`).

**The filter.** `ShutOut` is about a request that has passed the IPv6 check and waits for the list. As long as nobody has saved, it
would have been shut out by the list; after one save, that save is past its list, or IPv6 was not
shut out. The order of the two writes, list before flag, is what makes it inductive.

**Back-off.** `WaitInv` says what the next wait is also while a run is in progress. The doubling is a recursive function; since the
library's induction theorems take an operator as a parameter, what is needed of it (it is well defined, and its values are positive numbers) is
proved from the least counterexample in a set of natural numbers.

**What is only model-checked.** The liveness properties `EveryMessageLeaves`, `EventuallyFiled`, `LockEnds` and
`PolicyTakesEffect`, which are out of the reach of TLAPS. Every safety property of a passing run is a theorem.
`ArchivedInFull`, `RefusedForCause`, `AttachmentOwner`, `NeverArchivedAgain` and `ImplementsDelivery` are theorems under the hypotheses of the
table. `TidyAtRest` and `TagObeyed` are refuted by their runs (section 5).

## 7. What is not modelled

* The wizard's mailbox step as an action of its own: it writes the keys of the mailbox form, but leaves them alone
  for a blank host and takes an unknown mode for plain.
* A delete request for an id that was never issued: a form carries the id of an email that was shown.
* Adding and deleting allowed senders: one statement each; to a run the table is a constant.
* A FETCH that the server answers without a body for a message that still exists: `Poll`
  would delete that message unread (`poller.go:297`). The model's server always returns the body
  of a message that is there.
* The read flag, lists, counts, downloads, pages: they read, or set a flag no other
  code looks at.
* Parsing of MIME, of header words and of dates: `Mail` says what comes out of them.
* Poll interval, session timeout (any positive lifetime in `Accounts`), download limit; CSRF tokens and cookies; start-up code.
* The truncation of file names (`safeFilename`) to equal names is covered by giving two
  attachments equal names.

## 8. Plan

Order of work; all rows but the last are done.

| Module | Questions |
|---|---|
| `Archive`, `Mailbox`, `Poller`, `Reaper`, `EmailStore` | the life of a message, above |
| `Delivery` | the promise about the mailbox, refined by `EmailStore` |
| `EmailStoreTypes` ... `EmailStoreSave` | the theorems above |
| `Categories`, `Filing`, `Setup`, `Catalogue`, `CatalogueSafety` | the inbox category always exists; filing against a concurrent settings page and wizard |
| `RateLimiter`, `Accounts`, `PasswordReset`, `Access`, `AccessSafety` | how many failures when requests overlap; does a lock last and end; which sessions survive a reset; which token counts |
| `Settings`, `IPFilter`, `PollLoop`, `Intake`, `IntakeSafety` | settings read and written one by one: which policy, which connection, which addresses; back-off and panics as the reason for the fairness of `FairSpec` |
| proofs | when `TidyAtRest` holds (the run `stray` has a sweep next to a save); `ArchivedInFull` for overlapping runs that meet no conflict and take no name from each other; `NoMailLost` for messages without a Message-ID |

Of the pure functions, `toSlug` and `urlEncode` are formatting and will stay out.
