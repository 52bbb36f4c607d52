------------------------------ MODULE Archive ------------------------------
(***************************************************************************)
(* What EmailStore keeps: the emails and attachments tables of its SQLite  *)
(* database (internal/email/email.go, internal/db/db.go) and the           *)
(* attachment files on disk.                                               *)
(*                                                                         *)
(* database/sql is limited to ONE connection (db.go:17), so every          *)
(* statement is an atomic step and last_insert_rowid() is shared by all    *)
(* goroutines.  This module defines what each statement and each file      *)
(* operation does to the state; Poller and Reaper are its callers.         *)
(***************************************************************************)
EXTENDS Integers, FiniteSets

CONSTANTS
    Message,        \* the messages that may be delivered, numbered by their IMAP UID
    ForeignKeys     \* TRUE iff SQLite enforces REFERENCES ... ON DELETE CASCADE

VARIABLES
    emails,         \* rows of the emails table: [id, mid, msg]
    attachments,    \* rows of the attachments table: [id, email, path]
    nextEmail,      \* the AUTOINCREMENT counters of the two tables
    nextAttachment,
    lastRowid,      \* last_insert_rowid() of the one connection
    files,          \* path -> what the file holds
    dirs,           \* email ids that have a directory under the attachment directory
    stamp,          \* time.Now().UnixNano(), as far as file names need it
    history         \* every [mid, msg] that was ever inserted in emails (history variable)

archiveVars == <<emails, attachments, nextEmail, nextAttachment, lastRowid,
                 files, dirs, stamp, history>>

\* The content of attachment i of message m; Torn is the content of a file
\* whose write stopped half way.
Content(m, i) == [msg |-> m, index |-> i]
Torn == [msg |-> 0, index |-> 0]

Path(id, name, unique) == [dir |-> id, name |-> name, unique |-> unique]
NoPath == Path(0, "", 0)

\* A process started on a database that is set up and holds no email.
ArchiveInit ==
    /\ emails = {} /\ attachments = {} /\ history = {}
    /\ nextEmail = 1 /\ nextAttachment = 1 /\ lastRowid = 0
    /\ files = << >> /\ dirs = {} /\ stamp = 0

----------------------------------------------------------------------------
(* Statements of internal/email/email.go.                                  *)

\* Exists: SELECT COUNT(1) FROM emails WHERE message_id = ?
Exists(mid) == \E e \in emails : e.mid = mid

EmailIds == {e.id : e \in emails}

\* Mutant: -1 for an email that is already there.
ConflictIdMinusOne(mid) == -1

\* What Save reports after an insert that hit ON CONFLICT DO NOTHING: the row
\* id of the connection's last successful insert, into whatever table.
ConflictId(mid) == lastRowid

\* Save's INSERT ... ON CONFLICT(message_id) DO NOTHING.
InsertEmail(mid, m) ==
    IF Exists(mid)
    THEN UNCHANGED archiveVars
    ELSE /\ emails' = emails \cup {[id |-> nextEmail, mid |-> mid, msg |-> m]}
         /\ history' = history \cup {[mid |-> mid, msg |-> m]}
         /\ lastRowid' = nextEmail
         /\ nextEmail' = nextEmail + 1
         /\ UNCHANGED <<attachments, nextAttachment, files, dirs, stamp>>

\* Mutant: the row id is asked for before the statement is executed.
SavedIdBefore(mid) == lastRowid

\* The id Save gets from LastInsertId() right after that statement.
SavedId(mid) == IF Exists(mid) THEN ConflictId(mid) ELSE nextEmail

\* SaveAttachment.  With foreign keys enforced the insert needs its email.
CanInsertAttachment(id) == ForeignKeys => id \in EmailIds

InsertAttachment(id, path) ==
    /\ attachments' = attachments \cup
          {[id |-> nextAttachment, email |-> id, path |-> path]}
    /\ lastRowid' = nextAttachment
    /\ nextAttachment' = nextAttachment + 1
    /\ UNCHANGED <<emails, nextEmail, files, dirs, stamp, history>>

\* GetAttachmentPaths
AttachmentPaths(id) == {a.path : a \in {r \in attachments : r.email = id}}

\* Delete, and the DELETE of DeleteExpiredEmails.
DeleteEmailRow(id) ==
    /\ emails' = {e \in emails : e.id # id}
    /\ attachments' = IF ForeignKeys THEN {a \in attachments : a.email # id}
                                     ELSE attachments
    /\ UNCHANGED <<nextEmail, nextAttachment, lastRowid, files, dirs, stamp, history>>

----------------------------------------------------------------------------
(* File operations.                                                        *)

WriteFile(path, content) ==
    /\ files' = [q \in DOMAIN files \cup {path} |->
                    IF q = path THEN content ELSE files[q]]
    /\ UNCHANGED <<emails, attachments, nextEmail, nextAttachment, lastRowid,
                   dirs, stamp, history>>

RemoveFile(path) ==
    /\ files' = [q \in DOMAIN files \ {path} |-> files[q]]
    /\ UNCHANGED <<emails, attachments, nextEmail, nextAttachment, lastRowid,
                   dirs, stamp, history>>

\* os.Remove of a directory succeeds only when it is empty.
RemoveDir(id) ==
    /\ dirs' = IF \E q \in DOMAIN files : q.dir = id THEN dirs ELSE dirs \ {id}
    /\ UNCHANGED <<emails, attachments, nextEmail, nextAttachment, lastRowid,
                   files, stamp, history>>

----------------------------------------------------------------------------
\* An insert into another table over the same connection moves its last row id:
\* a login stores a session row (auth.NewSession), with some row id of its own.
InsertElsewhere(rowid) ==
    /\ lastRowid' = rowid
    /\ UNCHANGED <<emails, attachments, nextEmail, nextAttachment, files, dirs,
                   stamp, history>>

\* A restart opens a new connection; the database and the disk stay.
Reconnect ==
    /\ lastRowid' = 0
    /\ UNCHANGED <<emails, attachments, nextEmail, nextAttachment, files, dirs,
                   stamp, history>>
=============================================================================
