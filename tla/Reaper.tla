------------------------------- MODULE Reaper -------------------------------
(***************************************************************************)
(* The two ways an email leaves the archive: the "delete" form of the web  *)
(* interface (Handler.deleteEmail, handler.go:520) and the daily retention *)
(* sweep (DeleteExpiredEmails, email.go:243, called by the expiry worker   *)
(* of main.go:80).  Both read the attachment paths, delete the rows, then  *)
(* remove the files, with other goroutines running in between.             *)
(***************************************************************************)
EXTENDS Archive, Failure

CONSTANTS
    Users,              \* goroutines that may serve a delete request
    Sweepers,           \* the expiry worker: one goroutine, or none
    MaxDeletions        \* bound on delete requests

VARIABLES
    job,                \* the local state of each deletion in progress
    due,                \* ids of emails whose retention has run out
    deletions           \* delete requests so far

reaperVars == <<job, due, deletions>>

Reapers == Users \cup Sweepers

JobPcs == {"idle", "collect", "rows", "files", "dir"}

IdleJob ==
    [pc      |-> "idle",
     collect |-> {},    \* emails whose attachment paths are still to be read
     doomed  |-> {},    \* emails whose rows are still to be deleted
     paths   |-> {},    \* files to remove once the rows are gone
     email   |-> 0]     \* the email of a delete request

ReaperInit ==
    /\ job = [r \in Reapers |-> IdleJob]
    /\ due = {}
    /\ deletions = 0

EndJob(r) == job' = [job EXCEPT ![r] = IdleJob]

----------------------------------------------------------------------------
(* Handler.deleteEmail.  The id comes from the URL, so it may be that of   *)
(* an email that is already deleted.                                       *)

\* GetAttachmentPaths; its error is ignored and leaves no paths.
RequestDelete(u, id, paths) ==
    /\ job[u].pc = "idle"
    /\ deletions < MaxDeletions
    /\ deletions' = deletions + 1
    /\ job' = [job EXCEPT ![u] = [IdleJob EXCEPT !.pc = "rows", !.doomed = {id},
                                                 !.paths = paths, !.email = id]]
    /\ UNCHANGED <<archiveVars, due>>

BeginDelete(u, id) == RequestDelete(u, id, AttachmentPaths(id)) /\ UNCHANGED faults

BeginDeleteBlind(u, id) == RequestDelete(u, id, {}) /\ Fails("paths")

----------------------------------------------------------------------------
(* DeleteExpiredEmails.                                                    *)

\* The query for expired emails.
BeginSweep(w) ==
    /\ job[w].pc = "idle"
    /\ LET ids == due \cap EmailIds IN
       /\ ids # {}
       /\ job' = [job EXCEPT ![w] = [IdleJob EXCEPT !.pc = "collect",
                                       !.collect = ids, !.doomed = ids]]
    /\ UNCHANGED <<archiveVars, due, deletions, faults>>

\* GetAttachmentPaths of one email, before any row is deleted.
CollectPaths(w) ==
    /\ job[w].pc = "collect"
    /\ \E id \in job[w].collect :
          job' = [job EXCEPT
                    ![w].collect = @ \ {id},
                    ![w].paths = @ \cup AttachmentPaths(id),
                    ![w].pc = IF job[w].collect = {id} THEN "rows" ELSE "collect"]
    /\ UNCHANGED <<archiveVars, due, deletions, faults>>

CollectFails(w) ==
    /\ job[w].pc = "collect"
    /\ Fails("paths")
    /\ EndJob(w)
    /\ UNCHANGED <<archiveVars, due, deletions>>

----------------------------------------------------------------------------
(* Both.                                                                   *)

\* The row of an email; with foreign keys enforced its attachment rows too.
DeleteRow(r) ==
    /\ job[r].pc = "rows"
    /\ \E id \in job[r].doomed :
          /\ DeleteEmailRow(id)
          /\ due' = due \ {id}
          /\ job' = IF job[r].doomed # {id}
                    THEN [job EXCEPT ![r].doomed = @ \ {id}]
                    ELSE IF job[r].paths = {}
                    THEN [job EXCEPT ![r] = IdleJob]
                    ELSE [job EXCEPT ![r].doomed = {}, ![r].pc = "files"]
    /\ UNCHANGED <<deletions, faults>>

\* Mutant: a return is missing after a failed DELETE, and the files go.
DeleteRowFailsAndGoesOn(r) ==
    /\ job[r].pc = "rows"
    /\ Fails("delete")
    /\ job' = IF job[r].paths = {}
              THEN [job EXCEPT ![r] = IdleJob]
              ELSE [job EXCEPT ![r].doomed = {}, ![r].pc = "files"]
    /\ UNCHANGED <<archiveVars, due, deletions>>

\* DELETE fails: the handler answers 500, the sweep returns no paths at all.
DeleteRowFails(r) ==
    /\ job[r].pc = "rows"
    /\ Fails("delete")
    /\ EndJob(r)
    /\ UNCHANGED <<archiveVars, due, deletions>>

\* What follows the removal of a file: only the handler removes a directory.
AfterFile(r, path) ==
    IF job[r].paths # {path} THEN [job EXCEPT ![r].paths = @ \ {path}]
    ELSE IF r \in Users THEN [job EXCEPT ![r].paths = {}, ![r].pc = "dir"]
    ELSE [job EXCEPT ![r] = IdleJob]

\* os.Remove; a file that is not there is no error.
RemovePath(r) ==
    /\ job[r].pc = "files"
    /\ \E path \in job[r].paths : RemoveFile(path) /\ job' = AfterFile(r, path)
    /\ UNCHANGED <<due, deletions, faults>>

\* The error is logged and the file stays.
RemovePathFails(r) ==
    /\ job[r].pc = "files"
    /\ Fails("remove")
    /\ \E path \in job[r].paths : job' = AfterFile(r, path)
    /\ UNCHANGED <<archiveVars, due, deletions>>

RemoveEmailDir(u) ==
    /\ job[u].pc = "dir"
    /\ RemoveDir(job[u].email)
    /\ EndJob(u)
    /\ UNCHANGED <<due, deletions, faults>>

----------------------------------------------------------------------------
\* An email becomes due as time passes, or when its category or the retention
\* of its category changes, and may stop being due by such a change.
BecomeDue(id) ==
    /\ id \notin due
    /\ due' = due \cup {id}
    /\ UNCHANGED <<archiveVars, job, deletions, faults>>

Reprieve(id) ==
    /\ id \in due
    /\ due' = due \ {id}
    /\ UNCHANGED <<archiveVars, job, deletions, faults>>

UserStep(u) ==
    \/ \E id \in 1 .. nextEmail - 1 : BeginDelete(u, id) \/ BeginDeleteBlind(u, id)
    \/ DeleteRow(u) \/ DeleteRowFails(u)
    \/ RemovePath(u) \/ RemovePathFails(u) \/ RemoveEmailDir(u)

SweepStep(w) ==
    \/ BeginSweep(w) \/ CollectPaths(w) \/ CollectFails(w)
    \/ DeleteRow(w) \/ DeleteRowFails(w)
    \/ RemovePath(w) \/ RemovePathFails(w)

RetentionStep ==
    /\ Sweepers # {}
    /\ \E id \in EmailIds : BecomeDue(id) \/ Reprieve(id)
=============================================================================
