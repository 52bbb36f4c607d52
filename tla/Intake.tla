------------------------------- MODULE Intake -------------------------------
(***************************************************************************)
(* The settings at work: requests pass the IP filter and save forms key by *)
(* key while the poll loop reads the configuration and the policy key by   *)
(* key.  Statements fail, and the process ends and starts again.           *)
(***************************************************************************)
EXTENDS PollLoop, IPFilter

CONSTANTS
    MaxSaves,           \* bound: how many forms are submitted
    MaxFaults,          \* bound: how many statements fail
    MaxStops,           \* bound: how many times the process ends
    NoForm, NoAddress,
    NoMode              \* saves disturbed each other: no one mode was saved last

Forms == PolicyForms \cup MailboxForms

ASSUME IntakeAssumption ==
    /\ MaxSaves \in Nat /\ MaxFaults \in Nat /\ MaxStops \in Nat
    /\ NoForm \notin Forms /\ PolicyForms \cap MailboxForms = {}

\* The requests that save a form, in the order in which they come.
Savers == 1 .. MaxSaves

VARIABLES
    saver,              \* the local state of the goroutine that serves each of them
    submits, faults, stops,     \* the bounded counters
    settled,            \* history: the policy form saved last, when nothing disturbed it
    chosen,             \* history: the mode of the mailbox form saved last, likewise;
                        \* "unset" as long as none was saved
    torn                \* history: the load under way met a write or a failed read

historyVars == <<settled, chosen, torn>>
vars == <<settings, loop, saver, submits, faults, stops, historyVars>>

\* The last three fields are history: whether nothing disturbed the save; and,
\* between the two reads of the filter, whether the stored filter has admitted
\* the address at some moment and which saves changed it.
IdleSaver ==
    [pc |-> "idle", ip |-> NoAddress, form |-> NoForm, next |-> 1,
     clean |-> TRUE, admitted |-> FALSE, changes |-> {}]

Init ==
    /\ SettingsInit /\ LoopInit
    /\ saver = [s \in Savers |-> IdleSaver]
    /\ submits = 0 /\ faults = 0 /\ stops = 0
    /\ settled = NoForm /\ torn = FALSE
    /\ chosen = IF settings["tls"] = Blank THEN "unset" ELSE DialMode

At(s, pc) == saver[s].pc = pc

Fault == faults < MaxFaults /\ faults' = faults + 1

----------------------------------------------------------------------------
(* A request: the filter (WithIPFilter), then the form.                    *)

\* The first check; "admitted" is what the whole filter says at this moment.
Arrive(s, ip, form, admitted) ==
    /\ s = submits + 1
    /\ submits' = s
    /\ saver' = [saver EXCEPT ![s] = [IdleSaver EXCEPT
                    !.pc = "subnets", !.ip = ip, !.form = form, !.admitted = admitted]]
    /\ UNCHANGED <<settings, loop, stops, historyVars>>

\* A request that the first check refuses leaves no trace.
CheckIPv6(s, ip, form) ==
    /\ PassesIPv6(settings, ip)
    /\ Arrive(s, ip, form, Admits(settings, ip))
    /\ UNCHANGED faults

\* Either read fails open: the filter goes on as if its key were blank.
CheckIPv6Fails(s, ip, form) == Fault /\ Arrive(s, ip, form, TRUE)

Enter(s) ==
    saver' = [saver EXCEPT ![s] = [@ EXCEPT
                !.pc = "save", !.ip = NoAddress, !.admitted = FALSE, !.changes = {}]]

CheckSubnets(s) ==
    /\ At(s, "subnets")
    /\ IF PassesSubnets(settings, saver[s].ip) THEN Enter(s)
       ELSE saver' = [saver EXCEPT ![s] = IdleSaver]
    /\ UNCHANGED <<settings, loop, submits, faults, stops, historyVars>>

CheckSubnetsFails(s) ==
    /\ At(s, "subnets")
    /\ Fault
    /\ Enter(s)
    /\ UNCHANGED <<settings, loop, submits, stops, historyVars>>

NextWrite(s) == FormWrites(saver[s].form)[saver[s].next]

Half(form) == IF form \in PolicyForms THEN ToSet(PolicyKeys) ELSE ToSet(MailboxKeys)

\* Some of the keys that the poll loop reads are written, and some are not.
Midway(s) ==
    /\ At(s, "save")
    /\ saver[s].next > 1
    /\ NextWrite(s).key \in Half(saver[s].form)

\* History: the other requests that are midway through the same kind of form.
Rivals(s) ==
    {q \in Savers \ {s} : Midway(q) /\ Half(saver[q].form) = Half(saver[s].form)}

\* The end of one write of request s, with the table it leaves behind.
Saved(s, table, good) ==
    LET key   == NextWrite(s).key
        last  == saver[s].next = Len(FormWrites(saver[s].form))
        clean == saver[s].clean /\ (key \in FilterKeys \/ (good /\ Rivals(s) = {}))
        own   == IF last THEN IdleSaver
                 ELSE [saver[s] EXCEPT !.next = @ + 1, !.clean = clean]
        Other(q) ==
            IF q \in Rivals(s) /\ key \notin FilterKeys
            THEN [saver[q] EXCEPT !.clean = FALSE]
            ELSE IF At(q, "subnets") /\ key \in FilterKeys
            THEN [saver[q] EXCEPT !.admitted = @ \/ Admits(table, saver[q].ip),
                                  !.changes = @ \cup {s}]
            ELSE saver[q]
    IN  /\ settings' = table
        /\ saver' = [q \in Savers |-> IF q = s THEN own ELSE Other(q)]
        /\ settled' = IF key \notin ToSet(PolicyKeys) THEN settled
                      ELSE IF key = Last(PolicyKeys) /\ clean THEN saver[s].form ELSE NoForm
        /\ chosen' = IF key \notin ToSet(MailboxKeys) THEN chosen
                     ELSE IF ~clean THEN NoMode
                     ELSE IF last THEN ModeOf(saver[s].form) ELSE chosen
        /\ torn' = (torn \/ (LoopAt("policy") /\ key \in ToSet(PolicyKeys)))

SaveKey(s) ==
    /\ At(s, "save")
    /\ Saved(s, [settings EXCEPT ![NextWrite(s).key] = NextWrite(s).value], TRUE)
    /\ UNCHANGED <<loop, submits, faults, stops>>

\* The error is logged, and the next key follows.
SaveKeyFails(s) ==
    /\ At(s, "save")
    /\ Fault
    /\ Saved(s, settings, FALSE)
    /\ UNCHANGED <<loop, submits, stops>>

Serve(s) ==
    \/ \E ip \in Addresses, form \in Forms :
          CheckIPv6(s, ip, form) \/ CheckIPv6Fails(s, ip, form)
    \/ CheckSubnets(s) \/ CheckSubnetsFails(s)
    \/ SaveKey(s) \/ SaveKeyFails(s)

----------------------------------------------------------------------------
(* The poll loop, its failures, and restarts.                              *)

intakeRest == <<settings, saver, submits, stops, settled, chosen>>

Poll ==
    /\ LoopStep
    /\ torn' = (torn /\ ~LoopAt("config"))
    /\ UNCHANGED <<intakeRest, faults>>

PollFails ==
    /\ Fault
    /\ \/ LoopAt("config") /\ Backoff /\ UNCHANGED torn
       \/ ReadPolicyKeyFails /\ torn' = TRUE
    /\ UNCHANGED intakeRest

Panic == RunPanics /\ UNCHANGED <<intakeRest, faults, torn>>

\* The process ends, each request where it stands, and starts again.
Restart ==
    /\ stops < MaxStops
    /\ stops' = stops + 1
    /\ saver' = [s \in Savers |-> IdleSaver]
    /\ loop' = StartLoop /\ torn' = FALSE
    /\ chosen' = IF \E s \in Savers : Midway(s) /\ saver[s].form \in MailboxForms
                 THEN NoMode ELSE chosen
    /\ UNCHANGED <<settings, submits, faults, settled>>

Next ==
    \/ \E s \in Savers : Serve(s)
    \/ Poll \/ PollFails \/ Panic \/ Restart

Spec == Init /\ [][Next]_vars

\* The goroutine of the loop runs on; no request need come or end.
FairSpec == Spec /\ WF_vars(Poll)

----------------------------------------------------------------------------
(* Types.                                                                  *)

Policies ==
    [mode : Modes, tokenRequired : BOOLEAN, tokenLocation : TokenLocations,
     tokens : SUBSET Tokens,
     maxSize : Nat \ {0}, maxAttachments : Nat \ {0}, maxAttachSize : Nat \ {0}]

SaverStates ==
    [pc : {"idle", "subnets", "save"}, ip : Addresses \cup {NoAddress},
     form : Forms \cup {NoForm}, next : Nat \ {0},
     clean : BOOLEAN, admitted : BOOLEAN, changes : SUBSET Savers]

\* A request that was let in has a form, and stands at one of its writes.
FormOK(r) ==
    /\ r.pc # "idle" => r.form \in Forms
    /\ IF r.pc = "save" THEN r.next <= Len(FormWrites(r.form)) ELSE r.next = 1

LoopStates ==
    [pc : {"config", "policy", "run", "sleep", "backoff", "dead"},
     next : Nat \ {0}, policy : Policies,
     backoff : BaseBackoff .. MaxBackoff, failures : 0 .. MaxBackoff]

\* Every variable has its type: above all, no loaded limit is 0 and no loaded
\* mode unknown, whatever the forms held, and the wait stays within its limits.
TypeOK ==
    /\ DOMAIN settings = Keys /\ Typed(settings)
    /\ loop \in LoopStates
    /\ saver \in [Savers -> SaverStates] /\ \A s \in Savers : FormOK(saver[s])
    /\ submits \in 0 .. MaxSaves /\ faults \in 0 .. MaxFaults /\ stops \in 0 .. MaxStops
    /\ settled \in PolicyForms \cup {NoForm}
    /\ chosen \in {"unset", "tls", "starttls", "plain", NoMode}
    /\ torn \in BOOLEAN
----------------------------------------------------------------------------
(* Safety.                                                                 *)

\* The policy is what a user who submitted the form asked for: a number that is
\* no positive one stands for the default, 0 attachments included.
Honours(policy, f) ==
    LET Tracked(k) == k \in ToSet(PolicyKeys)
    IN  /\ Tracked("mode") =>
              policy.mode = IF f.mode \in Modes THEN f.mode ELSE "relaxed"
        /\ Tracked("require_token") => policy.tokenRequired = f.require
        /\ Tracked("token_location") =>
              policy.tokenLocation =
                  IF f.location \in TokenLocations THEN f.location ELSE "subject"
        /\ Tracked("tokens") => policy.tokens = IF f.tokens = Blank THEN {} ELSE f.tokens
        /\ Tracked("max_email_mb") => policy.maxSize = PositiveOr(10, f.maxEmail)
        /\ Tracked("max_attachments") =>
              policy.maxAttachments = PositiveOr(5, f.maxAttachments)
        /\ Tracked("max_attach_mb") => policy.maxAttachSize = PositiveOr(5, f.maxAttach)

\* A run's policy is the one that was saved last, nothing of an older one,
\* unless a write came between its seven reads, a read failed, or that save was
\* itself disturbed (policy.go:69-111, settings.go:472-514).
PolicyAsSaved ==
    [][~LoopAt("run") /\ loop'.pc = "run" /\ ~torn' /\ settled' # NoForm =>
         Honours(loop'.policy, settled')]_vars

\* A mailbox that was saved with an encrypted mode is not dialled in plain: the
\* next form may change its flags in two statements, and only one for STARTTLS
\* or plain passes through that state (settings.go:158-159, poller.go:144-151).
\* Nothing is said of a mailbox whose mode was never stored - the first form
\* writes host, user and password before the flag (settings.go:148-158), and
\* meanwhile they go out in plain, whatever its mode - nor of one that was
\* plain, nor after saves that failed, were cut short or ran into each other.
EncryptionKept ==
    DialMode = "plain" =>
        \/ settings["tls"] = Blank
        \/ chosen \in {"plain", NoMode}
        \/ \E s \in Savers :
              /\ Midway(s) /\ saver[s].form \in MailboxForms
              /\ ModeOf(saver[s].form) # "tls"

\* A request that passes both checks has been admitted by the stored filter at
\* some one moment between them, unless two saves changed it meanwhile or a
\* read failed: the filter is written in the opposite order of its reading
\* (ipfilter.go:30-66, settings.go:525-526).
AdmittedAtOnce ==
    [][\A s \in Savers :
         At(s, "subnets") /\ saver'[s].pc = "save" =>
            \/ saver[s].admitted
            \/ Cardinality(saver[s].changes) > 1
            \/ faults' # faults]_vars

\* The base wait, doubled n times.
Doubled[n \in Nat] == IF n = 0 THEN BaseBackoff ELSE 2 * Doubled[n - 1]

\* The wait after a failure doubles from 30 seconds up to 30 minutes, and a
\* success starts it anew ("Successful polls reset the backoff timer",
\* help.html:218).
BackoffSchedule ==
    LoopAt("backoff") =>
        loop.backoff = Min({MaxBackoff, Doubled[loop.failures - 1]})

----------------------------------------------------------------------------
(* Liveness.                                                               *)

\* A policy that is saved and stays is used by a run in the end, however many
\* runs fail, as long as the mailbox is configured and no run panics.
PolicyTakesEffect ==
    settled # NoForm ~>
        \/ settled = NoForm \/ ~Configured \/ LoopAt("dead")
        \/ LoopAt("run") /\ Honours(loop.policy, settled)
=============================================================================
