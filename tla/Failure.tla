------------------------------ MODULE Failure ------------------------------
(***************************************************************************)
(* Operations that may fail: database statements, IMAP commands and file   *)
(* operations return an error to their caller.  A model says which kinds   *)
(* of operation fail and bounds how often.                                 *)
(***************************************************************************)
EXTENDS Integers

CONSTANTS
    Faults,     \* the operations that may fail
    MaxFaults   \* bound: how many failures a behaviour has

ASSUME FaultsAssumption == MaxFaults \in Nat

VARIABLE faults     \* failures so far

FailureInit == faults = 0

\* Operation op returns an error.
Fails(op) == op \in Faults /\ faults < MaxFaults /\ faults' = faults + 1
=============================================================================
