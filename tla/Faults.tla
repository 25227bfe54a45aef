------------------------------- MODULE Faults -------------------------------
(***************************************************************************)
(* The budget of faults of a behaviour.  The faults themselves (a killed   *)
(* worker, a failed commit, a lost acknowledgement, ...) are actions of    *)
(* the modules that suffer them; each names its kind here.  FaultKinds     *)
(* says which kinds a configuration admits and MaxFaults how many of them  *)
(* a behaviour may contain: both are bounds of the model, the code has no  *)
(* counterpart.                                                            *)
(***************************************************************************)
EXTENDS Naturals

CONSTANTS MaxFaults,    \* bound: faults in one behaviour
          FaultKinds    \* the kinds of fault that may occur

ASSUME MaxFaultsAssumption == MaxFaults \in Nat

VARIABLE faults         \* faults so far

FaultsTypeOK == faults \in 0..MaxFaults

FaultsInit == faults = 0

\* A step that is a fault of the given kind.
Fault(kind) ==
  /\ kind \in FaultKinds
  /\ faults < MaxFaults
  /\ faults' = faults + 1

\* A step that is none.
NoFault == UNCHANGED faults
=============================================================================
