---------------------------- MODULE MCWorkflow ----------------------------
(***************************************************************************)
(* The instance on which TLC checks Workflow: two units that requests      *)
(* create and, in the demo shift, a third; two turnarounds (a turnaround   *)
(* and its successor or rival on a shared unit); two checks each.          *)
(***************************************************************************)
EXTENDS Workflow, TLC

CONSTANTS brake, seal

\* Check codes are only compared for equality.
CheckSymmetry == Permutations(CheckCode)

=============================================================================
