--------------------------- MODULE ClearanceRules ---------------------------
(***************************************************************************)
(* The vocabulary of the clearance service and its three transition        *)
(* tables: the pure functions that every service method consults before it *)
(* writes a row.                                                           *)
(***************************************************************************)

Absent == "absent"          \* no such row, or the column's empty string

UnitState        == {"available", "inspection", "blocked", "retired"}
ClearanceState   == {"pending", "cleared", "restricted", "revoked"}
TurnaroundStatus == {"open", "checking", "decisioned", "completed"}
CheckResult      == {"pending", "passed", "failed"}

Admin         == "admin"
SafetyManager == "safety_manager"
Inspector     == "inspector"

\* The roles the route PATCH /ground-units/:id/state admits.
UnitStateRoles == {Admin, SafetyManager, Inspector}

\* A decision that lets the turnaround go ahead, fully or with conditions.
Released == {"cleared", "restricted"}

allowedUnitTransition(from, to) ==
  /\ from # to
  /\ \/ from = "available" /\ to \in {"inspection", "blocked", "retired"}
     \/ from \in {"inspection", "blocked"} /\ to \in UnitState

\* Inspectors take equipment out of service; they neither restore nor retire it.
MayRequestUnitState(role, to) ==
  role = Inspector => to \in {"inspection", "blocked"}

allowedTurnaroundTransition(from, to) ==
  \/ from = "open" /\ to = "checking"
  \/ from = "decisioned" /\ to = "completed"

allowedClearanceTransition(from, to) ==
  \/ from = "pending" /\ to \in {"cleared", "restricted", "revoked"}
  \/ from \in Released /\ to = "revoked"
=============================================================================
