------------------------------ MODULE Workflow ------------------------------
(***************************************************************************)
(* The clearance service as operators meet it: from a migrated database,   *)
(* empty or with the demo shift of SeedService, with concurrent requests   *)
(* (RelaxedNext), and with a record of whether any equipment change has    *)
(* missed a release that it should have revoked.  What RelaxedSpec cannot  *)
(* promise is promised here as long as nothing was missed.                 *)
(***************************************************************************)
EXTENDS Clearance, FiniteSetsExt

CONSTANTS
  NewUnits,     \* bound: units that requests create; the seed has its own
  NewStates,    \* bound: states in which they enter
  MaxEvents     \* bound: equipment changes and padded ids in one behaviour

ASSUME NewUnitsAssumption == NewUnits \subseteq Unit
ASSUME NewStatesAssumption == NewStates \subseteq UnitState

VARIABLE missed     \* history: an equipment change has left a release standing

workflowVars == <<dbVars, missed>>

-----------------------------------------------------------------------------
(* The demo shift.  Turnaround 1 is being checked although one of its      *)
(* units awaits inspection: no request could have created it so.           *)

SeededState == <<"available", "inspection", "blocked", "available">>

SeededUnits(t) == IF t = 1 THEN {1, 2} ELSE IF t = 2 THEN {4} ELSE {}

\* The codes are the seed's; c is the brake test that was passed.
Seeded(c, d) ==
  /\ unitState = [u \in Unit |-> IF u \in 1..4 THEN SeededState[u] ELSE Absent]
  /\ unitVersion = [u \in Unit |-> IF u \in 1..4 THEN 1 ELSE 0]
  /\ status = [t \in Turnaround |->
                 IF t = 1 THEN "checking" ELSE IF t = 2 THEN "open" ELSE Absent]
  /\ version = [t \in Turnaround |-> IF t \in {1, 2} THEN 1 ELSE 0]
  /\ assigned = [t \in Turnaround |-> SeededUnits(t) \cap Unit]
  /\ padded = [t \in Turnaround |-> {}]
  /\ result = [t \in Turnaround |-> [k \in CheckCode |->
                 IF t = 1 /\ k = c THEN "passed"
                 ELSE IF t \in {1, 2} /\ k = d THEN "pending" ELSE Absent]]
  /\ clearance = [t \in Turnaround |-> IF t \in {1, 2} THEN "pending" ELSE Absent]
  /\ previous = [t \in Turnaround |-> Absent]
  /\ trail = [t \in Turnaround |-> <<>>]

WorkflowInit ==
  /\ \/ EmptyDB
     \/ \E c, d \in CheckCode : c # d /\ Seeded(c, d)
  /\ missed = FALSE

-----------------------------------------------------------------------------

\* Every change has raised the version that the unit's row was inserted with.
Events ==
  MapThenSumSet(LAMBDA u : IF unitVersion[u] = 0 THEN 0 ELSE unitVersion[u] - 1, Unit)
    + Cardinality(UNION {{t} \X padded[t] : t \in Turnaround})

\* The releases among the turnarounds that the change has to look for.
ReleasesFound(u, to) == {t \in FoundFor(u, to) : clearance[t] \in Released}

\* An equipment change that revokes R and no other release.
ChangeEquipment(role, u, to, R) ==
  /\ ChangeUnitState(role, u, to, R)
  /\ missed' = (missed \/ R # ReleasesFound(u, to))

WorkflowNext ==
  \/ \E u \in NewUnits, s \in NewStates : CreateUnit(u, s) /\ UNCHANGED missed
  \/ /\ Events < MaxEvents
     /\ \E role \in UnitStateRoles, u \in Unit, to \in UnitState :
          \E R \in SUBSET ReleasesFound(u, to) : ChangeEquipment(role, u, to, R)
  \/ TurnaroundNext /\ (padded' # padded => Events' <= MaxEvents) /\ UNCHANGED missed

WorkflowSpec == WorkflowInit /\ [][WorkflowNext]_workflowVars

-----------------------------------------------------------------------------
(* Properties.                                                             *)

\* Until an equipment change misses a release, every unit that a fully cleared and
\* not completed turnaround names canonically is available, whatever happened to its
\* units, checks and rival turnarounds before (Decide, ChangeState, Create).
AvailableUnlessMissed == ~missed => FindableUnitsAvailable

\* And no step so far has made equipment unavailable without revoking, at once,
\* every full or restricted release that names it canonically
\* (GroundUnitService.ChangeState).
RevokedUnlessMissed ==
  [][\A u \in Unit :
       ~missed' /\ unitState[u] # Absent /\ unitState'[u] \notin {unitState[u], "available"} =>
         \A t \in ActiveWith(u) : clearance'[t] \notin Released]_workflowVars

=============================================================================
