----------------------------- MODULE Clearance -----------------------------
(***************************************************************************)
(* What the clearance service promises: every request of turnaround,       *)
(* ground-unit, check and clearance handlers that changes the database is  *)
(* one indivisible step over the committed rows.  Requests the code        *)
(* refuses change nothing and are no step.                                 *)
(*                                                                         *)
(* Spec is the promise as the code reads when requests run one at a time.  *)
(* RelaxedSpec is what concurrent requests are shown to keep               *)
(* (ClearanceTx.tla): there, changing a unit's state may miss decisions on *)
(* that unit that it should have revoked.                                  *)
(***************************************************************************)
EXTENDS ClearanceDB

-----------------------------------------------------------------------------
(* Slips a change to the code could introduce; the properties are tested   *)
(* against them and nothing else uses them.                                *)

CreateTurnaroundSharing(t, U, P, C) ==
  /\ NextTurnaround(t)
  /\ U # {} /\ C # {}
  /\ \A u \in U : \A s \in ActiveWith(u) : status[s] \notin {"open", "checking"}
  /\ Available(U)
  /\ InsertTurnaround(t, U, P, C)
  /\ UNCHANGED unitVars

DecideIntoStatus(t, to) ==
  /\ MayDecide(t, to)
  /\ to = "cleared" => Available(assigned[t])
  /\ SaveDecisions({t}, clearance, to)
  /\ UpdateTurnaround(t, to)
  /\ UNCHANGED <<unitVars, result>>

DecideFromPrevious(t, to) ==
  /\ MayDecide(t, to)
  /\ to = "cleared" => Available(assigned[t])
  /\ SaveDecisions({t}, previous, to)
  /\ UpdateTurnaround(t, "decisioned")
  /\ UNCHANGED <<unitVars, result>>

ChangeUnitStateClearedOnly(role, u, to, R) ==
  /\ unitState[u] # Absent
  /\ unitVersion[u] < MaxVersion
  /\ allowedUnitTransition(unitState[u], to)
  /\ MayRequestUnitState(role, to)
  /\ UpdateUnit(u, to)
  /\ SaveDecisions({t \in R : clearance[t] = "cleared"}, clearance, "revoked")
  /\ UNCHANGED <<turnaroundVars, result>>

FoundUnlessRetired(u, to) == IF to \in {"available", "retired"} THEN {} ELSE ActiveWith(u)

-----------------------------------------------------------------------------
(* One action per operation.                                               *)

\* POST /ground-units: the unit enters in any valid state.
CreateUnit(u, s) ==
  /\ unitState[u] = Absent
  /\ InsertUnit(u, s)
  /\ UNCHANGED <<turnaroundVars, result, decisionVars>>

\* PATCH /ground-units/:id/state from a user of this role who sent the unit's
\* present version (any other is refused).  R are the turnarounds found active
\* with the unit; those whose decision released them are revoked.
ChangeUnitState(role, u, to, R) ==
  /\ unitState[u] # Absent
  /\ unitVersion[u] < MaxVersion
  /\ allowedUnitTransition(unitState[u], to)
  /\ MayRequestUnitState(role, to)
  /\ UpdateUnit(u, to)
  /\ SaveDecisions({t \in R : clearance[t] \in Released}, clearance, "revoked")
  /\ UNCHANGED <<turnaroundVars, result>>

\* The turnarounds GroundUnitService.ChangeState looks for before it writes.
FoundFor(u, to) == IF to = "available" THEN {} ELSE ActiveWith(u)

\* POST /turnarounds with these units, the ids of P padded with leading zeros, and
\* these checks.
CreateTurnaround(t, U, P, C) ==
  /\ NextTurnaround(t)
  /\ U # {} /\ C # {}
  /\ \A u \in U : \A s \in ActiveWith(u) : ~Engaged(s)
  /\ Available(U)
  /\ InsertTurnaround(t, U, P, C)
  /\ UNCHANGED unitVars

\* PATCH /turnarounds/:id/status with the turnaround's present version.
ChangeTurnaroundStatus(t, to) ==
  /\ MayChangeStatus(t, to)
  /\ UpdateTurnaround(t, to)
  /\ UNCHANGED <<unitVars, result, decisionVars>>

\* POST /checks
CreateCheck(t, c) ==
  /\ MayAddCheck(t, c)
  /\ WriteCheck(t, c, "pending")
  /\ UNCHANGED <<unitVars, turnaroundVars, decisionVars>>

\* PATCH /checks/:id/review; the first review also starts the checking phase.
ReviewCheck(t, c, r) ==
  /\ MayReview(t, c)
  /\ WriteCheck(t, c, r)
  /\ IF status[t] = "open" THEN UpdateTurnaround(t, "checking")
                           ELSE UNCHANGED turnaroundVars
  /\ UNCHANGED <<unitVars, decisionVars>>

\* POST /clearance
Decide(t, to) ==
  /\ MayDecide(t, to)
  /\ to = "cleared" => Available(assigned[t])
  /\ SaveDecisions({t}, clearance, to)
  /\ UpdateTurnaround(t, "decisioned")
  /\ UNCHANGED <<unitVars, result>>

-----------------------------------------------------------------------------

Init == EmptyDB

\* The operations that touch no unit's row once it exists.
TurnaroundNext ==
  \E t \in Turnaround :
    \/ \E U \in SUBSET Unit, C \in SUBSET CheckCode :
         \E P \in SUBSET (U \cap Paddable) : CreateTurnaround(t, U, P, C)
    \/ \E to \in TurnaroundStatus : ChangeTurnaroundStatus(t, to)
    \/ \E c \in CheckCode : CreateCheck(t, c)
    \/ \E c \in CheckCode, r \in CheckResult \ {"pending"} : ReviewCheck(t, c, r)
    \/ \E to \in ClearanceState \ {"pending"} : Decide(t, to)

Next ==
  \/ \E u \in Unit, s \in UnitState : CreateUnit(u, s)
  \/ \E role \in UnitStateRoles, u \in Unit, to \in UnitState :
       ChangeUnitState(role, u, to, FoundFor(u, to))
  \/ TurnaroundNext

Spec == Init /\ [][Next]_dbVars

\* The same, but an equipment change may leave any of its releases standing.
RelaxedNext ==
  \/ \E u \in Unit, s \in UnitState : CreateUnit(u, s)
  \/ \E role \in UnitStateRoles, u \in Unit, to \in UnitState :
       \E R \in SUBSET FoundFor(u, to) : ChangeUnitState(role, u, to, R)
  \/ TurnaroundNext

RelaxedSpec == Init /\ [][RelaxedNext]_dbVars

=============================================================================
