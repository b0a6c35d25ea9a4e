--------------------------- MODULE ServiceProofs ---------------------------
(***************************************************************************)
(* Proofs about the service's two compositions, for any units,             *)
(* turnarounds, checks and bounds.                                         *)
(*                                                                         *)
(* Workflow: the demo shift satisfies the inductive invariant of           *)
(* ClearanceProofs, every step is one of RelaxedNext, and while nothing    *)
(* has been missed it is one of Next, whose promises then hold.            *)
(*                                                                         *)
(* Readiness: reports name no blocker that was never there, and fit the    *)
(* status they give.  ReadInv relates what a request has read to what the  *)
(* rows say now, while other requests commit.  It rests on what            *)
(* ClearanceProofs shows of these commits: their invariant Inv, and that   *)
(* evidence stays as it was.                                               *)
(***************************************************************************)
EXTENDS Workflow, Readiness, ClearanceProofs

USE NoTurnaroundAssumption DEF Absent, Released

-----------------------------------------------------------------------------
(* From an empty database or the demo shift (Workflow).                    *)

\* The demo shift contradicts nothing, although no request could have made it.
LEMMA SeededInv ==
  ASSUME NEW c \in CheckCode, NEW d \in CheckCode, Seeded(c, d)
  PROVE  Inv /\ FindableUnitsAvailable
  <1>1. TypeOK
    <2>1. \A u \in 1..4 : SeededState[u] \in UnitState
      BY DEF SeededState, UnitState
    <2>2. unitState \in [Unit -> UnitState \cup {Absent}]
      BY <2>1 DEF Seeded
    <2>3. /\ unitVersion \in [Unit -> 0..MaxVersion]
          /\ version \in [Turnaround -> Nat]
      BY MaxVersionAssumption DEF Seeded
    <2>4. /\ status \in [Turnaround -> TurnaroundStatus \cup {Absent}]
          /\ result \in [Turnaround -> [CheckCode -> CheckResult \cup {Absent}]]
          /\ clearance \in [Turnaround -> ClearanceState \cup {Absent}]
          /\ previous \in [Turnaround -> ClearanceState \cup {Absent}]
      BY DEF Seeded, TurnaroundStatus, CheckResult, ClearanceState
    <2>5. /\ assigned \in [Turnaround -> SUBSET Unit]
          /\ padded \in [Turnaround -> SUBSET Paddable]
          /\ \A t \in Turnaround : padded[t] \subseteq assigned[t]
          /\ trail \in [Turnaround -> Seq(ClearanceState \X ClearanceState)]
      BY DEF Seeded
    <2> QED
      BY <2>2, <2>3, <2>4, <2>5 DEF TypeOK
  <1>2. \A t \in Turnaround : clearance[t] \in {"pending", Absent}
    BY DEF Seeded
  <1>3. StatusFollowsDecision
    BY DEF Seeded, StatusFollowsDecision, Exists
  <1>4. ExclusiveUnlessPadded
    BY DEF Seeded, SeededUnits, ExclusiveUnlessPadded, Engaged
  <1>5. IdsInOrder
    BY TurnaroundAssumption DEF Seeded, IdsInOrder, Exists
  <1> QED
    BY <1>1, <1>2, <1>3, <1>4, <1>5 DEF Inv, ReleaseNeedsReview, FindableUnitsAvailable

\* Both databases the service can start on.
LEMMA WorkflowInitInv == WorkflowInit => Inv /\ AvailableUnlessMissed
  <1>1. EmptyDB => Inv /\ FindableUnitsAvailable
    BY InitInv DEF Init, EmptyDB, FindableUnitsAvailable
  <1> QED
    BY <1>1, SeededInv DEF WorkflowInit, AvailableUnlessMissed

\* The bounds only leave steps out.
LEMMA WorkflowStepIsRelaxed == [WorkflowNext]_workflowVars => [RelaxedNext]_dbVars
  <1> SUFFICES ASSUME [WorkflowNext]_workflowVars PROVE [RelaxedNext]_dbVars
    OBVIOUS
  <1>1. \A u, to : ReleasesFound(u, to) \subseteq FoundFor(u, to)
    BY DEF ReleasesFound
  <1> QED
    BY <1>1, NewUnitsAssumption, NewStatesAssumption
       DEF WorkflowNext, ChangeEquipment, RelaxedNext, workflowVars

\* A change that revokes all the releases it finds is the serial service's.
LEMMA CompleteChange ==
  ASSUME NEW role, NEW u, NEW to, ChangeUnitState(role, u, to, ReleasesFound(u, to))
  PROVE  ChangeUnitState(role, u, to, FoundFor(u, to))
  <1>1. {t \in ReleasesFound(u, to) : clearance[t] \in Released}
          = {t \in FoundFor(u, to) : clearance[t] \in Released}
    BY DEF ReleasesFound
  <1> QED
    BY <1>1 DEF ChangeUnitState

\* While nothing has been missed every step is one of the serial service, and a
\* change of equipment revokes whatever the change's query should find.
LEMMA UnmissedStep ==
  ASSUME [WorkflowNext]_workflowVars, missed \in BOOLEAN, ~missed'
  PROVE  ~missed /\ [Next]_dbVars
  <1>1. ASSUME NEW role \in UnitStateRoles, NEW u \in Unit, NEW to \in UnitState,
               NEW R \in SUBSET ReleasesFound(u, to), ChangeEquipment(role, u, to, R)
        PROVE  ~missed /\ Next
    <2>1. ~missed /\ R = ReleasesFound(u, to)
      BY <1>1 DEF ChangeEquipment
    <2>2. ChangeUnitState(role, u, to, FoundFor(u, to))
      BY <1>1, <2>1, CompleteChange DEF ChangeEquipment
    <2> QED
      BY <2>1, <2>2 DEF Next
  <1>2. ASSUME NEW u \in NewUnits, NEW s \in NewStates, CreateUnit(u, s), UNCHANGED missed
        PROVE  ~missed /\ Next
    BY <1>2, NewUnitsAssumption, NewStatesAssumption DEF Next
  <1>3. ASSUME TurnaroundNext, UNCHANGED missed PROVE ~missed /\ Next
    BY <1>3 DEF Next
  <1> QED
    BY <1>1, <1>2, <1>3 DEF WorkflowNext, workflowVars

WorkflowInv == Inv /\ AvailableUnlessMissed /\ missed \in BOOLEAN

\* The strengthened invariant is inductive.
LEMMA WorkflowStepInv == WorkflowInv /\ [WorkflowNext]_workflowVars => WorkflowInv'
  <1> SUFFICES ASSUME WorkflowInv, [WorkflowNext]_workflowVars PROVE WorkflowInv'
    OBVIOUS
  <1>1. Inv'
    BY WorkflowStepIsRelaxed, StepInv DEF WorkflowInv
  <1>2. missed' \in BOOLEAN
    BY DEF WorkflowInv, WorkflowNext, ChangeEquipment, workflowVars
  <1>3. ASSUME ~missed' PROVE FindableUnitsAvailable'
    BY <1>3, UnmissedStep, StepCleared DEF WorkflowInv, AvailableUnlessMissed
  <1> QED
    BY <1>1, <1>2, <1>3 DEF WorkflowInv, AvailableUnlessMissed

\* From an empty database and from the demo shift alike, committed rows keep the
\* inductive invariant, and full clearances keep available units while nothing
\* has been missed.
THEOREM WorkflowInvariance == WorkflowSpec => []WorkflowInv
  <1>1. WorkflowInit => WorkflowInv
    BY WorkflowInitInv DEF WorkflowInv, WorkflowInit
  <1> QED
    BY <1>1, WorkflowStepInv, PTL DEF WorkflowSpec

\* A fully cleared, uncompleted turnaround has an unavailable unit only after an
\* equipment change has missed a release.
THEOREM AvailableWhileNothingMissed == WorkflowSpec => []AvailableUnlessMissed
  <1>1. WorkflowInv => AvailableUnlessMissed
    BY DEF WorkflowInv
  <1> QED
    BY <1>1, WorkflowInvariance, PTL

-----------------------------------------------------------------------------

Revoking ==
  \A u \in Unit :
    ~missed' /\ unitState[u] # Absent /\ unitState'[u] \notin {unitState[u], "available"} =>
      \A t \in ActiveWith(u) : clearance'[t] \notin Released

\* Only ChangeState moves a unit from one state to another.
LEMMA StepRevokes ==
  ASSUME WorkflowInv, [WorkflowNext]_workflowVars
  PROVE  Revoking
  <1> SUFFICES ASSUME ~missed', NEW u \in Unit, unitState[u] # Absent,
                      unitState'[u] \notin {unitState[u], "available"},
                      NEW t \in ActiveWith(u)
               PROVE  clearance'[t] \notin Released
    BY DEF Revoking
  <1> USE DEF WorkflowInv, Inv, TypeOK
  <1>1. [Next]_dbVars
    BY UnmissedStep
  <1>2. ASSUME NEW v \in Unit, NEW s \in UnitState, CreateUnit(v, s) PROVE FALSE
    BY <1>2 DEF CreateUnit, InsertUnit
  <1>3. ASSUME TurnaroundNext PROVE FALSE
    <2>1. UNCHANGED unitState
      BY <1>3 DEF TurnaroundNext, CreateTurnaround, ChangeTurnaroundStatus, CreateCheck,
         ReviewCheck, Decide, unitVars
    <2> QED
      BY <2>1
  <1>4. ASSUME NEW role \in UnitStateRoles, NEW v \in Unit, NEW to \in UnitState,
               ChangeUnitState(role, v, to, FoundFor(v, to))
        PROVE  clearance'[t] \notin Released
    <2>1. v = u /\ to # "available"
      BY <1>4 DEF ChangeUnitState, UpdateUnit
    <2>2. t \in FoundFor(v, to) /\ t \in Turnaround
      BY <2>1 DEF FoundFor, ActiveWith
    <2> QED
      BY <1>4, <2>2 DEF ChangeUnitState, SaveDecisions
  <1>5. CASE UNCHANGED dbVars
    BY <1>5 DEF dbVars, unitVars
  <1> QED
    BY <1>1, <1>2, <1>3, <1>4, <1>5 DEF Next

\* Until a release is missed, equipment that stops being available takes every
\* release it serves with it, full or restricted, in the same committed step.
THEOREM WithdrawalsRevokeAll == WorkflowSpec => RevokedUnlessMissed
  <1>1. WorkflowInv /\ [WorkflowNext]_workflowVars => [Revoking]_workflowVars
    BY StepRevokes
  <1>2. WorkflowSpec => [][Revoking]_workflowVars
    <2> HIDE DEF Revoking
    <2> QED
      BY <1>1, WorkflowInvariance, PTL DEF WorkflowSpec
  <1> QED
    BY <1>2 DEF RevokedUnlessMissed, Revoking

-----------------------------------------------------------------------------
(* History, from the demo shift as well as from an empty database.         *)

\* The demo shift has no decision yet, and rows it does not insert have no version.
LEMMA WorkflowInitHistory == WorkflowInit => HistoryInv /\ FreshVersions
  <1>1. EmptyDB => HistoryInv /\ FreshVersions
    BY InitHistory DEF Init, EmptyDB, FreshVersions
  <1>2. ASSUME NEW c, NEW d, Seeded(c, d) PROVE HistoryInv /\ FreshVersions
    <2>1. \A t \in Turnaround : Explained(t)
      BY <1>2 DEF Seeded, Explained, Exists, ChecksOf
    <2>2. ASSUME NEW u \in Unit, unitState[u] = Absent PROVE unitVersion[u] = 0
      <3>1. CASE u \in 1..4
        <4>1. SeededState[u] # Absent
          BY <3>1 DEF SeededState
        <4> QED
          BY <1>2, <2>2, <3>1, <4>1 DEF Seeded
      <3>2. CASE u \notin 1..4
        BY <1>2, <3>2 DEF Seeded
      <3> QED
        BY <3>1, <3>2
    <2>3. \A t \in Turnaround : ~Exists(t) => version[t] = 0
      BY <1>2 DEF Seeded, Exists
    <2> QED
      BY <2>1, <2>2, <2>3 DEF HistoryInv, FreshVersions
  <1> QED
    BY <1>1, <1>2 DEF WorkflowInit

\* Everything that is promised of every step and every state of RelaxedSpec holds in
\* the demo shift too: trails explain decisions, closed rows are final, evidence is
\* frozen and versions tell states apart.
THEOREM WorkflowKeepsPromises ==
  WorkflowSpec => /\ []AuditExplains
                  /\ DecisionsAreFinal /\ EvidenceFrozen /\ VersionTellsStates
  <1> DEFINE Final == \A t \in Turnaround : Closed(t) => Untouched(t)
  <1>1. WorkflowInit => HistoryInv /\ FreshVersions
    BY WorkflowInitHistory
  <1>2. WorkflowInv /\ HistoryInv /\ FreshVersions /\ [WorkflowNext]_workflowVars =>
          /\ HistoryInv' /\ FreshVersions'
          /\ [Final]_dbVars /\ [KeepsEvidence]_dbVars /\ [VersionsTell]_dbVars
    <2> SUFFICES ASSUME Inv, HistoryInv, FreshVersions, [RelaxedNext]_dbVars
                 PROVE  /\ HistoryInv' /\ FreshVersions'
                        /\ Final /\ KeepsEvidence /\ VersionsTell
      BY WorkflowStepIsRelaxed DEF WorkflowInv
    <2>1. HistoryInv'
      BY StepHistory
    <2> QED
      BY <2>1, StepFinal, StepEvidence, StepVersions
  <1>3. WorkflowSpec => [](WorkflowInv /\ HistoryInv /\ FreshVersions)
    <2> HIDE DEF Final
    <2> QED
      BY <1>1, <1>2, WorkflowInvariance, PTL DEF WorkflowSpec
  <1>4. WorkflowSpec => [][Final]_dbVars /\ [][KeepsEvidence]_dbVars /\ [][VersionsTell]_dbVars
    <2> HIDE DEF Final
    <2> QED
      BY <1>2, <1>3, PTL DEF WorkflowSpec
  <1>5. /\ [][Final]_dbVars => DecisionsAreFinal
        /\ [][KeepsEvidence]_dbVars => EvidenceFrozen
        /\ [][VersionsTell]_dbVars => VersionTellsStates
    BY DEF DecisionsAreFinal, EvidenceFrozen, VersionTellsStates, Closed, Untouched, KeepsEvidence,
       VersionsTell
  <1> QED
    BY <1>3, <1>4, <1>5, HistoryExplains, PTL

-----------------------------------------------------------------------------
(* The readiness report beside all writers (Readiness).                    *)

Decided == {"decisioned", "completed"}

\* The request under way is about a turnaround that exists and its units; what its
\* report does not yet say is empty.
RequestInv ==
  /\ next \in {"checks", "units", "decision", "answer"} => reading \in Turnaround /\ Exists(reading)
  /\ next = "turnaround" => reading = NoTurnaround
  /\ left # {} => left \subseteq assigned[reading]
  /\ next = "checks" => report.pending = {} /\ report.failed = {} /\ report.blocked = {}
  /\ next \in {"checks", "units", "decision"} => ~lost

\* A blocker that is there now, or that the report names, has been seen.
BlockersInv ==
  /\ reading # NoTurnaround /\ ~Ready(reading) => sawBlocked
  /\ reading # NoTurnaround /\ Named => sawBlocked

\* If the report's status is past the decision, so is the turnaround's, and the
\* checks that the report has read are as they are now.
DecidedInv ==
  next # "turnaround" /\ report.status \in Decided =>
    /\ status[reading] \in Decided
    /\ next \in {"units", "decision"} =>
         /\ report.pending = {c \in CheckCode : result[reading][c] = "pending"}
         /\ report.failed = {c \in CheckCode : result[reading][c] = "failed"}

ReadInv ==
  /\ Inv /\ HistoryInv
  /\ ReadTypeOK /\ RequestInv /\ BlockersInv /\ DecidedInv /\ ReportsAreConsistent

-----------------------------------------------------------------------------
(* What the rows of a turnaround that exists keep through a commit.        *)

\* It goes on existing with the same units, and does not return from its decision.
LEMMA CommitKeeps ==
  ASSUME Inv, RelaxedNext, NEW t \in Turnaround, Exists(t)
  PROVE  /\ Exists(t)' /\ assigned'[t] = assigned[t]
         /\ status[t] \in Decided => status'[t] \in Decided
  <1> USE DEF Inv, TypeOK, Decided
  <1>1. ASSUME NEW u \in Unit, NEW s \in UnitState, CreateUnit(u, s)
        PROVE  status' = status /\ assigned' = assigned
    BY <1>1 DEF CreateUnit, turnaroundVars
  <1>2. ASSUME NEW role, NEW u, NEW to, NEW R, ChangeUnitState(role, u, to, R)
        PROVE  status' = status /\ assigned' = assigned
    BY <1>2 DEF ChangeUnitState, turnaroundVars
  <1>3. ASSUME NEW s \in Turnaround, NEW U \in SUBSET Unit, NEW C \in SUBSET CheckCode,
               NEW P \in SUBSET (U \cap Paddable), CreateTurnaround(s, U, P, C)
        PROVE  status'[t] = status[t] /\ assigned'[t] = assigned[t]
    BY <1>3 DEF CreateTurnaround, NextTurnaround, InsertTurnaround, Exists
  <1>4. ASSUME NEW s \in Turnaround, NEW to \in TurnaroundStatus, ChangeTurnaroundStatus(s, to)
        PROVE  /\ assigned' = assigned
               /\ status'[t] = status[t] \/ status'[t] \in {"checking", "completed"}
               /\ status[t] \in Decided => status'[t] \in Decided
    BY <1>4 DEF ChangeTurnaroundStatus, UpdateTurnaround, MayChangeStatus, allowedTurnaroundTransition
  <1>5. ASSUME NEW s \in Turnaround, NEW c \in CheckCode, CreateCheck(s, c)
        PROVE  status' = status /\ assigned' = assigned
    BY <1>5 DEF CreateCheck, turnaroundVars
  <1>6. ASSUME NEW s \in Turnaround, NEW c \in CheckCode, NEW r, ReviewCheck(s, c, r)
        PROVE  /\ assigned' = assigned
               /\ status'[t] = status[t] \/ (status[t] = "open" /\ status'[t] = "checking")
    BY <1>6 DEF ReviewCheck, UpdateTurnaround, turnaroundVars
  <1>7. ASSUME NEW s \in Turnaround, NEW to, Decide(s, to)
        PROVE  assigned' = assigned /\ (status'[t] = status[t] \/ status'[t] = "decisioned")
    BY <1>7 DEF Decide, UpdateTurnaround
  <1>8. CASE TurnaroundNext
    BY <1>3, <1>4, <1>5, <1>6, <1>7, <1>8 DEF TurnaroundNext, Exists
  <1> QED
    BY <1>1, <1>2, <1>8 DEF RelaxedNext, Exists

\* Once it is past its decision, its checks stay as they are.
LEMMA CommitKeepsChecks ==
  ASSUME Inv, HistoryInv, RelaxedNext, NEW t \in Turnaround, status[t] \in Decided
  PROVE  \A c \in CheckCode : result'[t][c] = result[t][c]
  <1>1. clearance[t] \in Released \cup {"revoked"}
    BY DEF Inv, TypeOK, StatusFollowsDecision, Exists, Decided, ClearanceState
  <1> QED
    BY <1>1, StepEvidence DEF KeepsEvidence

-----------------------------------------------------------------------------
(* The steps.                                                              *)

\* The first statement finds the turnaround, and the report is new.
LEMMA ReadTurnaroundInv ==
  ASSUME ReadInv, NEW t \in Turnaround, ReadTurnaround(t)
  PROVE  ReadInv'
  <1> USE DEF ReadInv
  <1>1. /\ reading' = t /\ left' = assigned[t] /\ next' = "checks" /\ Exists(t)
        /\ report' = [NoReport EXCEPT !.status = status[t]]
        /\ sawBlocked' = ~Ready(t) /\ lost' = FALSE
        /\ UNCHANGED dbVars
    BY DEF ReadTurnaround
  <1>2. UNCHANGED <<unitState, unitVersion, status, version, assigned, padded,
                  result, clearance, previous, trail>>
    BY <1>1 DEF dbVars, unitVars, turnaroundVars, decisionVars
  <1>3. Inv' /\ HistoryInv'
    BY <1>1, StepInv, StepHistory
  <1>4. /\ report'.status = status[t]
        /\ report'.pending = {} /\ report'.failed = {} /\ report'.blocked = {}
    BY <1>1 DEF NoReport
  <1>5. ReadTypeOK'
    BY <1>1 DEF ReadTypeOK, NoReport, Inv, TypeOK
  <1>6. RequestInv' /\ DecidedInv' /\ ReportsAreConsistent'
    BY <1>1, <1>2, <1>4 DEF RequestInv, DecidedInv, ReportsAreConsistent, Exists, Decided
  <1>7. BlockersInv'
    BY <1>1, <1>2, <1>4 DEF BlockersInv, Named, Ready, Available, ChecksOf
  <1> QED
    BY <1>3, <1>5, <1>6, <1>7

\* A later statement adds to the report what it reads of the rows as they are now.
LEMMA ReadFrame ==
  ASSUME ReadInv, UNCHANGED <<dbVars, reading>>
  PROVE  /\ Inv' /\ HistoryInv'
         /\ UNCHANGED <<status, assigned, result, clearance, unitState>>
         /\ Ready(reading)' <=> Ready(reading)
  <1>1. UNCHANGED <<status, assigned, result, clearance, unitState>>
    BY DEF dbVars, unitVars, turnaroundVars, decisionVars
  <1> QED
    BY <1>1, StepInv, StepHistory DEF ReadInv, Ready, Available, ChecksOf

\* ListByTurnaround: a check that is not passed is a blocker now.
LEMMA ReadChecksInv == ASSUME ReadInv, ReadChecks PROVE ReadInv'
  <1> USE DEF ReadInv
  <1> DEFINE pending == {c \in CheckCode : result[reading][c] = "pending"}
             failed  == {c \in CheckCode : result[reading][c] = "failed"}
  <1>1. /\ next = "checks" /\ next' = "units"
        /\ UNCHANGED <<reading, left, sawBlocked, lost>>
    BY DEF ReadChecks, historyVars
  <1>2. /\ report'.pending = pending /\ report'.failed = failed
        /\ report'.status = report.status /\ report'.blocked = report.blocked
    BY DEF ReadChecks, ReadTypeOK
  <1>3. /\ Inv' /\ HistoryInv'
        /\ UNCHANGED <<status, assigned, result, clearance, unitState>>
        /\ Ready(reading)' <=> Ready(reading)
    BY ReadFrame DEF ReadChecks
  <1>4. ReadTypeOK'
    BY <1>1 DEF ReadChecks, ReadTypeOK
  <1>5. RequestInv' /\ DecidedInv' /\ ReportsAreConsistent'
    BY <1>1, <1>2, <1>3 DEF RequestInv, DecidedInv, ReportsAreConsistent, Exists
  <1>6. pending \cup failed # {} => ~Ready(reading)
    BY DEF Ready, ChecksOf
  <1>7. BlockersInv'
    BY <1>1, <1>2, <1>3, <1>6 DEF BlockersInv, Named, RequestInv
  <1> QED
    BY <1>3, <1>4, <1>5, <1>7

\* FindByID on a unit of the turnaround: one that is not available is a blocker now.
LEMMA ReadUnitInv == ASSUME ReadInv, NEW u \in Unit, ReadUnit(u) PROVE ReadInv'
  <1> USE DEF ReadInv
  <1>1. /\ next = "units" /\ next' \in {"units", "decision"} /\ u \in left
        /\ left' = left \ {u}
        /\ UNCHANGED <<reading, sawBlocked, lost>>
    BY DEF ReadUnit, historyVars
  <1>2. /\ report'.pending = report.pending /\ report'.failed = report.failed
        /\ report'.status = report.status /\ report'.clearance = report.clearance
        /\ report'.blocked = report.blocked \/ unitState[u] # "available"
    BY DEF ReadUnit, ReadTypeOK
  <1>3. /\ Inv' /\ HistoryInv'
        /\ UNCHANGED <<status, assigned, result, clearance, unitState>>
        /\ Ready(reading)' <=> Ready(reading)
    BY ReadFrame DEF ReadUnit
  <1>4. ReadTypeOK'
    BY <1>1 DEF ReadUnit, ReadTypeOK
  <1>5. RequestInv' /\ DecidedInv' /\ ReportsAreConsistent'
    BY <1>1, <1>2, <1>3 DEF RequestInv, DecidedInv, ReportsAreConsistent, Exists
  <1>6. unitState[u] # "available" => ~Ready(reading)
    BY <1>1 DEF Ready, Available, RequestInv
  <1>7. BlockersInv'
    BY <1>1, <1>2, <1>3, <1>6 DEF BlockersInv, Named, RequestInv
  <1> QED
    BY <1>3, <1>4, <1>5, <1>7

\* FindByTurnaround: a decision that is read fits the checks that were.
LEMMA ReadDecisionInv == ASSUME ReadInv, ReadDecision PROVE ReadInv'
  <1> USE DEF ReadInv
  <1>1. /\ next = "decision" /\ next' = "answer"
        /\ UNCHANGED <<reading, left, sawBlocked>>
        /\ reading \in Turnaround /\ Exists(reading)
    BY DEF ReadDecision, RequestInv
  <1>2. /\ report'.pending = report.pending /\ report'.failed = report.failed
        /\ report'.status = report.status /\ report'.blocked = report.blocked
        /\ \/ report'.clearance = clearance[reading] /\ lost' = lost
           \/ report'.clearance = "pending" /\ lost' = TRUE
    BY DEF ReadDecision, ReadTypeOK
  <1>3. /\ Inv' /\ HistoryInv'
        /\ UNCHANGED <<status, assigned, result, clearance, unitState>>
        /\ Ready(reading)' <=> Ready(reading)
    BY ReadFrame DEF ReadDecision
  <1>4. ReadTypeOK'
    <2>1. {clearance[reading], "pending"} \subseteq ClearanceState \cup {Absent}
      BY <1>1 DEF Inv, TypeOK, ClearanceState
    <2>2. lost' \in BOOLEAN
      BY <1>2 DEF ReadTypeOK
    <2>3. \A x \in ClearanceState \cup {Absent} :
            [report EXCEPT !.clearance = x] \in
              [status : TurnaroundStatus \cup {Absent}, pending : SUBSET CheckCode,
               failed : SUBSET CheckCode, blocked : SUBSET Unit, missing : SUBSET Unit,
               clearance : ClearanceState \cup {Absent}]
      BY DEF ReadTypeOK
    <2> QED
      BY <1>1, <2>1, <2>2, <2>3 DEF ReadDecision, ReadTypeOK
  <1>5. RequestInv' /\ DecidedInv' /\ BlockersInv'
    BY <1>1, <1>2, <1>3 DEF RequestInv, DecidedInv, BlockersInv, Named, Exists
  <1>6. ReportsAreConsistent'
    <2> SUFFICES ASSUME report'.status \in Decided
                 PROVE  /\ report'.clearance = "pending" => lost'
                        /\ report'.clearance \in Released => report'.pending = {}
                        /\ report'.clearance = "cleared" => report'.failed = {}
      BY DEF ReportsAreConsistent, Decided
    <2>1. /\ status[reading] \in Decided
          /\ report'.pending = {c \in CheckCode : result[reading][c] = "pending"}
          /\ report'.failed = {c \in CheckCode : result[reading][c] = "failed"}
      BY <1>1, <1>2 DEF DecidedInv
    <2>2. clearance[reading] # "pending"
      BY <1>1, <2>1 DEF Inv, StatusFollowsDecision, Decided
    <2>3. /\ clearance[reading] \in Released => \A c \in CheckCode : result[reading][c] # "pending"
          /\ clearance[reading] = "cleared" => \A c \in CheckCode : result[reading][c] # "failed"
      BY <1>1 DEF Inv, ReleaseNeedsReview, ChecksOf
    <2> QED
      BY <1>2, <2>1, <2>2, <2>3
  <1> QED
    BY <1>3, <1>4, <1>5, <1>6

\* The answer ends the request.
LEMMA AnswerInv == ASSUME ReadInv, Answer PROVE ReadInv'
  <1> USE DEF ReadInv
  <1>1. Inv' /\ HistoryInv'
    BY StepInv, StepHistory DEF Answer
  <1> QED
    BY <1>1 DEF Answer, ReadTypeOK, RequestInv, BlockersInv, DecidedInv, ReportsAreConsistent

\* Another request commits: its blockers are seen, and what the report relies on stays.
LEMMA CommitInv == ASSUME ReadInv, Commit PROVE ReadInv'
  <1> USE DEF ReadInv
  <1>1. /\ RelaxedNext /\ UNCHANGED <<reading, next, left, report, lost>>
        /\ sawBlocked' = (sawBlocked \/ (reading # NoTurnaround /\ ~Ready(reading)'))
    BY DEF Commit
  <1>2. Inv' /\ HistoryInv'
    BY <1>1, StepInv, StepHistory
  <1>3. ReadTypeOK'
    BY <1>1 DEF ReadTypeOK
  <1>4. BlockersInv'
    BY <1>1 DEF BlockersInv, Named
  <1>5. reading = NoTurnaround \/ (reading \in Turnaround /\ (next # "turnaround" => Exists(reading)))
    BY DEF ReadTypeOK, RequestInv
  <1>6. RequestInv' /\ DecidedInv'
    <2>1. CASE next = "turnaround"
      BY <1>1, <2>1 DEF RequestInv, DecidedInv, ReadTypeOK
    <2>2. CASE next # "turnaround"
      <3>1. reading \in Turnaround /\ Exists(reading)
        BY <2>2 DEF RequestInv, ReadTypeOK
      <3>2. /\ Exists(reading)' /\ assigned'[reading] = assigned[reading]
            /\ status[reading] \in Decided => status'[reading] \in Decided
        <4>1. \A t \in Turnaround : Exists(t) =>
                /\ status'[t] # Absent /\ assigned'[t] = assigned[t]
                /\ status[t] \in Decided => status'[t] \in Decided
          BY <1>1, CommitKeeps DEF Exists
        <4> QED
          BY <1>1, <3>1, <4>1 DEF Exists
      <3>3. status[reading] \in Decided => \A c \in CheckCode : result'[reading][c] = result[reading][c]
        BY <1>1, <3>1, CommitKeepsChecks
      <3> QED
        BY <1>1, <2>2, <3>1, <3>2, <3>3 DEF RequestInv, DecidedInv
    <2> QED
      BY <2>1, <2>2
  <1>7. ReportsAreConsistent'
    BY <1>1 DEF ReportsAreConsistent
  <1> QED
    BY <1>2, <1>3, <1>4, <1>6, <1>7

-----------------------------------------------------------------------------
(* Reports.                                                                *)

\* The invariant holds before the first request.
LEMMA ReadInitInv == ReadInit => ReadInv
  <1>1. ReadInit => Inv /\ HistoryInv
    BY InitInv, InitHistory DEF ReadInit
  <1>2. ReadInit => RequestInv /\ BlockersInv /\ DecidedInv /\ ReportsAreConsistent
    BY DEF ReadInit, RequestInv, BlockersInv, DecidedInv, ReportsAreConsistent
  <1>3. ReadInit => ReadTypeOK
    <2> SUFFICES ASSUME ReadInit PROVE ReadTypeOK
      OBVIOUS
    <2>1. NoReport \in [status : TurnaroundStatus \cup {Absent}, pending : SUBSET CheckCode,
                        failed : SUBSET CheckCode, blocked : SUBSET Unit, missing : SUBSET Unit,
                        clearance : ClearanceState \cup {Absent}]
      BY DEF NoReport
    <2>2. sawBlocked \in BOOLEAN /\ lost \in BOOLEAN
      BY Zenon DEF ReadInit
    <2>3. {sawBlocked, lost} \subseteq BOOLEAN
      BY <2>2
    <2>4. /\ reading = NoTurnaround /\ next = "turnaround" /\ left = {} /\ report = NoReport
      BY DEF ReadInit
    <2> QED
      BY <2>1, <2>3, <2>4 DEF ReadTypeOK
  <1> QED
    BY <1>1, <1>2, <1>3 DEF ReadInv

\* Every statement keeps it, and so does every commit between two.
LEMMA ReadStepInv == ReadInv /\ [ReadNext]_vars => ReadInv'
  <1> SUFFICES ASSUME ReadInv, [ReadNext]_vars PROVE ReadInv'
    OBVIOUS
  <1>1. CASE UNCHANGED vars
    <2>1. /\ UNCHANGED <<dbVars, reading, next, left, report, sawBlocked, lost>>
      BY <1>1 DEF vars, historyVars
    <2>2. /\ Inv' /\ HistoryInv'
          /\ UNCHANGED <<status, assigned, result, clearance, unitState>>
          /\ Ready(reading)' <=> Ready(reading)
      BY <2>1, ReadFrame
    <2> QED
      BY <2>1, <2>2 DEF ReadInv, ReadTypeOK, RequestInv, BlockersInv, Named, DecidedInv,
         ReportsAreConsistent, Exists
  <1> QED
    BY <1>1, ReadTurnaroundInv, ReadChecksInv, ReadUnitInv, ReadDecisionInv, AnswerInv, CommitInv
       DEF ReadNext

\* What a request has read stands in this relation to the rows, whatever commits
\* between its statements.
THEOREM ReadInvariance == ReadSpec => []ReadInv
  BY ReadInitInv, ReadStepInv, PTL DEF ReadSpec

\* A report that names a blocker was true at some moment of its request, although its
\* statements read the rows at different moments.
THEOREM NamedBlockersAreReal == ReadSpec => []BlockersAreReal
  <1>1. ReadInv => BlockersAreReal
    BY DEF ReadInv, RequestInv, BlockersInv, BlockersAreReal
  <1> QED
    BY <1>1, ReadInvariance, PTL

\* A report whose status is past the decision fits a decision.
THEOREM ReportsFitTheirStatus == ReadSpec => []ReportsAreConsistent
  <1>1. ReadInv => ReportsAreConsistent
    BY DEF ReadInv
  <1> QED
    BY <1>1, ReadInvariance, PTL

=============================================================================
