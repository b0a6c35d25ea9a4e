-------------------------- MODULE ClearanceProofs --------------------------
(***************************************************************************)
(* Proofs about Clearance for any units, turnarounds, checks and bound.    *)
(*                                                                         *)
(* Everything that survives concurrent requests is proved of RelaxedSpec,  *)
(* which Spec implements; FindableUnitsAvailable needs Spec's complete     *)
(* revocations.  The inductive invariant is Inv: which units turnarounds   *)
(* may share depends on their order and on decisions that follow their     *)
(* turnarounds' status, and so does that a release stays reviewed.         *)
(***************************************************************************)
EXTENDS Clearance, TLAPS

\* The sequence hands out ids in ascending order, so that an earlier turnaround is one
\* with a smaller id.
IdsInOrder == \A s, t \in Turnaround : s < t /\ Exists(t) => Exists(s)

Inv ==
  /\ TypeOK /\ IdsInOrder /\ StatusFollowsDecision
  /\ ExclusiveUnlessPadded /\ ReleaseNeedsReview

USE DEF Absent, Released

-----------------------------------------------------------------------------
(* The two specifications.                                                 *)

\* The full revocation is one of the partial ones.
LEMMA NextIsRelaxed == Next => RelaxedNext
  BY DEF Next, RelaxedNext

\* What is promised of requests served one at a time is a case of what is shown
\* of concurrent ones, so every RelaxedSpec theorem below holds of Spec too.
THEOREM SpecIsRelaxed == Spec => RelaxedSpec
  BY NextIsRelaxed, PTL DEF Spec, RelaxedSpec

-----------------------------------------------------------------------------
(* Types.                                                                  *)

\* The empty tables have legal columns.
LEMMA InitTypeOK == Init => TypeOK
  BY MaxVersionAssumption DEF Init, EmptyDB, TypeOK

\* SaveDecisions only appends links between real decision states.
LEMMA SaveDecisionsType ==
  ASSUME TypeOK, NEW R \in SUBSET Turnaround, NEW to \in ClearanceState,
         \A t \in R : clearance[t] # Absent,
         SaveDecisions(R, clearance, to)
  PROVE  /\ clearance' \in [Turnaround -> ClearanceState \cup {Absent}]
         /\ previous' \in [Turnaround -> ClearanceState \cup {Absent}]
         /\ trail' \in [Turnaround -> Seq(ClearanceState \X ClearanceState)]
  <1>1. \A t \in R : <<clearance[t], to>> \in ClearanceState \X ClearanceState
    BY DEF TypeOK, ClearanceState
  <1>2. \A t \in R : Append(trail[t], <<clearance[t], to>>) \in Seq(ClearanceState \X ClearanceState)
    BY <1>1 DEF TypeOK
  <1> QED
    BY <1>1, <1>2 DEF TypeOK, SaveDecisions

\* UpdateStatusTx and SaveTx keep the columns of turnarounds legal.
LEMMA UpdateTurnaroundType ==
  ASSUME TypeOK, NEW t \in Turnaround, NEW s \in TurnaroundStatus, UpdateTurnaround(t, s)
  PROVE  /\ status' \in [Turnaround -> TurnaroundStatus \cup {Absent}]
         /\ version' \in [Turnaround -> Nat]
         /\ UNCHANGED <<assigned, padded>>
  BY DEF TypeOK, UpdateTurnaround

\* POST /ground-units inserts a legal row.
LEMMA CreateUnitType ==
  ASSUME TypeOK, NEW u \in Unit, NEW s \in UnitState, CreateUnit(u, s)
  PROVE  TypeOK'
  BY MaxVersionAssumption
     DEF TypeOK, CreateUnit, InsertUnit, turnaroundVars, decisionVars

\* The unit's version stays within its bound and revocations are legal decisions.
LEMMA ChangeUnitStateType ==
  ASSUME TypeOK, NEW role, NEW u \in Unit, NEW to \in UnitState,
         NEW R \in SUBSET Turnaround, ChangeUnitState(role, u, to, R)
  PROVE  TypeOK'
  <1> DEFINE S == {t \in R : clearance[t] \in Released}
  <1>1. SaveDecisions(S, clearance, "revoked")
    BY DEF ChangeUnitState
  <1>2. /\ clearance' \in [Turnaround -> ClearanceState \cup {Absent}]
        /\ previous' \in [Turnaround -> ClearanceState \cup {Absent}]
        /\ trail' \in [Turnaround -> Seq(ClearanceState \X ClearanceState)]
    <2>1. S \in SUBSET Turnaround /\ \A t \in S : clearance[t] # Absent
      OBVIOUS
    <2>2. "revoked" \in ClearanceState
      BY DEF ClearanceState
    <2> HIDE DEF S
    <2> QED
      BY <1>1, <2>1, <2>2, SaveDecisionsType
  <1>3. unitState' \in [Unit -> UnitState \cup {Absent}] /\ unitVersion' \in [Unit -> 0..MaxVersion]
    BY MaxVersionAssumption DEF TypeOK, ChangeUnitState, UpdateUnit
  <1> QED
    BY <1>2, <1>3 DEF TypeOK, ChangeUnitState, turnaroundVars

\* POST /turnarounds inserts legal rows in four tables.
LEMMA CreateTurnaroundType ==
  ASSUME TypeOK, NEW t \in Turnaround, NEW U \in SUBSET Unit, NEW P \in SUBSET (U \cap Paddable),
         NEW C \in SUBSET CheckCode, CreateTurnaround(t, U, P, C)
  PROVE  TypeOK'
  BY DEF TypeOK, CreateTurnaround, InsertTurnaround, unitVars,
         TurnaroundStatus, CheckResult, ClearanceState

\* PATCH /turnarounds/:id/status writes a legal status.
LEMMA ChangeTurnaroundStatusType ==
  ASSUME TypeOK, NEW t \in Turnaround, NEW to \in TurnaroundStatus,
         ChangeTurnaroundStatus(t, to)
  PROVE  TypeOK'
  BY UpdateTurnaroundType DEF TypeOK, ChangeTurnaroundStatus, unitVars, decisionVars

\* POST /checks inserts a pending check.
LEMMA CreateCheckType ==
  ASSUME TypeOK, NEW t \in Turnaround, NEW c \in CheckCode, CreateCheck(t, c)
  PROVE  TypeOK'
  BY DEF TypeOK, CreateCheck, WriteCheck, unitVars, turnaroundVars, decisionVars, CheckResult

\* PATCH /checks/:id/review writes a result, and a status with the first of them.
LEMMA ReviewCheckType ==
  ASSUME TypeOK, NEW t \in Turnaround, NEW c \in CheckCode, NEW r \in CheckResult,
         ReviewCheck(t, c, r)
  PROVE  TypeOK'
  <1>1. result' \in [Turnaround -> [CheckCode -> CheckResult \cup {Absent}]]
    BY DEF TypeOK, ReviewCheck, WriteCheck
  <1>2. CASE status[t] = "open"
    <2>1. "checking" \in TurnaroundStatus /\ UpdateTurnaround(t, "checking")
      BY <1>2 DEF ReviewCheck, TurnaroundStatus
    <2> QED
      BY <1>1, <2>1, UpdateTurnaroundType DEF TypeOK, ReviewCheck, unitVars, decisionVars
  <1>3. CASE status[t] # "open"
    BY <1>1, <1>3 DEF TypeOK, ReviewCheck, unitVars, turnaroundVars, decisionVars
  <1> QED
    BY <1>2, <1>3

\* POST /clearance writes a decision and the status that goes with it.
LEMMA DecideType ==
  ASSUME TypeOK, NEW t \in Turnaround, NEW to \in ClearanceState, Decide(t, to)
  PROVE  TypeOK'
  <1>1. clearance[t] # Absent
    BY DEF Decide, MayDecide, allowedClearanceTransition
  <1>2. SaveDecisions({t}, clearance, to)
    BY DEF Decide
  <1>3. /\ clearance' \in [Turnaround -> ClearanceState \cup {Absent}]
        /\ previous' \in [Turnaround -> ClearanceState \cup {Absent}]
        /\ trail' \in [Turnaround -> Seq(ClearanceState \X ClearanceState)]
    <2>1. {t} \in SUBSET Turnaround /\ \A s \in {t} : clearance[s] # Absent
      BY <1>1
    <2> QED
      BY <1>2, <2>1, SaveDecisionsType
  <1>4. "decisioned" \in TurnaroundStatus /\ UpdateTurnaround(t, "decisioned")
    BY DEF Decide, TurnaroundStatus
  <1> QED
    BY <1>3, <1>4, UpdateTurnaroundType DEF TypeOK, Decide, unitVars

\* FindActiveByGroundUnitTx finds turnarounds only.
LEMMA FoundAreTurnarounds ==
  \A u, to : \A R \in SUBSET FoundFor(u, to) : R \in SUBSET Turnaround
  BY DEF FoundFor, ActiveWith

\* Types are inductive by themselves.
LEMMA StepTypeOK == TypeOK /\ [RelaxedNext]_dbVars => TypeOK'
  <1> SUFFICES ASSUME TypeOK, [RelaxedNext]_dbVars PROVE TypeOK'
    OBVIOUS
  <1>1. ASSUME NEW u \in Unit, NEW s \in UnitState, CreateUnit(u, s) PROVE TypeOK'
    BY <1>1, CreateUnitType
  <1>2. ASSUME NEW role \in UnitStateRoles, NEW u \in Unit, NEW to \in UnitState,
               NEW R \in SUBSET FoundFor(u, to), ChangeUnitState(role, u, to, R)
        PROVE  TypeOK'
    BY <1>2, FoundAreTurnarounds, ChangeUnitStateType
  <1>3. ASSUME TurnaroundNext PROVE TypeOK'
    BY <1>3, CreateTurnaroundType, ChangeTurnaroundStatusType, CreateCheckType,
       ReviewCheckType, DecideType DEF TurnaroundNext
  <1>4. CASE UNCHANGED dbVars
    BY <1>4 DEF TypeOK, dbVars, unitVars, turnaroundVars, decisionVars
  <1> QED
    BY <1>1, <1>2, <1>3, <1>4 DEF RelaxedNext

\* Every committed row has legal columns, whatever requests were served.
THEOREM TypeCorrect == RelaxedSpec => []TypeOK
  BY InitTypeOK, StepTypeOK, PTL DEF RelaxedSpec

-----------------------------------------------------------------------------
(* The inductive invariant.                                                *)

RowsInv == IdsInOrder /\ StatusFollowsDecision /\ ExclusiveUnlessPadded /\ ReleaseNeedsReview

\* With no rows there is nothing to contradict.
LEMMA InitInv == Init => Inv
  BY InitTypeOK DEF Init, EmptyDB, Inv, IdsInOrder, StatusFollowsDecision,
     ExclusiveUnlessPadded, ReleaseNeedsReview, Engaged, Exists

\* A step that leaves turnarounds, checks and decisions alone.
LEMMA FrameInv ==
  ASSUME Inv, UNCHANGED <<status, assigned, padded, result, clearance>>
  PROVE  RowsInv'
  BY DEF Inv, RowsInv, IdsInOrder, StatusFollowsDecision, ExclusiveUnlessPadded,
     ReleaseNeedsReview, Engaged, Exists, ChecksOf

\* The conflict check of TurnaroundService.Create, at the new turnaround.
LEMMA CreateTurnaroundInv ==
  ASSUME Inv, NEW t \in Turnaround, NEW U \in SUBSET Unit, NEW P \in SUBSET (U \cap Paddable),
         NEW C \in SUBSET CheckCode, CreateTurnaround(t, U, P, C)
  PROVE  RowsInv'
  <1> USE DEF Inv, TypeOK
  <1>1. /\ status' = [status EXCEPT ![t] = "open"]
        /\ assigned' = [assigned EXCEPT ![t] = U]
        /\ padded' = [padded EXCEPT ![t] = P]
        /\ clearance' = [clearance EXCEPT ![t] = "pending"]
        /\ \A s \in Turnaround : s # t => result'[s] = result[s]
    BY DEF CreateTurnaround, InsertTurnaround
  <1>2. StatusFollowsDecision'
    BY <1>1 DEF StatusFollowsDecision, Exists
  <1>3. \A s \in Turnaround : Exists(s) <=> s < t
    BY TurnaroundAssumption DEF CreateTurnaround, NextTurnaround, IdsInOrder
  <1>4. IdsInOrder'
    BY <1>1, <1>3, TurnaroundAssumption DEF IdsInOrder, Exists
  <1>5. \A s \in Turnaround : s # t /\ Engaged(s) => assigned[s] \cap U \subseteq padded[s]
    <2> SUFFICES ASSUME NEW s \in Turnaround, Engaged(s), NEW u \in U,
                        u \in assigned[s], u \notin padded[s]
                 PROVE  FALSE
      OBVIOUS
    <2>1. s \in ActiveWith(u)
      BY DEF ActiveWith, Findable, Engaged, Exists
    <2> QED
      BY <2>1 DEF CreateTurnaround
  <1>6. ExclusiveUnlessPadded'
    <2> SUFFICES ASSUME NEW r \in Turnaround, NEW s \in Turnaround, r < s, Engaged(r)', Engaged(s)'
                 PROVE  assigned'[r] \cap assigned'[s] \subseteq padded'[r]
      BY DEF ExclusiveUnlessPadded
    <2>1. \A q \in Turnaround : q # t /\ Engaged(q)' =>
            Engaged(q) /\ assigned'[q] = assigned[q] /\ padded'[q] = padded[q]
      BY <1>1 DEF Engaged
    <2>2. r # t
      \* The new turnaround is the last.
      <3> SUFFICES ASSUME r = t PROVE FALSE
        OBVIOUS
      <3>1. s # t /\ ~(s < t)
        BY TurnaroundAssumption
      <3>2. Engaged(s)
        BY <2>1, <3>1
      <3>3. Exists(s)
        BY <3>2 DEF Engaged, Exists
      <3> QED
        BY <1>3, <3>1, <3>3
    <2>3. CASE s = t
      BY <1>1, <1>5, <2>1, <2>2, <2>3
    <2>4. CASE s # t
      BY <2>1, <2>2, <2>4 DEF ExclusiveUnlessPadded
    <2> QED
      BY <2>3, <2>4
  <1>7. ReleaseNeedsReview'
    BY <1>1 DEF ReleaseNeedsReview, ChecksOf
  <1> QED
    BY <1>2, <1>4, <1>6, <1>7 DEF RowsInv

\* Turnarounds keep their units, so what was exclusive stays so unless a step
\* engages a turnaround that was not; and none disappears.
LEMMA StillExclusive ==
  ASSUME Inv, UNCHANGED <<assigned, padded>>,
         \A t \in Turnaround : (Engaged(t)' => Engaged(t)) /\ (Exists(t)' <=> Exists(t))
  PROVE  ExclusiveUnlessPadded' /\ IdsInOrder'
  BY DEF Inv, ExclusiveUnlessPadded, IdsInOrder

\* Completion asks for a release; starting the checks leaves the decision pending.
LEMMA ChangeTurnaroundStatusInv ==
  ASSUME Inv, NEW t \in Turnaround, NEW to \in TurnaroundStatus,
         ChangeTurnaroundStatus(t, to)
  PROVE  RowsInv'
  <1> USE DEF Inv, TypeOK
  <1>1. /\ status' = [status EXCEPT ![t] = to]
        /\ UNCHANGED <<assigned, padded, result, clearance>>
    BY DEF ChangeTurnaroundStatus, UpdateTurnaround, decisionVars
  <1>2. \/ status[t] = "open" /\ to = "checking"
        \/ status[t] = "decisioned" /\ to = "completed" /\ clearance[t] \in Released
    BY DEF ChangeTurnaroundStatus, MayChangeStatus, allowedTurnaroundTransition
  <1>3. StatusFollowsDecision'
    BY <1>1, <1>2 DEF StatusFollowsDecision, Exists
  <1>4. ExclusiveUnlessPadded' /\ IdsInOrder'
    <2>1. \A s \in Turnaround : (Engaged(s)' => Engaged(s)) /\ (Exists(s)' <=> Exists(s))
      BY <1>1, <1>2 DEF Engaged, Exists
    <2> QED
      BY <1>1, <2>1, StillExclusive
  <1>5. ReleaseNeedsReview'
    BY <1>1 DEF ReleaseNeedsReview, ChecksOf
  <1> QED
    BY <1>3, <1>4, <1>5 DEF RowsInv

\* A check is written while the decision is pending, when no release stands on it.
LEMMA WriteCheckInv ==
  ASSUME Inv, NEW t \in Turnaround, NEW c \in CheckCode, NEW r, WriteCheck(t, c, r),
         clearance[t] = "pending", UNCHANGED <<assigned, padded, clearance>>,
         \/ UNCHANGED status
         \/ status[t] = "open" /\ status' = [status EXCEPT ![t] = "checking"]
  PROVE  RowsInv'
  <1> USE DEF Inv, TypeOK
  <1>1. StatusFollowsDecision'
    BY DEF StatusFollowsDecision, Exists
  <1>2. \A s \in Turnaround : (Engaged(s)' => Engaged(s)) /\ (Exists(s)' <=> Exists(s))
    BY DEF Engaged, Exists
  <1>3. ExclusiveUnlessPadded' /\ IdsInOrder'
    BY <1>2, StillExclusive
  <1>4. \A s \in Turnaround : s # t => result'[s] = result[s]
    BY DEF WriteCheck
  <1>5. ReleaseNeedsReview'
    <2>1. \A s \in Turnaround : clearance'[s] \in Released =>
            result'[s] = result[s] /\ clearance'[s] = clearance[s]
      BY <1>4
    <2> QED
      BY <2>1 DEF ReleaseNeedsReview, ChecksOf
  <1> QED
    BY <1>1, <1>3, <1>5 DEF RowsInv

\* CreateCheck is such a write, and changes no status.
LEMMA CreateCheckInv ==
  ASSUME Inv, NEW t \in Turnaround, NEW c \in CheckCode, CreateCheck(t, c)
  PROVE  RowsInv'
  <1>1. /\ WriteCheck(t, c, "pending")
        /\ clearance[t] = "pending"
        /\ UNCHANGED <<status, assigned, padded, clearance>>
    BY DEF CreateCheck, MayAddCheck, Undecided, turnaroundVars, decisionVars
  <1> QED
    BY <1>1, WriteCheckInv

\* Review is such a write, and moves the status from open to checking at most.
LEMMA ReviewCheckInv ==
  ASSUME Inv, NEW t \in Turnaround, NEW c \in CheckCode, NEW r \in CheckResult,
         ReviewCheck(t, c, r)
  PROVE  RowsInv'
  <1>1. /\ WriteCheck(t, c, r)
        /\ clearance[t] = "pending"
        /\ UNCHANGED <<assigned, padded, clearance>>
        /\ \/ UNCHANGED status
           \/ status[t] = "open" /\ status' = [status EXCEPT ![t] = "checking"]
    BY DEF ReviewCheck, MayReview, Undecided, UpdateTurnaround, turnaroundVars, decisionVars
  <1> QED
    BY <1>1, WriteCheckInv

\* A decision engages nobody new, and its guards are what ReleaseNeedsReview asks.
LEMMA DecideInv ==
  ASSUME Inv, NEW t \in Turnaround, NEW to \in ClearanceState \ {"pending"}, Decide(t, to)
  PROVE  RowsInv'
  <1> USE DEF Inv, TypeOK
  <1>1. /\ status' = [status EXCEPT ![t] = "decisioned"]
        /\ UNCHANGED <<assigned, padded, result>>
        /\ clearance'[t] = to
        /\ \A s \in Turnaround : s # t => clearance'[s] = clearance[s]
    BY DEF Decide, SaveDecisions, UpdateTurnaround
  <1>2. /\ MayDecide(t, to)
        /\ to \in {"cleared", "restricted", "revoked"}
    BY DEF Decide, ClearanceState
  <1>3. StatusFollowsDecision'
    BY <1>1, <1>2 DEF StatusFollowsDecision, Exists
  <1>4. \A s \in Turnaround : (Engaged(s)' => Engaged(s)) /\ (Exists(s)' <=> Exists(s))
    BY <1>1, <1>2 DEF Engaged, Exists, MayDecide, allowedClearanceTransition, StatusFollowsDecision
  <1>5. ExclusiveUnlessPadded' /\ IdsInOrder'
    BY <1>1, <1>4, StillExclusive
  <1>6. ReleaseNeedsReview'
    <2> SUFFICES ASSUME NEW s \in Turnaround, clearance'[s] \in Released
                 PROVE  /\ ChecksOf(s)' # {}
                        /\ \A c \in ChecksOf(s)' :
                             /\ result'[s][c] # "pending"
                             /\ clearance'[s] = "cleared" => result'[s][c] = "passed"
      BY DEF ReleaseNeedsReview
    <2>1. ChecksOf(s)' = ChecksOf(s)
      BY <1>1 DEF ChecksOf
    <2>2. CASE s # t
      BY <1>1, <2>1, <2>2 DEF ReleaseNeedsReview
    <2>3. CASE s = t
      <3>1. to \in Released /\ to # "revoked"
        BY <1>1, <2>3
      <3>2. \A c \in ChecksOf(t) : result[t][c] \in {"pending", "passed", "failed"}
        BY DEF ChecksOf, CheckResult
      <3> QED
        BY <1>1, <1>2, <2>1, <2>3, <3>1, <3>2 DEF MayDecide
    <2> QED
      BY <2>2, <2>3
  <1> QED
    BY <1>3, <1>5, <1>6 DEF RowsInv

\* Revocations hit releases that are decisioned, for a completed turnaround is not
\* among those found, and only ever disengage.
LEMMA ChangeUnitStateInv ==
  ASSUME Inv, NEW role, NEW u \in Unit, NEW to \in UnitState, NEW R \in SUBSET FoundFor(u, to),
         ChangeUnitState(role, u, to, R)
  PROVE  RowsInv'
  <1> USE DEF Inv, TypeOK
  <1>1. /\ UNCHANGED <<status, assigned, padded, result>>
        /\ \A t \in Turnaround : clearance'[t] =
             IF t \in R /\ clearance[t] \in Released THEN "revoked" ELSE clearance[t]
    BY DEF ChangeUnitState, SaveDecisions, turnaroundVars
  <1>2. \A t \in R : status[t] # "completed"
    BY DEF FoundFor, ActiveWith
  <1>3. StatusFollowsDecision'
    BY <1>1, <1>2 DEF StatusFollowsDecision, Exists
  <1>4. \A t \in Turnaround : (Engaged(t)' => Engaged(t)) /\ (Exists(t)' <=> Exists(t))
    BY <1>1 DEF Engaged, Exists
  <1>5. ExclusiveUnlessPadded' /\ IdsInOrder'
    BY <1>1, <1>4, StillExclusive
  <1>6. ReleaseNeedsReview'
    BY <1>1 DEF ReleaseNeedsReview, ChecksOf
  <1> QED
    BY <1>3, <1>5, <1>6 DEF RowsInv

\* The invariant is inductive.
LEMMA StepInv == Inv /\ [RelaxedNext]_dbVars => Inv'
  <1> SUFFICES ASSUME Inv, [RelaxedNext]_dbVars PROVE RowsInv'
    BY StepTypeOK DEF Inv, RowsInv
  <1>1. ASSUME NEW u \in Unit, NEW s \in UnitState, CreateUnit(u, s) PROVE RowsInv'
    BY <1>1, FrameInv DEF CreateUnit, turnaroundVars, decisionVars
  <1>2. ASSUME NEW role \in UnitStateRoles, NEW u \in Unit, NEW to \in UnitState,
               NEW R \in SUBSET FoundFor(u, to), ChangeUnitState(role, u, to, R)
        PROVE  RowsInv'
    BY <1>2, ChangeUnitStateInv
  <1>3. ASSUME TurnaroundNext PROVE RowsInv'
    BY <1>3, CreateTurnaroundInv, ChangeTurnaroundStatusInv, CreateCheckInv,
       ReviewCheckInv, DecideInv DEF TurnaroundNext
  <1>4. CASE UNCHANGED dbVars
    BY <1>4, FrameInv DEF dbVars, turnaroundVars, decisionVars
  <1> QED
    BY <1>1, <1>2, <1>3, <1>4 DEF RelaxedNext

\* The inductive invariant holds in every committed state: statuses agree with
\* decisions, units named canonically are exclusive and releases are reviewed, all at
\* once.
THEOREM Invariance == RelaxedSpec => []Inv
  BY InitInv, StepInv, PTL DEF RelaxedSpec

\* Of two engaged turnarounds the later has no unit that the earlier names canonically,
\* whatever equipment changes miss (TurnaroundService.Create's conflict check).
THEOREM UnitsAreExclusive == RelaxedSpec => []ExclusiveUnlessPadded
  <1>1. Inv => ExclusiveUnlessPadded
    BY DEF Inv
  <1> QED
    BY <1>1, Invariance, PTL

\* Every release rests on checks that are all reviewed, and all passed if it is
\* a full clearance.
THEOREM ReleasesAreReviewed == RelaxedSpec => []ReleaseNeedsReview
  <1>1. Inv => ReleaseNeedsReview
    BY DEF Inv
  <1> QED
    BY <1>1, Invariance, PTL

\* A turnaround's status and its decision, two rows that three services move,
\* never disagree.
THEOREM StatusesFollowDecisions == RelaxedSpec => []StatusFollowsDecision
  <1>1. Inv => StatusFollowsDecision
    BY DEF Inv
  <1> QED
    BY <1>1, Invariance, PTL

-----------------------------------------------------------------------------
(* Cleared turnarounds and their units, one request at a time.             *)

\* A unit that becomes unavailable takes every clearance that names it canonically
\* with it.
LEMMA ChangeUnitStateCleared ==
  ASSUME Inv, FindableUnitsAvailable, NEW role, NEW u \in Unit, NEW to \in UnitState,
         ChangeUnitState(role, u, to, FoundFor(u, to))
  PROVE  FindableUnitsAvailable'
  <1> USE DEF Inv, TypeOK
  <1>1. /\ UNCHANGED <<status, assigned, padded>>
        /\ unitState' = [unitState EXCEPT ![u] = to]
        /\ \A t \in Turnaround : clearance'[t] =
             IF t \in FoundFor(u, to) /\ clearance[t] \in Released THEN "revoked" ELSE clearance[t]
    BY DEF ChangeUnitState, SaveDecisions, UpdateUnit, turnaroundVars
  <1> SUFFICES ASSUME NEW t \in Turnaround, status'[t] = "decisioned", clearance'[t] = "cleared",
                      NEW v \in Unit, v \in Findable(t)'
               PROVE  unitState'[v] = "available"
    BY <1>1 DEF FindableUnitsAvailable, Findable, Available
  <1>2. status[t] = "decisioned" /\ clearance[t] = "cleared" /\ v \in Findable(t)
    BY <1>1 DEF Findable
  <1>3. unitState[v] = "available"
    BY <1>2 DEF FindableUnitsAvailable, Findable, Available
  <1>4. CASE v = u /\ to # "available"
    \* Then t was found, and is revoked.
    <2>1. t \in FoundFor(u, to)
      BY <1>2, <1>4 DEF FoundFor, ActiveWith, Exists
    <2> QED
      BY <1>1, <1>2, <2>1
  <1>5. CASE v # u \/ to = "available"
    BY <1>1, <1>3, <1>5
  <1> QED
    BY <1>4, <1>5

\* Only Decide clears, and it looks at the units when it does.
LEMMA TurnaroundNextCleared ==
  ASSUME Inv, FindableUnitsAvailable, TurnaroundNext
  PROVE  FindableUnitsAvailable'
  <1> USE DEF Inv, TypeOK
  <1>1. ASSUME NEW t \in Turnaround, NEW U \in SUBSET Unit, NEW P \in SUBSET (U \cap Paddable),
               NEW C \in SUBSET CheckCode, CreateTurnaround(t, U, P, C)
        PROVE  FindableUnitsAvailable'
    BY <1>1 DEF CreateTurnaround, InsertTurnaround, unitVars, FindableUnitsAvailable, Findable, Available
  <1>2. ASSUME NEW t \in Turnaround, NEW to \in TurnaroundStatus, ChangeTurnaroundStatus(t, to)
        PROVE  FindableUnitsAvailable'
    BY <1>2 DEF ChangeTurnaroundStatus, MayChangeStatus, allowedTurnaroundTransition,
       UpdateTurnaround, unitVars, decisionVars, FindableUnitsAvailable, Findable, Available
  <1>3. ASSUME NEW t \in Turnaround, NEW c \in CheckCode, CreateCheck(t, c)
        PROVE  FindableUnitsAvailable'
    BY <1>3 DEF CreateCheck, unitVars, turnaroundVars, decisionVars, FindableUnitsAvailable, Findable, Available
  <1>4. ASSUME NEW t \in Turnaround, NEW c \in CheckCode, NEW r \in CheckResult, ReviewCheck(t, c, r)
        PROVE  FindableUnitsAvailable'
    <2>1. /\ UNCHANGED <<unitState, assigned, padded, clearance>>
          /\ \A s \in Turnaround : status'[s] = "decisioned" => status[s] = "decisioned"
      BY <1>4 DEF ReviewCheck, UpdateTurnaround, unitVars, turnaroundVars, decisionVars
    <2> QED
      BY <2>1 DEF FindableUnitsAvailable, Findable, Available
  <1>5. ASSUME NEW t \in Turnaround, NEW to \in ClearanceState, Decide(t, to)
        PROVE  FindableUnitsAvailable'
    <2>1. /\ UNCHANGED <<unitState, assigned, padded>>
          /\ clearance'[t] = to
          /\ to = "cleared" => Available(assigned[t])
          /\ \A s \in Turnaround : s # t => status'[s] = status[s] /\ clearance'[s] = clearance[s]
      BY <1>5 DEF Decide, SaveDecisions, UpdateTurnaround, unitVars
    <2> QED
      BY <2>1 DEF FindableUnitsAvailable, Findable, Available
  <1> QED
    BY <1>1, <1>2, <1>3, <1>4, <1>5 DEF TurnaroundNext

\* FindableUnitsAvailable is inductive relative to Inv.
LEMMA StepCleared == Inv /\ FindableUnitsAvailable /\ [Next]_dbVars => FindableUnitsAvailable'
  <1> SUFFICES ASSUME Inv, FindableUnitsAvailable, [Next]_dbVars PROVE FindableUnitsAvailable'
    OBVIOUS
  <1>1. ASSUME NEW u \in Unit, NEW s \in UnitState, CreateUnit(u, s)
        PROVE  FindableUnitsAvailable'
    \* The new unit serves no cleared turnaround, for those have available units.
    <2>1. /\ unitState[u] = Absent
          /\ \A v \in Unit : v # u => unitState'[v] = unitState[v]
          /\ UNCHANGED <<status, assigned, padded, clearance>>
      BY <1>1 DEF CreateUnit, InsertUnit, turnaroundVars, decisionVars, Inv, TypeOK
    <2> QED
      BY <2>1 DEF FindableUnitsAvailable, Findable, Available, Inv, TypeOK
  <1>2. ASSUME NEW role \in UnitStateRoles, NEW u \in Unit, NEW to \in UnitState,
               ChangeUnitState(role, u, to, FoundFor(u, to))
        PROVE  FindableUnitsAvailable'
    BY <1>2, ChangeUnitStateCleared
  <1>3. CASE TurnaroundNext
    BY <1>3, TurnaroundNextCleared
  <1>4. CASE UNCHANGED dbVars
    BY <1>4 DEF dbVars, unitVars, turnaroundVars, decisionVars, FindableUnitsAvailable, Findable, Available
  <1> QED
    BY <1>1, <1>2, <1>3, <1>4 DEF Next

\* Served one at a time, requests never leave a cleared turnaround with a canonically
\* named unit that is not available (GroundUnitService.ChangeState, Decide).
THEOREM ClearedUnitsStayAvailable == Spec => []FindableUnitsAvailable
  <1>1. Init => FindableUnitsAvailable
    BY DEF Init, EmptyDB, FindableUnitsAvailable
  <1> QED
    BY <1>1, StepCleared, Invariance, SpecIsRelaxed, PTL DEF Spec

-----------------------------------------------------------------------------
(* Finality.                                                               *)

Closed(t) == clearance[t] = "revoked" \/ status[t] = "completed"

Untouched(t) ==
  /\ <<status[t], version[t]>>' = <<status[t], version[t]>>
  /\ <<clearance[t], previous[t], trail[t]>>' = <<clearance[t], previous[t], trail[t]>>

\* No operation on a turnaround is enabled on a closed one but further reads.
LEMMA TurnaroundNextFinal ==
  ASSUME Inv, TurnaroundNext, NEW s \in Turnaround, Closed(s)
  PROVE  Untouched(s)
  <1> USE DEF Inv, TypeOK
  <1>1. /\ Exists(s)
        /\ status[s] \notin {"open", "checking"}
        /\ clearance[s] # "pending"
    BY DEF Closed, StatusFollowsDecision, Exists
  <1>2. ASSUME NEW t \in Turnaround, NEW U \in SUBSET Unit, NEW P \in SUBSET (U \cap Paddable),
               NEW C \in SUBSET CheckCode, CreateTurnaround(t, U, P, C)
        PROVE  Untouched(s)
    <2>1. s # t
      BY <1>1, <1>2 DEF CreateTurnaround, NextTurnaround
    <2> QED
      BY <1>2, <2>1 DEF CreateTurnaround, InsertTurnaround, Untouched
  <1>3. ASSUME NEW t \in Turnaround, NEW to \in TurnaroundStatus, ChangeTurnaroundStatus(t, to)
        PROVE  Untouched(s)
    <2>1. s # t
      BY <1>1, <1>3 DEF ChangeTurnaroundStatus, MayChangeStatus, allowedTurnaroundTransition, Closed
    <2> QED
      BY <1>3, <2>1 DEF ChangeTurnaroundStatus, UpdateTurnaround, decisionVars, Untouched
  <1>4. ASSUME NEW t \in Turnaround, NEW c \in CheckCode, CreateCheck(t, c)
        PROVE  Untouched(s)
    BY <1>4 DEF CreateCheck, turnaroundVars, decisionVars, Untouched
  <1>5. ASSUME NEW t \in Turnaround, NEW c \in CheckCode, NEW r \in CheckResult, ReviewCheck(t, c, r)
        PROVE  Untouched(s)
    <2>1. s # t
      BY <1>1, <1>5 DEF ReviewCheck, MayReview, Undecided
    <2> QED
      BY <1>5, <2>1 DEF ReviewCheck, UpdateTurnaround, turnaroundVars, decisionVars, Untouched
  <1>6. ASSUME NEW t \in Turnaround, NEW to \in ClearanceState, Decide(t, to)
        PROVE  Untouched(s)
    <2>1. s # t
      BY <1>6 DEF Decide, MayDecide, allowedClearanceTransition, Closed
    <2> QED
      BY <1>6, <2>1 DEF Decide, SaveDecisions, UpdateTurnaround, Untouched
  <1> QED
    BY <1>2, <1>3, <1>4, <1>5, <1>6 DEF TurnaroundNext

\* Equipment changes revoke releases that are neither revoked nor completed.
LEMMA StepFinal ==
  ASSUME Inv, [RelaxedNext]_dbVars, NEW s \in Turnaround, Closed(s)
  PROVE  Untouched(s)
  <1>1. ASSUME NEW u \in Unit, NEW x \in UnitState, CreateUnit(u, x) PROVE Untouched(s)
    BY <1>1 DEF CreateUnit, turnaroundVars, decisionVars, Untouched
  <1>2. ASSUME NEW role \in UnitStateRoles, NEW u \in Unit, NEW to \in UnitState,
               NEW R \in SUBSET FoundFor(u, to), ChangeUnitState(role, u, to, R)
        PROVE  Untouched(s)
    <2>1. s \notin {t \in R : clearance[t] \in Released}
      BY DEF Closed, FoundFor, ActiveWith
    <2> QED
      BY <1>2, <2>1 DEF ChangeUnitState, SaveDecisions, turnaroundVars, Untouched
  <1>3. CASE TurnaroundNext
    BY <1>3, TurnaroundNextFinal
  <1>4. CASE UNCHANGED dbVars
    BY <1>4 DEF dbVars, turnaroundVars, decisionVars, Untouched
  <1> QED
    BY <1>1, <1>2, <1>3, <1>4 DEF RelaxedNext

\* Nothing touches a revoked decision or a completed turnaround again.
THEOREM ClosedTurnaroundsAreFinal == RelaxedSpec => DecisionsAreFinal
  <1> DEFINE Final == \A t \in Turnaround : Closed(t) => Untouched(t)
  <1>1. Inv /\ [RelaxedNext]_dbVars => [Final]_dbVars
    BY StepFinal
  <1>2. RelaxedSpec => [][Final]_dbVars
    <2> HIDE DEF Final
    <2> QED
      BY <1>1, Invariance, PTL DEF RelaxedSpec
  <1> QED
    BY <1>2 DEF DecisionsAreFinal, Closed, Untouched

-----------------------------------------------------------------------------
(* History: the audit trail and the evidence.                              *)

\* A turnaround that is yet to come has no checks, no decision and no history, which
\* it could otherwise start with; the trail of any other explains its decision.
Explained(t) ==
  IF Exists(t)
  THEN IF trail[t] = <<>>
       THEN clearance[t] = "pending" /\ previous[t] = Absent
       ELSE /\ trail[t][1][1] = "pending"
            /\ trail[t][Len(trail[t])] = <<previous[t], clearance[t]>>
            /\ \A i \in 1..Len(trail[t]) - 1 : trail[t][i][2] = trail[t][i + 1][1]
  ELSE trail[t] = <<>> /\ previous[t] = Absent /\ ChecksOf(t) = {}

HistoryInv == \A t \in Turnaround : Explained(t)

\* SaveDecisions adds to a trail that explains the present state the link from it
\* to the new one.
LEMMA TrailGrows ==
  ASSUME Inv, NEW t \in Turnaround, Exists(t), Explained(t), Exists(t)',
         NEW to \in ClearanceState, clearance'[t] = to, previous'[t] = clearance[t],
         trail'[t] = Append(trail[t], <<clearance[t], to>>)
  PROVE  Explained(t)'
  <1> DEFINE old == trail[t]
             new == trail'[t]
  <1>1. old \in Seq(ClearanceState \X ClearanceState)
    BY DEF Inv, TypeOK
  <1>2. clearance[t] \in ClearanceState
    BY DEF Inv, TypeOK, StatusFollowsDecision, Exists
  <1>3. <<clearance[t], to>> \in ClearanceState \X ClearanceState
    BY <1>2
  <1>4. /\ Len(old) \in Nat /\ Len(new) = Len(old) + 1 /\ new # <<>>
        /\ new[Len(new)] = <<clearance[t], to>>
        /\ \A i \in 1..Len(old) : new[i] = old[i]
    BY <1>1, <1>3
  <1>5. CASE old = <<>>
    <2>1. clearance[t] = "pending" /\ Len(old) = 0
      BY <1>5 DEF Explained
    <2>2. new[1][1] = "pending" /\ 1..Len(new) - 1 = {}
      BY <1>4, <2>1
    <2> QED
      BY <1>4, <2>2 DEF Explained
  <1>6. CASE old # <<>>
    <2>1. /\ Len(old) > 0 /\ old[1][1] = "pending"
          /\ old[Len(old)] = <<previous[t], clearance[t]>>
          /\ \A i \in 1..Len(old) - 1 : old[i][2] = old[i + 1][1]
      BY <1>1, <1>4, <1>6 DEF Explained
    <2>2. new[1][1] = "pending"
      BY <1>4, <2>1
    <2>3. ASSUME NEW i \in 1..Len(new) - 1 PROVE new[i][2] = new[i + 1][1]
      <3>1. CASE i = Len(old)
        BY <1>4, <2>1, <3>1
      <3>2. CASE i \in 1..Len(old) - 1
        BY <1>4, <2>1, <3>2
      <3> QED
        BY <1>4, <3>1, <3>2
    <2> QED
      BY <1>4, <2>2, <2>3 DEF Explained
  <1> QED
    BY <1>5, <1>6

\* A turnaround keeps its explanation while no step touches its decision.
LEMMA SameHistory ==
  ASSUME NEW t \in Turnaround, Explained(t), Exists(t)' <=> Exists(t),
         clearance'[t] = clearance[t], previous'[t] = previous[t], trail'[t] = trail[t],
         ~Exists(t) => ChecksOf(t)' = ChecksOf(t)
  PROVE  Explained(t)'
  BY DEF Explained

\* Every operation on a turnaround leaves its trail alone or extends it.
LEMMA TurnaroundNextHistory ==
  ASSUME Inv, HistoryInv, TurnaroundNext, NEW s \in Turnaround
  PROVE  Explained(s)'
  <1> USE DEF Inv, TypeOK
  <1>1. Explained(s)
    BY DEF HistoryInv
  <1>2. ASSUME NEW t \in Turnaround, NEW U \in SUBSET Unit, NEW P \in SUBSET (U \cap Paddable),
               NEW C \in SUBSET CheckCode, CreateTurnaround(t, U, P, C)
        PROVE  Explained(s)'
    <2>1. /\ ~Exists(t) /\ status'[t] = "open" /\ clearance'[t] = "pending"
          /\ UNCHANGED <<previous, trail>>
          /\ \A r \in Turnaround \ {t} : /\ status'[r] = status[r] /\ result'[r] = result[r]
                                         /\ clearance'[r] = clearance[r]
      BY <1>2 DEF CreateTurnaround, NextTurnaround, InsertTurnaround
    <2>2. CASE s = t
      BY <1>1, <2>1, <2>2 DEF Explained, Exists
    <2>3. CASE s # t
      BY <1>1, <2>1, <2>3, SameHistory DEF Exists, ChecksOf
    <2> QED
      BY <2>2, <2>3
  <1>3. ASSUME NEW t \in Turnaround, NEW to \in TurnaroundStatus, ChangeTurnaroundStatus(t, to)
        PROVE  Explained(s)'
    <2>1. /\ Exists(t) /\ status'[t] = to /\ \A r \in Turnaround \ {t} : status'[r] = status[r]
          /\ UNCHANGED <<result, clearance, previous, trail>>
      BY <1>3 DEF ChangeTurnaroundStatus, MayChangeStatus, allowedTurnaroundTransition,
         UpdateTurnaround, decisionVars, Exists
    <2> QED
      BY <1>1, <2>1, SameHistory DEF Exists, ChecksOf, TurnaroundStatus
  <1>4. ASSUME NEW t \in Turnaround, NEW c \in CheckCode, CreateCheck(t, c)
        PROVE  Explained(s)'
    <2>1. /\ Exists(t) /\ \A r \in Turnaround \ {t} : result'[r] = result[r]
          /\ UNCHANGED <<status, clearance, previous, trail>>
      BY <1>4 DEF CreateCheck, MayAddCheck, Undecided, WriteCheck, turnaroundVars, decisionVars, Exists
    <2> QED
      BY <1>1, <2>1, SameHistory DEF Exists, ChecksOf
  <1>5. ASSUME NEW t \in Turnaround, NEW c \in CheckCode, NEW r \in CheckResult, ReviewCheck(t, c, r)
        PROVE  Explained(s)'
    <2>1. /\ Exists(t) /\ status'[t] # Absent
          /\ \A x \in Turnaround \ {t} : status'[x] = status[x] /\ result'[x] = result[x]
          /\ UNCHANGED <<clearance, previous, trail>>
      BY <1>5 DEF ReviewCheck, MayReview, Undecided, WriteCheck, UpdateTurnaround,
         turnaroundVars, decisionVars, Exists
    <2> QED
      BY <1>1, <2>1, SameHistory DEF Exists, ChecksOf
  <1>6. ASSUME NEW t \in Turnaround, NEW to \in ClearanceState, Decide(t, to)
        PROVE  Explained(s)'
    <2>1. /\ Exists(t) /\ status'[t] = "decisioned" /\ clearance'[t] = to
          /\ previous'[t] = clearance[t] /\ trail'[t] = Append(trail[t], <<clearance[t], to>>)
          /\ \A r \in Turnaround \ {t} : /\ status'[r] = status[r] /\ clearance'[r] = clearance[r]
                                         /\ previous'[r] = previous[r] /\ trail'[r] = trail[r]
          /\ UNCHANGED result
      BY <1>6 DEF Decide, MayDecide, allowedClearanceTransition, SaveDecisions, UpdateTurnaround,
         StatusFollowsDecision, Exists
    <2>2. CASE s = t
      BY <1>1, <2>1, <2>2, TrailGrows DEF Exists
    <2>3. CASE s # t
      BY <1>1, <2>1, <2>3, SameHistory DEF Exists, ChecksOf
    <2> QED
      BY <2>2, <2>3
  <1> QED
    BY <1>2, <1>3, <1>4, <1>5, <1>6 DEF TurnaroundNext

\* HistoryInv is inductive relative to Inv.
LEMMA StepHistory == Inv /\ HistoryInv /\ [RelaxedNext]_dbVars => HistoryInv'
  <1> SUFFICES ASSUME Inv, HistoryInv, [RelaxedNext]_dbVars, NEW s \in Turnaround
               PROVE  Explained(s)'
    BY DEF HistoryInv
  <1>1. Explained(s)
    BY DEF HistoryInv
  <1>2. ASSUME NEW u \in Unit, NEW x \in UnitState, CreateUnit(u, x) PROVE Explained(s)'
    BY <1>1, <1>2, SameHistory DEF CreateUnit, turnaroundVars, decisionVars, Exists, ChecksOf
  <1>3. ASSUME NEW role \in UnitStateRoles, NEW u \in Unit, NEW to \in UnitState,
               NEW R \in SUBSET FoundFor(u, to), ChangeUnitState(role, u, to, R)
        PROVE  Explained(s)'
    <2>1. /\ UNCHANGED <<status, result>>
          /\ SaveDecisions({t \in R : clearance[t] \in Released}, clearance, "revoked")
      BY <1>3 DEF ChangeUnitState, turnaroundVars
    <2>2. CASE s \in R /\ clearance[s] \in Released
      <3>1. Exists(s) /\ Exists(s)'
        BY <2>1, <2>2 DEF FoundFor, ActiveWith, Exists
      <3>2. /\ clearance'[s] = "revoked" /\ previous'[s] = clearance[s]
            /\ trail'[s] = Append(trail[s], <<clearance[s], "revoked">>)
        BY <2>1, <2>2 DEF SaveDecisions
      <3> QED
        BY <1>1, <3>1, <3>2, TrailGrows DEF ClearanceState
    <2>3. CASE ~(s \in R /\ clearance[s] \in Released)
      <3>1. clearance'[s] = clearance[s] /\ previous'[s] = previous[s] /\ trail'[s] = trail[s]
        BY <2>1, <2>3 DEF SaveDecisions
      <3> QED
        BY <1>1, <2>1, <3>1, SameHistory DEF Exists, ChecksOf
    <2> QED
      BY <2>2, <2>3
  <1>4. CASE TurnaroundNext
    BY <1>4, TurnaroundNextHistory
  <1>5. CASE UNCHANGED dbVars
    BY <1>1, <1>5, SameHistory DEF dbVars, turnaroundVars, decisionVars, Exists, ChecksOf
  <1> QED
    BY <1>2, <1>3, <1>4, <1>5 DEF RelaxedNext

\* The history of the empty database is empty.
LEMMA InitHistory == Init => HistoryInv
  BY DEF Init, EmptyDB, HistoryInv, Explained, Exists, ChecksOf

\* A trail that explains the present state is what the runs check.
LEMMA HistoryExplains == HistoryInv => AuditExplains
  BY DEF HistoryInv, Explained, AuditExplains

\* HistoryInv holds in every committed state.
THEOREM HistoryInvariance == RelaxedSpec => [](Inv /\ HistoryInv)
  BY InitHistory, StepHistory, Invariance, PTL DEF RelaxedSpec

\* The audit rows of a decision form an unbroken chain from "pending" to its present
\* state, however decisions and equipment changes alternate.
THEOREM TrailsExplainDecisions == RelaxedSpec => []AuditExplains
  BY HistoryInvariance, HistoryExplains, PTL

-----------------------------------------------------------------------------
(* Evidence and versions.                                                  *)

KeepsEvidence ==
  \A t \in Turnaround, c \in CheckCode :
    result[t][c] \in {"passed", "failed"} \/ clearance[t] \in Released \cup {"revoked"} =>
      result'[t][c] = result[t][c]

\* Checks are written by Create, CreateCheck and Review only: none may find the
\* result there already, or the turnaround decided.
LEMMA StepEvidence ==
  ASSUME Inv, HistoryInv, [RelaxedNext]_dbVars
  PROVE  KeepsEvidence
  <1> USE DEF Inv, TypeOK
  <1> SUFFICES ASSUME NEW s \in Turnaround, NEW d \in CheckCode,
                      result[s][d] \in {"passed", "failed"} \/ clearance[s] \in Released \cup {"revoked"}
               PROVE  result'[s][d] = result[s][d]
    BY DEF KeepsEvidence
  <1>1. Exists(s)
    BY DEF HistoryInv, Explained, ChecksOf, StatusFollowsDecision
  <1>2. ASSUME NEW t \in Turnaround, NEW U \in SUBSET Unit, NEW P \in SUBSET (U \cap Paddable),
               NEW C \in SUBSET CheckCode, CreateTurnaround(t, U, P, C)
        PROVE  result'[s][d] = result[s][d]
    <2>1. s # t
      BY <1>1, <1>2 DEF CreateTurnaround, NextTurnaround
    <2> QED
      BY <1>2, <2>1 DEF CreateTurnaround, InsertTurnaround
  <1>3. ASSUME NEW t \in Turnaround, NEW c \in CheckCode, NEW r,
               Undecided(t), result[t][c] \in {Absent, "pending"}, WriteCheck(t, c, r)
        PROVE  result'[s][d] = result[s][d]
    <2>1. s # t \/ d # c
      BY <1>3 DEF Undecided
    <2> QED
      BY <1>3, <2>1 DEF WriteCheck
  <1>4. CASE TurnaroundNext
    <2>1. ASSUME NEW t \in Turnaround, NEW c \in CheckCode, CreateCheck(t, c)
          PROVE  result'[s][d] = result[s][d]
      BY <1>3, <2>1 DEF CreateCheck, MayAddCheck
    <2>2. ASSUME NEW t \in Turnaround, NEW c \in CheckCode, NEW r \in CheckResult, ReviewCheck(t, c, r)
          PROVE  result'[s][d] = result[s][d]
      BY <1>3, <2>2 DEF ReviewCheck, MayReview
    <2>3. ASSUME NEW t \in Turnaround, NEW to,
                 ChangeTurnaroundStatus(t, to) \/ Decide(t, to)
          PROVE  result'[s][d] = result[s][d]
      BY <2>3 DEF ChangeTurnaroundStatus, Decide
    <2> QED
      BY <1>2, <1>4, <2>1, <2>2, <2>3 DEF TurnaroundNext
  <1>5. CASE ~TurnaroundNext
    <2>1. UNCHANGED result
      BY <1>5 DEF RelaxedNext, CreateUnit, ChangeUnitState, dbVars
    <2> QED
      BY <2>1
  <1> QED
    BY <1>4, <1>5

\* The evidence a decision rests on stays as it was: no later check or review
\* changes a result that was given, or the checks of a decided turnaround.
THEOREM EvidenceStaysFrozen == RelaxedSpec => EvidenceFrozen
  <1>1. Inv /\ HistoryInv /\ [RelaxedNext]_dbVars => [KeepsEvidence]_dbVars
    BY StepEvidence
  <1>2. RelaxedSpec => [][KeepsEvidence]_dbVars
    <2> HIDE DEF KeepsEvidence
    <2> QED
      BY <1>1, HistoryInvariance, PTL DEF RelaxedSpec
  <1> QED
    BY <1>2 DEF EvidenceFrozen, KeepsEvidence

\* A row that is yet to come has no version.
FreshVersions ==
  /\ \A u \in Unit : unitState[u] = Absent => unitVersion[u] = 0
  /\ \A t \in Turnaround : ~Exists(t) => version[t] = 0

VersionsTell ==
  /\ \A u \in Unit :
       unitState'[u] # unitState[u] => unitVersion'[u] > unitVersion[u]
  /\ \A t \in Turnaround :
       status'[t] # status[t] => version'[t] > version[t]

\* Every write of a state or a status raises its version; a row that is inserted had
\* none.
LEMMA StepVersions ==
  ASSUME Inv, FreshVersions, [RelaxedNext]_dbVars
  PROVE  VersionsTell /\ FreshVersions'
  <1> DEFINE UnitMoves(u) ==
               \/ unitState'[u] = unitState[u] /\ unitVersion'[u] = unitVersion[u]
               \/ unitState'[u] # Absent /\ unitVersion'[u] = unitVersion[u] + 1
             Moves(t) ==
               \/ status'[t] = status[t] /\ version'[t] = version[t]
               \/ status'[t] # Absent /\ version'[t] = version[t] + 1
  <1>1. ASSUME NEW u \in Unit, NEW x \in UnitState, CreateUnit(u, x)
        PROVE  \A v \in Unit : UnitMoves(v)
    <2>1. unitVersion[u] = 0
      BY <1>1 DEF CreateUnit, FreshVersions
    <2> QED
      BY <1>1, <2>1 DEF CreateUnit, InsertUnit, UnitState, Inv, TypeOK
  <1>2. ASSUME NEW u \in Unit, NEW x \in UnitState, UpdateUnit(u, x)
        PROVE  \A v \in Unit : UnitMoves(v)
    BY <1>2 DEF UpdateUnit, UnitState, Inv, TypeOK
  <1>3. ASSUME NEW t \in Turnaround, NEW U, NEW P, NEW C, CreateTurnaround(t, U, P, C)
        PROVE  \A s \in Turnaround : Moves(s)
    <2>1. version[t] = 0
      BY <1>3 DEF CreateTurnaround, NextTurnaround, FreshVersions
    <2> QED
      BY <1>3, <2>1 DEF CreateTurnaround, InsertTurnaround, Inv, TypeOK
  <1>4. ASSUME NEW t \in Turnaround, NEW x \in TurnaroundStatus, UpdateTurnaround(t, x)
        PROVE  \A s \in Turnaround : Moves(s)
    BY <1>4 DEF UpdateTurnaround, TurnaroundStatus, Inv, TypeOK
  <1>5. \A u \in Unit : UnitMoves(u)
    <2>1. CASE TurnaroundNext \/ UNCHANGED dbVars
      BY <2>1 DEF TurnaroundNext, CreateTurnaround, ChangeTurnaroundStatus, CreateCheck,
         ReviewCheck, Decide, dbVars, unitVars
    <2> QED
      BY <1>1, <1>2, <2>1 DEF RelaxedNext, ChangeUnitState
  <1>6. \A t \in Turnaround : Moves(t)
    <2>1. CASE TurnaroundNext
      <3>1. "checking" \in TurnaroundStatus /\ "decisioned" \in TurnaroundStatus
        BY DEF TurnaroundStatus
      <3>2. ASSUME NEW t \in Turnaround, NEW to \in TurnaroundStatus, ChangeTurnaroundStatus(t, to)
            PROVE  \A s \in Turnaround : Moves(s)
        BY <1>4, <3>2 DEF ChangeTurnaroundStatus
      <3>3. ASSUME NEW t \in Turnaround, NEW c, CreateCheck(t, c)
            PROVE  \A s \in Turnaround : Moves(s)
        BY <3>3 DEF CreateCheck, turnaroundVars
      <3>4. ASSUME NEW t \in Turnaround, NEW c, NEW r, ReviewCheck(t, c, r)
            PROVE  \A s \in Turnaround : Moves(s)
        <4>1. UpdateTurnaround(t, "checking") \/ UNCHANGED turnaroundVars
          BY <3>4 DEF ReviewCheck
        <4> QED
          BY <1>4, <3>1, <4>1 DEF turnaroundVars
      <3>5. ASSUME NEW t \in Turnaround, NEW to, Decide(t, to)
            PROVE  \A s \in Turnaround : Moves(s)
        BY <1>4, <3>1, <3>5 DEF Decide
      <3> HIDE DEF Moves
      <3> QED
        BY <1>3, <2>1, <3>2, <3>3, <3>4, <3>5 DEF TurnaroundNext
    <2>2. CASE ~TurnaroundNext
      BY <2>2 DEF RelaxedNext, CreateUnit, ChangeUnitState, dbVars, turnaroundVars
    <2> QED
      BY <2>1, <2>2
  <1>7. /\ \A u \in Unit : unitVersion[u] \in Nat
        /\ \A t \in Turnaround : version[t] \in Nat
    BY MaxVersionAssumption DEF Inv, TypeOK
  <1>8. VersionsTell
    BY <1>5, <1>6, <1>7 DEF VersionsTell
  <1>9. FreshVersions'
    BY <1>5, <1>6, <1>7 DEF FreshVersions, Exists
  <1> QED
    BY <1>8, <1>9

\* A version that a client holds tells which state it saw: two different states of a
\* unit, or statuses of a turnaround, never carry the same one.
THEOREM VersionsTellStates == RelaxedSpec => VersionTellsStates
  <1>1. Init => FreshVersions
    BY DEF Init, EmptyDB, FreshVersions
  <1>2. Inv /\ FreshVersions /\ [RelaxedNext]_dbVars => [VersionsTell]_dbVars /\ FreshVersions'
    BY StepVersions
  <1>3. RelaxedSpec => [][VersionsTell]_dbVars
    <2> HIDE DEF VersionsTell
    <2> QED
      BY <1>1, <1>2, Invariance, PTL DEF RelaxedSpec
  <1> QED
    BY <1>3 DEF VersionTellsStates, VersionsTell

=============================================================================
