---------------------------- MODULE ClearanceDB ----------------------------
(***************************************************************************)
(* The committed rows of PostgreSQL that the clearance workflow lives in   *)
(* (ground_units, turnarounds, safety_checks, clearance_decisions and the  *)
(* CLEARANCE_TRANSITION rows of audit_logs), what the repositories read    *)
(* from them and write to them, and what every committed state must        *)
(* satisfy.  Clearance.tla runs each service method as one step over these *)
(* rows; ClearanceTx.tla runs it statement by statement under row locks.   *)
(* The column of each table is a function of the row's key.                *)
(*                                                                         *)
(* A turnaround stores the ids of its units as the strings the request     *)
(* sent.  All of the program but one query parses them, and refuses what   *)
(* is no number, so that a string stands for a unit and a spelling: the    *)
(* canonical one, or one padded with leading zeros.  The query for the     *)
(* active turnarounds of a unit looks for the canonical string only.       *)
(***************************************************************************)
EXTENDS ClearanceRules, Naturals, Sequences

CONSTANTS
  Unit,          \* ids of ground units, handed out by a sequence
  Turnaround,    \* ids of turnarounds, handed out by a sequence
  Paddable,      \* bound: units whose ids requests may pad with leading zeros
  CheckCode,     \* codes a turnaround's safety checks can carry
  MaxVersion     \* bound: a unit's row is updated until its version is this

ASSUME UnitAssumption == Unit \subseteq Nat
ASSUME TurnaroundAssumption == Turnaround \subseteq Nat \ {0}
ASSUME PaddableAssumption == Paddable \subseteq Unit
ASSUME MaxVersionAssumption == MaxVersion \in Nat \ {0}

VARIABLES
  unitState, unitVersion,         \* ground_units
  status, version,                \* turnarounds
  assigned, padded,               \* ground_unit_ids: units, and the padded ones
  result,                         \* safety_checks, by turnaround and code
  clearance, previous,            \* clearance_decisions, one per turnaround
  trail                           \* audit_logs: <<from, to>> per decision

unitVars       == <<unitState, unitVersion>>
turnaroundVars == <<status, version, assigned, padded>>
decisionVars   == <<clearance, previous, trail>>
dbVars         == <<unitVars, turnaroundVars, result, decisionVars>>

TypeOK ==
  /\ unitState \in [Unit -> UnitState \cup {Absent}]
  /\ unitVersion \in [Unit -> 0..MaxVersion]
  /\ status \in [Turnaround -> TurnaroundStatus \cup {Absent}]
  /\ version \in [Turnaround -> Nat]
  /\ assigned \in [Turnaround -> SUBSET Unit]
  /\ padded \in [Turnaround -> SUBSET Paddable]
  /\ \A t \in Turnaround : padded[t] \subseteq assigned[t]
  /\ result \in [Turnaround -> [CheckCode -> CheckResult \cup {Absent}]]
  /\ clearance \in [Turnaround -> ClearanceState \cup {Absent}]
  /\ previous \in [Turnaround -> ClearanceState \cup {Absent}]
  /\ trail \in [Turnaround -> Seq(ClearanceState \X ClearanceState)]

\* Migrated, nothing inserted yet.
EmptyDB ==
  /\ unitState = [u \in Unit |-> Absent]
  /\ unitVersion = [u \in Unit |-> 0]
  /\ status = [t \in Turnaround |-> Absent]
  /\ version = [t \in Turnaround |-> 0]
  /\ assigned = [t \in Turnaround |-> {}]
  /\ padded = [t \in Turnaround |-> {}]
  /\ result = [t \in Turnaround |-> [c \in CheckCode |-> Absent]]
  /\ clearance = [t \in Turnaround |-> Absent]
  /\ previous = [t \in Turnaround |-> Absent]
  /\ trail = [t \in Turnaround |-> <<>>]

-----------------------------------------------------------------------------
(* Slips a change to the code could introduce; the properties are tested   *)
(* against them and nothing else uses them.                                *)

EverWith(u) == {t \in Turnaround : status[t] # Absent /\ u \in assigned[t] \ padded[t]}

MayAddCheckAnyTime(t, c) == status[t] # Absent /\ result[t][c] = Absent

MayReviewAgain(t, c) == clearance[t] = "pending" /\ result[t][c] # Absent

MayCompleteUndecided(t, to) == allowedTurnaroundTransition(status[t], to)

UpdateStatusOnly(t, s) ==
  /\ status' = [status EXCEPT ![t] = s]
  /\ UNCHANGED <<version, assigned, padded>>

-----------------------------------------------------------------------------
(* What the services read.                                                 *)

Exists(t) == status[t] # Absent

\* The units a turnaround names by the canonical string of their id.
Findable(t) == assigned[t] \ padded[t]

\* FindActiveByGroundUnitTx: every turnaround that is not completed and whose
\* stored ids contain the canonical string of u.
ActiveWith(u) ==
  {t \in Turnaround : Exists(t) /\ status[t] # "completed" /\ u \in Findable(t)}

ChecksOf(t) == {c \in CheckCode : result[t][c] # Absent}

\* The turnarounds TurnaroundService.Create refuses to share a unit with.
Engaged(t) ==
  \/ status[t] \in {"open", "checking"}
  \/ status[t] = "decisioned" /\ clearance[t] # "revoked"

\* Checks are added and reviewed only while no decision has been made.
Undecided(t) == status[t] \in {"open", "checking"} /\ clearance[t] = "pending"

MayAddCheck(t, c) == Undecided(t) /\ result[t][c] = Absent

MayReview(t, c) == Undecided(t) /\ result[t][c] = "pending"

MayChangeStatus(t, to) ==
  /\ allowedTurnaroundTransition(status[t], to)
  /\ to = "completed" => clearance[t] \in Released

\* What Decide checks on the turnaround and its checks, the units apart.
MayDecide(t, to) ==
  /\ allowedClearanceTransition(clearance[t], to)
  /\ status[t] # "completed"
  /\ to # "revoked" => /\ status[t] = "checking"
                       /\ ChecksOf(t) # {}
                       /\ \A c \in ChecksOf(t) : result[t][c] # "pending"
  /\ to = "cleared" => \A c \in ChecksOf(t) : result[t][c] # "failed"

Available(U) == \A u \in U : unitState[u] = "available"

\* The id the sequence hands to the next inserted turnaround.
NextTurnaround(t) ==
  ~Exists(t) /\ \A s \in Turnaround : s < t => Exists(s)

-----------------------------------------------------------------------------
(* What the services write; each names the table's new columns in full.    *)

InsertUnit(u, s) ==
  /\ unitState' = [unitState EXCEPT ![u] = s]
  /\ unitVersion' = [unitVersion EXCEPT ![u] = 1]

UpdateUnit(u, s) ==
  /\ unitState' = [unitState EXCEPT ![u] = s]
  /\ unitVersion' = [unitVersion EXCEPT ![u] = @ + 1]

\* The ids are stored as they came: those of P with leading zeros.
InsertTurnaround(t, U, P, C) ==
  /\ status' = [status EXCEPT ![t] = "open"]
  /\ version' = [version EXCEPT ![t] = 1]
  /\ assigned' = [assigned EXCEPT ![t] = U]
  /\ padded' = [padded EXCEPT ![t] = P]
  /\ result' = [result EXCEPT ![t] =
                  [c \in CheckCode |-> IF c \in C THEN "pending" ELSE Absent]]
  /\ clearance' = [clearance EXCEPT ![t] = "pending"]
  /\ UNCHANGED <<previous, trail>>

UpdateTurnaround(t, s) ==
  /\ status' = [status EXCEPT ![t] = s]
  /\ version' = [version EXCEPT ![t] = @ + 1]
  /\ UNCHANGED <<assigned, padded>>

WriteCheck(t, c, r) == result' = [result EXCEPT ![t][c] = r]

\* Every decision of R, read as from[t], becomes to; one audit row for each.
SaveDecisions(R, from, to) ==
  /\ clearance' = [t \in Turnaround |-> IF t \in R THEN to ELSE clearance[t]]
  /\ previous' = [t \in Turnaround |-> IF t \in R THEN from[t] ELSE previous[t]]
  /\ trail' = [t \in Turnaround |->
                 IF t \in R THEN Append(trail[t], <<from[t], to>>) ELSE trail[t]]

-----------------------------------------------------------------------------
(* What every committed state promises.                                    *)

\* A turnaround waits for a decision exactly while its checks are open, it is
\* completed only on a decision that released it, and no decision exists
\* without its turnaround (TurnaroundService.ChangeStatus, Decide and the
\* revocation in GroundUnitService.ChangeState move the two rows separately).
StatusFollowsDecision ==
  \A t \in Turnaround :
    /\ status[t] \in {"open", "checking"} <=> clearance[t] = "pending"
    /\ status[t] = "completed" => clearance[t] \in Released
    /\ Exists(t) <=> clearance[t] # Absent

\* Of two engaged turnarounds, the later shares none of the units that the earlier
\* names canonically: those serve one turnaround at a time, until it is completed or
\* revoked, under every change of status and decision.  An id stored with leading
\* zeros keeps nobody out (TurnaroundService.Create's conflict check).
ExclusiveUnlessPadded ==
  \A s, t \in Turnaround :
    s < t /\ Engaged(s) /\ Engaged(t) => assigned[s] \cap assigned[t] \subseteq padded[s]

\* A released turnaround has checks and a result for every one of them; a fully
\* cleared one has no failed check (Decide's guards, which must survive every
\* later CreateCheck and Review).
ReleaseNeedsReview ==
  \A t \in Turnaround : clearance[t] \in Released =>
    /\ ChecksOf(t) # {}
    /\ \A c \in ChecksOf(t) :
         /\ result[t][c] # "pending"
         /\ clearance[t] = "cleared" => result[t][c] = "passed"

\* While a turnaround is fully cleared and not completed, every unit assigned to
\* it is available (Decide's unit check and ChangeState's revocations).
ClearedUnitsAvailable ==
  \A t \in Turnaround :
    status[t] = "decisioned" /\ clearance[t] = "cleared" => Available(assigned[t])

\* The same of the units that it names canonically.
FindableUnitsAvailable ==
  \A t \in Turnaround :
    status[t] = "decisioned" /\ clearance[t] = "cleared" => Available(Findable(t))

\* The CLEARANCE_TRANSITION audit rows of a decision read as one unbroken chain
\* from "pending" to its present state, whose last link is its previous_state.
AuditExplains ==
  \A t \in Turnaround : Exists(t) =>
    IF trail[t] = <<>>
    THEN clearance[t] = "pending" /\ previous[t] = Absent
    ELSE /\ trail[t][1][1] = "pending"
         /\ trail[t][Len(trail[t])] = <<previous[t], clearance[t]>>
         /\ \A i \in 1..Len(trail[t]) - 1 : trail[t][i][2] = trail[t][i + 1][1]

-----------------------------------------------------------------------------
(* What no committed step may do.                                          *)

\* A revoked decision and a completed turnaround are final: no later decision,
\* equipment change or status change touches either row or the audit trail.
DecisionsAreFinal ==
  [][\A t \in Turnaround :
       clearance[t] = "revoked" \/ status[t] = "completed" =>
         /\ <<status[t], version[t]>>' = <<status[t], version[t]>>
         /\ <<clearance[t], previous[t], trail[t]>>'
              = <<clearance[t], previous[t], trail[t]>>]_dbVars

\* The evidence a decision was made on stays as it was: a reviewed check keeps
\* its result, and after the decision no check is added or reviewed.
EvidenceFrozen ==
  [][\A t \in Turnaround, c \in CheckCode :
       result[t][c] \in {"passed", "failed"} \/ clearance[t] \in Released \cup {"revoked"} =>
         result'[t][c] = result[t][c]]_dbVars

\* Two different states of a unit or of a turnaround's status never carry the
\* same version, so a client that holds a version knows which state it saw.
VersionTellsStates ==
  [][/\ \A u \in Unit :
          unitState'[u] # unitState[u] => unitVersion'[u] > unitVersion[u]
     /\ \A t \in Turnaround :
          status'[t] # status[t] => version'[t] > version[t]]_dbVars

=============================================================================
