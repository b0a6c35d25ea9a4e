---------------------------- MODULE ClearanceTx ----------------------------
(***************************************************************************)
(* The requests of Clearance.tla as the code runs them: PostgreSQL         *)
(* transactions at READ COMMITTED, interleaved statement by statement.     *)
(* SELECT ... FOR UPDATE takes a row lock that is held to the end of the   *)
(* transaction and returns the row as it is once the lock is granted;      *)
(* which rows a query looks at is fixed by the rows committed when it      *)
(* starts.  pg_advisory_xact_lock serialises the assignment of a unit.     *)
(*                                                                         *)
(* A transaction's writes are applied with its commit: the rows it writes  *)
(* are locked or new, so nobody sees them earlier.  The rows of            *)
(* safety_checks and clearance_decisions are locked only by a transaction  *)
(* that holds the lock of their turnaround, so their own locks never block *)
(* anyone and are left out.                                                *)
(***************************************************************************)
EXTENDS Clearance, FiniteSets

CONSTANTS
  Proc,     \* requests that may be in a transaction at the same time
  Target,   \* bound: the unit states that requests ask for
  Asker,    \* bound: the roles of those who ask for them
  Verdict,  \* bound: the results that reviews give
  Outcome   \* bound: the decisions asked for

NoOne == "no one"

ASSUME NoOneAssumption == NoOne \notin Proc
ASSUME TargetAssumption == Target \subseteq UnitState
ASSUME AskerAssumption == Asker \subseteq UnitStateRoles
ASSUME VerdictAssumption == Verdict \subseteq CheckResult \ {"pending"}
ASSUME OutcomeAssumption == Outcome \subseteq ClearanceState \ {"pending"}

VARIABLES
  pc,          \* where each request's transaction stands
  req,         \* what it was asked to do
  units,       \* the units its present loop has still to visit
  rows,        \* the rows its running FindActive query has still to lock
  found,       \* the active turnarounds its queries have returned
  read,        \* the decision states it has read, by turnaround
  assignLock,  \* advisory lock of each unit's assignment
  rowLock,     \* lock of each turnarounds row
  unitLock     \* lock of each ground_units row

procVars == <<pc, req, units, rows, found, read>>
lockVars == <<assignLock, rowLock, unitLock>>
vars     == <<dbVars, procVars, lockVars>>

-----------------------------------------------------------------------------
(* Requests.  A PATCH carries the version its sender last saw, and with it *)
(* (seen) the state the sender saw; one for a unit's state comes from a    *)
(* role that its route admits.  Requests that any state refuses, and those *)
(* that name rows that do not exist, are left out.                         *)

NoRequest == [op |-> "none"]
NoUnit    == 0

ChangeStateRequests ==
  {[op |-> "ChangeState", role |-> e, unit |-> u, to |-> s,
    version |-> unitVersion[u], seen |-> unitState[u]] :
     e \in Asker, u \in {v \in Unit : unitState[v] # Absent}, s \in Target}

\* The units of a creation, those in padded spelt with leading zeros.
CreateRequests ==
  {r \in [op : {"Create"}, units : SUBSET {v \in Unit : unitState[v] # Absent},
          padded : SUBSET Paddable, codes : SUBSET CheckCode] :
     r.units # {} /\ r.padded \subseteq r.units /\ r.codes # {}}

ChangeStatusRequests(t) ==
  {[op |-> "ChangeStatus", t |-> t, to |-> s, version |-> version[t], seen |-> status[t]] :
     s \in {"checking", "completed"}}

CreateCheckRequests(t) ==
  {[op |-> "CreateCheck", t |-> t, code |-> c, unit |-> u] :
     c \in CheckCode, u \in assigned[t] \cup {NoUnit}}

ReviewRequests(t) ==
  {[op |-> "Review", t |-> t, code |-> c, result |-> r] :
     c \in ChecksOf(t), r \in Verdict}

DecideRequests(t) ==
  {[op |-> "Decide", t |-> t, to |-> s] : s \in Outcome}

Requests ==
  ChangeStateRequests \cup CreateRequests \cup
  UNION {ChangeStatusRequests(t) \cup CreateCheckRequests(t) \cup ReviewRequests(t)
           \cup DecideRequests(t) : t \in {s \in Turnaround : Exists(s)}}

-----------------------------------------------------------------------------
(* Locks and queries.                                                      *)

Free(lock, p) == lock \in {NoOne, p}

Least(S) == CHOOSE i \in S : \A j \in S : i <= j

\* Two slips for the properties to catch: a query without ORDER BY, and advisory
\* locks of the session instead of the transaction.
AnyRow(p) == rows[p]

ReleaseRowsOnly(p) ==
  /\ assignLock' = assignLock
  /\ rowLock' = [t \in Turnaround |-> IF rowLock[t] = p THEN NoOne ELSE rowLock[t]]
  /\ unitLock' = [u \in Unit |-> IF unitLock[u] = p THEN NoOne ELSE unitLock[u]]

\* The loops over units run in ascending order, except that Decide follows the
\* order in which the turnaround lists its units, which is the client's.
NextUnits(p) == IF req[p].op = "Decide" THEN units[p] ELSE {Least(units[p])}

\* ORDER BY id: the row a FindActiveByGroundUnitTx query locks next.
NextRow(p) == IF rows[p] = {} THEN {} ELSE {Least(rows[p])}

Release(p) ==
  /\ assignLock' = [u \in Unit |-> IF assignLock[u] = p THEN NoOne ELSE assignLock[u]]
  /\ rowLock' = [t \in Turnaround |-> IF rowLock[t] = p THEN NoOne ELSE rowLock[t]]
  /\ unitLock' = [u \in Unit |-> IF unitLock[u] = p THEN NoOne ELSE unitLock[u]]

HoldsNothing(p) ==
  /\ \A u \in Unit : p \notin {assignLock[u], unitLock[u]}
  /\ \A t \in Turnaround : p # rowLock[t]

NothingRead == [t \in Turnaround |-> Absent]

\* The transaction is over, its locks are gone and the request is answered.
EndTx(p) ==
  /\ pc' = [pc EXCEPT ![p] = "idle"]
  /\ req' = [req EXCEPT ![p] = NoRequest]
  /\ units' = [units EXCEPT ![p] = {}]
  /\ rows' = [rows EXCEPT ![p] = {}]
  /\ found' = [found EXCEPT ![p] = {}]
  /\ read' = [read EXCEPT ![p] = NothingRead]
  /\ Release(p)

\* A step that ends with the next statement due at l, and a refusal if not ok.
Goto(p, ok, l) == pc' = [pc EXCEPT ![p] = IF ok THEN l ELSE "rollback"]

-----------------------------------------------------------------------------
(* Slips in the statements, for the properties to catch.                   *)

LockAssignmentForgotten(p) ==
  /\ pc[p] = "assign"
  /\ units' = [units EXCEPT ![p] = req[p].units]
  /\ Goto(p, TRUE, "find")
  /\ UNCHANGED <<dbVars, req, rows, found, read, lockVars>>

\* FindActiveByGroundUnitTx without FOR UPDATE.
LockActiveRowPlain(p) ==
  /\ pc[p] = "rows" /\ rows[p] # {}
  /\ rows' = [rows EXCEPT ![p] = {}]
  /\ found' = [found EXCEPT ![p] = @ \cup rows[p]]
  /\ UNCHANGED <<dbVars, pc, req, units, read, lockVars>>

\* GroundUnitService.ChangeState without the comparison of versions.
UnitAcceptsAnyVersion(r, u) ==
  CASE r.op = "ChangeState" -> /\ unitVersion[u] < MaxVersion
                               /\ allowedUnitTransition(unitState[u], r.to)
                               /\ MayRequestUnitState(r.role, r.to)
    [] r.op = "CreateCheck" -> TRUE
    [] OTHER                -> unitState[u] = "available"

\* TurnaroundRepository.FindByIDTx without FOR UPDATE.
MayReadRow(t) == TRUE

-----------------------------------------------------------------------------
(* Statements.                                                             *)

TxInit ==
  /\ Init
  /\ pc = [p \in Proc |-> "idle"]
  /\ req = [p \in Proc |-> NoRequest]
  /\ units = [p \in Proc |-> {}]
  /\ rows = [p \in Proc |-> {}]
  /\ found = [p \in Proc |-> {}]
  /\ read = [p \in Proc |-> NothingRead]
  /\ assignLock = [u \in Unit |-> NoOne]
  /\ rowLock = [t \in Turnaround |-> NoOne]
  /\ unitLock = [u \in Unit |-> NoOne]

\* BEGIN: ChangeState looks for turnarounds unless it restores the unit, Create
\* starts with the advisory locks, all others with their turnaround's row.
Begin(p) ==
  /\ pc[p] = "idle"
  /\ \E r \in Requests :
       /\ req' = [req EXCEPT ![p] = r]
       /\ pc' = [pc EXCEPT ![p] =
                   CASE r.op = "Create" -> "assign"
                     [] r.op = "ChangeState" -> IF r.to = "available" THEN "unit" ELSE "find"
                     [] OTHER -> "row"]
       /\ units' = [units EXCEPT ![p] =
                      CASE r.op = "Create" -> r.units
                        [] r.op = "ChangeState" -> {r.unit}
                        [] OTHER -> {}]
  /\ UNCHANGED <<dbVars, rows, found, read, lockVars>>

\* LockAssignmentTx, for the units in ascending order.
LockAssignment(p) ==
  /\ pc[p] = "assign"
  /\ LET u == Least(units[p])
         last == units[p] = {u}
     IN /\ assignLock[u] = NoOne
        /\ assignLock' = [assignLock EXCEPT ![u] = p]
        /\ units' = [units EXCEPT ![p] = IF last THEN req[p].units ELSE @ \ {u}]
        /\ Goto(p, TRUE, IF last THEN "find" ELSE "assign")
  /\ UNCHANGED <<dbVars, req, rows, found, read, rowLock, unitLock>>

\* FindActiveByGroundUnitTx starts: its snapshot fixes the rows it will visit,
\* those that name the unit by its canonical id.
FindActive(p) ==
  /\ pc[p] = "find"
  /\ rows' = [rows EXCEPT ![p] = ActiveWith(Least(units[p]))]
  /\ Goto(p, TRUE, "rows")
  /\ UNCHANGED <<dbVars, req, units, found, read, lockVars>>

\* The query locks its rows in the order of their ids; a row that was completed
\* while the query waited is locked and not returned.
LockActiveRow(p) ==
  /\ pc[p] = "rows"
  /\ \E t \in NextRow(p) :
        /\ Free(rowLock[t], p)
        /\ rowLock' = [rowLock EXCEPT ![t] = p]
        /\ rows' = [rows EXCEPT ![p] = @ \ {t}]
        /\ found' = [found EXCEPT ![p] = IF status[t] = "completed" THEN @ ELSE @ \cup {t}]
  /\ UNCHANGED <<dbVars, pc, req, units, read, assignLock, unitLock>>

\* ChangeState then reads the decisions of the turnarounds found, and goes on to
\* its unit's row.
ReadDecisions(p) ==
  /\ pc[p] = "rows" /\ rows[p] = {}
  /\ req[p].op = "ChangeState"
  /\ read' = [read EXCEPT ![p] = [t \in Turnaround |-> IF t \in found[p] THEN clearance[t] ELSE Absent]]
  /\ Goto(p, TRUE, "unit")
  /\ UNCHANGED <<dbVars, req, units, rows, found, lockVars>>

\* Create refuses if one of them is engaged, else it queries for the next unit
\* and, after the last, locks its units.
CheckAssignment(p) ==
  /\ pc[p] = "rows" /\ rows[p] = {}
  /\ req[p].op = "Create"
  /\ LET u == Least(units[p])
         last == units[p] = {u}
     IN /\ units' = [units EXCEPT ![p] = IF last THEN req[p].units ELSE @ \ {u}]
        /\ Goto(p, \A t \in found[p] : ~Engaged(t), IF last THEN "unit" ELSE "find")
  /\ UNCHANGED <<dbVars, req, rows, found, read, lockVars>>

\* FindByIDTx on the turnaround, and the checks made under its lock.
RowAccepts(r) ==
  CASE r.op = "ChangeStatus" -> version[r.t] = r.version /\ MayChangeStatus(r.t, r.to)
    [] r.op = "CreateCheck"  -> MayAddCheck(r.t, r.code)
    [] r.op = "Review"       -> MayReview(r.t, r.code)
    [] r.op = "Decide"       -> MayDecide(r.t, r.to)

\* The units whose rows the request locks after its turnaround's.
UnitsToLock(r) ==
  CASE r.op = "Decide" /\ r.to = "cleared"         -> assigned[r.t]
    [] r.op = "CreateCheck" /\ r.unit # NoUnit     -> {r.unit}
    [] OTHER                                       -> {}

\* A row's lock is granted when no transaction holds it.
MayLockRow(t) == rowLock[t] = NoOne

LockTurnaround(p) ==
  /\ pc[p] = "row"
  /\ LET r == req[p]
     IN /\ MayLockRow(r.t)
        /\ rowLock' = [rowLock EXCEPT ![r.t] = p]
        /\ read' = [read EXCEPT ![p][r.t] = clearance[r.t]]
        /\ units' = [units EXCEPT ![p] = UnitsToLock(r)]
        /\ Goto(p, RowAccepts(r), IF UnitsToLock(r) = {} THEN "commit" ELSE "unit")
  /\ UNCHANGED <<dbVars, req, rows, found, assignLock, unitLock>>

\* FindByIDTx on a unit, and the checks made under its lock.
UnitAccepts(r, u) ==
  CASE r.op = "ChangeState" -> /\ unitVersion[u] = r.version
                               /\ unitVersion[u] < MaxVersion
                               /\ allowedUnitTransition(unitState[u], r.to)
                               /\ MayRequestUnitState(r.role, r.to)
    [] r.op = "CreateCheck" -> TRUE
    [] OTHER                -> unitState[u] = "available"

LockUnit(p) ==
  /\ pc[p] = "unit"
  /\ \E u \in NextUnits(p) :
       /\ unitLock[u] = NoOne
       /\ unitLock' = [unitLock EXCEPT ![u] = p]
       /\ units' = [units EXCEPT ![p] = @ \ {u}]
       /\ Goto(p, UnitAccepts(req[p], u), IF units[p] = {u} THEN "commit" ELSE "unit")
  /\ UNCHANGED <<dbVars, req, rows, found, read, assignLock, rowLock>>

\* What each request writes when none of its checks refused it.
WriteUnitState(p, r) ==
  /\ r.op = "ChangeState"
  /\ UpdateUnit(r.unit, r.to)
  /\ SaveDecisions({t \in found[p] : read[p][t] \in Released}, read[p], "revoked")
  /\ UNCHANGED <<turnaroundVars, result>>

WriteTurnaround(r) ==
  /\ r.op = "Create"
  /\ \E t \in Turnaround : NextTurnaround(t) /\ InsertTurnaround(t, r.units, r.padded, r.codes)
  /\ UNCHANGED unitVars

WriteStatus(r) ==
  /\ r.op = "ChangeStatus"
  /\ UpdateTurnaround(r.t, r.to)
  /\ UNCHANGED <<unitVars, result, decisionVars>>

WriteNewCheck(r) ==
  /\ r.op = "CreateCheck"
  /\ WriteCheck(r.t, r.code, "pending")
  /\ UNCHANGED <<unitVars, turnaroundVars, decisionVars>>

WriteReview(r) ==
  /\ r.op = "Review"
  /\ WriteCheck(r.t, r.code, r.result)
  /\ IF status[r.t] = "open" THEN UpdateTurnaround(r.t, "checking")
                             ELSE UNCHANGED turnaroundVars
  /\ UNCHANGED <<unitVars, decisionVars>>

WriteDecision(p, r) ==
  /\ r.op = "Decide"
  /\ SaveDecisions({r.t}, read[p], r.to)
  /\ UpdateTurnaround(r.t, "decisioned")
  /\ UNCHANGED <<unitVars, result>>

Write(p, r) ==
  \/ WriteUnitState(p, r) \/ WriteTurnaround(r) \/ WriteStatus(r)
  \/ WriteNewCheck(r) \/ WriteReview(r) \/ WriteDecision(p, r)

\* The writes, their audit row and COMMIT.
Commit(p) == pc[p] = "commit" /\ Write(p, req[p]) /\ EndTx(p)

\* A refused request rolls back; so does a Create when the model has no id left.
Rollback(p) ==
  /\ \/ pc[p] = "rollback"
     \/ pc[p] = "commit" /\ req[p].op = "Create" /\ \A t \in Turnaround : Exists(t)
  /\ EndTx(p)
  /\ UNCHANGED dbVars

\* A statement fails, the connection drops or the server dies: PostgreSQL rolls
\* the transaction back.  The server keeps no state of its own to recover.
Fail(p) ==
  /\ pc[p] # "idle"
  /\ EndTx(p)
  /\ UNCHANGED dbVars

-----------------------------------------------------------------------------
(* Who waits for whom, and PostgreSQL's deadlock detector.                 *)

WaitsFor(p, q) ==
  /\ p # q
  /\ \/ pc[p] = "assign" /\ assignLock[Least(units[p])] = q
     \/ pc[p] = "rows" /\ \E t \in NextRow(p) : rowLock[t] = q
     \/ pc[p] = "row" /\ rowLock[req[p].t] = q
     \/ pc[p] = "unit" /\ \E u \in NextUnits(p) : unitLock[u] = q

\* Requests that wait only for each other.
Deadlocked(S) ==
  /\ S # {}
  /\ \A p \in S : \E q \in S : WaitsFor(p, q)
  /\ \A q \in S : \E p \in S : WaitsFor(p, q)

Victim(p) ==
  /\ \E S \in SUBSET Proc : p \in S /\ Deadlocked(S)
  /\ EndTx(p)
  /\ UNCHANGED dbVars

-----------------------------------------------------------------------------

\* What a transaction does next when it is left to run.
Step(p) ==
  \/ LockAssignment(p) \/ FindActive(p) \/ LockActiveRow(p) \/ ReadDecisions(p)
  \/ CheckAssignment(p) \/ LockTurnaround(p) \/ LockUnit(p) \/ Commit(p) \/ Rollback(p)

InsertUnitRow ==
  /\ \E u \in Unit, s \in Target : CreateUnit(u, s)
  /\ UNCHANGED <<procVars, lockVars>>

TxNext ==
  \/ InsertUnitRow
  \/ \E p \in Proc : Begin(p) \/ Step(p) \/ Fail(p) \/ Victim(p)

TxSpec == TxInit /\ [][TxNext]_vars

\* The Go scheduler and PostgreSQL run every transaction; lock queues are served
\* in order, so a request whose lock is free again and again gets it; a deadlock
\* is broken.
TxFairness ==
  \A p \in Proc : SF_vars(Step(p)) /\ WF_vars(Victim(p))

FairTxSpec == TxSpec /\ TxFairness

-----------------------------------------------------------------------------
(* Properties.  The committed rows are the abstract state, so that TxSpec  *)
(* implements RelaxedSpec needs no refinement mapping.                     *)

TxTypeOK ==
  /\ TypeOK
  /\ pc \in [Proc -> {"idle", "assign", "find", "rows", "row", "unit", "commit", "rollback"}]
  /\ \A p \in Proc : req[p] = NoRequest <=> pc[p] = "idle"
  /\ units \in [Proc -> SUBSET Unit]
  /\ rows \in [Proc -> SUBSET Turnaround]
  /\ found \in [Proc -> SUBSET Turnaround]
  /\ read \in [Proc -> [Turnaround -> ClearanceState \cup {Absent}]]
  /\ assignLock \in [Unit -> Proc \cup {NoOne}]
  /\ rowLock \in [Turnaround -> Proc \cup {NoOne}]
  /\ unitLock \in [Unit -> Proc \cup {NoOne}]
  /\ \A p \in Proc : pc[p] = "idle" => HoldsNothing(p)

\* Every commit is one step of the serial service, but for releases left standing
\* by an equipment change.
CommitsAreSerial == [][dbVars' # dbVars => RelaxedNext]_dbVars

\* Interleaved transactions implement the service of indivisible requests: this is
\* RelaxedSpec, in a form that TLC evaluates only where rows change.
ImplementsRelaxed == Init /\ CommitsAreSerial

\* A PATCH that is about to commit overwrites exactly the state its sender saw,
\* however many other requests committed since the sender read it.
NoBlindOverwrite ==
  \A p \in Proc : pc[p] = "commit" =>
    /\ req[p].op = "ChangeState" => unitState[req[p].unit] = req[p].seen
    /\ req[p].op = "ChangeStatus" => status[req[p].t] = req[p].seen

\* What a transaction decided under its locks still holds when it writes: the
\* decisions it read are the decisions it saves over.
ReadsStayCurrent ==
  \A p \in Proc : \A t \in Turnaround :
    pc[p] \in {"unit", "commit"} /\ read[p][t] # Absent => read[p][t] = clearance[t]

\* Requests can wait for each other in a ring only if one of them creates a
\* turnaround, or two of them decide on turnarounds that share a unit because the
\* earlier one has padded its id: all others take their locks in a common order, or
\* lock no unit in common.
RingsNeedCreateOrPadding ==
  \A S \in SUBSET Proc : Deadlocked(S) =>
    \/ \E p \in S : req[p].op = "Create"
    \/ \E p, q \in S :
         /\ req[p].op = "Decide" /\ req[q].op = "Decide"
         /\ req[p].t < req[q].t
         /\ padded[req[p].t] \cap assigned[req[q].t] # {}

\* Every request that started is answered: no lock is waited for for ever.
RequestsFinish == \A p \in Proc : pc[p] # "idle" ~> pc[p] = "idle"

=============================================================================
