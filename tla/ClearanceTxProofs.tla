------------------------- MODULE ClearanceTxProofs -------------------------
(***************************************************************************)
(* Proofs about ClearanceTx for any units, turnarounds, checks, bounds and *)
(* any number of concurrent requests: interleaved transactions implement   *)
(* the service of indivisible requests.                                    *)
(*                                                                         *)
(* The inductive invariant TxInv says, for each request, what it has found *)
(* out so far and which locks keep that true until it commits.  A step of  *)
(* another request changes only rows which that one has locked (Respects), *)
(* so it leaves alone what this one relies on.                             *)
(***************************************************************************)
EXTENDS ClearanceTx, ClearanceProofs, WellFoundedInduction

USE DEF Absent, Released

-----------------------------------------------------------------------------
(* The invariant.                                                          *)

RowOps == {"ChangeStatus", "CreateCheck", "Review", "Decide"}

\* What the body of a request may be.
IsRequest(r) ==
  /\ r.op \in {"ChangeState", "Create"} \cup RowOps
  /\ r.op = "ChangeState"  => /\ r.unit \in Unit /\ r.to \in UnitState /\ r.version \in Nat
                              /\ r.role \in UnitStateRoles
  /\ r.op = "Create"       => /\ r.units \in (SUBSET Unit) \ {{}}
                              /\ r.padded \in SUBSET (r.units \cap Paddable)
                              /\ r.codes \in (SUBSET CheckCode) \ {{}}
  /\ r.op \in RowOps       => r.t \in Turnaround
  /\ r.op = "ChangeStatus" => r.to \in TurnaroundStatus /\ r.version \in Nat
  /\ r.op = "CreateCheck"  => r.code \in CheckCode /\ r.unit \in Unit \cup {NoUnit}
  /\ r.op = "Review"       => r.code \in CheckCode /\ r.result \in CheckResult \ {"pending"}
  /\ r.op = "Decide"       => r.to \in ClearanceState \ {"pending"}

\* The statements that each kind of request consists of.
Statements(op) ==
  CASE op = "Create"       -> {"assign", "find", "rows", "unit", "commit", "rollback"}
    [] op = "ChangeState"  -> {"find", "rows", "unit", "commit", "rollback"}
    [] op = "ChangeStatus" -> {"row", "commit", "rollback"}
    [] op = "CreateCheck"  -> {"row", "unit", "commit", "rollback"}
    [] op = "Review"       -> {"row", "commit", "rollback"}
    [] op = "Decide"       -> {"row", "unit", "commit", "rollback"}

\* Where a request stands, and that its loops have units to visit.
PlaceInv(p) ==
  /\ pc[p] = "idle" <=> req[p] = NoRequest
  /\ pc[p] = "idle" => HoldsNothing(p) /\ rows[p] = {} /\ found[p] = {}
  /\ pc[p] # "idle" => IsRequest(req[p]) /\ pc[p] \in Statements(req[p].op)
  /\ pc[p] \in {"assign", "find", "rows", "unit"} => units[p] # {}
  /\ pc[p] = "commit" => units[p] = {}

\* A decision that was read is locked with its turnaround, and so stays as read.
ReadInv(p) ==
  \A t \in Turnaround : read[p][t] # Absent =>
    rowLock[t] = p /\ Exists(t) /\ read[p][t] = clearance[t]

\* The state that the sender of a PATCH saw is the one that its version tells.
SeenInv(p) ==
  /\ req[p].op = "ChangeState" =>
       /\ unitState[req[p].unit] # Absent
       /\ req[p].version <= unitVersion[req[p].unit]
       /\ unitVersion[req[p].unit] = req[p].version => unitState[req[p].unit] = req[p].seen
  /\ req[p].op \in RowOps => Exists(req[p].t)
  /\ req[p].op = "ChangeStatus" =>
       /\ req[p].version <= version[req[p].t]
       /\ version[req[p].t] = req[p].version => status[req[p].t] = req[p].seen

\* ChangeState: the turnarounds it found are locked, active and name its unit
\* canonically; at last its unit is locked and accepts the change.
ChangeStateInv(p) ==
  req[p].op = "ChangeState" =>
    /\ units[p] \subseteq {req[p].unit}
    /\ pc[p] \in {"find", "rows"} => req[p].to # "available"
    /\ \A t \in rows[p] : Exists(t) /\ req[p].unit \in Findable(t)
    /\ \A t \in found[p] : rowLock[t] = p /\ t \in FoundFor(req[p].unit, req[p].to)
    /\ pc[p] \in {"unit", "commit"} => \A t \in found[p] : read[p][t] # Absent
    /\ pc[p] = "commit" =>
         unitLock[req[p].unit] = p /\ UnitAccepts(req[p], req[p].unit)

\* No engaged turnaround names the unit canonically.
NotEngaged(u) == \A t \in Turnaround : u \in Findable(t) => ~Engaged(t)

\* Create: no other request can assign its units; the units it has looked at are
\* not engaged, and those it has locked are available.
CreateInv(p) ==
  LET asked == req[p].units
  IN req[p].op = "Create" =>
       /\ units[p] \subseteq asked
       /\ pc[p] = "assign" => \A u \in asked \ units[p] : assignLock[u] = p
       /\ pc[p] \in {"find", "rows", "unit", "commit"} => \A u \in asked : assignLock[u] = p
       /\ pc[p] \in {"find", "rows"} => \A u \in asked \ units[p] : NotEngaged(u)
       /\ pc[p] = "rows" =>
            \A t \in Turnaround : Least(units[p]) \in Findable(t) /\ Engaged(t) =>
              t \in rows[p] \cup found[p]
       /\ pc[p] \in {"unit", "commit"} =>
            /\ \A u \in asked : NotEngaged(u)
            /\ \A u \in asked \ units[p] : unitLock[u] = p /\ unitState[u] = "available"

\* The others: once their turnaround is locked it accepts the request, and a full
\* clearance has locked units that are available.
RowOpInv(p) ==
  LET r == req[p]
  IN r.op \in RowOps /\ pc[p] \in {"unit", "commit"} =>
       /\ rowLock[r.t] = p /\ RowAccepts(r)
       /\ read[p][r.t] # Absent
       /\ units[p] \subseteq UnitsToLock(r)
       /\ r.op = "Decide" /\ r.to = "cleared" =>
            \A u \in assigned[r.t] \ units[p] : unitLock[u] = p /\ unitState[u] = "available"

RequestInv(p) ==
  PlaceInv(p) /\ ReadInv(p) /\ SeenInv(p) /\ ChangeStateInv(p) /\ CreateInv(p) /\ RowOpInv(p)

LocalTypes ==
  /\ pc \in [Proc -> {"idle", "assign", "find", "rows", "row", "unit", "commit", "rollback"}]
  /\ DOMAIN req = Proc
  /\ units \in [Proc -> SUBSET Unit]
  /\ rows \in [Proc -> SUBSET Turnaround]
  /\ found \in [Proc -> SUBSET Turnaround]
  /\ read \in [Proc -> [Turnaround -> ClearanceState \cup {Absent}]]
  /\ assignLock \in [Unit -> Proc \cup {NoOne}]
  /\ rowLock \in [Turnaround -> Proc \cup {NoOne}]
  /\ unitLock \in [Unit -> Proc \cup {NoOne}]

TxInv == Inv /\ LocalTypes /\ \A p \in Proc : RequestInv(p)

-----------------------------------------------------------------------------

\* A request other than Create takes its locks in the common order: rows ascending,
\* then units; only a decision waits for a unit while it holds one, of its own
\* turnaround.
TakesInOrder(p) ==
  req[p].op # "Create" =>
    /\ \A t \in Turnaround : rowLock[t] = p =>
         /\ pc[p] \in {"rows", "unit", "commit", "rollback"}
         /\ pc[p] = "rows" => \A s \in rows[p] : t < s
    /\ \A u \in Unit : unitLock[u] = p =>
         /\ pc[p] \in {"unit", "commit", "rollback"}
         /\ pc[p] = "unit" => req[p].op = "Decide" /\ u \in assigned[req[p].t]

LockOrder == \A p \in Proc : TakesInOrder(p)

-----------------------------------------------------------------------------
(* Choosing the next unit and the next row.                                *)

Below == {i \in Nat \X Nat : i[1] < i[2]}

\* The order of ids is well-founded.
LEMMA BelowWellFounded == IsWellFoundedOn(Below, Nat)
  <1>1. OpToRel(<, Nat) = Below
    BY Zenon DEF OpToRel, Below
  <1> QED
    BY <1>1, NatLessThanWellFounded

\* A set of ids that is not empty has a least one.
LEMMA LeastExists ==
  ASSUME NEW S \in SUBSET Nat, S # {}
  PROVE  \E i \in S : \A j \in S : i <= j
  <1>1. PICK i \in S : \A j \in S : ~(<<j, i>> \in Below)
    BY BelowWellFounded, WFMin, Zenon
  <1>2. \A j \in S : ~(j < i)
    BY <1>1 DEF Below
  <1> QED
    BY <1>2

\* The loops over units and the query by id visit members of what is left.
LEMMA LeastIsMember ==
  ASSUME NEW S, S \in SUBSET Unit \/ S \in SUBSET Turnaround, S # {}
  PROVE  Least(S) \in S /\ \A i \in S : Least(S) <= i
  <1>1. S \in SUBSET Nat
    BY UnitAssumption, TurnaroundAssumption
  <1> QED
    BY <1>1, LeastExists DEF Least

-----------------------------------------------------------------------------
(* What a request relies on, and steps of others that leave it alone.      *)

LocalsKept(q) ==
  /\ pc'[q] = pc[q] /\ req'[q] = req[q] /\ units'[q] = units[q]
  /\ rows'[q] = rows[q] /\ found'[q] = found[q] /\ read'[q] = read[q]

LocksKept(q) ==
  /\ \A u \in Unit : assignLock'[u] = q <=> assignLock[u] = q
  /\ \A t \in Turnaround : rowLock'[t] = q <=> rowLock[t] = q
  /\ \A u \in Unit : unitLock'[u] = q <=> unitLock[u] = q

\* Rows stay, versions grow with what they tell, locked rows are not written, and
\* no turnaround is newly engaged with a unit whose assignment is locked.
Respects(q) ==
  /\ \A t \in Turnaround : Exists(t) =>
       /\ Exists(t)' /\ assigned'[t] = assigned[t] /\ padded'[t] = padded[t]
       /\ version[t] <= version'[t]
       /\ version'[t] = version[t] => status'[t] = status[t]
       /\ rowLock[t] = q => /\ status'[t] = status[t] /\ version'[t] = version[t]
                            /\ result'[t] = result[t] /\ clearance'[t] = clearance[t]
  /\ \A u \in Unit : unitState[u] # Absent =>
       /\ unitState'[u] # Absent
       /\ unitVersion[u] <= unitVersion'[u]
       /\ unitVersion'[u] = unitVersion[u] => unitState'[u] = unitState[u]
       /\ unitLock[u] = q => unitState'[u] = unitState[u] /\ unitVersion'[u] = unitVersion[u]
  /\ \A u \in Unit, t \in Turnaround :
       assignLock[u] = q /\ Engaged(t)' /\ u \in Findable(t)' => Engaged(t) /\ u \in Findable(t)

\* Types of the columns that Respects compares.
LEMMA ColumnTypes ==
  ASSUME Inv
  PROVE  /\ \A t \in Turnaround : version[t] \in Nat /\ assigned[t] \in SUBSET Unit
         /\ \A u \in Unit : unitVersion[u] \in Nat
  BY MaxVersionAssumption DEF Inv, TypeOK

\* A statement that writes nothing respects everybody.
LEMMA NoWriteRespects ==
  ASSUME Inv, UNCHANGED dbVars, NEW q
  PROVE  Respects(q)
  BY ColumnTypes DEF Respects, dbVars, unitVars, turnaroundVars, decisionVars, Exists, Engaged, Findable

\* The decisions a request has read stay as they were read.
LEMMA ReadKept ==
  ASSUME NEW q \in Proc, ReadInv(q), LocalsKept(q), LocksKept(q), Respects(q)
  PROVE  ReadInv(q)'
  BY DEF ReadInv, LocalsKept, LocksKept, Respects

\* A request stands where it stood.
LEMMA PlaceKept ==
  ASSUME NEW q \in Proc, PlaceInv(q), LocalsKept(q), LocksKept(q)
  PROVE  PlaceInv(q)'
  BY DEF PlaceInv, LocalsKept, LocksKept, HoldsNothing

\* What a PATCH's sender saw is still what its version tells.
LEMMA SeenKept ==
  ASSUME Inv, Inv', NEW q \in Proc, PlaceInv(q), SeenInv(q), LocalsKept(q), Respects(q)
  PROVE  SeenInv(q)'
  <1>1. CASE req[q].op = "ChangeState"
    <2>1. req[q].unit \in Unit /\ req[q].version \in Nat
      BY <1>1 DEF PlaceInv, IsRequest, NoRequest
    <2>2. unitVersion[req[q].unit] \in Nat /\ unitVersion'[req[q].unit] \in Nat
      BY <2>1, MaxVersionAssumption DEF Inv, TypeOK
    <2> QED
      BY <1>1, <2>1, <2>2 DEF SeenInv, LocalsKept, Respects, RowOps
  <1>2. CASE req[q].op \in RowOps
    <2>1. req[q].t \in Turnaround /\ (req[q].op = "ChangeStatus" => req[q].version \in Nat)
      BY <1>2 DEF PlaceInv, IsRequest, NoRequest, RowOps
    <2>2. version[req[q].t] \in Nat /\ version'[req[q].t] \in Nat
      BY <2>1 DEF Inv, TypeOK
    <2> QED
      BY <1>2, <2>1, <2>2 DEF SeenInv, LocalsKept, Respects, RowOps
  <1>3. CASE req[q].op \notin {"ChangeState"} \cup RowOps
    BY <1>3 DEF SeenInv, LocalsKept, RowOps
  <1> QED
    BY <1>1, <1>2, <1>3

\* A change of equipment keeps what it found, and its unit.
LEMMA ChangeStateKept ==
  ASSUME NEW q \in Proc, LocalTypes, PlaceInv(q), SeenInv(q), ChangeStateInv(q),
         LocalsKept(q), LocksKept(q), Respects(q)
  PROVE  ChangeStateInv(q)'
  <1> SUFFICES ASSUME req[q].op = "ChangeState" PROVE ChangeStateInv(q)'
    BY DEF ChangeStateInv, LocalsKept
  <1>1. req[q].unit \in Unit /\ rows[q] \subseteq Turnaround /\ found[q] \subseteq Turnaround
    BY DEF PlaceInv, IsRequest, NoRequest, LocalTypes
  <1>2. \A t \in found[q] : t \in FoundFor(req[q].unit, req[q].to)'
    BY <1>1 DEF ChangeStateInv, FoundFor, ActiveWith, Findable, Respects, Exists, LocalsKept
  <1>3. pc[q] = "commit" => UnitAccepts(req[q], req[q].unit)'
    BY <1>1 DEF ChangeStateInv, SeenInv, Respects, UnitAccepts, LocalsKept
  <1>4. \A t \in rows[q] : Exists(t)' /\ req[q].unit \in Findable(t)'
    BY <1>1 DEF ChangeStateInv, Findable, Respects
  <1> QED
    BY <1>1, <1>2, <1>3, <1>4 DEF ChangeStateInv, LocalsKept, LocksKept, Respects

\* The units of a new turnaround stay unengaged, and available once locked.
LEMMA CreateKept ==
  ASSUME NEW q \in Proc, LocalTypes, PlaceInv(q), CreateInv(q),
         LocalsKept(q), LocksKept(q), Respects(q)
  PROVE  CreateInv(q)'
  <1> SUFFICES ASSUME req[q].op = "Create" PROVE CreateInv(q)'
    BY DEF CreateInv, LocalsKept
  <1> DEFINE asked == req[q].units
  <1>1. asked \in SUBSET Unit /\ units[q] \subseteq asked
    BY DEF PlaceInv, IsRequest, NoRequest, CreateInv
  <1>2. \A u \in Unit : assignLock[u] = q /\ NotEngaged(u) => NotEngaged(u)'
    BY DEF NotEngaged, Respects
  <1>3. pc[q] = "rows" => \A t \in Turnaround :
          Least(units[q]) \in Findable(t)' /\ Engaged(t)' => t \in rows[q] \cup found[q]
    <2> SUFFICES ASSUME pc[q] = "rows" PROVE \A t \in Turnaround :
          Least(units[q]) \in Findable(t)' /\ Engaged(t)' => t \in rows[q] \cup found[q]
      OBVIOUS
    <2>1. Least(units[q]) \in asked
      BY <1>1, LeastIsMember DEF PlaceInv, LocalTypes
    <2>2. assignLock[Least(units[q])] = q
      BY <2>1 DEF CreateInv
    <2> QED
      BY <1>1, <2>1, <2>2 DEF CreateInv, Respects
  <1>4. pc[q] \in {"unit", "commit"} => \A u \in asked \ units[q] : unitState'[u] = "available"
    BY <1>1 DEF CreateInv, Respects
  <1> QED
    BY <1>1, <1>2, <1>3, <1>4 DEF CreateInv, LocalsKept, LocksKept

\* The turnaround that a request has locked still accepts it.
LEMMA RowOpKept ==
  ASSUME Inv, NEW q \in Proc, PlaceInv(q), SeenInv(q), RowOpInv(q),
         LocalsKept(q), LocksKept(q), Respects(q)
  PROVE  RowOpInv(q)'
  <1> SUFFICES ASSUME req[q].op \in RowOps, pc[q] \in {"unit", "commit"} PROVE RowOpInv(q)'
    BY DEF RowOpInv, LocalsKept
  <1> DEFINE t == req[q].t
  <1>1. t \in Turnaround /\ Exists(t) /\ rowLock[t] = q
    BY DEF PlaceInv, IsRequest, NoRequest, SeenInv, RowOpInv
  <1>2. /\ status'[t] = status[t] /\ version'[t] = version[t] /\ result'[t] = result[t]
        /\ clearance'[t] = clearance[t] /\ assigned'[t] = assigned[t]
    BY <1>1 DEF Respects
  <1>3. RowAccepts(req[q])'
    <2>1. RowAccepts(req[q]) /\ req'[q] = req[q]
      BY DEF RowOpInv, LocalsKept
    <2>2. CASE req[q].op = "ChangeStatus"
      BY <1>2, <2>1, <2>2 DEF RowAccepts, MayChangeStatus
    <2>3. CASE req[q].op = "CreateCheck"
      BY <1>2, <2>1, <2>3 DEF RowAccepts, MayAddCheck, Undecided
    <2>4. CASE req[q].op = "Review"
      BY <1>2, <2>1, <2>4 DEF RowAccepts, MayReview, Undecided
    <2>5. CASE req[q].op = "Decide"
      BY <1>2, <2>1, <2>5 DEF RowAccepts, MayDecide, ChecksOf
    <2> QED
      BY <2>2, <2>3, <2>4, <2>5 DEF RowOps
  <1>4. UnitsToLock(req[q])' = UnitsToLock(req[q])
    BY <1>2 DEF UnitsToLock, LocalsKept
  <1>5. \A u \in assigned[t] : unitLock[u] = q /\ unitState[u] = "available" =>
          unitState'[u] = "available"
    BY <1>1, ColumnTypes DEF Respects
  <1> QED
    BY <1>1, <1>2, <1>3, <1>4, <1>5, ColumnTypes DEF RowOpInv, LocalsKept, LocksKept

\* What one request relies on survives the steps of others.
LEMMA RequestKept ==
  ASSUME Inv, Inv', LocalTypes, NEW q \in Proc, RequestInv(q),
         LocalsKept(q), LocksKept(q), Respects(q)
  PROVE  RequestInv(q)'
  BY PlaceKept, ReadKept, SeenKept, ChangeStateKept, CreateKept, RowOpKept DEF RequestInv

-----------------------------------------------------------------------------
(* The statements, one lemma each: the request that runs it learns what    *)
(* TxInv says of the next statement, the others keep locals and locks.     *)

OthersKept(p) == \A q \in Proc \ {p} : LocalsKept(q) /\ LocksKept(q)

\* What a statement that writes no row has to show.
LEMMA StatementInv ==
  ASSUME TxInv, NEW p \in Proc, UNCHANGED dbVars, LocalTypes', RequestInv(p)', OthersKept(p)
  PROVE  TxInv'
  <1>1. Inv'
    BY StepInv DEF TxInv
  <1>2. \A q \in Proc : Respects(q)
    BY NoWriteRespects DEF TxInv
  <1>3. ASSUME NEW q \in Proc PROVE RequestInv(q)'
    BY <1>1, <1>2, RequestKept DEF TxInv, OthersKept
  <1> QED
    BY <1>1, <1>3 DEF TxInv

\* The requests that the model lets arrive have bodies of the right shape, and carry
\* the version and the state of the rows as they are.
LEMMA ArrivingRequest ==
  ASSUME Inv, NEW r \in Requests
  PROVE  /\ IsRequest(r)
         /\ r.op = "ChangeState" => /\ unitState[r.unit] # Absent
                                    /\ unitVersion[r.unit] = r.version
                                    /\ unitState[r.unit] = r.seen
         /\ r.op \in RowOps => Exists(r.t)
         /\ r.op = "ChangeStatus" => version[r.t] = r.version /\ status[r.t] = r.seen
  <1> USE DEF IsRequest, RowOps
  <1>1. CASE r \in ChangeStateRequests
    BY <1>1, TargetAssumption, AskerAssumption, MaxVersionAssumption DEF ChangeStateRequests, Inv, TypeOK
  <1>2. CASE r \in CreateRequests
    BY <1>2 DEF CreateRequests
  <1>3. ASSUME NEW t \in Turnaround, Exists(t), r \in ChangeStatusRequests(t)
        PROVE  /\ IsRequest(r) /\ r.op = "ChangeStatus" /\ r.t = t
               /\ version[r.t] = r.version /\ status[r.t] = r.seen
    BY <1>3 DEF ChangeStatusRequests, TurnaroundStatus, Inv, TypeOK
  <1>4. ASSUME NEW t \in Turnaround, r \in CreateCheckRequests(t)
        PROVE  IsRequest(r) /\ r.op = "CreateCheck" /\ r.t = t
    BY <1>4 DEF CreateCheckRequests, Inv, TypeOK
  <1>5. ASSUME NEW t \in Turnaround, r \in ReviewRequests(t)
        PROVE  IsRequest(r) /\ r.op = "Review" /\ r.t = t
    BY <1>5, VerdictAssumption DEF ReviewRequests, ChecksOf
  <1>6. ASSUME NEW t \in Turnaround, r \in DecideRequests(t)
        PROVE  IsRequest(r) /\ r.op = "Decide" /\ r.t = t
    BY <1>6, OutcomeAssumption DEF DecideRequests
  <1> QED
    BY <1>1, <1>2, <1>3, <1>4, <1>5, <1>6 DEF Requests

\* BEGIN
LEMMA BeginInv ==
  ASSUME TxInv, NEW p \in Proc, Begin(p)
  PROVE  TxInv' /\ OthersKept(p)
  <1> USE DEF TxInv
  <1>1. PICK r \in Requests :
          /\ pc[p] = "idle"
          /\ req' = [req EXCEPT ![p] = r]
          /\ pc' = [pc EXCEPT ![p] =
                      CASE r.op = "Create" -> "assign"
                        [] r.op = "ChangeState" -> IF r.to = "available" THEN "unit" ELSE "find"
                        [] OTHER -> "row"]
          /\ units' = [units EXCEPT ![p] =
                         CASE r.op = "Create" -> r.units
                           [] r.op = "ChangeState" -> {r.unit}
                           [] OTHER -> {}]
          /\ UNCHANGED <<dbVars, rows, found, read, lockVars>>
    BY DEF Begin
  <1>2. /\ IsRequest(r)
        /\ r.op = "ChangeState" => /\ unitState[r.unit] # Absent
                                   /\ unitVersion[r.unit] = r.version
                                   /\ unitState[r.unit] = r.seen
        /\ r.op \in RowOps => Exists(r.t)
        /\ r.op = "ChangeStatus" => version[r.t] = r.version /\ status[r.t] = r.seen
    BY ArrivingRequest
  <1>3. /\ HoldsNothing(p) /\ rows[p] = {} /\ found[p] = {}
        /\ \A t \in Turnaround : read[p][t] = Absent
    BY <1>1 DEF RequestInv, PlaceInv, ReadInv, HoldsNothing
  <1>4. LocalTypes' /\ req'[p] = r /\ rows'[p] = {} /\ found'[p] = {} /\ read'[p] = read[p]
    BY <1>1, <1>2, <1>3 DEF LocalTypes, lockVars, IsRequest, RowOps
  <1>5. /\ r.op = "Create" => pc'[p] = "assign" /\ units'[p] = r.units
        /\ r.op = "ChangeState" => /\ pc'[p] = IF r.to = "available" THEN "unit" ELSE "find"
                                   /\ units'[p] = {r.unit}
        /\ r.op \in RowOps => pc'[p] = "row" /\ units'[p] = {}
    BY <1>1 DEF LocalTypes, RowOps
  <1>6. UNCHANGED dbVars /\ UNCHANGED <<assignLock, rowLock, unitLock>>
    BY <1>1 DEF lockVars
  <1>7. PlaceInv(p)'
    <2>1. /\ pc'[p] # "idle" /\ req'[p] # NoRequest /\ pc'[p] \notin {"commit", "rollback"}
          /\ pc'[p] # "row" => units'[p] # {}
      BY <1>2, <1>4, <1>5 DEF NoRequest, IsRequest, RowOps
    <2>2. pc'[p] \in Statements(r.op)
      BY <1>2, <1>5 DEF IsRequest, RowOps, Statements
    <2> QED
      BY <1>2, <1>4, <2>1, <2>2 DEF PlaceInv
  <1>8. ReadInv(p)'
    BY <1>3, <1>4 DEF ReadInv
  <1>9. SeenInv(p)'
    BY <1>2, <1>4, <1>6, ColumnTypes DEF SeenInv, IsRequest, RowOps, dbVars, unitVars, turnaroundVars, Exists
  <1>10. ChangeStateInv(p)' /\ CreateInv(p)' /\ RowOpInv(p)'
    BY <1>2, <1>4, <1>5 DEF ChangeStateInv, CreateInv, RowOpInv, IsRequest, RowOps
  <1>11. OthersKept(p)
    BY <1>1, <1>6 DEF OthersKept, LocalsKept, LocksKept, LocalTypes
  <1> QED
    BY <1>4, <1>6, <1>7, <1>8, <1>9, <1>10, <1>11, StatementInv DEF RequestInv

\* LockAssignmentTx
LEMMA LockAssignmentInv ==
  ASSUME TxInv, NEW p \in Proc, LockAssignment(p)
  PROVE  TxInv' /\ OthersKept(p)
  <1> USE DEF TxInv
  <1> DEFINE u == Least(units[p])
             last == units[p] = {u}
             asked == req[p].units
  <1>1. /\ pc[p] = "assign" /\ req[p].op = "Create" /\ asked \in SUBSET Unit
        /\ u \in units[p] /\ units[p] \subseteq asked /\ u \in Unit
    <2>1. pc[p] = "assign" /\ units[p] # {} /\ units[p] \in SUBSET Unit
      BY DEF LockAssignment, RequestInv, PlaceInv, LocalTypes
    <2>2. IsRequest(req[p]) /\ "assign" \in Statements(req[p].op)
      BY <2>1 DEF RequestInv, PlaceInv
    <2>3. req[p].op = "Create"
      BY <2>2 DEF Statements, IsRequest, RowOps
    <2> QED
      BY <2>1, <2>2, <2>3, LeastIsMember DEF IsRequest, RequestInv, CreateInv
  <1>2. /\ assignLock[u] = NoOne /\ assignLock' = [assignLock EXCEPT ![u] = p]
        /\ units' = [units EXCEPT ![p] = IF last THEN asked ELSE @ \ {u}]
        /\ pc' = [pc EXCEPT ![p] = IF last THEN "find" ELSE "assign"]
        /\ UNCHANGED <<dbVars, req, rows, found, read, rowLock, unitLock>>
    BY DEF LockAssignment, Goto
  <1> HIDE DEF u
  <1>3. LocalTypes'
    BY <1>1, <1>2 DEF LocalTypes
  <1>4. PlaceInv(p)'
    BY <1>1, <1>2 DEF RequestInv, PlaceInv, Statements, LocalTypes, IsRequest
  <1>5. ReadInv(p)' /\ SeenInv(p)' /\ ChangeStateInv(p)' /\ RowOpInv(p)'
    BY <1>1, <1>2 DEF RequestInv, ReadInv, SeenInv, ChangeStateInv, RowOpInv, RowOps,
       dbVars, turnaroundVars, decisionVars, Exists
  <1>6. CreateInv(p)'
    BY <1>1, <1>2 DEF RequestInv, CreateInv, LocalTypes
  <1>7. OthersKept(p)
    BY <1>1, <1>2, NoOneAssumption DEF OthersKept, LocalsKept, LocksKept, LocalTypes
  <1> QED
    BY <1>2, <1>3, <1>4, <1>5, <1>6, <1>7, StatementInv DEF RequestInv

\* FindActiveByGroundUnitTx starts, for a request to create or for a change.
LEMMA FindActiveInv ==
  ASSUME TxInv, NEW p \in Proc, FindActive(p)
  PROVE  TxInv' /\ OthersKept(p)
  <1> USE DEF TxInv
  <1>1. /\ pc[p] = "find" /\ req[p].op \in {"Create", "ChangeState"} /\ IsRequest(req[p])
        /\ Least(units[p]) \in units[p]
    <2>1. pc[p] = "find" /\ units[p] # {} /\ units[p] \in SUBSET Unit
      BY DEF FindActive, RequestInv, PlaceInv, LocalTypes
    <2>2. IsRequest(req[p]) /\ "find" \in Statements(req[p].op)
      BY <2>1 DEF RequestInv, PlaceInv
    <2>3. req[p].op \in {"Create", "ChangeState"}
      BY <2>2 DEF Statements, IsRequest, RowOps
    <2> QED
      BY <2>1, <2>2, <2>3, LeastIsMember
  <1>2. /\ rows' = [rows EXCEPT ![p] = ActiveWith(Least(units[p]))]
        /\ pc' = [pc EXCEPT ![p] = "rows"]
        /\ UNCHANGED <<dbVars, req, units, found, read, lockVars>>
        /\ UNCHANGED <<status, assigned, padded, clearance, assignLock, rowLock, unitLock>>
    BY DEF FindActive, Goto, dbVars, turnaroundVars, decisionVars, lockVars
  <1>3. LocalTypes'
    BY <1>2 DEF LocalTypes, ActiveWith
  <1>4. PlaceInv(p)'
    BY <1>1, <1>2 DEF RequestInv, PlaceInv, Statements, LocalTypes, IsRequest
  <1>5. ReadInv(p)' /\ SeenInv(p)' /\ RowOpInv(p)'
    BY <1>1, <1>2 DEF RequestInv, ReadInv, SeenInv, RowOpInv, RowOps, dbVars, unitVars, turnaroundVars, Exists
  <1>6. ChangeStateInv(p)'
    BY <1>1, <1>2 DEF RequestInv, ChangeStateInv, LocalTypes, ActiveWith, Findable, Exists, FoundFor
  <1>7. CreateInv(p)'
    BY <1>1, <1>2 DEF RequestInv, CreateInv, LocalTypes, ActiveWith, Findable, Exists, Engaged, NotEngaged
  <1>8. OthersKept(p)
    BY <1>1, <1>2 DEF OthersKept, LocalsKept, LocksKept, LocalTypes
  <1> QED
    BY <1>2, <1>3, <1>4, <1>5, <1>6, <1>7, <1>8, StatementInv DEF RequestInv

\* The query locks its next row, and returns it unless it was completed meanwhile.
LEMMA LockActiveRowInv ==
  ASSUME TxInv, NEW p \in Proc, LockActiveRow(p)
  PROVE  TxInv' /\ OthersKept(p)
  <1> USE DEF TxInv
  <1>1. /\ pc[p] = "rows" /\ req[p].op \in {"Create", "ChangeState"} /\ IsRequest(req[p])
    <2>1. IsRequest(req[p]) /\ pc[p] = "rows" /\ "rows" \in Statements(req[p].op)
      BY DEF LockActiveRow, RequestInv, PlaceInv
    <2> QED
      BY <2>1 DEF Statements, IsRequest, RowOps
  <1>2. PICK t \in NextRow(p) :
          /\ Free(rowLock[t], p) /\ rowLock' = [rowLock EXCEPT ![t] = p]
          /\ rows' = [rows EXCEPT ![p] = @ \ {t}]
          /\ found' = [found EXCEPT ![p] = IF status[t] = "completed" THEN @ ELSE @ \cup {t}]
    BY DEF LockActiveRow
  <1>3. t \in rows[p] /\ t \in Turnaround
    <2>1. rows[p] # {} /\ rows[p] \in SUBSET Turnaround /\ t = Least(rows[p])
      BY <1>2 DEF NextRow, LocalTypes
    <2> QED
      BY <2>1, LeastIsMember
  <1>4. /\ UNCHANGED <<dbVars, pc, req, units, read, assignLock, unitLock>>
        /\ UNCHANGED <<status, assigned, padded, clearance>>
    BY DEF LockActiveRow, dbVars, turnaroundVars, decisionVars
  <1>5. LocalTypes'
    BY <1>2, <1>3, <1>4 DEF LocalTypes
  <1>6. /\ rows'[p] = rows[p] \ {t}
        /\ found'[p] = IF status[t] = "completed" THEN found[p] ELSE found[p] \cup {t}
        /\ rowLock'[t] = p /\ \A s \in Turnaround : s # t => rowLock'[s] = rowLock[s]
    BY <1>2, <1>3 DEF LocalTypes
  <1>7. PlaceInv(p)'
    BY <1>1, <1>4 DEF RequestInv, PlaceInv
  <1>8. ReadInv(p)' /\ SeenInv(p)' /\ RowOpInv(p)'
    BY <1>1, <1>4, <1>6 DEF RequestInv, ReadInv, SeenInv, RowOpInv, RowOps, dbVars, unitVars, turnaroundVars, Exists
  <1>9. ChangeStateInv(p)'
    BY <1>1, <1>3, <1>4, <1>6 DEF RequestInv, ChangeStateInv, ActiveWith, Findable, Exists, FoundFor
  <1>10. CreateInv(p)'
    BY <1>1, <1>3, <1>4, <1>6 DEF RequestInv, CreateInv, Engaged, NotEngaged, Findable
  <1>11. OthersKept(p)
    BY <1>2, <1>3, <1>4, NoOneAssumption DEF OthersKept, LocalsKept, LocksKept, LocalTypes, Free
  <1> QED
    BY <1>4, <1>5, <1>7, <1>8, <1>9, <1>10, <1>11, StatementInv DEF RequestInv

\* ChangeState reads the decisions of what it found, all of them locked.
LEMMA ReadDecisionsInv ==
  ASSUME TxInv, NEW p \in Proc, ReadDecisions(p)
  PROVE  TxInv' /\ OthersKept(p)
  <1> USE DEF TxInv
  <1>1. /\ pc[p] = "rows" /\ req[p].op = "ChangeState"
        /\ read' = [read EXCEPT ![p] =
                      [t \in Turnaround |-> IF t \in found[p] THEN clearance[t] ELSE Absent]]
        /\ pc' = [pc EXCEPT ![p] = "unit"]
        /\ UNCHANGED <<dbVars, req, units, rows, found, lockVars>>
        /\ UNCHANGED <<status, assigned, padded, clearance, assignLock, rowLock, unitLock>>
    BY DEF ReadDecisions, Goto, dbVars, turnaroundVars, decisionVars, lockVars
  <1>2. \A t \in found[p] :
          t \in Turnaround /\ rowLock[t] = p /\ Exists(t) /\ clearance[t] # Absent
    BY <1>1 DEF RequestInv, ChangeStateInv, FoundFor, ActiveWith, Findable, Inv, StatusFollowsDecision, LocalTypes
  <1>3. LocalTypes'
    BY <1>1 DEF LocalTypes, Inv, TypeOK
  <1>4. pc'[p] = "unit" /\ \A t \in Turnaround :
          read'[p][t] = IF t \in found[p] THEN clearance[t] ELSE Absent
    BY <1>1 DEF LocalTypes
  <1>5. PlaceInv(p)'
    BY <1>1, <1>4 DEF RequestInv, PlaceInv, Statements, IsRequest
  <1>6. ReadInv(p)' /\ SeenInv(p)' /\ RowOpInv(p)' /\ CreateInv(p)'
    BY <1>1, <1>2, <1>4 DEF RequestInv, ReadInv, SeenInv, RowOpInv, CreateInv, RowOps,
       dbVars, unitVars, turnaroundVars, Exists
  <1>7. ChangeStateInv(p)'
    BY <1>1, <1>2, <1>4 DEF RequestInv, ChangeStateInv, ActiveWith, Findable, Exists, FoundFor
  <1>8. OthersKept(p)
    BY <1>1 DEF OthersKept, LocalsKept, LocksKept, LocalTypes
  <1> QED
    BY <1>1, <1>3, <1>5, <1>6, <1>7, <1>8, StatementInv DEF RequestInv

\* TurnaroundService.Create looks at what the query for one unit has returned.
LEMMA CheckAssignmentInv ==
  ASSUME TxInv, NEW p \in Proc, CheckAssignment(p)
  PROVE  TxInv' /\ OthersKept(p)
  <1> USE DEF TxInv
  <1> DEFINE u == Least(units[p])
             last == units[p] = {u}
             asked == req[p].units
             ok == \A t \in found[p] : ~Engaged(t)
  <1>1. /\ pc[p] = "rows" /\ rows[p] = {} /\ req[p].op = "Create"
        /\ units' = [units EXCEPT ![p] = IF last THEN asked ELSE @ \ {u}]
        /\ pc' = [pc EXCEPT ![p] = IF ok THEN IF last THEN "unit" ELSE "find" ELSE "rollback"]
        /\ UNCHANGED <<dbVars, req, rows, found, read, lockVars>>
        /\ UNCHANGED <<status, assigned, padded, clearance, assignLock, rowLock, unitLock, unitState>>
    BY DEF CheckAssignment, Goto, dbVars, unitVars, turnaroundVars, decisionVars, lockVars
  <1>2. IsRequest(req[p]) /\ asked \in (SUBSET Unit) \ {{}} /\ units[p] \subseteq asked
    BY <1>1 DEF RequestInv, PlaceInv, CreateInv, IsRequest
  <1>3. u \in units[p]
    BY <1>1, LeastIsMember DEF RequestInv, PlaceInv, LocalTypes
  <1>4. ok => NotEngaged(u)
    BY <1>1 DEF RequestInv, CreateInv, NotEngaged
  <1> HIDE DEF u
  <1>5. LocalTypes'
    BY <1>1, <1>2 DEF LocalTypes
  <1>6. /\ units'[p] = IF last THEN asked ELSE units[p] \ {u}
        /\ pc'[p] = IF ok THEN IF last THEN "unit" ELSE "find" ELSE "rollback"
    BY <1>1 DEF LocalTypes
  <1>7. PlaceInv(p)'
    BY <1>1, <1>2, <1>3, <1>6 DEF RequestInv, PlaceInv, Statements
  <1>8. ReadInv(p)' /\ SeenInv(p)' /\ RowOpInv(p)' /\ ChangeStateInv(p)'
    BY <1>1 DEF RequestInv, ReadInv, SeenInv, RowOpInv, ChangeStateInv, RowOps,
       dbVars, unitVars, turnaroundVars, Exists
  <1>9. CreateInv(p)'
    <2>1. \A v \in Unit : NotEngaged(v)' <=> NotEngaged(v)
      BY <1>1 DEF NotEngaged, Engaged, Findable
    <2>2. /\ \A v \in asked : assignLock[v] = p
          /\ \A v \in asked \ units[p] : NotEngaged(v)
      BY <1>1 DEF RequestInv, CreateInv
    <2>3. CASE ok /\ last
      BY <1>1, <1>2, <1>4, <1>6, <2>1, <2>2, <2>3 DEF CreateInv
    <2>4. CASE ok /\ ~last
      BY <1>1, <1>2, <1>4, <1>6, <2>1, <2>2, <2>4 DEF CreateInv
    <2>5. CASE ~ok
      BY <1>1, <1>2, <1>6, <2>5 DEF CreateInv
    <2> QED
      BY <2>3, <2>4, <2>5
  <1>10. OthersKept(p)
    BY <1>1 DEF OthersKept, LocalsKept, LocksKept, LocalTypes
  <1> QED
    BY <1>1, <1>5, <1>7, <1>8, <1>9, <1>10, StatementInv DEF RequestInv

\* FindByIDTx on the turnaround, and the checks under its lock.
LEMMA LockTurnaroundInv ==
  ASSUME TxInv, NEW p \in Proc, LockTurnaround(p)
  PROVE  TxInv' /\ OthersKept(p)
  <1> USE DEF TxInv
  <1> DEFINE r == req[p]
             t == req[p].t
             lock == UnitsToLock(r)
             ok == RowAccepts(r)
  <1>1. /\ pc[p] = "row" /\ rowLock[t] = NoOne
        /\ rowLock' = [rowLock EXCEPT ![t] = p]
        /\ read' = [read EXCEPT ![p][t] = clearance[t]]
        /\ units' = [units EXCEPT ![p] = lock]
        /\ pc' = [pc EXCEPT ![p] = IF ok THEN IF lock = {} THEN "commit" ELSE "unit" ELSE "rollback"]
        /\ UNCHANGED <<dbVars, req, rows, found, assignLock, unitLock>>
        /\ UNCHANGED <<unitState, unitVersion, status, version, assigned, padded, result, clearance>>
    BY DEF LockTurnaround, MayLockRow, Goto, dbVars, unitVars, turnaroundVars, decisionVars
  <1>2. r.op \in RowOps /\ IsRequest(r)
    <2>1. IsRequest(r) /\ "row" \in Statements(r.op)
      BY <1>1 DEF RequestInv, PlaceInv
    <2> QED
      BY <2>1 DEF Statements, IsRequest, RowOps
  <1>3. t \in Turnaround /\ Exists(t) /\ clearance[t] # Absent
    BY <1>2 DEF IsRequest, RequestInv, SeenInv, Inv, StatusFollowsDecision
  <1>4. lock \in SUBSET Unit
    BY <1>2, <1>3, ColumnTypes DEF UnitsToLock, IsRequest, RowOps
  <1>5. /\ lock # {} => r.op \in {"CreateCheck", "Decide"}
        /\ r.op = "Decide" /\ r.to = "cleared" => lock = assigned[t]
    BY DEF UnitsToLock
  <1>6. ok' <=> ok
    <2>1. CASE r.op = "ChangeStatus"
      BY <1>1, <2>1 DEF RowAccepts, MayChangeStatus
    <2>2. CASE r.op = "CreateCheck"
      BY <1>1, <2>2 DEF RowAccepts, MayAddCheck, Undecided
    <2>3. CASE r.op = "Review"
      BY <1>1, <2>3 DEF RowAccepts, MayReview, Undecided
    <2>4. CASE r.op = "Decide"
      BY <1>1, <2>4 DEF RowAccepts, MayDecide, ChecksOf
    <2> QED
      BY <1>2, <2>1, <2>2, <2>3, <2>4 DEF RowOps
  <1>7. lock' = lock
    BY <1>1 DEF UnitsToLock
  <1> HIDE DEF lock, ok
  <1>8. LocalTypes'
    BY <1>1, <1>3, <1>4 DEF LocalTypes, Inv, TypeOK
  <1>9. /\ units'[p] = lock
        /\ pc'[p] = IF ok THEN IF lock = {} THEN "commit" ELSE "unit" ELSE "rollback"
        /\ rowLock'[t] = p /\ \A s \in Turnaround : s # t => rowLock'[s] = rowLock[s]
        /\ read'[p][t] = clearance[t] /\ \A s \in Turnaround : s # t => read'[p][s] = read[p][s]
    BY <1>1, <1>3 DEF LocalTypes
  <1>10. PlaceInv(p)'
    BY <1>1, <1>2, <1>5, <1>9 DEF RequestInv, PlaceInv, Statements, RowOps
  <1>11. ReadInv(p)' /\ SeenInv(p)' /\ ChangeStateInv(p)' /\ CreateInv(p)'
    BY <1>1, <1>2, <1>3, <1>9 DEF RequestInv, ReadInv, SeenInv, ChangeStateInv, CreateInv, RowOps, Exists
  <1>12. RowOpInv(p)'
    BY <1>1, <1>2, <1>3, <1>5, <1>6, <1>7, <1>9 DEF RowOpInv, ok, lock
  <1>13. OthersKept(p)
    BY <1>1, <1>3, NoOneAssumption DEF OthersKept, LocalsKept, LocksKept, LocalTypes
  <1> QED
    BY <1>1, <1>8, <1>10, <1>11, <1>12, <1>13, StatementInv DEF RequestInv

\* FindByIDTx on the next unit, and the check of its state or version.
LEMMA LockUnitInv ==
  ASSUME TxInv, NEW p \in Proc, LockUnit(p)
  PROVE  TxInv' /\ OthersKept(p)
  <1> USE DEF TxInv
  <1> DEFINE r == req[p]
  <1>1. PICK u \in NextUnits(p) :
          /\ pc[p] = "unit" /\ unitLock[u] = NoOne
          /\ unitLock' = [unitLock EXCEPT ![u] = p]
          /\ units' = [units EXCEPT ![p] = @ \ {u}]
          /\ pc' = [pc EXCEPT ![p] = IF UnitAccepts(r, u)
                                     THEN IF units[p] = {u} THEN "commit" ELSE "unit"
                                     ELSE "rollback"]
          /\ UNCHANGED <<dbVars, req, rows, found, read, assignLock, rowLock>>
    BY DEF LockUnit, Goto
  <1>2. u \in units[p] /\ u \in Unit
    <2>1. units[p] # {} /\ units[p] \in SUBSET Unit
      BY <1>1 DEF RequestInv, PlaceInv, LocalTypes
    <2> QED
      BY <2>1, LeastIsMember DEF NextUnits
  <1>3. IsRequest(r)
    BY <1>1 DEF RequestInv, PlaceInv
  <1>4. UNCHANGED <<unitState, unitVersion, status, version, assigned, padded, result, clearance>>
    BY <1>1 DEF dbVars, unitVars, turnaroundVars, decisionVars
  <1>5. LocalTypes'
    BY <1>1, <1>2 DEF LocalTypes
  <1>6. /\ units'[p] = units[p] \ {u} /\ unitLock'[u] = p
        /\ \A v \in Unit : v # u => unitLock'[v] = unitLock[v]
        /\ pc'[p] \in {"unit", "commit", "rollback"}
        /\ pc'[p] = "unit" => units[p] # {u}
        /\ pc'[p] = "commit" => units[p] = {u}
        /\ pc'[p] # "rollback" => UnitAccepts(r, u)
    BY <1>1, <1>2 DEF LocalTypes
  <1>7. PlaceInv(p)'
    <2>1. {"unit", "commit", "rollback"} \subseteq Statements(r.op)
      BY <1>1, <1>3 DEF RequestInv, PlaceInv, Statements, IsRequest, RowOps
    <2> QED
      BY <1>1, <1>2, <1>3, <1>6, <2>1 DEF RequestInv, PlaceInv
  <1>8. ReadInv(p)' /\ SeenInv(p)'
    BY <1>1, <1>4 DEF RequestInv, ReadInv, SeenInv, RowOps, Exists
  <1>9. ChangeStateInv(p)'
    <2>1. CASE r.op = "ChangeState"
      <3>1. u = r.unit
        BY <1>2, <2>1 DEF RequestInv, ChangeStateInv
      <3>2. pc'[p] = "commit" => UnitAccepts(r, r.unit)'
        BY <1>1, <1>4, <1>6, <2>1, <3>1 DEF UnitAccepts
      <3> QED
        BY <1>1, <1>4, <1>6, <2>1, <3>1, <3>2
           DEF RequestInv, ChangeStateInv, Exists, FoundFor, ActiveWith, Findable
    <2>2. CASE r.op # "ChangeState"
      BY <1>1, <2>2 DEF ChangeStateInv
    <2> QED
      BY <2>1, <2>2
  <1>10. CreateInv(p)'
    <2>1. CASE r.op = "Create"
      <3>1. pc'[p] # "rollback" => unitState[u] = "available"
        BY <1>6, <2>1 DEF UnitAccepts
      <3>2. \A v \in Unit : NotEngaged(v)' <=> NotEngaged(v)
        BY <1>4 DEF NotEngaged, Engaged, Findable
      <3>3. r.units \in SUBSET Unit
        BY <1>3, <2>1 DEF IsRequest
      <3> QED
        BY <1>1, <1>2, <1>4, <1>6, <2>1, <3>1, <3>2, <3>3 DEF RequestInv, CreateInv
    <2>2. CASE r.op # "Create"
      BY <1>1, <2>2 DEF CreateInv
    <2> QED
      BY <2>1, <2>2
  <1>11. RowOpInv(p)'
    <2> SUFFICES ASSUME r.op \in RowOps, pc'[p] \in {"unit", "commit"} PROVE RowOpInv(p)'
      BY <1>1 DEF RowOpInv
    <2>1. RowAccepts(r)'
      <3>1. RowAccepts(r)
        BY <1>1 DEF RequestInv, RowOpInv
      <3>2. CASE r.op = "ChangeStatus"
        BY <1>1, <1>4, <3>1, <3>2 DEF RowAccepts, MayChangeStatus
      <3>3. CASE r.op = "CreateCheck"
        BY <1>1, <1>4, <3>1, <3>3 DEF RowAccepts, MayAddCheck, Undecided
      <3>4. CASE r.op = "Review"
        BY <1>1, <1>4, <3>1, <3>4 DEF RowAccepts, MayReview, Undecided
      <3>5. CASE r.op = "Decide"
        BY <1>1, <1>4, <3>1, <3>5 DEF RowAccepts, MayDecide, ChecksOf
      <3> QED
        BY <3>2, <3>3, <3>4, <3>5 DEF RowOps
    <2>2. UnitsToLock(r)' = UnitsToLock(r)
      BY <1>1, <1>4 DEF UnitsToLock
    <2>3. r.op = "Decide" => unitState[u] = "available"
      BY <1>6 DEF UnitAccepts
    <2>4. r.t \in Turnaround /\ assigned[r.t] \in SUBSET Unit
      BY <1>3, ColumnTypes DEF IsRequest
    <2> QED
      BY <1>1, <1>2, <1>4, <1>6, <2>1, <2>2, <2>3, <2>4 DEF RequestInv, RowOpInv
  <1>12. OthersKept(p)
    BY <1>1, <1>2, NoOneAssumption DEF OthersKept, LocalsKept, LocksKept, LocalTypes
  <1> QED
    BY <1>1, <1>5, <1>7, <1>8, <1>9, <1>10, <1>11, <1>12, StatementInv DEF RequestInv

\* A transaction that ends leaves nothing behind, and the others alone.
LEMMA EndTxInv ==
  ASSUME TxInv, NEW p \in Proc, EndTx(p)
  PROVE  LocalTypes' /\ RequestInv(p)' /\ OthersKept(p)
  <1> USE DEF TxInv
  <1>1. LocalTypes'
    BY DEF EndTx, Release, LocalTypes, NothingRead
  <1>2. /\ pc'[p] = "idle" /\ req'[p] = NoRequest /\ rows'[p] = {} /\ found'[p] = {}
        /\ read'[p] = NothingRead
    BY DEF EndTx, LocalTypes
  <1>3. HoldsNothing(p)'
    BY NoOneAssumption DEF EndTx, Release, HoldsNothing
  <1>4. RequestInv(p)'
    BY <1>2, <1>3 DEF RequestInv, PlaceInv, ReadInv, SeenInv, ChangeStateInv, CreateInv, RowOpInv,
       NoRequest, NothingRead, RowOps
  <1>5. OthersKept(p)
    BY NoOneAssumption DEF EndTx, Release, OthersKept, LocalsKept, LocksKept, LocalTypes
  <1> QED
    BY <1>1, <1>4, <1>5

\* A refusal, a failure and a deadlock's victim change no row.
LEMMA RolledBackInv ==
  ASSUME TxInv, NEW p \in Proc, Rollback(p) \/ Fail(p) \/ Victim(p)
  PROVE  TxInv' /\ OthersKept(p)
  <1>1. EndTx(p) /\ UNCHANGED dbVars
    BY DEF Rollback, Fail, Victim
  <1> QED
    BY <1>1, EndTxInv, StatementInv

-----------------------------------------------------------------------------
(* Commits.  Each write is the step of Clearance that its request asks for *)
(* and respects what the others rely on.                                   *)

\* What committing a request shows.
SerialAndRespectful(p) == RelaxedNext /\ \A q \in Proc \ {p} : Respects(q)

\* A write to the rows of one locked turnaround respects all other requests, if it
\* engages nobody.
LEMMA RowWriteRespects ==
  ASSUME Inv, NEW p \in Proc, NEW q \in Proc \ {p}, NEW t \in Turnaround,
         rowLock[t] = p, Exists(t)', UNCHANGED <<unitVars, assigned, padded>>,
         \A s \in Turnaround \ {t} : /\ status'[s] = status[s] /\ version'[s] = version[s]
                                     /\ result'[s] = result[s] /\ clearance'[s] = clearance[s],
         \/ status'[t] = status[t] /\ version'[t] = version[t]
         \/ version'[t] = version[t] + 1,
         Engaged(t)' => Engaged(t)
  PROVE  Respects(q)
  <1>1. \A s \in Turnaround : Engaged(s)' => Engaged(s)
    BY DEF Engaged
  <1>2. \A s \in Turnaround : Findable(s)' = Findable(s)
    BY DEF Findable
  <1> QED
    BY <1>1, <1>2, ColumnTypes DEF Respects, Exists, unitVars

\* GroundUnitService.ChangeState saves over the decisions it has read, which are the
\* present ones, of turnarounds that are still active.
LEMMA CommitUnitState ==
  ASSUME TxInv, NEW p \in Proc, pc[p] = "commit", WriteUnitState(p, req[p])
  PROVE  SerialAndRespectful(p)
  <1> USE DEF TxInv
  <1> DEFINE r == req[p]
             S == {t \in found[p] : read[p][t] \in Released}
  <1>1. /\ r.op = "ChangeState" /\ r.unit \in Unit /\ r.to \in UnitState /\ r.role \in UnitStateRoles
        /\ unitLock[r.unit] = p /\ UnitAccepts(r, r.unit)
        /\ unitState[r.unit] # Absent
    BY DEF WriteUnitState, RequestInv, PlaceInv, IsRequest, ChangeStateInv, SeenInv
  <1>2. \A t \in found[p] : /\ t \in Turnaround /\ t \in FoundFor(r.unit, r.to)
                            /\ rowLock[t] = p /\ read[p][t] = clearance[t]
    BY <1>1 DEF RequestInv, ChangeStateInv, ReadInv, LocalTypes
  <1>3. /\ UpdateUnit(r.unit, r.to) /\ SaveDecisions(S, read[p], "revoked")
        /\ UNCHANGED <<turnaroundVars, result>>
    BY DEF WriteUnitState
  <1>4. S = {t \in found[p] : clearance[t] \in Released}
    BY <1>2
  <1>5. SaveDecisions(S, clearance, "revoked")
    <2>1. \A t \in S : read[p][t] = clearance[t]
      BY <1>2
    <2> HIDE DEF S
    <2> QED
      BY <1>3, <2>1 DEF SaveDecisions
  <1>6. ChangeUnitState(r.role, r.unit, r.to, found[p])
    BY <1>1, <1>3, <1>4, <1>5 DEF ChangeUnitState, UnitAccepts
  <1>7. found[p] \in SUBSET FoundFor(r.unit, r.to)
    BY <1>2
  <1>8. RelaxedNext
    BY <1>1, <1>6, <1>7 DEF RelaxedNext
  <1>9. ASSUME NEW q \in Proc \ {p} PROVE Respects(q)
    <2>1. \A t \in Turnaround : clearance'[t] = IF t \in S THEN "revoked" ELSE clearance[t]
      BY <1>3 DEF SaveDecisions
    <2>2. \A t \in Turnaround : rowLock[t] = q => clearance'[t] = clearance[t]
      BY <1>2, <2>1
    <2>3. UNCHANGED <<status, version, assigned, padded, result>>
      BY <1>3 DEF turnaroundVars
    <2>4. \A t \in Turnaround : Engaged(t)' => Engaged(t)
      BY <2>1, <2>3 DEF Engaged
    <2>5. /\ unitState'[r.unit] = r.to /\ unitVersion'[r.unit] = unitVersion[r.unit] + 1
          /\ \A u \in Unit : u # r.unit => /\ unitState'[u] = unitState[u]
                                           /\ unitVersion'[u] = unitVersion[u]
      BY <1>1, <1>3 DEF UpdateUnit, Inv, TypeOK
    <2>6. r.to # Absent
      BY <1>1 DEF UnitState
    <2> QED
      BY <1>1, <2>2, <2>3, <2>4, <2>5, <2>6, ColumnTypes DEF Respects, Exists, Findable
  <1> QED
    BY <1>8, <1>9 DEF SerialAndRespectful

\* TurnaroundService.Create holds the assignment of all its units.
LEMMA CommitTurnaround ==
  ASSUME TxInv, NEW p \in Proc, pc[p] = "commit", WriteTurnaround(req[p])
  PROVE  SerialAndRespectful(p)
  <1> USE DEF TxInv
  <1> DEFINE r == req[p]
  <1>1. PICK t \in Turnaround : NextTurnaround(t) /\ InsertTurnaround(t, r.units, r.padded, r.codes)
    BY DEF WriteTurnaround
  <1>2. /\ r.op = "Create" /\ units[p] = {}
        /\ r.units \in (SUBSET Unit) \ {{}} /\ r.codes \in (SUBSET CheckCode) \ {{}}
        /\ r.padded \in SUBSET (r.units \cap Paddable)
    BY DEF WriteTurnaround, RequestInv, PlaceInv, IsRequest
  <1>3. \A u \in r.units : assignLock[u] = p /\ NotEngaged(u) /\ unitState[u] = "available"
    BY <1>2 DEF RequestInv, CreateInv
  <1>4. UNCHANGED unitVars
    BY DEF WriteTurnaround
  <1>5. \A u \in r.units : \A s \in ActiveWith(u) : ~Engaged(s)
    BY <1>2, <1>3 DEF NotEngaged, ActiveWith
  <1>6. CreateTurnaround(t, r.units, r.padded, r.codes)
    BY <1>1, <1>2, <1>3, <1>4, <1>5 DEF CreateTurnaround, Available
  <1>7. RelaxedNext
    BY <1>2, <1>6 DEF RelaxedNext, TurnaroundNext
  <1>8. ASSUME NEW q \in Proc \ {p} PROVE Respects(q)
    <2>1. ~Exists(t) /\ assigned'[t] = r.units
      BY <1>1 DEF NextTurnaround, InsertTurnaround, Inv, TypeOK
    <2>2. \A s \in Turnaround \ {t} :
            /\ status'[s] = status[s] /\ version'[s] = version[s]
            /\ assigned'[s] = assigned[s] /\ padded'[s] = padded[s]
            /\ result'[s] = result[s] /\ clearance'[s] = clearance[s]
      BY <1>1 DEF InsertTurnaround, Inv, TypeOK
    <2>3. \A u \in Unit, s \in Turnaround :
            assignLock[u] = q /\ Engaged(s)' /\ u \in Findable(s)' => Engaged(s) /\ u \in Findable(s)
      BY <1>2, <1>3, <2>1, <2>2 DEF Engaged, Findable
    <2> QED
      BY <1>4, <2>1, <2>2, <2>3, ColumnTypes DEF Respects, Exists, unitVars
  <1> QED
    BY <1>7, <1>8 DEF SerialAndRespectful

\* The four requests that lock their turnaround first have it locked, and it accepts.
LEMMA CommittingRowOp ==
  ASSUME TxInv, NEW p \in Proc, pc[p] = "commit", req[p].op \in RowOps
  PROVE  /\ IsRequest(req[p]) /\ req[p].t \in Turnaround /\ Exists(req[p].t)
         /\ rowLock[req[p].t] = p /\ RowAccepts(req[p])
         /\ read[p][req[p].t] = clearance[req[p].t]
         /\ req[p].op = "Decide" /\ req[p].to = "cleared" => Available(assigned[req[p].t])
  <1>1. /\ IsRequest(req[p]) /\ req[p].t \in Turnaround /\ Exists(req[p].t)
        /\ rowLock[req[p].t] = p /\ RowAccepts(req[p]) /\ units[p] = {}
    BY DEF TxInv, RequestInv, PlaceInv, IsRequest, SeenInv, RowOpInv
  <1>2. read[p][req[p].t] = clearance[req[p].t]
    BY <1>1 DEF TxInv, RequestInv, ReadInv, RowOpInv
  <1>3. req[p].op = "Decide" /\ req[p].to = "cleared" => Available(assigned[req[p].t])
    BY <1>1 DEF TxInv, RequestInv, RowOpInv, Available
  <1> QED
    BY <1>1, <1>2, <1>3

\* TurnaroundService.ChangeStatus
LEMMA CommitStatus ==
  ASSUME TxInv, NEW p \in Proc, pc[p] = "commit", WriteStatus(req[p])
  PROVE  SerialAndRespectful(p)
  <1> DEFINE r == req[p]
  <1>0. PICK t \in Turnaround : t = r.t
    BY CommittingRowOp DEF WriteStatus, RowOps
  <1>1. /\ r.op = "ChangeStatus" /\ UpdateTurnaround(t, r.to)
        /\ UNCHANGED <<unitVars, result, decisionVars>>
    BY <1>0 DEF WriteStatus
  <1>2. t \in Turnaround /\ r.to \in TurnaroundStatus /\ rowLock[t] = p /\ RowAccepts(r)
    BY <1>0, <1>1, CommittingRowOp DEF RowOps, IsRequest
  <1>3. MayChangeStatus(t, r.to)
    BY <1>0, <1>1, <1>2 DEF RowAccepts
  <1>4. RelaxedNext
    BY <1>1, <1>2, <1>3 DEF RelaxedNext, TurnaroundNext, ChangeTurnaroundStatus
  <1>5. /\ UNCHANGED <<unitVars, assigned, padded>> /\ status'[t] = r.to
        /\ version'[t] = version[t] + 1
        /\ \A s \in Turnaround \ {t} :
             /\ status'[s] = status[s] /\ version'[s] = version[s]
             /\ result'[s] = result[s] /\ clearance'[s] = clearance[s]
        /\ clearance'[t] = clearance[t]
    BY <1>1, <1>2 DEF UpdateTurnaround, decisionVars, TxInv, Inv, TypeOK
  <1>6. Engaged(t)' => Engaged(t)
    BY <1>3, <1>5 DEF MayChangeStatus, allowedTurnaroundTransition, Engaged
  <1>7. Exists(t)'
    BY <1>2, <1>5 DEF Exists, TurnaroundStatus
  <1> QED
    BY <1>2, <1>4, <1>5, <1>6, <1>7, RowWriteRespects DEF SerialAndRespectful, TxInv

\* SafetyCheckService.Create
LEMMA CommitNewCheck ==
  ASSUME TxInv, NEW p \in Proc, pc[p] = "commit", WriteNewCheck(req[p])
  PROVE  SerialAndRespectful(p)
  <1> DEFINE r == req[p]
  <1>0. PICK t \in Turnaround : t = r.t
    BY CommittingRowOp DEF WriteNewCheck, RowOps
  <1>1. /\ r.op = "CreateCheck" /\ WriteCheck(t, r.code, "pending")
        /\ UNCHANGED <<unitVars, turnaroundVars, decisionVars>>
    BY <1>0 DEF WriteNewCheck
  <1>2. /\ t \in Turnaround /\ r.code \in CheckCode /\ rowLock[t] = p /\ RowAccepts(r)
        /\ Exists(t)
    BY <1>0, <1>1, CommittingRowOp DEF RowOps, IsRequest
  <1>3. MayAddCheck(t, r.code)
    BY <1>0, <1>1, <1>2 DEF RowAccepts
  <1>4. RelaxedNext
    BY <1>1, <1>2, <1>3 DEF RelaxedNext, TurnaroundNext, CreateCheck
  <1>5. /\ UNCHANGED <<unitVars, assigned, padded, status, version, clearance>>
        /\ \A s \in Turnaround \ {t} : result'[s] = result[s]
    BY <1>1, <1>2 DEF WriteCheck, turnaroundVars, decisionVars, TxInv, Inv, TypeOK
  <1>6. (Engaged(t)' => Engaged(t)) /\ Exists(t)'
    BY <1>2, <1>5 DEF Engaged, Exists
  <1> QED
    BY <1>2, <1>4, <1>5, <1>6, RowWriteRespects DEF SerialAndRespectful, TxInv

\* SafetyCheckService.Review
LEMMA CommitReview ==
  ASSUME TxInv, NEW p \in Proc, pc[p] = "commit", WriteReview(req[p])
  PROVE  SerialAndRespectful(p)
  <1> DEFINE r == req[p]
  <1>0. PICK t \in Turnaround : t = r.t
    BY CommittingRowOp DEF WriteReview, RowOps
  <1>1. /\ r.op = "Review" /\ WriteCheck(t, r.code, r.result)
        /\ IF status[t] = "open" THEN UpdateTurnaround(t, "checking")
                                   ELSE UNCHANGED turnaroundVars
        /\ UNCHANGED <<unitVars, decisionVars>>
    BY <1>0 DEF WriteReview
  <1>2. /\ t \in Turnaround /\ r.code \in CheckCode /\ r.result \in CheckResult \ {"pending"}
        /\ rowLock[t] = p /\ RowAccepts(r) /\ Exists(t)
    BY <1>0, <1>1, CommittingRowOp DEF RowOps, IsRequest
  <1>3. MayReview(t, r.code)
    BY <1>0, <1>1, <1>2 DEF RowAccepts
  <1>4. RelaxedNext
    <2>1. ReviewCheck(t, r.code, r.result)
      BY <1>1, <1>3 DEF ReviewCheck
    <2> QED
      BY <1>2, <2>1 DEF RelaxedNext, TurnaroundNext
  <1>5. /\ UNCHANGED <<unitVars, assigned, padded, clearance>>
        /\ \A s \in Turnaround \ {t} :
             status'[s] = status[s] /\ version'[s] = version[s] /\ result'[s] = result[s]
        /\ \/ status'[t] = status[t] /\ version'[t] = version[t]
           \/ /\ status[t] = "open" /\ status'[t] = "checking"
              /\ version'[t] = version[t] + 1
    BY <1>1, <1>2 DEF WriteCheck, UpdateTurnaround, turnaroundVars, decisionVars, TxInv, Inv, TypeOK
  <1>6. (Engaged(t)' => Engaged(t)) /\ Exists(t)'
    BY <1>2, <1>5 DEF Engaged, Exists
  <1> QED
    BY <1>2, <1>4, <1>5, <1>6, RowWriteRespects DEF SerialAndRespectful, TxInv

\* ClearanceDecisionService.Decide
LEMMA CommitDecision ==
  ASSUME TxInv, NEW p \in Proc, pc[p] = "commit", WriteDecision(p, req[p])
  PROVE  SerialAndRespectful(p)
  <1> DEFINE r == req[p]
  <1>0. PICK t \in Turnaround : t = r.t
    BY CommittingRowOp DEF WriteDecision, RowOps
  <1>1. /\ r.op = "Decide" /\ SaveDecisions({t}, read[p], r.to)
        /\ UpdateTurnaround(t, "decisioned") /\ UNCHANGED <<unitVars, result>>
    BY <1>0 DEF WriteDecision
  <1>2. /\ t \in Turnaround /\ r.to \in ClearanceState \ {"pending"}
        /\ rowLock[t] = p /\ RowAccepts(r) /\ Exists(t) /\ read[p][t] = clearance[t]
        /\ r.to = "cleared" => Available(assigned[t])
    BY <1>0, <1>1, CommittingRowOp DEF RowOps, IsRequest
  <1>3. MayDecide(t, r.to)
    BY <1>0, <1>1, <1>2 DEF RowAccepts
  <1>4. RelaxedNext
    <2>1. SaveDecisions({t}, clearance, r.to)
      BY <1>1, <1>2 DEF SaveDecisions
    <2>2. Decide(t, r.to)
      BY <1>1, <1>2, <1>3, <2>1 DEF Decide
    <2> QED
      BY <1>2, <2>2 DEF RelaxedNext, TurnaroundNext
  <1>5. /\ UNCHANGED <<unitVars, assigned, padded>> /\ status'[t] = "decisioned"
        /\ version'[t] = version[t] + 1 /\ clearance'[t] = r.to
        /\ \A s \in Turnaround \ {t} :
             /\ status'[s] = status[s] /\ version'[s] = version[s]
             /\ result'[s] = result[s] /\ clearance'[s] = clearance[s]
    BY <1>1, <1>2 DEF SaveDecisions, UpdateTurnaround, TxInv, Inv, TypeOK
  <1>6. (Engaged(t)' => Engaged(t)) /\ Exists(t)'
    BY <1>3, <1>5 DEF Engaged, Exists, MayDecide, allowedClearanceTransition
  <1> QED
    BY <1>2, <1>4, <1>5, <1>6, RowWriteRespects DEF SerialAndRespectful, TxInv

\* CreateUnit fills a row that nobody knows of, in a statement of its own.
LEMMA InsertUnitRowInv ==
  ASSUME TxInv, InsertUnitRow
  PROVE  RelaxedNext /\ TxInv'
  <1> USE DEF TxInv
  <1>1. PICK u \in Unit, s \in UnitState : CreateUnit(u, s)
    BY TargetAssumption DEF InsertUnitRow
  <1>2. RelaxedNext
    BY <1>1 DEF RelaxedNext
  <1>3. Inv'
    BY <1>2, StepInv
  <1>4. /\ unitState[u] = Absent /\ UNCHANGED <<turnaroundVars, result, decisionVars>>
        /\ \A v \in Unit \ {u} : unitState'[v] = unitState[v] /\ unitVersion'[v] = unitVersion[v]
    BY <1>1 DEF CreateUnit, InsertUnit, Inv, TypeOK
  <1>5. ASSUME NEW q \in Proc PROVE Respects(q)
    BY <1>4, ColumnTypes DEF Respects, Exists, Engaged, Findable, turnaroundVars, decisionVars
  <1>6. LocalTypes' /\ \A q \in Proc : LocalsKept(q) /\ LocksKept(q)
    BY DEF InsertUnitRow, procVars, lockVars, LocalTypes, LocalsKept, LocksKept
  <1>7. \A q \in Proc : RequestInv(q)'
    BY <1>3, <1>5, <1>6, RequestKept
  <1> QED
    BY <1>2, <1>3, <1>6, <1>7

\* A commit is one step of the serial service, and leaves the other requests alone.
LEMMA CommitInv ==
  ASSUME TxInv, NEW p \in Proc, Commit(p)
  PROVE  RelaxedNext /\ TxInv' /\ OthersKept(p)
  <1> USE DEF TxInv
  <1>1. pc[p] = "commit" /\ Write(p, req[p]) /\ EndTx(p)
    BY DEF Commit
  <1>2. SerialAndRespectful(p)
    BY <1>1, CommitUnitState, CommitTurnaround, CommitStatus, CommitNewCheck, CommitReview,
       CommitDecision DEF Write
  <1>3. RelaxedNext /\ Inv'
    BY <1>2, StepInv DEF SerialAndRespectful
  <1>4. LocalTypes' /\ RequestInv(p)' /\ OthersKept(p)
    BY <1>1, EndTxInv
  <1>5. ASSUME NEW q \in Proc \ {p} PROVE RequestInv(q)'
    BY <1>2, <1>3, <1>4, RequestKept DEF SerialAndRespectful, OthersKept
  <1> QED
    BY <1>3, <1>4, <1>5

-----------------------------------------------------------------------------
(* The system.                                                             *)

\* Before the first request nobody is in a transaction.
LEMMA TxInitInv == TxInit => TxInv
  <1> SUFFICES ASSUME TxInit PROVE TxInv
    OBVIOUS
  <1>1. Inv
    BY InitInv DEF TxInit
  <1>2. LocalTypes
    BY DEF TxInit, LocalTypes, NothingRead
  <1>3. ASSUME NEW p \in Proc PROVE RequestInv(p)
    <2>1. /\ pc[p] = "idle" /\ req[p] = NoRequest /\ rows[p] = {} /\ found[p] = {}
          /\ read[p] = NothingRead /\ HoldsNothing(p)
      BY NoOneAssumption DEF TxInit, HoldsNothing
    <2> QED
      BY <2>1 DEF RequestInv, PlaceInv, ReadInv, SeenInv, ChangeStateInv, CreateInv, RowOpInv,
         NoRequest, NothingRead, RowOps
  <1> QED
    BY <1>1, <1>2, <1>3 DEF TxInv

\* Every statement, of any request at any time, keeps the invariant, and is to the
\* committed rows a step of the serial service or none.
LEMMA TxStep == TxInv /\ [TxNext]_vars => TxInv' /\ [RelaxedNext]_dbVars
  <1> SUFFICES ASSUME TxInv, [TxNext]_vars PROVE TxInv' /\ [RelaxedNext]_dbVars
    OBVIOUS
  <1>1. CASE InsertUnitRow
    BY <1>1, InsertUnitRowInv
  <1>2. ASSUME NEW p \in Proc, Begin(p) PROVE TxInv' /\ UNCHANGED dbVars
    BY <1>2, BeginInv DEF Begin
  <1>3. ASSUME NEW p \in Proc, Step(p) PROVE TxInv' /\ [RelaxedNext]_dbVars
    <2>1. CASE Commit(p)
      BY <2>1, CommitInv
    <2>2. CASE Rollback(p)
      BY <2>2, RolledBackInv DEF Rollback
    <2>3. CASE LockAssignment(p)
      BY <2>3, LockAssignmentInv DEF LockAssignment
    <2>4. CASE FindActive(p)
      BY <2>4, FindActiveInv DEF FindActive
    <2>5. CASE LockActiveRow(p)
      BY <2>5, LockActiveRowInv DEF LockActiveRow
    <2>6. CASE ReadDecisions(p)
      BY <2>6, ReadDecisionsInv DEF ReadDecisions
    <2>7. CASE CheckAssignment(p)
      BY <2>7, CheckAssignmentInv DEF CheckAssignment
    <2>8. CASE LockTurnaround(p)
      BY <2>8, LockTurnaroundInv DEF LockTurnaround
    <2>9. CASE LockUnit(p)
      BY <2>9, LockUnitInv DEF LockUnit
    <2> QED
      BY <1>3, <2>1, <2>2, <2>3, <2>4, <2>5, <2>6, <2>7, <2>8, <2>9 DEF Step
  <1>4. ASSUME NEW p \in Proc, Fail(p) \/ Victim(p) PROVE TxInv' /\ UNCHANGED dbVars
    BY <1>4, RolledBackInv DEF Fail, Victim
  <1>5. CASE UNCHANGED vars
    <2>1. UNCHANGED dbVars /\ LocalTypes' /\ \A q \in Proc : LocalsKept(q) /\ LocksKept(q)
      BY <1>5 DEF vars, procVars, lockVars, LocalsKept, LocksKept, TxInv, LocalTypes
    <2>2. Inv' /\ \A q \in Proc : Respects(q)
      BY <2>1, StepInv, NoWriteRespects DEF TxInv
    <2>3. \A q \in Proc : RequestInv(q)'
      BY <2>1, <2>2, RequestKept DEF TxInv
    <2> QED
      BY <2>1, <2>2, <2>3 DEF TxInv
  <1> QED
    BY <1>1, <1>2, <1>3, <1>4, <1>5 DEF TxNext

\* At every statement of every interleaving, what each request has found out still
\* holds, and the locks it has taken are what keeps it so.
THEOREM TxInvariance == TxSpec => []TxInv
  BY TxInitInv, TxStep, PTL DEF TxSpec

\* The types of the rows, the requests and the locks; who is not in a transaction
\* holds no lock.
THEOREM TxTypesAreKept == TxSpec => []TxTypeOK
  <1>1. TxInv => TxTypeOK
    <2> SUFFICES ASSUME TxInv PROVE TxTypeOK
      OBVIOUS
    <2> QED
      BY DEF TxInv, Inv, LocalTypes, RequestInv, PlaceInv, TxTypeOK
  <1> QED
    BY <1>1, TxInvariance, PTL

\* Interleaved transactions at READ COMMITTED implement the service that handles
\* one request after the other, up to releases that an equipment change misses.
THEOREM TxImplementsRelaxed == TxSpec => RelaxedSpec
  <1>1. TxInit => Init
    BY DEF TxInit
  <1> QED
    BY <1>1, TxInvariance, TxStep, PTL DEF TxSpec, RelaxedSpec

\* Every commit, and nothing else, is one step of the service of indivisible requests.
THEOREM CommitsAreSteps == TxSpec => CommitsAreSerial
  <1>1. RelaxedSpec => CommitsAreSerial
    BY PTL DEF RelaxedSpec, CommitsAreSerial
  <1> QED
    BY <1>1, TxImplementsRelaxed, PTL

\* The refinement in the form that the runs check.
THEOREM CommitsRunSerially == TxSpec => ImplementsRelaxed
  BY CommitsAreSteps, TxImplementsRelaxed, PTL DEF ImplementsRelaxed, RelaxedSpec

\* A PATCH (ChangeState, ChangeStatus) writes over the state its sender saw, whoever
\* committed since: the version it compares under the lock tells the state.
THEOREM SendersOverwriteWhatTheySaw == TxSpec => []NoBlindOverwrite
  <1>1. TxInv => NoBlindOverwrite
    <2> SUFFICES ASSUME TxInv, NEW p \in Proc, pc[p] = "commit"
                 PROVE  /\ req[p].op = "ChangeState" => unitState[req[p].unit] = req[p].seen
                        /\ req[p].op = "ChangeStatus" => status[req[p].t] = req[p].seen
      BY DEF NoBlindOverwrite
    <2>1. CASE req[p].op = "ChangeState"
      BY <2>1 DEF TxInv, RequestInv, SeenInv, ChangeStateInv, UnitAccepts
    <2>2. CASE req[p].op = "ChangeStatus"
      BY <2>2 DEF TxInv, RequestInv, SeenInv, RowOpInv, RowAccepts, RowOps
    <2> QED
      BY <2>1, <2>2
  <1> QED
    BY <1>1, TxInvariance, PTL

\* The decisions that a transaction has read are still the committed ones when it
\* saves over them (ChangeState, Decide): their turnarounds are locked.
THEOREM ReadsAreCurrent == TxSpec => []ReadsStayCurrent
  <1>1. TxInv => ReadsStayCurrent
    BY DEF TxInv, RequestInv, ReadInv, ReadsStayCurrent
  <1> QED
    BY <1>1, TxInvariance, PTL

\* What holds of the serial service holds of concurrent transactions: units that are
\* named canonically are exclusive, releases reviewed, statuses follow decisions and trails explain them;
\* closed rows are final, evidence is frozen and versions tell states apart.
COROLLARY TxKeepsPromises ==
  TxSpec => /\ [](ExclusiveUnlessPadded /\ ReleaseNeedsReview)
            /\ [](StatusFollowsDecision /\ AuditExplains)
            /\ DecisionsAreFinal /\ EvidenceFrozen /\ VersionTellsStates
  BY TxImplementsRelaxed, UnitsAreExclusive, ReleasesAreReviewed, StatusesFollowDecisions,
     TrailsExplainDecisions, ClosedTurnaroundsAreFinal, EvidenceStaysFrozen, VersionsTellStates, PTL

-----------------------------------------------------------------------------
(* Deadlocks.  LockOrder is inductive relative to TxInv; in a ring of      *)
(* requests that take their locks in order nobody can wait for a unit, and *)
(* the one that waits for the least row holds up nobody.                   *)

\* The units of a turnaround never change.
LEMMA AssignedIsFixed ==
  ASSUME Inv, [RelaxedNext]_dbVars, NEW t \in Turnaround, Exists(t)
  PROVE  assigned'[t] = assigned[t]
  <1> USE DEF Inv, TypeOK
  <1>1. CASE UNCHANGED dbVars
    BY <1>1 DEF dbVars, turnaroundVars
  <1>2. ASSUME NEW u \in Unit, NEW s \in UnitState, CreateUnit(u, s)
        PROVE  assigned'[t] = assigned[t]
    BY <1>2 DEF CreateUnit, turnaroundVars
  <1>3. ASSUME NEW role \in UnitStateRoles, NEW u \in Unit, NEW to \in UnitState,
               NEW R \in SUBSET FoundFor(u, to), ChangeUnitState(role, u, to, R)
        PROVE  assigned'[t] = assigned[t]
    BY <1>3 DEF ChangeUnitState, turnaroundVars
  <1>4. CASE TurnaroundNext
    <2>1. ASSUME NEW s \in Turnaround, NEW U \in SUBSET Unit, NEW C \in SUBSET CheckCode,
                 NEW P \in SUBSET (U \cap Paddable), CreateTurnaround(s, U, P, C)
          PROVE  assigned'[t] = assigned[t]
      BY <2>1 DEF CreateTurnaround, NextTurnaround, InsertTurnaround
    <2> QED
      BY <1>4, <2>1 DEF TurnaroundNext, ChangeTurnaroundStatus, CreateCheck, ReviewCheck, Decide,
         UpdateTurnaround, turnaroundVars
  <1> QED
    BY <1>1, <1>2, <1>3, <1>4 DEF RelaxedNext

\* A request keeps to the order while others run.
LEMMA OrderKept ==
  ASSUME TxInv, [RelaxedNext]_dbVars, NEW q \in Proc, TakesInOrder(q), LocalsKept(q), LocksKept(q)
  PROVE  TakesInOrder(q)'
  <1>1. req[q].op = "Decide" => assigned'[req[q].t] = assigned[req[q].t]
    BY AssignedIsFixed DEF TxInv, RequestInv, PlaceInv, SeenInv, IsRequest, NoRequest, RowOps
  <1> QED
    BY <1>1 DEF TakesInOrder, LocalsKept, LocksKept

\* A request that holds nothing keeps to any order.
LEMMA NothingHeldInOrder ==
  ASSUME NEW p \in Proc, HoldsNothing(p)
  PROVE  TakesInOrder(p)
  BY DEF TakesInOrder, HoldsNothing

\* The statements of a request take the next lock in the order.
LEMMA StepInOrder ==
  ASSUME TxInv, NEW p \in Proc, TakesInOrder(p), Step(p)
  PROVE  TakesInOrder(p)'
  <1> USE DEF TxInv
  <1> SUFFICES ASSUME req'[p].op # "Create", ~HoldsNothing(p)' PROVE TakesInOrder(p)'
    BY DEF TakesInOrder, HoldsNothing
  <1>2. CASE Commit(p) \/ Rollback(p)
    <2>1. HoldsNothing(p)'
      BY <1>2, NoOneAssumption DEF Commit, Rollback, EndTx, Release, HoldsNothing
    <2> QED
      BY <2>1
  <1>3. CASE LockAssignment(p)
    BY <1>3 DEF LockAssignment, RequestInv, PlaceInv, Statements, IsRequest, RowOps
  <1>4. CASE FindActive(p)
    <2>1. pc[p] = "find" /\ UNCHANGED <<req, rowLock, unitLock>>
      BY <1>4 DEF FindActive, lockVars
    <2> QED
      BY <2>1 DEF TakesInOrder
  <1>5. CASE LockActiveRow(p)
    <2>1. PICK t \in Turnaround :
            /\ t = Least(rows[p]) /\ rows[p] # {}
            /\ rowLock' = [rowLock EXCEPT ![t] = p]
            /\ rows' = [rows EXCEPT ![p] = @ \ {t}]
      BY <1>5, LeastIsMember DEF LockActiveRow, NextRow, LocalTypes
    <2>2. pc[p] = "rows" /\ UNCHANGED <<pc, req, unitLock, dbVars>>
      BY <1>5 DEF LockActiveRow
    <2>3. rows[p] \in SUBSET Turnaround
      BY DEF LocalTypes
    <2>4. \A s \in rows[p] : t <= s
      BY <2>1, <2>3, LeastIsMember
    <2>5. \A s \in rows'[p] : s \in rows[p] /\ t < s
      <3>1. rows'[p] = rows[p] \ {t}
        BY <2>1 DEF LocalTypes
      <3>2. t \in Nat /\ \A s \in rows[p] : s \in Nat
        BY <2>3, TurnaroundAssumption
      <3> QED
        BY <2>4, <3>1, <3>2
    <2> QED
      BY <2>1, <2>2, <2>5 DEF TakesInOrder, LocalTypes
  <1>6. CASE ReadDecisions(p)
    <2>1. /\ pc[p] = "rows" /\ rows[p] = {} /\ pc'[p] = "unit"
          /\ UNCHANGED <<req, rowLock, unitLock>>
      BY <1>6 DEF ReadDecisions, Goto, lockVars, LocalTypes
    <2> QED
      BY <2>1 DEF TakesInOrder
  <1>7. CASE CheckAssignment(p)
    BY <1>7 DEF CheckAssignment
  <1>8. CASE LockTurnaround(p)
    <2>1. pc[p] = "row" /\ pc'[p] \in {"unit", "commit", "rollback"}
      BY <1>8 DEF LockTurnaround, Goto, LocalTypes
    <2>2. UNCHANGED <<req, unitLock>>
      BY <1>8 DEF LockTurnaround
    <2> QED
      BY <2>1, <2>2 DEF TakesInOrder
  <1>9. CASE LockUnit(p)
    <2>1. PICK u \in NextUnits(p) :
            /\ unitLock' = [unitLock EXCEPT ![u] = p]
            /\ pc[p] = "unit"
            /\ pc'[p] \in {IF units[p] = {u} THEN "commit" ELSE "unit", "rollback"}
            /\ UNCHANGED <<dbVars, req, rowLock>>
      BY <1>9 DEF LockUnit, Goto, LocalTypes
    <2>2. u \in units[p] /\ units[p] \in SUBSET Unit
      BY <2>1, LeastIsMember DEF NextUnits, RequestInv, PlaceInv, LocalTypes
    <2>3. req[p].op # "Decide" => units[p] = {u}
      BY <2>1, <2>2 DEF RequestInv, PlaceInv, IsRequest, Statements, ChangeStateInv, RowOpInv,
         UnitsToLock, RowOps
    <2>4. req[p].op = "Decide" => u \in assigned[req[p].t]
      BY <2>1, <2>2 DEF RequestInv, RowOpInv, UnitsToLock, RowOps
    <2> QED
      BY <2>1, <2>2, <2>3, <2>4 DEF TakesInOrder, LocalTypes, dbVars, turnaroundVars
  <1> QED
    BY <1>2, <1>3, <1>4, <1>5, <1>6, <1>7, <1>8, <1>9 DEF Step

\* LockOrder is inductive relative to TxInv.
LEMMA OrderStep == TxInv /\ LockOrder /\ [TxNext]_vars => LockOrder'
  <1> SUFFICES ASSUME TxInv, LockOrder, [TxNext]_vars PROVE LockOrder'
    OBVIOUS
  <1>1. [RelaxedNext]_dbVars
    BY TxStep
  <1>2. ASSUME NEW p \in Proc, OthersKept(p), TakesInOrder(p)' PROVE LockOrder'
    BY <1>1, <1>2, OrderKept DEF LockOrder, OthersKept
  <1>3. CASE InsertUnitRow \/ UNCHANGED vars
    <2>1. \A q \in Proc : LocalsKept(q) /\ LocksKept(q)
      BY <1>3 DEF InsertUnitRow, vars, procVars, lockVars, LocalsKept, LocksKept
    <2> QED
      BY <1>1, <2>1, OrderKept DEF LockOrder
  <1>4. ASSUME NEW p \in Proc, Begin(p) PROVE LockOrder'
    <2>1. HoldsNothing(p)'
      BY <1>4 DEF Begin, lockVars, HoldsNothing, TxInv, RequestInv, PlaceInv
    <2>2. TakesInOrder(p)'
      BY <2>1 DEF TakesInOrder, HoldsNothing
    <2> QED
      BY <1>2, <1>4, <2>2, BeginInv
  <1>5. ASSUME NEW p \in Proc, Step(p) PROVE LockOrder'
    <2>1. OthersKept(p)
      BY <1>5, CommitInv, RolledBackInv, LockAssignmentInv, FindActiveInv, LockActiveRowInv,
         ReadDecisionsInv, CheckAssignmentInv, LockTurnaroundInv, LockUnitInv DEF Step
    <2> QED
      BY <1>2, <1>5, <2>1, StepInOrder DEF LockOrder
  <1>6. ASSUME NEW p \in Proc, Fail(p) \/ Victim(p) PROVE LockOrder'
    <2>1. HoldsNothing(p)'
      BY <1>6, NoOneAssumption DEF Fail, Victim, EndTx, Release, HoldsNothing
    <2>2. TakesInOrder(p)'
      BY <2>1 DEF TakesInOrder, HoldsNothing
    <2> QED
      BY <1>2, <1>6, <2>2, RolledBackInv
  <1> QED
    BY <1>3, <1>4, <1>5, <1>6 DEF TxNext

\* The row that a request waits to lock.
Awaits(p, t) ==
  \/ pc[p] = "row" /\ t = req[p].t
  \/ pc[p] = "rows" /\ t \in NextRow(p)

\* Two of the requests decide on turnarounds that share a unit which the earlier one
\* has padded.
PaddedPair(S) ==
  \E p, q \in S :
    /\ req[p].op = "Decide" /\ req[q].op = "Decide"
    /\ req[p].t < req[q].t
    /\ padded[req[p].t] \cap assigned[req[q].t] # {}

\* Of requests that only wait for each other, and take their locks in order, none
\* holds a unit: it would be clearing, and wait for a unit of its turnaround that
\* another one is clearing as well; only a padded unit serves two of them.
LEMMA NoUnitsHeld ==
  ASSUME TxInv, LockOrder, NEW S \in SUBSET Proc, Deadlocked(S),
         \A p \in S : req[p].op # "Create", ~PaddedPair(S),
         NEW q \in S, NEW v \in Unit
  PROVE  unitLock[v] # q
  <1> SUFFICES ASSUME unitLock[v] = q PROVE FALSE
    OBVIOUS
  <1>1. ASSUME NEW p \in S, NEW x \in S, WaitsFor(p, x)
        PROVE  pc[p] \in {"rows", "row", "unit"}
    BY <1>1 DEF WaitsFor, TxInv, RequestInv, PlaceInv, IsRequest, Statements, RowOps
  <1>2. ASSUME NEW x \in S, NEW w \in Unit, unitLock[w] = x
        PROVE  /\ pc[x] = "unit" /\ req[x].op = "Decide" /\ w \in assigned[req[x].t]
               /\ req[x].t \in Turnaround /\ rowLock[req[x].t] = x /\ Engaged(req[x].t)
               /\ units[x] \subseteq assigned[req[x].t]
    <2>1. pc[x] = "unit" /\ req[x].op = "Decide" /\ w \in assigned[req[x].t]
      BY <1>1, <1>2 DEF Deadlocked, LockOrder, TakesInOrder
    <2>2. /\ IsRequest(req[x]) /\ req[x].t \in Turnaround /\ Exists(req[x].t)
          /\ rowLock[req[x].t] = x /\ RowAccepts(req[x])
          /\ units[x] # {} /\ units[x] \subseteq UnitsToLock(req[x])
      BY <2>1 DEF TxInv, RequestInv, PlaceInv, SeenInv, RowOpInv, IsRequest, RowOps
    <2>3. req[x].to = "cleared" /\ units[x] \subseteq assigned[req[x].t]
      BY <2>1, <2>2 DEF UnitsToLock
    <2>4. MayDecide(req[x].t, "cleared")
      BY <2>1, <2>2, <2>3 DEF RowAccepts
    <2>5. Engaged(req[x].t)
      BY <2>2, <2>4 DEF MayDecide, allowedClearanceTransition, Engaged
    <2> QED
      BY <2>1, <2>2, <2>3, <2>5
  <1>3. pc[q] = "unit" /\ req[q].op = "Decide"
    BY <1>2
  <1>4. PICK x \in S : x # q /\ \E u \in units[q] : unitLock[u] = x
    BY <1>3 DEF Deadlocked, WaitsFor, NextUnits
  <1>5. PICK u \in Unit : u \in units[q] /\ unitLock[u] = x
    BY <1>4 DEF TxInv, LocalTypes
  <1>6. u \in assigned[req[q].t] /\ u \in assigned[req[x].t] /\ req[q].t # req[x].t
    BY <1>2, <1>4, <1>5
  <1>7. /\ req[x].op = "Decide" /\ req[x].t \in Turnaround /\ Engaged(req[x].t)
        /\ req[q].t \in Turnaround /\ Engaged(req[q].t)
    BY <1>2, <1>5
  <1>8. ASSUME NEW y \in S, NEW z \in S, req[y].op = "Decide", req[z].op = "Decide",
               req[y].t \in Turnaround, req[z].t \in Turnaround, req[y].t < req[z].t,
               Engaged(req[y].t), Engaged(req[z].t),
               u \in assigned[req[y].t], u \in assigned[req[z].t]
        PROVE  FALSE
    <2>1. u \in padded[req[y].t]
      BY <1>8 DEF TxInv, Inv, ExclusiveUnlessPadded
    <2> QED
      BY <1>8, <2>1 DEF PaddedPair
  <1>9. req[q].t < req[x].t \/ req[x].t < req[q].t
    BY <1>6, <1>7, TurnaroundAssumption
  <1> QED
    BY <1>3, <1>6, <1>7, <1>8, <1>9

\* So they all wait for rows, and the least of these is held by one that waits for a
\* greater one.
LEMMA OrderBreaksRings == TxInv /\ LockOrder => RingsNeedCreateOrPadding
  <1> SUFFICES ASSUME TxInv, LockOrder, NEW S \in SUBSET Proc, Deadlocked(S),
                      \A p \in S : req[p].op # "Create", ~PaddedPair(S)
               PROVE  FALSE
    BY DEF RingsNeedCreateOrPadding, PaddedPair
  <1>1. ASSUME NEW p \in S, NEW q \in S, WaitsFor(p, q)
        PROVE  \E t \in Turnaround : Awaits(p, t) /\ rowLock[t] = q
    <2>1. pc[p] # "assign"
      BY DEF TxInv, RequestInv, PlaceInv, IsRequest, Statements, NoRequest, RowOps
    <2>2. pc[p] = "unit" => NextUnits(p) \subseteq Unit
      BY LeastIsMember DEF NextUnits, TxInv, RequestInv, PlaceInv, LocalTypes
    <2>3. pc[p] = "rows" => NextRow(p) \subseteq Turnaround
      BY LeastIsMember DEF NextRow, TxInv, LocalTypes
    <2>4. pc[p] = "row" => req[p].t \in Turnaround
      BY DEF TxInv, RequestInv, PlaceInv, IsRequest, Statements, RowOps
    <2> QED
      BY <1>1, <2>1, <2>2, <2>3, <2>4, NoUnitsHeld DEF WaitsFor, Awaits
  <1> DEFINE W == {t \in Turnaround : \E p \in S : Awaits(p, t)}
  <1>2. W # {} /\ W \in SUBSET Turnaround
    BY <1>1 DEF Deadlocked
  <1>3. Least(W) \in W /\ \A t \in W : Least(W) <= t
    BY <1>2, LeastIsMember
  <1>4. PICK t \in Turnaround : t = Least(W)
    BY <1>2, <1>3
  <1>5. PICK p \in S : Awaits(p, t)
    BY <1>3, <1>4
  <1>6. PICK x \in S : WaitsFor(x, p)
    BY DEF Deadlocked
  <1>7. PICK s \in Turnaround : Awaits(x, s) /\ rowLock[s] = p
    BY <1>1, <1>6
  <1>8. t <= s
    BY <1>3, <1>4, <1>7
  <1>9. pc[p] = "rows" /\ s < t
    <2>1. pc[p] = "rows" /\ \A y \in rows[p] : s < y
      BY <1>5, <1>7 DEF LockOrder, TakesInOrder, Awaits
    <2>2. t \in rows[p]
      BY <1>5, <2>1, LeastIsMember DEF Awaits, NextRow, TxInv, LocalTypes
    <2> QED
      BY <2>1, <2>2
  <1> QED
    BY <1>8, <1>9, TurnaroundAssumption

\* Requests can wait for each other in a ring only if one of them creates a
\* turnaround, or two of them decide on turnarounds that share a unit under different
\* spellings: the others lock rows in the order of their ids, and units last.
THEOREM RingsNeedCreate == TxSpec => []RingsNeedCreateOrPadding
  <1>1. TxInit => LockOrder
    BY NoOneAssumption DEF TxInit, LockOrder, TakesInOrder
  <1>2. TxSpec => []LockOrder
    BY <1>1, OrderStep, TxInvariance, PTL DEF TxSpec
  <1> QED
    BY <1>2, TxInvariance, OrderBreaksRings, PTL

=============================================================================
