----------------------------- MODULE Readiness -----------------------------
(***************************************************************************)
(* GET /turnarounds/:id/readiness beside the requests that write:          *)
(* TurnaroundService.Readiness reads the turnaround, its checks, its units *)
(* one by one and its decision in separate statements, in no transaction,  *)
(* and requests commit in between.  The writers are those of RelaxedSpec,  *)
(* the committed steps of concurrent requests.  Readers change no row, so  *)
(* one of them stands for all.                                             *)
(***************************************************************************)
EXTENDS Clearance

CONSTANT NoTurnaround

ASSUME NoTurnaroundAssumption == NoTurnaround \notin Turnaround

VARIABLES
  reading,     \* the turnaround asked for, or NoTurnaround
  next,        \* the statement that is due
  left,        \* units still to be looked up
  report,      \* what the answer says so far
  sawBlocked,  \* history: some state since the request began had a blocker
  lost         \* history: the lookup of the decision failed

historyVars == <<sawBlocked, lost>>
vars        == <<dbVars, reading, next, left, report, historyVars>>

NoReport == [status |-> Absent, pending |-> {}, failed |-> {}, blocked |-> {},
             missing |-> {}, clearance |-> Absent]

\* The blockers a report names, the failed lookups apart.
Named == report.pending \cup report.failed # {} \/ report.blocked # {}

\* What ready_for_full_clearance means of the rows: no blocker is persisted.
Ready(t) ==
  /\ \A c \in ChecksOf(t) : result[t][c] = "passed"
  /\ Available(assigned[t])

ReadTypeOK ==
  /\ reading \in Turnaround \cup {NoTurnaround}
  /\ next \in {"turnaround", "checks", "units", "decision", "answer"}
  /\ left \subseteq Unit /\ (left # {} => reading # NoTurnaround)
  /\ report \in [status : TurnaroundStatus \cup {Absent}, pending : SUBSET CheckCode,
                 failed : SUBSET CheckCode, blocked : SUBSET Unit, missing : SUBSET Unit,
                 clearance : ClearanceState \cup {Absent}]
  /\ {sawBlocked, lost} \subseteq BOOLEAN

-----------------------------------------------------------------------------
(* Slips for the properties to catch.                                      *)

\* The accumulators are not made anew for each request.
ReadTurnaroundInto(t) ==
  /\ next = "turnaround" /\ Exists(t)
  /\ reading' = t /\ left' = assigned[t] /\ next' = "checks"
  /\ report' = [report EXCEPT !.status = status[t]]
  /\ sawBlocked' = ~Ready(t) /\ lost' = FALSE
  /\ UNCHANGED dbVars

\* The status is looked up once more, with the decision.
ReadDecisionAndStatus ==
  /\ next = "decision"
  /\ report' = [report EXCEPT !.clearance = clearance[reading], !.status = status[reading]]
  /\ next' = "answer"
  /\ UNCHANGED <<dbVars, reading, left, historyVars>>

-----------------------------------------------------------------------------

\* FindByID on the turnaround; the accumulators are empty.
ReadTurnaround(t) ==
  /\ next = "turnaround" /\ Exists(t)
  /\ reading' = t /\ left' = assigned[t] /\ next' = "checks"
  /\ report' = [NoReport EXCEPT !.status = status[t]]
  /\ sawBlocked' = ~Ready(t) /\ lost' = FALSE
  /\ UNCHANGED dbVars

\* ListByTurnaround
ReadChecks ==
  /\ next = "checks"
  /\ report' = [report EXCEPT
       !.pending = {c \in CheckCode : result[reading][c] = "pending"},
       !.failed  = {c \in CheckCode : result[reading][c] = "failed"}]
  /\ next' = "units"
  /\ UNCHANGED <<dbVars, reading, left, historyVars>>

\* FindByID on one unit; any error counts as a missing unit.
ReadUnit(u) ==
  /\ next = "units" /\ u \in left
  /\ \/ report' = [report EXCEPT !.missing = @ \cup {u}]
     \/ unitState[u] = "available" /\ UNCHANGED report
     \/ unitState[u] # "available" /\ report' = [report EXCEPT !.blocked = @ \cup {u}]
  /\ left' = left \ {u}
  /\ next' = IF left' = {} THEN "decision" ELSE "units"
  /\ UNCHANGED <<dbVars, reading, historyVars>>

\* FindByTurnaround; any error counts as a pending decision.
ReadDecision ==
  /\ next = "decision"
  /\ \/ report' = [report EXCEPT !.clearance = clearance[reading]] /\ UNCHANGED lost
     \/ report' = [report EXCEPT !.clearance = "pending"] /\ lost' = TRUE
  /\ next' = "answer"
  /\ UNCHANGED <<dbVars, reading, left, sawBlocked>>

\* The report is sent, or the list of checks failed and an error is.
Answer ==
  /\ next \in {"checks", "answer"}
  /\ reading' = NoTurnaround /\ left' = {} /\ next' = "turnaround"
  /\ sawBlocked' = FALSE /\ lost' = FALSE
  /\ UNCHANGED <<dbVars, report>>

\* A request that writes commits meanwhile.
Commit ==
  /\ RelaxedNext
  /\ UNCHANGED <<reading, next, left, report, lost>>
  /\ sawBlocked' = (sawBlocked \/ (reading # NoTurnaround /\ ~Ready(reading)'))

ReadInit ==
  /\ Init
  /\ reading = NoTurnaround /\ next = "turnaround" /\ left = {} /\ report = NoReport
  /\ sawBlocked = FALSE /\ lost = FALSE

ReadNext ==
  \/ \E t \in Turnaround : ReadTurnaround(t)
  \/ ReadChecks
  \/ \E u \in Unit : ReadUnit(u)
  \/ ReadDecision
  \/ Answer
  \/ Commit

ReadSpec == ReadInit /\ [][ReadNext]_vars

-----------------------------------------------------------------------------

\* A report that names a blocker was true at some moment of the request: what
\* Readiness mixes together of several states is at worst too good.  (It may be: a check
\* added after the checks were read, and a unit restored before it is, leave a report
\* without blockers although one was persisted at every moment.)
BlockersAreReal == next = "answer" /\ Named => sawBlocked

\* A report whose status is past the decision fits a decision: Readiness reads the
\* status first, and what it reads later of checks and decision no longer moves but
\* from released to revoked.
ReportsAreConsistent ==
  next = "answer" /\ report.status \in {"decisioned", "completed"} =>
    /\ report.clearance = "pending" => lost
    /\ report.clearance \in Released => report.pending = {}
    /\ report.clearance = "cleared" => report.failed = {}

=============================================================================
