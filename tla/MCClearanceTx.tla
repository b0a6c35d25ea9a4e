--------------------------- MODULE MCClearanceTx ---------------------------
(***************************************************************************)
(* The instances on which TLC checks ClearanceTx.  One of them starts from *)
(* databases the service reaches in a few requests, so that the bounds are *)
(* spent on what comes after.                                              *)
(***************************************************************************)
EXTENDS ClearanceTx, TLC

CONSTANTS brake, A, B

\* Requests in flight are only told apart by name.
ProcSymmetry == Permutations(Proc)

NobodyInTx ==
  /\ pc = [p \in Proc |-> "idle"]
  /\ req = [p \in Proc |-> NoRequest]
  /\ units = [p \in Proc |-> {}]
  /\ rows = [p \in Proc |-> {}]
  /\ found = [p \in Proc |-> {}]
  /\ read = [p \in Proc |-> NothingRead]
  /\ assignLock = [u \in Unit |-> NoOne]
  /\ rowLock = [t \in Turnaround |-> NoOne]
  /\ unitLock = [u \in Unit |-> NoOne]

\* The units are new and available, and the turnarounds of T, moved once since they
\* were created, stand at status s and decision d with every check at r.
Moved(T, s, d, r) ==
  /\ unitState = [u \in Unit |-> "available"]
  /\ unitVersion = [u \in Unit |-> 1]
  /\ status = [t \in Turnaround |-> IF t \in T THEN s ELSE Absent]
  /\ version = [t \in Turnaround |-> IF t \in T THEN 2 ELSE 0]
  /\ result = [t \in Turnaround |-> [c \in CheckCode |-> IF t \in T THEN r ELSE Absent]]
  /\ clearance = [t \in Turnaround |-> IF t \in T THEN d ELSE Absent]
  /\ NobodyInTx

\* Turnaround 1 was revoked before its first review, so that it stays active with its
\* units; one id is left for a turnaround that is still to come.
RevokedInit ==
  /\ Moved({1}, "decisioned", "revoked", "pending")
  /\ \E U \in {{2}, Unit} : assigned = [t \in Turnaround |-> IF t = 1 THEN U ELSE {}]
  /\ padded = [t \in Turnaround |-> {}]
  /\ previous = [t \in Turnaround |-> IF t = 1 THEN "pending" ELSE Absent]
  /\ trail = [t \in Turnaround |-> IF t = 1 THEN <<<<"pending", "revoked">>>> ELSE <<>>]

\* Turnaround 1 was created on all units with padded ids, so that the others could be
\* created on them too; their checks have passed, and all wait for their decisions.
SharedInit ==
  /\ Moved(Turnaround, "checking", "pending", "passed")
  /\ assigned = [t \in Turnaround |-> Unit]
  /\ padded = [t \in Turnaround |-> IF t = 1 THEN Unit ELSE {}]
  /\ previous = [t \in Turnaround |-> Absent]
  /\ trail = [t \in Turnaround |-> <<>>]

FairContendedSpec ==
  (RevokedInit \/ SharedInit) /\ [][TxNext]_vars /\ TxFairness
=============================================================================
