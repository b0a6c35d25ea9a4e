----------------------------- MODULE MCConsole -----------------------------
(***************************************************************************)
(* The visits on which TLC checks Console: one that goes through logins of *)
(* different users, guards, expiring tokens and code that does not come,   *)
(* and one to each desk.                                                   *)
(***************************************************************************)
EXTENDS Console, TLC

CONSTANTS a, b

\* Rows are only compared for equality.
RowSymmetry == Permutations(Row)

Visits ==
  { [pages |-> {"login", "turnarounds", "ground-units", "audit"},
     roles |-> {SafetyManager, Inspector}, patient |-> FALSE,
     tokens |-> 3, sent |-> 0, writes |-> 0,
     doubtful |-> {"login", "turnarounds", "ground-units", "audit"}],
    [pages |-> {"login", "turnarounds", "clearance"},
     roles |-> {SafetyManager}, patient |-> TRUE,
     tokens |-> 1, sent |-> 1, writes |-> 2, doubtful |-> {"login"}],
    [pages |-> {"login", "turnarounds", "checks"},
     roles |-> {Inspector}, patient |-> TRUE,
     tokens |-> 1, sent |-> 2, writes |-> 2, doubtful |-> {}] }

Spec == InitFor(Visits) /\ [][Next]_vars
=============================================================================
