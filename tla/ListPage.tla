------------------------------ MODULE ListPage ------------------------------
(***************************************************************************)
(* What a list of the console promises its reader: it is busy until it     *)
(* shows an answer to what was asked for last, or an error; answers to     *)
(* earlier questions are never shown again.                                *)
(***************************************************************************)
CONSTANTS Query, NoQuery

VARIABLES
  wanted,    \* what was asked for last
  shown,     \* the question whose answer is on the page
  busy,      \* an answer is awaited
  broken     \* instead of an answer there is an error

pageVars == <<wanted, shown, busy, broken>>

Init == wanted = NoQuery /\ shown = NoQuery /\ ~busy /\ ~broken

Want(q) ==
  /\ wanted' = q
  /\ busy' = TRUE /\ broken' = FALSE
  /\ UNCHANGED shown

Show ==
  /\ busy
  /\ shown' = wanted
  /\ busy' = FALSE
  /\ UNCHANGED <<wanted, broken>>

Break ==
  /\ busy
  /\ busy' = FALSE /\ broken' = TRUE
  /\ UNCHANGED <<wanted, shown>>

Next == (\E q \in Query : Want(q)) \/ Show \/ Break

Spec == Init /\ [][Next]_pageVars
=============================================================================
