----------------------------- MODULE MCPagedList -----------------------------
(***************************************************************************)
(* The readers with whom TLC checks PagedList and ListStore: two who use  *)
(* the list in any way, of which one waits for a save before the next but  *)
(* turns pages, and two who turn its pages, of which one meets a tie in    *)
(* its order.                                                              *)
(***************************************************************************)
EXTENDS PagedList

Using(pages, atOnce) ==
  [walks |-> FALSE, rows |-> 0, tied |-> FALSE,
   loads |-> 3, pages |-> pages, saves |-> atOnce, writes |-> 2]

Turning(n, tie, loads, writes) ==
  [walks |-> TRUE, rows |-> n, tied |-> tie,
   loads |-> loads, pages |-> 3, saves |-> 0, writes |-> writes]

Readers == {Using(2, 1), Using(1, 2), Turning(3, FALSE, 4, 2), Turning(4, TRUE, 3, 1)}

ASSUME ReadersAssumption == Readers \subseteq Reader

PagedSpec == PagedInit(Readers) /\ [][PagedNext]_pagedVars /\ PagedFairness

=============================================================================
