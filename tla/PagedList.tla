------------------------------ MODULE PagedList ------------------------------
(***************************************************************************)
(* ListStore with the rows of the list.  The queries are its pages.  The   *)
(* server counts the rows that match the filter and then, in a statement   *)
(* of its own, selects a page of them in the order of the list.  Meanwhile *)
(* rows are inserted where the order puts them, are decided and so move to *)
(* the front, or no longer match the filter and leave.                     *)
(*                                                                         *)
(* A reader who wants to see everything opens the list and turns page by   *)
(* page, to the last that the paginator offers.                            *)
(***************************************************************************)
EXTENDS ListStore, SequencesExt

CONSTANT PageSize

ASSUME PagesAssumption == Query \subseteq Nat \ {0} /\ FirstQuery = 1 /\ NoQuery = 0
ASSUME PageSizeAssumption == PageSize \in Nat \ {0}

VARIABLES
  rows,      \* the server's rows, as the list orders them
  totals,    \* of the loads under way: what the count has found ...
  found,     \* ... and the page selected
  total,     \* the store's total, by which the paginator goes
  seen,      \* history: rows shown since the walk began
  stayed,    \* history: rows that have kept their place since then
  gone,      \* history: a row has left the list since then
  raced,     \* history: in the last load, one was inserted after the count
  reader     \* bounds: who reads

\* One who walks and changes nothing, or who does as in ListStore and does not look at
\* the rows; the rows there are at first, whether two of them are tied; the loads,
\* pages, saves at a time and writes that there may be.
Reader ==
  {r \in [walks : BOOLEAN, rows : Nat, tied : BOOLEAN, loads : Nat, pages : Nat, saves : Nat, writes : Nat] :
     1..r.pages \subseteq Query}

walkVars  == <<seen, stayed, gone, raced>>
listVars  == <<rows, totals, found, total, walkVars>>
pagedVars == <<vars, listVars, reader>>

PagedTypeOK ==
  /\ TypeOK
  /\ IsInjective(rows)
  /\ DOMAIN found \subseteq DOMAIN totals
  /\ DOMAIN totals \subseteq {f.version : f \in flights}
  /\ total \in Nat
  /\ seen \cup stayed \subseteq Nat
  /\ {gone, raced} \subseteq BOOLEAN

-----------------------------------------------------------------------------

\* A slip for the properties to catch: pages counted from 0.
PageFromZero(list, p) ==
  SubSeq(list, p * PageSize + 1, IF (p + 1) * PageSize < Len(list) THEN (p + 1) * PageSize ELSE Len(list))

\* OFFSET and LIMIT.
PageOf(list, p) ==
  SubSeq(list, (p - 1) * PageSize + 1, IF p * PageSize < Len(list) THEN p * PageSize ELSE Len(list))

\* Rows 2 and 3, if they are tied: the order of the list does not tell which of
\* them comes first, and the database may answer differently each time.
Tied == IF reader.tied THEN {2, 3} ELSE {}

Orders(list) ==
  IF \E i \in 1 .. Len(list) - 1 : {list[i], list[i + 1]} = Tied
  THEN {list, [i \in DOMAIN list |-> IF list[i] \in Tied THEN 5 - list[i] ELSE list[i]]}
  ELSE {list}

With(answers, version, answer) ==
  [v \in DOMAIN answers \cup {version} |-> IF v = version THEN answer ELSE answers[v]]

UnderWay(answers) == Restrict(answers, DOMAIN answers \cap {f.version : f \in flights'})

-----------------------------------------------------------------------------
(* The server.                                                             *)

CountRows(f) ==
  /\ f.list = Unread /\ f.version \notin DOMAIN totals
  /\ totals' = With(totals, f.version, Len(rows))
  /\ UNCHANGED <<vars, rows, found, total, walkVars>>

FindRows(f) ==
  /\ f.version \in DOMAIN totals
  /\ ServeList(f)
  /\ \E list \in Orders(rows) : found' = With(found, f.version, PageOf(list, f.query))
  /\ UNCHANGED <<rows, totals, total, walkVars>>

Inserted(i) ==
  /\ rows' = InsertAt(rows, i, reader.rows + written + 1)
  /\ raced' = (raced \/ DOMAIN totals # DOMAIN found)
  /\ UNCHANGED <<stayed, gone>>

Decided(i) ==
  /\ rows' = <<rows[i]>> \o RemoveAt(rows, i)
  /\ stayed' = stayed \ {rows[i]}
  /\ UNCHANGED <<gone, raced>>

Left(i) ==
  /\ rows' = RemoveAt(rows, i)
  /\ stayed' = stayed \ {rows[i]}
  /\ gone' = TRUE
  /\ UNCHANGED raced

\* Another user's write, which the list shows by its order or its filter.
RowsChange ==
  /\ OtherWrite
  /\ \/ \E i \in 1 .. Len(rows) + 1 : Inserted(i)
     \/ \E i \in DOMAIN rows : Decided(i) \/ Left(i)
  /\ UNCHANGED <<totals, found, total, seen>>

-----------------------------------------------------------------------------
(* The store and its reader.                                               *)

Shown(f) ==
  /\ Emit(f)
  /\ IF Current(f) THEN total' = totals[f.version] /\ seen' = seen \cup Range(found[f.version])
                   ELSE UNCHANGED <<total, seen>>
  /\ totals' = UnderWay(totals) /\ found' = UnderWay(found)
  /\ UNCHANGED <<rows, stayed, gone, raced>>

NotShown(f) ==
  /\ BreakOff(f)
  /\ totals' = UnderWay(totals) /\ found' = UnderWay(found)
  /\ UNCHANGED <<rows, total, walkVars>>

BeginWalk ==
  /\ ~loading
  /\ Open
  /\ seen' = {} /\ stayed' = Range(rows) \ Tied
  /\ gone' = FALSE /\ raced' = FALSE
  /\ UNCHANGED <<rows, totals, found, total>>

\* The paginator's next page; the same once more after an error.
TurnPage ==
  /\ ~loading
  /\ \/ ~error /\ asked * PageSize < total /\ Load(asked + 1)
     \/ error /\ Load(asked)
  /\ raced' = FALSE
  /\ UNCHANGED <<rows, totals, found, total, seen, stayed, gone>>

Fetch ==
  \E f \in flights :
    \/ CountRows(f)
    \/ FindRows(f)
    \/ ServeSummary(f) /\ UNCHANGED listVars
    \/ Shown(f)
    \/ NotShown(f)

PagedInit(Readers) ==
  /\ reader \in Readers
  /\ Init
  /\ rows = [i \in 1 .. reader.rows |-> i]
  /\ totals = <<>> /\ found = <<>> /\ total = 0
  /\ seen = {} /\ stayed = {} /\ gone = FALSE /\ raced = FALSE

PagedNext ==
  /\ \/ reader.walks /\ (BeginWalk \/ TurnPage \/ RowsChange \/ Fetch)
     \/ ~reader.walks /\ Next /\ UNCHANGED listVars
  /\ requestVersion' <= reader.loads /\ asked' <= reader.pages /\ written' <= reader.writes
  /\ Cardinality(saves') <= reader.saves
  /\ UNCHANGED reader

PagedFairness ==
  WF_pagedVars((IF reader.walks THEN Fetch ELSE Answered /\ UNCHANGED listVars) /\ UNCHANGED reader)

-----------------------------------------------------------------------------
(* Properties.                                                             *)

WalkEnded ==
  reader.walks /\ asked # NoQuery /\ ~loading /\ ~error /\ asked * PageSize >= total

\* A reader who turns all the pages has seen every row that kept its place, although
\* count and select are apart and rows are written between them and between pages.
\* It takes a row that left the list (its successors move up onto a page already
\* turned), a row inserted between the last page's count and select (the last row is
\* pushed past the total), or a tie in the order to miss one.
WalkShowsAll == WalkEnded /\ ~gone /\ ~raced => stayed \subseteq seen

=============================================================================
