----------------------------- MODULE ListStore -----------------------------
(***************************************************************************)
(* A list store of the console (ground units, turnarounds, checks,         *)
(* clearances) and the page that uses it.  Each load sends two requests,   *)
(* for the list and for the summary, which the server answers one by one   *)
(* and the network delivers in any order; forkJoin waits for both.  Saves  *)
(* from the page, and those of other users, change what is there to list.  *)
(* The store outlives the page: a save that is confirmed after its page    *)
(* was left loads what that page had asked for, whatever is open now.      *)
(* The list is represented by how many writes it reflects; PagedList.tla   *)
(* adds its rows.                                                          *)
(***************************************************************************)
EXTENDS Naturals

CONSTANTS
  Query,       \* pages and filters to load
  NoQuery,     \* none of them
  FirstQuery,  \* what a page asks for when it opens
  MaxLoads,    \* bound: how often the list is loaded
  MaxWrites    \* bound: how often the rows are written

ASSUME QueryAssumption == NoQuery \notin Query /\ FirstQuery \in Query
ASSUME BoundAssumption == MaxLoads \in Nat /\ MaxWrites \in Nat

Unread == MaxWrites + 1

VARIABLES
  written,         \* the server: writes committed so far
  saves,           \* saves under way: their number, Unread at first, and what their
                   \* page had asked for when it was left, NoQuery if it is open
  flights,         \* loads whose answer has not arrived
  requestVersion,  \* the store's counter of loads
  items,           \* the query whose answer is shown, and the writes list and summary reflect
  loading, error,
  asked,           \* the query that the open page is set to
  strayed,         \* history: a page that was left has loaded the list since
  wanted,          \* history: the query of the last load
  confirmed        \* history: the latest write that this page was told is saved

storeVars == <<flights, requestVersion, items, loading, error, wanted>>
pageVars  == <<asked, strayed>>
vars      == <<written, saves, storeVars, pageVars, confirmed>>

Flight == [version : 1..MaxLoads, query : Query,
           list : 0..MaxWrites \cup {Unread}, summary : 0..MaxWrites \cup {Unread}]

TypeOK ==
  /\ written \in 0..MaxWrites
  /\ saves \subseteq [number : 1..Unread, left : Query \cup {NoQuery}]
  /\ flights \subseteq Flight
  /\ requestVersion \in 0..MaxLoads
  /\ items \in [query : Query \cup {NoQuery}, list : 0..MaxWrites, summary : 0..MaxWrites]
  /\ {loading, error} \subseteq BOOLEAN
  /\ {wanted, asked} \subseteq Query \cup {NoQuery}
  /\ strayed \in BOOLEAN
  /\ confirmed \in 0..MaxWrites
  /\ \A f, g \in flights : f.version = g.version => f = g

-----------------------------------------------------------------------------

Arrived(f) == f.list # Unread /\ f.summary # Unread

\* A slip for PageSpec to catch, and what AuditStore does, which has no counter.
AnyAnswer(f) == TRUE

\* The store takes an answer only if no load was started since.
Current(f) == f.version = requestVersion

AnswerOf(f) == [query |-> f.query, list |-> f.list, summary |-> f.summary]

-----------------------------------------------------------------------------
(* Slips for the properties to catch.                                      *)

\* An error leaves the progress bar.
BreakOffSilently(f) ==
  /\ flights' = flights \ {f}
  /\ error' = (Current(f) \/ error)
  /\ UNCHANGED <<written, saves, requestVersion, items, loading, wanted, pageVars, confirmed>>

\* The list is not loaded anew after a save.
ConfirmOnly(s) ==
  /\ s.number # Unread
  /\ saves' = saves \ {s}
  /\ confirmed' = IF s.number > confirmed THEN s.number ELSE confirmed
  /\ UNCHANGED <<written, storeVars, pageVars>>

\* The list is loaded as if the page had just been opened.
AskedAtFirst(s) == FirstQuery

\* The counter is not raised.
StartUnnumbered(q) ==
  /\ requestVersion < MaxLoads
  /\ flights' = flights \cup
       {[version |-> requestVersion + 1, query |-> q, list |-> Unread, summary |-> Unread]}
  /\ loading' = TRUE /\ error' = FALSE
  /\ wanted' = q
  /\ UNCHANGED <<items, requestVersion>>

-----------------------------------------------------------------------------

\* load() of the store.
Start(q) ==
  /\ requestVersion < MaxLoads
  /\ requestVersion' = requestVersion + 1
  /\ flights' = flights \cup
       {[version |-> requestVersion + 1, query |-> q, list |-> Unread, summary |-> Unread]}
  /\ loading' = TRUE /\ error' = FALSE
  /\ wanted' = q
  /\ UNCHANGED items

\* The page turns, is filtered or refreshed.
Load(q) ==
  /\ asked # NoQuery
  /\ asked' = q /\ strayed' = FALSE
  /\ Start(q)
  /\ UNCHANGED <<written, saves, confirmed>>

\* A page opens.  It is built anew each time; the store is the one there was.
Open ==
  /\ asked' = FirstQuery /\ strayed' = FALSE
  /\ saves' = {[s EXCEPT !.left = IF @ = NoQuery THEN asked ELSE @] : s \in saves}
  /\ Start(FirstQuery)
  /\ UNCHANGED <<written, confirmed>>

\* The server reads the rows for one of a load's two requests.
ServeList(f) ==
  /\ f.list = Unread
  /\ flights' = (flights \ {f}) \cup {[f EXCEPT !.list = written]}
  /\ UNCHANGED <<written, saves, requestVersion, items, loading, error, wanted, pageVars, confirmed>>

ServeSummary(f) ==
  /\ f.summary = Unread
  /\ flights' = (flights \ {f}) \cup {[f EXCEPT !.summary = written]}
  /\ UNCHANGED <<written, saves, requestVersion, items, loading, error, wanted, pageVars, confirmed>>

\* next(): both answers have arrived.
Emit(f) ==
  /\ Arrived(f)
  /\ flights' = flights \ {f}
  /\ IF Current(f) THEN items' = AnswerOf(f) /\ loading' = FALSE
                   ELSE UNCHANGED <<items, loading>>
  /\ UNCHANGED <<written, saves, requestVersion, error, wanted, pageVars, confirmed>>

\* error(): one of the two has failed.
BreakOff(f) ==
  /\ flights' = flights \ {f}
  /\ IF Current(f) THEN error' = TRUE /\ loading' = FALSE
                   ELSE UNCHANGED <<error, loading>>
  /\ UNCHANGED <<written, saves, requestVersion, items, wanted, pageVars, confirmed>>

\* The page sends a save ...
Send ==
  /\ asked # NoQuery
  /\ \A s \in saves : s.number # Unread
  /\ saves' = saves \cup {[number |-> Unread, left |-> NoQuery]}
  /\ UNCHANGED <<written, storeVars, pageVars, confirmed>>

Committed(s) ==
  /\ s.number = Unread /\ written < MaxWrites
  /\ written' = written + 1
  /\ saves' = (saves \ {s}) \cup {[s EXCEPT !.number = written + 1]}
  /\ UNCHANGED <<storeVars, pageVars, confirmed>>

\* ... which is refused, or answered with an error although it is committed ...
Refused(s) ==
  /\ saves' = saves \ {s}
  /\ UNCHANGED <<written, storeVars, pageVars, confirmed>>

\* What the page of a save is set to, or was when it was left.
AskedBy(s) == IF s.left = NoQuery THEN asked ELSE s.left

\* ... or confirmed, upon which its page loads the list again.
Confirm(s) ==
  /\ s.number # Unread
  /\ saves' = saves \ {s}
  /\ confirmed' = IF s.number > confirmed THEN s.number ELSE confirmed
  /\ strayed' = (s.left # NoQuery)
  /\ Start(AskedBy(s))
  /\ UNCHANGED <<written, asked>>

\* Another user writes.
OtherWrite ==
  /\ written < MaxWrites
  /\ written' = written + 1
  /\ UNCHANGED <<saves, storeVars, pageVars, confirmed>>

Init ==
  /\ written = 0 /\ saves = {} /\ confirmed = 0
  /\ flights = {} /\ requestVersion = 0
  /\ items = [query |-> NoQuery, list |-> 0, summary |-> 0]
  /\ loading = FALSE /\ error = FALSE
  /\ asked = NoQuery /\ strayed = FALSE /\ wanted = NoQuery

AnswerTo(f) == ServeList(f) \/ ServeSummary(f) \/ Emit(f) \/ BreakOff(f)

Next ==
  \/ Open
  \/ \E q \in Query : Load(q)
  \/ \E f \in flights : AnswerTo(f)
  \/ Send \/ OtherWrite
  \/ \E s \in saves : Committed(s) \/ Refused(s) \/ Confirm(s)

\* Every request is answered or fails at last.
Answered == \E f \in flights : AnswerTo(f)

Spec == Init /\ [][Next]_vars /\ WF_vars(Answered)

-----------------------------------------------------------------------------

Page == INSTANCE ListPage WITH shown <- items.query, busy <- loading, broken <- error

\* The stores implement ListPage: whatever the network does to the order of answers,
\* a list never shows the answer to an earlier question than the last.
PageSpec == Page!Spec

\* A save that was confirmed is on the list as soon as the list has settled, in the
\* rows and in the totals beside them.
OwnWritesShown ==
  ~loading /\ ~error => items.list >= confirmed /\ items.summary >= confirmed

\* A settled list is the one that the open page asked for, however it got there: by
\* turning, filtering, saving or opening it while other answers were under way.  Only
\* a save that was confirmed after its page was left brings back what that page had
\* asked for, until the next load.
ShowsWhatPageAsks ==
  ~loading /\ ~error /\ ~strayed => items.query = asked

\* The progress bar does not stay: each load ends in an answer or an error.
LoadingEnds == loading ~> ~loading

=============================================================================
