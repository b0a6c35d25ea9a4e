-------------------------- MODULE ListStoreProofs --------------------------
(***************************************************************************)
(* Proofs about ListStore and PagedList for any pages of any size and any  *)
(* number of rows, loads, saves and writes: a store implements ListPage, a *)
(* settled list shows what the page is set to and the writes it was told   *)
(* are saved, and one who turns all the pages sees every row that kept its *)
(* place.                                                                  *)
(*                                                                         *)
(* The inductive invariant of the store is StoreInv: of the loads under    *)
(* way at most one is current, it carries the last question, and whatever  *)
(* the server has answered it so far is as new as the last write           *)
(* confirmed, because every confirmation starts a load of its own.         *)
(*                                                                         *)
(* That of the paged list, PagedInv, adds where the rows are that a walk   *)
(* has not shown: behind the pages turned, or on the page that has been    *)
(* selected.  Rows are only ever pushed back, while they keep their place. *)
(***************************************************************************)
EXTENDS PagedList, SequenceTheorems, TLAPS

\* The store and its loads.
LoadsInv ==
  /\ \A f \in flights : f.version <= requestVersion
  /\ \A f \in flights : Current(f) => f.query = wanted /\ loading
  /\ ~loading /\ ~error => items.query = wanted

\* The page and its saves.
PageInv ==
  /\ saves # {} => asked # NoQuery
  /\ ~strayed => wanted = asked

\* What is confirmed and what is shown.
WritesInv ==
  /\ confirmed <= written
  /\ \A s \in saves : s.number # Unread => s.number <= written
  /\ \A f \in flights : Current(f) =>
       /\ f.list # Unread => f.list >= confirmed
       /\ f.summary # Unread => f.summary >= confirmed
  /\ OwnWritesShown

StoreInv == TypeOK /\ LoadsInv /\ PageInv /\ WritesInv

USE BoundAssumption, QueryAssumption

-----------------------------------------------------------------------------
(* Loads that start.                                                       *)

\* A new load is the only current one, and asks what is wanted.
LEMMA StartInv ==
  ASSUME StoreInv, NEW q \in Query, Start(q)
  PROVE  /\ LoadsInv' /\ OwnWritesShown'
         /\ flights' \subseteq Flight /\ requestVersion' \in 0..MaxLoads
         /\ \A f, g \in flights' : f.version = g.version => f = g
         /\ {loading', error'} \subseteq BOOLEAN /\ items' = items /\ wanted' = q /\ loading' = TRUE
         /\ \A f \in flights' : Current(f)' => f.list = Unread /\ f.summary = Unread
  <1> DEFINE new == [version |-> requestVersion + 1, query |-> q, list |-> Unread, summary |-> Unread]
  <1>1. /\ requestVersion \in Nat /\ requestVersion' = requestVersion + 1
        /\ flights' = flights \cup {new} /\ loading' = TRUE /\ error' = FALSE
        /\ wanted' = q /\ items' = items /\ requestVersion' \in 0..MaxLoads
    BY DEF Start, StoreInv, TypeOK
  <1>2. new \in Flight
    BY <1>1 DEF Flight, Unread
  <1>3. \A f \in flights : f \in Flight /\ f.version \in Nat /\ f.version <= requestVersion
    BY DEF StoreInv, TypeOK, LoadsInv, Flight
  <1>4. \A f \in flights' : Current(f)' => f = new
    BY <1>1, <1>3 DEF Current
  <1>5. LoadsInv'
    BY <1>1, <1>3, <1>4 DEF LoadsInv
  <1>6. \A f, g \in flights' : f.version = g.version => f = g
    BY <1>1, <1>3 DEF StoreInv, TypeOK
  <1>7. \A f \in flights' : Current(f)' => f.list = Unread /\ f.summary = Unread
    BY <1>4
  <1>8. flights' \subseteq Flight
    BY <1>1, <1>2, <1>3
  <1>9. {loading', error'} \subseteq BOOLEAN /\ OwnWritesShown'
    BY <1>1 DEF OwnWritesShown
  <1> HIDE DEF new
  <1> QED
    BY <1>1, <1>5, <1>6, <1>7, <1>8, <1>9

\* Whoever asks, the new load keeps the invariant if the page and its saves do: it
\* has read nothing yet.
LEMMA AskInv ==
  ASSUME StoreInv, NEW q \in Query, Start(q), UNCHANGED written, PageInv',
         saves' \subseteq [number : 1..Unread, left : Query \cup {NoQuery}],
         asked' \in Query \cup {NoQuery}, strayed' \in BOOLEAN,
         confirmed' \in 0..MaxWrites, confirmed' <= written,
         \A s \in saves' : s.number # Unread => s.number <= written
  PROVE  StoreInv'
  <1>1. TypeOK'
    BY StartInv DEF TypeOK, StoreInv
  <1>2. WritesInv'
    BY StartInv DEF WritesInv
  <1> QED
    BY <1>1, <1>2, StartInv DEF StoreInv

\* A page that turns.
LEMMA LoadInv == ASSUME StoreInv, NEW q \in Query, Load(q) PROVE StoreInv'
  <1>1. PageInv'
    BY StartInv DEF Load, PageInv
  <1> QED
    BY <1>1, AskInv DEF Load, StoreInv, TypeOK, WritesInv

\* A page that opens leaves its predecessor's saves behind.
LEMMA OpenInv == ASSUME StoreInv, Open PROVE StoreInv'
  <1>1. asked' = FirstQuery /\ strayed' = FALSE /\ Start(FirstQuery) /\ UNCHANGED <<written, confirmed>>
    BY DEF Open
  <1>2. PageInv'
    BY <1>1, StartInv DEF PageInv
  <1>3. ASSUME NEW s \in saves
        PROVE  LET r == [s EXCEPT !.left = IF @ = NoQuery THEN asked ELSE @]
               IN  /\ r \in [number : 1..Unread, left : Query \cup {NoQuery}]
                   /\ r.number # Unread => r.number <= written
    BY DEF StoreInv, TypeOK, WritesInv
  <1>4. \A r \in saves' : \E s \in saves :
          r = [s EXCEPT !.left = IF @ = NoQuery THEN asked ELSE @]
    BY DEF Open
  <1>5. /\ saves' \subseteq [number : 1..Unread, left : Query \cup {NoQuery}]
        /\ \A r \in saves' : r.number # Unread => r.number <= written
    BY <1>3, <1>4
  <1>6. confirmed \in 0..MaxWrites /\ confirmed <= written
    BY DEF StoreInv, TypeOK, WritesInv
  <1> QED
    BY <1>1, <1>2, <1>5, <1>6, AskInv

\* A save that is confirmed loads what its page is set to, or was.
LEMMA ConfirmInv == ASSUME StoreInv, NEW s \in saves, Confirm(s) PROVE StoreInv'
  <1>1. /\ s.number \in 1..Unread /\ s.number # Unread /\ s.number <= written
        /\ s.left \in Query \cup {NoQuery}
        /\ confirmed \in 0..MaxWrites /\ confirmed <= written
        /\ asked \in Query
    BY DEF Confirm, StoreInv, TypeOK, WritesInv, PageInv
  <1>2. AskedBy(s) \in Query
    BY <1>1 DEF AskedBy
  <1>3. /\ Start(AskedBy(s)) /\ UNCHANGED <<written, asked>> /\ saves' = saves \ {s}
        /\ confirmed' = (IF s.number > confirmed THEN s.number ELSE confirmed)
        /\ strayed' = (s.left # NoQuery)
    BY DEF Confirm
  <1>4. PageInv'
    BY <1>1, <1>2, <1>3, StartInv DEF AskedBy, PageInv
  <1>5. confirmed' \in 0..MaxWrites /\ confirmed' <= written
    BY <1>1, <1>3 DEF Unread
  <1> QED
    BY <1>1, <1>2, <1>3, <1>4, <1>5, AskInv DEF StoreInv, TypeOK, WritesInv

-----------------------------------------------------------------------------
(* Answers.                                                                *)

\* What the server reads now is at least as new as anything confirmed.
LEMMA ServeInv ==
  ASSUME StoreInv, NEW f \in flights, ServeList(f) \/ ServeSummary(f)
  PROVE  StoreInv'
  <1>1. PICK g : /\ g = [f EXCEPT !.list = written] \/ g = [f EXCEPT !.summary = written]
                 /\ flights' = (flights \ {f}) \cup {g}
    BY DEF ServeList, ServeSummary
  <1>2. UNCHANGED <<written, saves, requestVersion, items, loading, error, wanted, pageVars, confirmed>>
    BY DEF ServeList, ServeSummary
  <1>3. f \in Flight /\ written \in 0..MaxWrites
    BY DEF StoreInv, TypeOK
  <1>4. /\ g \in Flight /\ g.version = f.version /\ g.query = f.query
        /\ g.list \in {f.list, written} /\ g.summary \in {f.summary, written}
    BY <1>1, <1>3 DEF Flight, Unread
  <1>5. \A h, k \in flights' : h.version = k.version => h = k
    BY <1>1, <1>4 DEF StoreInv, TypeOK
  <1>6. TypeOK'
    BY <1>1, <1>2, <1>4, <1>5 DEF StoreInv, TypeOK, pageVars
  <1>7. LoadsInv'
    BY <1>1, <1>2, <1>4 DEF StoreInv, LoadsInv, Current, pageVars
  <1>8. WritesInv'
    BY <1>1, <1>2, <1>3, <1>4 DEF StoreInv, WritesInv, OwnWritesShown, Current
  <1> QED
    BY <1>2, <1>6, <1>7, <1>8 DEF StoreInv, PageInv, pageVars

\* The store takes the answer of the current load, and of no other.
LEMMA EmitInv == ASSUME StoreInv, NEW f \in flights, Emit(f) PROVE StoreInv'
  <1>1. /\ flights' = flights \ {f} /\ Arrived(f)
        /\ UNCHANGED <<written, saves, requestVersion, error, wanted, pageVars, confirmed>>
    BY DEF Emit
  <1>2. CASE ~Current(f)
    <2>1. UNCHANGED <<items, loading>>
      BY <1>2 DEF Emit
    <2> QED
      BY <1>1, <2>1 DEF StoreInv, TypeOK, LoadsInv, PageInv, WritesInv, OwnWritesShown, Current, pageVars
  <1>3. CASE Current(f)
    <2>1. items' = AnswerOf(f) /\ loading' = FALSE
      BY <1>3 DEF Emit
    <2>2. \A g \in flights' : ~Current(g)'
      BY <1>1, <1>3 DEF StoreInv, TypeOK, Current
    <2>3. /\ f \in Flight /\ f.list # Unread /\ f.summary # Unread /\ f.query = wanted
          /\ f.list >= confirmed /\ f.summary >= confirmed
      BY <1>1, <1>3 DEF Arrived, StoreInv, TypeOK, LoadsInv, WritesInv
    <2>4. /\ items' \in [query : Query \cup {NoQuery}, list : 0..MaxWrites, summary : 0..MaxWrites]
          /\ items'.query = f.query /\ items'.list = f.list /\ items'.summary = f.summary
      BY <2>1, <2>3 DEF AnswerOf, Flight
    <2>5. TypeOK'
      BY <1>1, <2>1, <2>4 DEF StoreInv, TypeOK, pageVars
    <2> QED
      BY <1>1, <2>1, <2>2, <2>3, <2>4, <2>5 DEF StoreInv, LoadsInv, PageInv, WritesInv,
         OwnWritesShown, pageVars
  <1> QED
    BY <1>2, <1>3

\* A load that fails.
LEMMA BreakOffInv == ASSUME StoreInv, NEW f \in flights, BreakOff(f) PROVE StoreInv'
  <1>1. /\ flights' = flights \ {f}
        /\ UNCHANGED <<written, saves, requestVersion, items, wanted, pageVars, confirmed>>
    BY DEF BreakOff
  <1>2. CASE ~Current(f)
    <2>1. UNCHANGED <<error, loading>>
      BY <1>2 DEF BreakOff
    <2> QED
      BY <1>1, <2>1 DEF StoreInv, TypeOK, LoadsInv, PageInv, WritesInv, OwnWritesShown, Current, pageVars
  <1>3. CASE Current(f)
    <2>1. error' = TRUE /\ loading' = FALSE
      BY <1>3 DEF BreakOff
    <2>2. \A g \in flights' : ~Current(g)'
      BY <1>1, <1>3 DEF StoreInv, TypeOK, Current
    <2> QED
      BY <1>1, <2>1, <2>2 DEF StoreInv, TypeOK, LoadsInv, PageInv, WritesInv, OwnWritesShown, pageVars
  <1> QED
    BY <1>2, <1>3

-----------------------------------------------------------------------------
(* Saves.                                                                  *)

\* Writes, the page's own and others', that the store has not heard of.
LEMMA WriteInv ==
  ASSUME StoreInv, Send \/ OtherWrite \/ \E s \in saves : Committed(s) \/ Refused(s)
  PROVE  StoreInv'
  <1>1. UNCHANGED <<storeVars, pageVars, confirmed>>
    BY DEF Send, OtherWrite, Committed, Refused
  <1> DEFINE Save == [number : 1..Unread, left : Query \cup {NoQuery}]
  <1>2. /\ written \in 0..MaxWrites /\ saves \subseteq Save /\ Unread = MaxWrites + 1
        /\ saves # {} => asked # NoQuery
        /\ \A s \in saves : s.number # Unread => s.number <= written
    BY DEF StoreInv, TypeOK, PageInv, WritesInv, Unread
  <1>3. /\ written' \in 0..MaxWrites /\ written <= written' /\ saves' \subseteq Save
        /\ saves' # {} => asked # NoQuery
        /\ \A s \in saves' : s.number # Unread => s.number <= written'
    <2>1. CASE Send
      <3>1. [number |-> Unread, left |-> NoQuery] \in Save
        BY <1>2
      <3> QED
        BY <1>2, <2>1, <3>1 DEF Send
    <2>2. CASE OtherWrite
      BY <1>2, <2>2 DEF OtherWrite
    <2>3. CASE \E s \in saves : Committed(s)
      <3>1. PICK s \in saves : Committed(s)
        BY <2>3
      <3>2. [s EXCEPT !.number = written + 1] \in Save
        BY <1>2, <3>1 DEF Committed
      <3> QED
        BY <1>2, <3>1, <3>2 DEF Committed
    <2>4. CASE \E s \in saves : Refused(s)
      BY <1>2, <2>4 DEF Refused
    <2> QED
      BY <2>1, <2>2, <2>3, <2>4
  <1> QED
    BY <1>1, <1>3 DEF StoreInv, TypeOK, LoadsInv, PageInv, WritesInv, OwnWritesShown, Current,
       storeVars, pageVars

-----------------------------------------------------------------------------
(* The store.                                                              *)

\* Nothing has been loaded yet.
LEMMA InitStoreInv == Init => StoreInv
  <1> SUFFICES ASSUME Init PROVE StoreInv
    OBVIOUS
  <1>1. 0 \in 0..MaxWrites /\ 0 \in 0..MaxLoads
    OBVIOUS
  <1>2. items.query = NoQuery /\ items.list = 0 /\ items.summary = 0
    BY DEF Init
  <1>3. TypeOK
    BY <1>1 DEF Init, TypeOK
  <1> QED
    BY <1>2, <1>3 DEF Init, StoreInv, LoadsInv, PageInv, WritesInv, OwnWritesShown

\* The invariant is inductive.
LEMMA StoreStep == StoreInv /\ [Next]_vars => StoreInv'
  <1> SUFFICES ASSUME StoreInv, [Next]_vars PROVE StoreInv'
    OBVIOUS
  <1>1. CASE UNCHANGED vars
    BY <1>1 DEF vars, storeVars, pageVars, StoreInv, TypeOK, LoadsInv, PageInv, WritesInv,
       OwnWritesShown, Current
  <1>2. ASSUME NEW f \in flights, AnswerTo(f) PROVE StoreInv'
    BY <1>2, ServeInv, EmitInv, BreakOffInv DEF AnswerTo
  <1>3. CASE Next
    BY <1>2, <1>3, OpenInv, LoadInv, ConfirmInv, WriteInv DEF Next
  <1> QED
    BY <1>1, <1>3

\* In every state at most one load is current; it carries the last question and
\* whatever it was answered is as new as the last write confirmed.
THEOREM StoreInvariance == Spec => []StoreInv
  BY InitStoreInv, StoreStep, PTL DEF Spec

\* A save that was confirmed is on the list as soon as the list has settled, in the
\* rows and in the totals beside them: its confirmation starts a load that the
\* server answers after the write, and older answers are dropped.
THEOREM ConfirmedWritesAreShown == Spec => []OwnWritesShown
  <1>1. StoreInv => OwnWritesShown
    BY DEF StoreInv, WritesInv
  <1> QED
    BY <1>1, StoreInvariance, PTL

\* A settled list is the one the open page asked for, unless a save of a page that
\* was left has been confirmed since.
THEOREM PagesGetWhatTheyAsk == Spec => []ShowsWhatPageAsks
  <1>1. StoreInv => ShowsWhatPageAsks
    BY DEF StoreInv, LoadsInv, PageInv, ShowsWhatPageAsks
  <1> QED
    BY <1>1, StoreInvariance, PTL

-----------------------------------------------------------------------------
(* The store implements ListPage.                                          *)

\* Starting a load is wanting its query.
LEMMA StartWants == ASSUME NEW q \in Query, Start(q) PROVE Page!Next
  BY DEF Start, Page!Next, Page!Want

\* Only the answer to the last question is shown, and only while it is awaited; all
\* else is invisible to the reader.
LEMMA StoreRefines == StoreInv /\ [Next]_vars => [Page!Next]_(Page!pageVars)
  <1> SUFFICES ASSUME StoreInv, [Next]_vars PROVE Page!Next \/ UNCHANGED Page!pageVars
    OBVIOUS
  <1>1. CASE UNCHANGED <<items, loading, error, wanted>>
    BY <1>1 DEF Page!pageVars
  <1>2. ASSUME NEW q \in Query, Start(q) PROVE Page!Next
    BY <1>2, StartWants
  <1>3. ASSUME NEW f \in flights, Emit(f) PROVE Page!Next \/ UNCHANGED Page!pageVars
    <2>1. CASE Current(f)
      <3>1. loading /\ f.query = wanted
        BY <2>1 DEF StoreInv, LoadsInv
      <3>2. items'.query = wanted /\ loading' = FALSE /\ UNCHANGED <<wanted, error>>
        BY <1>3, <2>1, <3>1 DEF Emit, AnswerOf
      <3> QED
        BY <3>1, <3>2 DEF Page!Next, Page!Show
    <2>2. CASE ~Current(f)
      BY <1>1, <1>3, <2>2 DEF Emit
    <2> QED
      BY <2>1, <2>2
  <1>4. ASSUME NEW f \in flights, BreakOff(f) PROVE Page!Next \/ UNCHANGED Page!pageVars
    <2>1. CASE Current(f)
      <3>1. loading
        BY <2>1 DEF StoreInv, LoadsInv
      <3>2. error' = TRUE /\ loading' = FALSE /\ UNCHANGED <<wanted, items>>
        BY <1>4, <2>1 DEF BreakOff
      <3> QED
        BY <3>1, <3>2 DEF Page!Next, Page!Break
    <2>2. CASE ~Current(f)
      BY <1>1, <1>4, <2>2 DEF BreakOff
    <2> QED
      BY <2>1, <2>2
  <1>5. ASSUME NEW f \in flights, ServeList(f) \/ ServeSummary(f) PROVE UNCHANGED Page!pageVars
    BY <1>5 DEF ServeList, ServeSummary, Page!pageVars
  <1>6. ASSUME NEW s \in saves, Confirm(s) PROVE Page!Next
    <2>1. AskedBy(s) \in Query
      BY DEF AskedBy, StoreInv, TypeOK, PageInv
    <2> QED
      BY <1>2, <1>6, <2>1 DEF Confirm
  <1>7. CASE Send \/ OtherWrite \/ \E s \in saves : Committed(s) \/ Refused(s)
    BY <1>7 DEF Send, OtherWrite, Committed, Refused, storeVars, Page!pageVars
  <1>8. CASE UNCHANGED vars
    BY <1>8 DEF vars, storeVars, Page!pageVars
  <1>9. CASE Open \/ \E q \in Query : Load(q)
    BY <1>2, <1>9 DEF Open, Load
  <1> QED
    BY <1>3, <1>4, <1>5, <1>6, <1>7, <1>8, <1>9 DEF Next, AnswerTo

\* Whatever the network does to the order of answers, a list never shows the answer
\* to an earlier question than the last.
THEOREM StoreImplementsPage == Spec => PageSpec
  <1>1. Init => Page!Init
    BY DEF Init, Page!Init
  <1> QED
    BY <1>1, StoreInvariance, StoreRefines, PTL DEF Spec, PageSpec, Page!Spec

-----------------------------------------------------------------------------
(* Sequences.                                                              *)

\* One sequence behind another, as a function.
LEMMA ConcatIs ==
  ASSUME NEW S, NEW a \in Seq(S), NEW b \in Seq(S)
  PROVE  /\ a \o b \in Seq(S) /\ Len(a \o b) = Len(a) + Len(b)
         /\ a \o b = [j \in 1..Len(a) + Len(b) |-> IF j <= Len(a) THEN a[j] ELSE b[j - Len(a)]]
  <1> DEFINE t == a \o b
  <1>1. /\ t \in Seq(S) /\ Len(t) = Len(a) + Len(b)
        /\ \A j \in 1..Len(a) + Len(b) : t[j] = IF j <= Len(a) THEN a[j] ELSE b[j - Len(a)]
    BY ConcatProperties
  <1> HIDE DEF t
  <1>2. t = [j \in 1..Len(t) |-> t[j]]
    BY <1>1, LenProperties
  <1>3. t = [j \in 1..Len(a) + Len(b) |-> IF j <= Len(a) THEN a[j] ELSE b[j - Len(a)]]
    BY <1>1, <1>2, Zenon
  <1> QED
    BY <1>1, <1>3 DEF t

\* What SubSeq cuts out, as a function.
LEMMA SubSeqIs ==
  ASSUME NEW S, NEW s \in Seq(S), NEW m \in Nat, NEW n \in Nat, m <= n, n <= Len(s)
  PROVE  /\ SubSeq(s, m + 1, n) \in Seq(S) /\ Len(SubSeq(s, m + 1, n)) = n - m
         /\ SubSeq(s, m + 1, n) = [j \in 1..n - m |-> s[m + j]]
  <1> DEFINE t == SubSeq(s, m + 1, n)
  <1>1. \A j \in m + 1..n : s[j] \in S
    OBVIOUS
  <1>2. /\ t \in Seq(S) /\ Len(t) = (IF m + 1 <= n THEN n - (m + 1) + 1 ELSE 0)
        /\ \A j \in 1..n - (m + 1) + 1 : t[j] = s[(m + 1) + j - 1]
    BY <1>1, SubSeqProperties
  <1>3. \A j \in 1..n - m : j \in 1..n - (m + 1) + 1 /\ (m + 1) + j - 1 = m + j
    OBVIOUS
  <1> HIDE DEF t
  <1>4. Len(t) = n - m /\ \A j \in 1..n - m : t[j] = s[m + j]
    BY <1>2, <1>3
  <1>5. t = [j \in 1..Len(t) |-> t[j]]
    BY <1>2, LenProperties
  <1>6. t = [j \in 1..n - m |-> s[m + j]]
    BY <1>4, <1>5, Zenon
  <1> QED
    BY <1>2, <1>4, <1>6 DEF t

\* InsertAt shifts what is at its place and behind it, as a function.
LEMMA InsertAtIs ==
  ASSUME NEW S, NEW s \in Seq(S), NEW i \in Nat \ {0}, i <= Len(s) + 1, NEW e \in S
  PROVE  /\ InsertAt(s, i, e) \in Seq(S)
         /\ InsertAt(s, i, e) =
              [j \in 1..Len(s) + 1 |-> IF j < i THEN s[j] ELSE IF j = i THEN e ELSE s[j - 1]]
  <1> DEFINE a == SubSeq(s, 1, i - 1)
             b == SubSeq(s, i, Len(s))
             h == a \o <<e>>
  <1>1. i - 1 \in Nat /\ 0 + 1 = 1 /\ i - 1 + 1 = i /\ Len(s) \in Nat
    OBVIOUS
  <1>2. a \in Seq(S) /\ Len(a) = i - 1 /\ a = [j \in 1..i - 1 |-> s[j]]
    <2>1. /\ SubSeq(s, 0 + 1, i - 1) \in Seq(S) /\ Len(SubSeq(s, 0 + 1, i - 1)) = i - 1 - 0
          /\ SubSeq(s, 0 + 1, i - 1) = [j \in 1..i - 1 - 0 |-> s[0 + j]]
      BY <1>1, SubSeqIs
    <2>2. [j \in 1..i - 1 - 0 |-> s[0 + j]] = [j \in 1..i - 1 |-> s[j]]
      BY <1>1
    <2> QED
      BY <1>1, <2>1, <2>2
  <1>3. b \in Seq(S) /\ Len(b) = Len(s) - (i - 1) /\ b = [j \in 1..Len(s) - (i - 1) |-> s[i - 1 + j]]
    <2>1. /\ SubSeq(s, i - 1 + 1, Len(s)) \in Seq(S)
          /\ Len(SubSeq(s, i - 1 + 1, Len(s))) = Len(s) - (i - 1)
          /\ SubSeq(s, i - 1 + 1, Len(s)) = [j \in 1..Len(s) - (i - 1) |-> s[i - 1 + j]]
      BY <1>1, SubSeqIs
    <2> QED
      BY <1>1, <2>1
  <1> HIDE DEF a, b
  <1>4. <<e>> \in Seq(S) /\ Len(<<e>>) = 1 /\ <<e>>[1] = e
    OBVIOUS
  <1>5. /\ h \in Seq(S) /\ Len(h) = Len(a) + Len(<<e>>)
        /\ h = [j \in 1..Len(a) + Len(<<e>>) |-> IF j <= Len(a) THEN a[j] ELSE <<e>>[j - Len(a)]]
    BY <1>2, <1>4, ConcatIs
  <1> HIDE DEF h
  <1>6. Len(h) = i /\ \A j \in 1..i : h[j] = IF j < i THEN s[j] ELSE e
    BY <1>1, <1>2, <1>4, <1>5
  <1>7. /\ h \o b \in Seq(S)
        /\ h \o b = [j \in 1..Len(h) + Len(b) |-> IF j <= Len(h) THEN h[j] ELSE b[j - Len(h)]]
    <2>1. h \in Seq(S) /\ b \in Seq(S)
      BY <1>3, <1>5
    <2> QED
      BY <2>1, ConcatIs
  <1>8. Len(h) + Len(b) = Len(s) + 1
    BY <1>1, <1>3, <1>6
  <1>9. ASSUME NEW j \in 1..Len(s) + 1
        PROVE  (IF j <= Len(h) THEN h[j] ELSE b[j - Len(h)])
                 = IF j < i THEN s[j] ELSE IF j = i THEN e ELSE s[j - 1]
    <2>1. CASE j <= i
      BY <1>1, <1>6, <2>1
    <2>2. CASE j > i
      <3>1. j - i \in 1..Len(s) - (i - 1) /\ i - 1 + (j - i) = j - 1
        BY <1>1, <2>2
      <3>2. b[j - i] = s[j - 1]
        BY <1>3, <3>1
      <3> QED
        BY <1>1, <1>6, <2>2, <3>2
    <2> QED
      BY <1>1, <2>1, <2>2
  <1>10. h \o b = [j \in 1..Len(s) + 1 |-> IF j < i THEN s[j] ELSE IF j = i THEN e ELSE s[j - 1]]
    BY <1>7, <1>8, <1>9, Zenon
  <1>11. InsertAt(s, i, e) = h \o b
    BY DEF InsertAt, a, b, h
  <1> QED
    BY <1>7, <1>10, <1>11

\* RemoveAt moves up what is behind the place, as a function.
LEMMA RemoveAtIs ==
  ASSUME NEW S, NEW s \in Seq(S), NEW i \in 1..Len(s)
  PROVE  /\ RemoveAt(s, i) \in Seq(S) /\ Len(RemoveAt(s, i)) = Len(s) - 1
         /\ RemoveAt(s, i) = [j \in 1..Len(s) - 1 |-> IF j < i THEN s[j] ELSE s[j + 1]]
  <1> DEFINE a == SubSeq(s, 1, i - 1)
             b == SubSeq(s, i + 1, Len(s))
  <1>1. i - 1 \in Nat /\ i \in Nat /\ 0 + 1 = 1 /\ Len(s) \in Nat
    OBVIOUS
  <1>2. a \in Seq(S) /\ Len(a) = i - 1 /\ a = [j \in 1..i - 1 |-> s[j]]
    <2>1. /\ SubSeq(s, 0 + 1, i - 1) \in Seq(S) /\ Len(SubSeq(s, 0 + 1, i - 1)) = i - 1 - 0
          /\ SubSeq(s, 0 + 1, i - 1) = [j \in 1..i - 1 - 0 |-> s[0 + j]]
      BY <1>1, SubSeqIs
    <2>2. [j \in 1..i - 1 - 0 |-> s[0 + j]] = [j \in 1..i - 1 |-> s[j]]
      BY <1>1
    <2> QED
      BY <1>1, <2>1, <2>2
  <1>3. b \in Seq(S) /\ Len(b) = Len(s) - i /\ b = [j \in 1..Len(s) - i |-> s[i + j]]
    BY <1>1, SubSeqIs
  <1> HIDE DEF a, b
  <1>4. /\ a \o b \in Seq(S) /\ Len(a \o b) = Len(a) + Len(b)
        /\ a \o b = [j \in 1..Len(a) + Len(b) |-> IF j <= Len(a) THEN a[j] ELSE b[j - Len(a)]]
    BY <1>2, <1>3, ConcatIs
  <1>5. Len(a) + Len(b) = Len(s) - 1
    BY <1>1, <1>2, <1>3
  <1>6. ASSUME NEW j \in 1..Len(s) - 1
        PROVE  (IF j <= Len(a) THEN a[j] ELSE b[j - Len(a)]) = IF j < i THEN s[j] ELSE s[j + 1]
    <2>1. CASE j < i
      BY <1>1, <1>2, <2>1
    <2>2. CASE j >= i
      <3>1. j - (i - 1) \in 1..Len(s) - i /\ i + (j - (i - 1)) = j + 1
        BY <1>1, <2>2
      <3>2. b[j - (i - 1)] = s[j + 1]
        BY <1>3, <3>1
      <3> QED
        BY <1>1, <1>2, <2>2, <3>2
    <2> QED
      BY <1>1, <2>1, <2>2
  <1>7. a \o b = [j \in 1..Len(s) - 1 |-> IF j < i THEN s[j] ELSE s[j + 1]]
    BY <1>4, <1>5, <1>6, Zenon
  <1>8. RemoveAt(s, i) = a \o b
    BY DEF RemoveAt, a, b
  <1> QED
    BY <1>4, <1>5, <1>7, <1>8

\* The row at place i put first: those before it move down by one, those behind it stay.
LEMMA MoveFirstIs ==
  ASSUME NEW S, NEW s \in Seq(S), NEW i \in 1..Len(s)
  PROVE  /\ <<s[i]>> \o RemoveAt(s, i) \in Seq(S)
         /\ <<s[i]>> \o RemoveAt(s, i) =
              [j \in 1..Len(s) |-> IF j = 1 THEN s[i] ELSE IF j <= i THEN s[j - 1] ELSE s[j]]
  <1> DEFINE t == RemoveAt(s, i)
             u == <<s[i]>> \o t
             one == <<s[i]>>
  <1>1. /\ t \in Seq(S) /\ Len(t) = Len(s) - 1
        /\ t = [j \in 1..Len(s) - 1 |-> IF j < i THEN s[j] ELSE s[j + 1]]
    BY RemoveAtIs
  <1>2. one \in Seq(S) /\ Len(one) = 1 /\ one[1] = s[i] /\ Len(s) \in Nat
    OBVIOUS
  <1> HIDE DEF t
  <1>3. /\ u \in Seq(S)
        /\ u = [j \in 1..Len(one) + Len(t) |-> IF j <= Len(one) THEN one[j] ELSE t[j - Len(one)]]
    BY <1>1, <1>2, ConcatIs
  <1>4. Len(one) + Len(t) = Len(s)
    BY <1>1, <1>2
  <1> HIDE DEF one
  <1>5. ASSUME NEW j \in 1..Len(s)
        PROVE  (IF j <= Len(one) THEN one[j] ELSE t[j - Len(one)])
                 = IF j = 1 THEN s[i] ELSE IF j <= i THEN s[j - 1] ELSE s[j]
    <2>1. CASE j = 1
      BY <1>2, <2>1
    <2>2. CASE j # 1
      <3>1. j - 1 \in 1..Len(s) - 1 /\ j - 1 + 1 = j /\ (j - 1 < i <=> j <= i) /\ ~(j <= 1)
        BY <1>2, <2>2
      <3>2. t[j - 1] = IF j <= i THEN s[j - 1] ELSE s[j]
        BY <1>1, <3>1
      <3> QED
        BY <1>2, <2>2, <3>1, <3>2
    <2> QED
      BY <2>1, <2>2
  <1> HIDE DEF u
  <1>6. u = [j \in 1..Len(s) |-> IF j = 1 THEN s[i] ELSE IF j <= i THEN s[j - 1] ELSE s[j]]
    BY <1>3, <1>4, <1>5, Zenon
  <1> QED
    BY <1>3, <1>6 DEF t, u

-----------------------------------------------------------------------------
(* Rows of a list.                                                         *)

\* The rows of a list behind position n.
Past(list, n) == {list[i] : i \in {j \in DOMAIN list : j > n}}

\* A row that is inserted leaves every other at its place or pushes it back.
LEMMA InsertedRows ==
  ASSUME NEW s \in Seq(Nat), IsInjective(s), NEW i \in Nat \ {0}, i <= Len(s) + 1,
         NEW e \in Nat, e \notin Range(s)
  PROVE  /\ InsertAt(s, i, e) \in Seq(Nat) /\ IsInjective(InsertAt(s, i, e))
         /\ Range(InsertAt(s, i, e)) \subseteq Range(s) \cup {e}
         /\ \A n \in Nat : Past(s, n) \subseteq Past(InsertAt(s, i, e), n)
  <1> DEFINE t == InsertAt(s, i, e)
  <1>1. DOMAIN s = 1..Len(s) /\ Len(s) \in Nat /\ \A j \in DOMAIN s : s[j] # e
    BY DEF Range
  <1>2. /\ t \in Seq(Nat)
        /\ t = [j \in 1..Len(s) + 1 |-> IF j < i THEN s[j] ELSE IF j = i THEN e ELSE s[j - 1]]
    BY InsertAtIs
  <1> HIDE DEF t
  <1>3. DOMAIN t = 1..Len(s) + 1
    BY <1>2
  <1>4. ASSUME NEW j \in DOMAIN t
        PROVE  \/ j = i /\ t[j] = e
               \/ j < i /\ j \in DOMAIN s /\ t[j] = s[j]
               \/ j > i /\ j - 1 \in DOMAIN s /\ t[j] = s[j - 1]
    BY <1>1, <1>2
  <1>5. \A j \in DOMAIN t : t[j] = e <=> j = i
    BY <1>1, <1>4
  <1>6. ASSUME NEW j \in DOMAIN t, NEW k \in DOMAIN t, t[j] = t[k] PROVE j = k
    <2>1. CASE j = i \/ k = i
      BY <1>5, <1>6, <2>1, Zenon
    <2>2. CASE j # i /\ k # i
      <3>1. PICK a \in DOMAIN s : t[j] = s[a] /\ \/ j < i /\ a = j
                                                 \/ j > i /\ a = j - 1
        BY <1>4, <2>2
      <3>2. PICK b \in DOMAIN s : t[k] = s[b] /\ \/ k < i /\ b = k
                                                 \/ k > i /\ b = k - 1
        BY <1>4, <2>2
      <3>3. a = b
        BY <1>6, <3>1, <3>2 DEF IsInjective
      <3>4. j \in Int /\ k \in Int
        BY <1>3
      <3> QED
        BY <3>1, <3>2, <3>3, <3>4
    <2> QED
      BY <2>1, <2>2
  <1>7. Range(t) \subseteq Range(s) \cup {e}
    BY <1>4 DEF Range
  <1>8. ASSUME NEW n \in Nat, NEW r \in Past(s, n) PROVE r \in Past(t, n)
    <2>1. PICK j \in DOMAIN s : r = s[j] /\ j > n
      BY Zenon DEF Past
    <2>2. PICK k \in {j, j + 1} : k \in DOMAIN t /\ t[k] = s[j] /\ k > n
      <3>1. CASE j < i
        <4>1. j \in DOMAIN t /\ t[j] = s[j] /\ j > n
          BY <1>1, <1>2, <2>1, <3>1
        <4> QED
          BY <4>1
      <3>2. CASE j >= i
        <4>1. j + 1 \in DOMAIN t /\ t[j + 1] = s[j] /\ j + 1 > n
          BY <1>1, <1>2, <2>1, <3>2
        <4> QED
          BY <4>1
      <3> QED
        BY <1>1, <3>1, <3>2
    <2> QED
      BY <2>1, <2>2, Zenon DEF Past
  <1>9. IsInjective(t) /\ \A n \in Nat : Past(s, n) \subseteq Past(t, n)
    BY <1>6, <1>8, Zenon DEF IsInjective
  <1> QED
    BY <1>2, <1>7, <1>9 DEF t

\* A row that moves to the front leaves every other at its place or pushes it back.
LEMMA MovedRows ==
  ASSUME NEW s \in Seq(Nat), IsInjective(s), NEW i \in 1..Len(s)
  PROVE  LET t == <<s[i]>> \o RemoveAt(s, i)
         IN  /\ t \in Seq(Nat) /\ Len(t) = Len(s) /\ IsInjective(t) /\ Range(t) \subseteq Range(s)
             /\ \A n \in Nat : Past(s, n) \ {s[i]} \subseteq Past(t, n)
  <1> DEFINE t == <<s[i]>> \o RemoveAt(s, i)
             of == [j \in 1..Len(s) |-> IF j = 1 THEN i ELSE IF j <= i THEN j - 1 ELSE j]
  <1>1. /\ t \in Seq(Nat)
        /\ t = [j \in 1..Len(s) |-> IF j = 1 THEN s[i] ELSE IF j <= i THEN s[j - 1] ELSE s[j]]
    BY MoveFirstIs
  <1> HIDE DEF t
  <1>2. DOMAIN s = 1..Len(s) /\ DOMAIN t = 1..Len(s) /\ Len(s) \in Nat /\ Len(t) = Len(s)
    BY <1>1
  <1>3. of \in [DOMAIN t -> DOMAIN s] /\ \A j \in DOMAIN t : t[j] = s[of[j]]
    BY <1>1, <1>2
  <1>4. IsInjective(of)
    BY <1>2 DEF IsInjective
  <1>5. IsInjective(t) /\ Range(t) \subseteq Range(s)
    <2> HIDE DEF of
    <2> QED
      BY <1>3, <1>4 DEF IsInjective, Range
  <1>6. ASSUME NEW n \in Nat, NEW r \in Past(s, n), r # s[i] PROVE r \in Past(t, n)
    <2>1. PICK j \in DOMAIN s : r = s[j] /\ j > n
      BY Zenon DEF Past
    <2>2. PICK k \in {j, j + 1} : k \in DOMAIN t /\ t[k] = s[j] /\ k > n
      <3>1. CASE j > i
        <4>1. j \in DOMAIN t /\ t[j] = s[j] /\ j > n
          BY <1>1, <1>2, <2>1, <3>1
        <4> QED
          BY <4>1
      <3>2. CASE j < i
        <4>1. j + 1 \in DOMAIN t /\ t[j + 1] = s[j] /\ j + 1 > n
          BY <1>1, <1>2, <2>1, <3>2
        <4> QED
          BY <4>1
      <3> QED
        BY <1>2, <1>6, <2>1, <3>1, <3>2
    <2> QED
      BY <2>1, <2>2, Zenon DEF Past
  <1>7. \A n \in Nat : Past(s, n) \ {s[i]} \subseteq Past(t, n)
    BY <1>6
  <1> QED
    BY <1>1, <1>2, <1>5, <1>7 DEF t

\* A row that leaves makes none of the others appear twice.
LEMMA LeftRows ==
  ASSUME NEW s \in Seq(Nat), IsInjective(s), NEW i \in 1..Len(s)
  PROVE  LET t == RemoveAt(s, i)
         IN  t \in Seq(Nat) /\ IsInjective(t) /\ Range(t) \subseteq Range(s)
  <1> DEFINE t == RemoveAt(s, i)
             of == [j \in 1..Len(s) - 1 |-> IF j < i THEN j ELSE j + 1]
  <1>1. t \in Seq(Nat) /\ t = [j \in 1..Len(s) - 1 |-> IF j < i THEN s[j] ELSE s[j + 1]]
    BY RemoveAtIs
  <1> HIDE DEF t
  <1>2. DOMAIN s = 1..Len(s) /\ DOMAIN t = 1..Len(s) - 1 /\ Len(s) \in Nat
    BY <1>1
  <1>3. of \in [DOMAIN t -> DOMAIN s] /\ \A j \in DOMAIN t : t[j] = s[of[j]]
    BY <1>1, <1>2
  <1>4. IsInjective(of)
    BY <1>2 DEF IsInjective
  <1> HIDE DEF of
  <1>5. IsInjective(t) /\ Range(t) \subseteq Range(s)
    BY <1>3, <1>4 DEF IsInjective, Range
  <1> QED
    BY <1>1, <1>5 DEF t

\* However the database orders tied rows, it moves no other.
LEMMA OrderedPast ==
  ASSUME NEW s \in Seq(Nat), NEW list \in Orders(s)
  PROVE  /\ list \in Seq(Nat)
         /\ \A n \in Nat : Past(s, n) \ Tied \subseteq Past(list, n)
         /\ \A n \in Nat : Past(list, n) \ Tied \subseteq Past(s, n)
  <1>1. CASE list = s
    BY <1>1
  <1>2. CASE list # s
    <2>1. list = [i \in DOMAIN s |-> IF s[i] \in Tied THEN 5 - s[i] ELSE s[i]]
      BY <1>2 DEF Orders
    <2>2. Tied \subseteq {2, 3}
      BY DEF Tied
    <2>3. DOMAIN s = 1..Len(s) /\ Len(s) \in Nat /\ \A i \in DOMAIN s : s[i] \in Nat
      OBVIOUS
    <2>4. list \in [1..Len(s) -> Nat]
      BY <2>1, <2>2, <2>3
    <2>5. list \in Seq(Nat)
      BY <2>3, <2>4, IsASeq, SMT
    <2>6. \A i \in DOMAIN s : s[i] \notin Tied \/ list[i] \notin Tied => list[i] = s[i]
      BY <2>1, <2>3 DEF Tied
    <2>7. DOMAIN list = DOMAIN s
      BY <2>1
    <2> QED
      BY <2>5, <2>6, <2>7 DEF Past
  <1> QED
    BY <1>1, <1>2

\* What is behind the page before is on the page or behind it (PageOf: OFFSET and LIMIT).
LEMMA PagePast ==
  ASSUME NEW list \in Seq(Nat), NEW p \in Nat \ {0}, NEW page, page = PageOf(list, p)
  PROVE  /\ Range(page) \subseteq Nat
         /\ Past(list, (p - 1) * PageSize) \ Range(page) \subseteq Past(list, p * PageSize)
  <1> DEFINE m == (p - 1) * PageSize
             n == p * PageSize
             last == IF n < Len(list) THEN n ELSE Len(list)
  <1>1. m \in Nat /\ n \in Nat /\ m <= n
    BY PageSizeAssumption
  <1>2. page = SubSeq(list, m + 1, last)
    BY DEF PageOf
  <1> HIDE DEF m, n
  <1>3. last \in Nat /\ last <= Len(list) /\ Len(list) \in Nat /\ DOMAIN list = 1..Len(list)
    BY <1>1
  <1>4. CASE m > last
    <2>1. page = <<>>
      <3> HIDE DEF last
      <3> QED
        BY <1>1, <1>2, <1>3, <1>4, SubSeqEmpty
    <2>2. Range(page) = {}
      BY <2>1 DEF Range
    <2>3. Past(list, m) = {}
      BY <1>1, <1>3, <1>4 DEF Past
    <2> QED
      BY <2>2, <2>3 DEF m, n
  <1>5. CASE m <= last
    <2>1. page \in Seq(Nat) /\ page = [i \in 1..last - m |-> list[m + i]]
      <3> HIDE DEF last
      <3> QED
        BY <1>1, <1>2, <1>3, <1>5, SubSeqIs
    <2>2. DOMAIN page = 1..last - m /\ Range(page) \subseteq Nat
      <3>1. \A i \in 1..last - m : page[i] \in Nat
        BY <1>1, <1>3, <1>5, <2>1
      <3> QED
        BY <2>1, <3>1 DEF Range
    <2>3. ASSUME NEW i \in DOMAIN list, i > m, i <= n PROVE list[i] \in Range(page)
      <3>1. i - m \in 1..last - m /\ m + (i - m) = i
        BY <1>1, <1>3, <2>3
      <3>2. i - m \in DOMAIN page /\ page[i - m] = list[i]
        <4> HIDE DEF last
        <4> QED
          BY <2>1, <2>2, <3>1
      <3> QED
        BY <3>2 DEF Range
    <2>4. Past(list, m) \ Range(page) \subseteq Past(list, n)
      BY <1>1, <1>3, <2>3 DEF Past
    <2> QED
      BY <2>2, <2>4 DEF m, n
  <1> QED
    BY <1>1, <1>3, <1>4, <1>5

-----------------------------------------------------------------------------
(* Walks.                                                                  *)

\* The pages that have been shown, and the rows that have kept their place and have not.
Turned  == IF loading \/ error THEN asked - 1 ELSE asked
Missing == stayed \ seen

\* The rows, each of which has a number of its own.
RowsInv ==
  /\ reader \in Reader
  /\ rows \in Seq(Nat) /\ IsInjective(rows)
  /\ \A r \in Range(rows) : r <= reader.rows + written
  /\ stayed \subseteq Nat /\ seen \subseteq Nat
  /\ gone \in BOOLEAN /\ raced \in BOOLEAN

\* What has been counted and selected for loads under way.
AnswersInv ==
  /\ DOMAIN found \subseteq DOMAIN totals
  /\ DOMAIN totals \subseteq {f.version : f \in flights}
  /\ \A v \in DOMAIN totals : totals[v] \in Nat
  /\ \A v \in DOMAIN found : Range(found[v]) \subseteq Nat
  /\ total \in Nat
  /\ ~reader.walks => DOMAIN totals = {}

\* One who walks does nothing else.
AloneInv ==
  /\ saves = {} /\ strayed = FALSE
  /\ loading \/ error \/ stayed # {} => asked # NoQuery
  /\ stayed \cap Tied = {}
  /\ \A f \in flights : Current(f) /\ (f.list # Unread <=> f.version \in DOMAIN found)

\* Where the rows are that have not been shown.
WalkInv ==
  /\ Missing \subseteq Past(rows, Turned * PageSize)
  /\ \A v \in DOMAIN found :
       /\ Missing \ Range(found[v]) \subseteq Past(rows, asked * PageSize)
       /\ Missing \subseteq Range(found[v]) \/ raced \/ totals[v] > asked * PageSize
  /\ \A v \in DOMAIN totals \ DOMAIN found : raced \/ totals[v] = Len(rows)
  /\ Missing = {} \/ loading \/ error \/ raced \/ total > asked * PageSize

\* The invariant of a paged list.
PagedInv ==
  /\ StoreInv /\ RowsInv /\ AnswersInv
  /\ reader.walks => AloneInv /\ (~gone => WalkInv)

\* Pages end at positions.
LEMMA Positions ==
  /\ \A n \in Nat : n * PageSize \in Nat
  /\ 0 * PageSize = 0
  BY PageSizeAssumption

\* One who walks has at most one load under way, for the page the walk has come to.
LEMMA WalkerFacts ==
  ASSUME PagedInv, reader.walks
  PROVE  /\ asked \in Nat /\ Turned \in Nat
         /\ ~loading => flights = {} /\ DOMAIN totals = {} /\ DOMAIN found = {}
         /\ \A f \in flights :
              f \in Flight /\ loading /\ f.query = asked /\ asked \in Nat \ {0} /\ Turned = asked - 1
         /\ \A f, g \in flights : f = g
  <1>1. asked \in Query \cup {0} /\ Query \subseteq Nat \ {0} /\ {loading, error} \subseteq BOOLEAN
    BY PagesAssumption DEF PagedInv, StoreInv, TypeOK
  <1>2. loading \/ error => asked # 0
    BY PagesAssumption DEF PagedInv, AloneInv
  <1>3. asked \in Nat /\ Turned \in Nat
    BY <1>1, <1>2 DEF Turned
  <1>4. \A f \in flights : Current(f) /\ loading /\ f.query = wanted /\ f \in Flight
    BY DEF PagedInv, StoreInv, TypeOK, LoadsInv, AloneInv
  <1>5. wanted = asked
    BY DEF PagedInv, AloneInv, StoreInv, PageInv
  <1>6. \A f, g \in flights : f = g
    BY <1>4 DEF PagedInv, StoreInv, TypeOK, Current
  <1>7. flights = {} => DOMAIN totals = {} /\ DOMAIN found = {}
    BY DEF PagedInv, AnswersInv
  <1>8. \A f \in flights :
          f \in Flight /\ loading /\ f.query = asked /\ asked \in Nat \ {0} /\ Turned = asked - 1
    BY <1>1, <1>2, <1>4, <1>5 DEF Turned
  <1>9. ~loading => flights = {}
    BY <1>4
  <1> QED
    BY <1>3, <1>6, <1>7, <1>8, <1>9

\* Whatever a paged list does, the store within it does one of its steps or none.
LEMMA PagedStoreStep ==
  ASSUME PagedInv, [PagedNext]_pagedVars PROVE [Next]_vars
  <1>1. CASE UNCHANGED pagedVars
    BY <1>1 DEF pagedVars
  <1>2. CASE reader.walks /\ BeginWalk
    BY <1>2 DEF BeginWalk, Next
  <1>3. CASE reader.walks /\ TurnPage /\ asked' <= reader.pages
    <2>1. /\ reader.pages \in Nat /\ 1..reader.pages \subseteq Query
          /\ asked \in Query \cup {0} /\ Query \subseteq Nat \ {0}
      BY PagesAssumption DEF PagedInv, StoreInv, TypeOK, RowsInv, Reader
    <2>2. asked # 0
      BY <1>3, PagesAssumption DEF TurnPage, Load
    <2>3. PICK q : q \in {asked, asked + 1} /\ Load(q)
      BY <1>3 DEF TurnPage
    <2>4. q \in Query
      BY <1>3, <2>1, <2>2, <2>3 DEF Load
    <2> QED
      BY <2>3, <2>4 DEF Next
  <1>4. CASE reader.walks /\ RowsChange
    BY <1>4 DEF RowsChange, Next
  <1>5. CASE reader.walks /\ Fetch
    <2>1. PICK f \in flights : CountRows(f) \/ FindRows(f) \/ ServeSummary(f) \/ Shown(f) \/ NotShown(f)
      BY <1>5 DEF Fetch
    <2>2. AnswerTo(f) \/ UNCHANGED vars
      BY <2>1 DEF CountRows, FindRows, Shown, NotShown, AnswerTo
    <2> QED
      BY <2>2 DEF Next
  <1> QED
    BY <1>1, <1>2, <1>3, <1>4, <1>5 DEF PagedNext

-----------------------------------------------------------------------------
(* Steps of a walk.                                                        *)

\* What a step of a walk must keep beside StoreInv.
WalkKept == RowsInv' /\ AnswersInv' /\ AloneInv' /\ (~gone' => WalkInv')

\* The count is that of the rows as they are now.
LEMMA CountKeeps ==
  ASSUME PagedInv, reader.walks, reader' = reader, NEW f \in flights, CountRows(f)
  PROVE  WalkKept
  <1>1. /\ f.list = Unread /\ f.version \notin DOMAIN totals
        /\ totals' = With(totals, f.version, Len(rows))
        /\ UNCHANGED <<vars, rows, found, total, walkVars>>
    BY DEF CountRows
  <1>2. /\ UNCHANGED <<written, saves, flights, requestVersion, loading, error, asked, strayed>>
        /\ UNCHANGED <<rows, found, total, seen, stayed, gone, raced>>
    BY <1>1 DEF vars, storeVars, pageVars, walkVars
  <1>3. /\ DOMAIN totals' = DOMAIN totals \cup {f.version}
        /\ totals'[f.version] = Len(rows)
        /\ \A v \in DOMAIN totals : totals'[v] = totals[v]
    BY <1>1 DEF With
  <1>4. rows \in Seq(Nat) /\ Len(rows) \in Nat
    BY DEF PagedInv, RowsInv
  <1>5. RowsInv'
    BY <1>2 DEF PagedInv, RowsInv
  <1>6. AnswersInv'
    BY <1>2, <1>3, <1>4 DEF PagedInv, AnswersInv
  <1>7. AloneInv'
    BY <1>2 DEF PagedInv, AloneInv, Current, Tied
  <1>8. ASSUME ~gone' PROVE WalkInv'
    <2>1. WalkInv /\ Turned' = Turned /\ Missing' = Missing
      BY <1>2, <1>8 DEF PagedInv, Turned, Missing
    <2>2. \A v \in DOMAIN found : v \in DOMAIN totals /\ totals'[v] = totals[v]
      BY <1>3 DEF PagedInv, AnswersInv
    <2>3. \A v \in DOMAIN totals' \ DOMAIN found : raced \/ totals'[v] = Len(rows)
      BY <1>3, <2>1 DEF WalkInv
    <2> QED
      BY <1>2, <2>1, <2>2, <2>3 DEF WalkInv
  <1> QED
    BY <1>5, <1>6, <1>7, <1>8 DEF WalkKept

\* Of the rows not shown yet, what the page selected does not hold is behind it, so that
\* there are more rows than the pages up to it hold.
LEMMA FindKeeps ==
  ASSUME PagedInv, reader.walks, reader' = reader, NEW f \in flights, FindRows(f)
  PROVE  WalkKept
  <1>1. /\ f.version \in DOMAIN totals /\ f.list = Unread
        /\ flights' = (flights \ {f}) \cup {[f EXCEPT !.list = written]}
        /\ UNCHANGED <<written, saves, requestVersion, loading, error, asked, strayed>>
        /\ UNCHANGED <<rows, totals, total, seen, stayed, gone, raced>>
    BY DEF FindRows, ServeList, pageVars, walkVars
  <1>2. PICK list \in Orders(rows) : found' = With(found, f.version, PageOf(list, f.query))
    BY DEF FindRows
  <1>3. PICK page : page = PageOf(list, f.query)
    OBVIOUS
  <1>4. /\ f \in Flight /\ loading /\ f.query = asked /\ asked \in Nat \ {0} /\ Turned = asked - 1
        /\ flights = {f} /\ Current(f) /\ f.version \notin DOMAIN found
    BY <1>1, WalkerFacts DEF PagedInv, AloneInv
  <1>5. /\ DOMAIN found' = DOMAIN found \cup {f.version}
        /\ found'[f.version] = page
        /\ \A v \in DOMAIN found : found'[v] = found[v]
    BY <1>2, <1>3, <1>4 DEF With
  <1>6. PICK g : /\ flights' = {g} /\ g = [f EXCEPT !.list = written]
    BY <1>1, <1>4
  <1>7. g.version = f.version /\ g.list = written /\ written # Unread
    BY <1>4, <1>6 DEF Flight, PagedInv, StoreInv, TypeOK, Unread
  <1>8. DOMAIN found = {} /\ DOMAIN totals = {f.version}
    BY <1>1, <1>4 DEF PagedInv, AnswersInv
  <1>9. rows \in Seq(Nat) /\ Len(rows) \in Nat
    BY DEF PagedInv, RowsInv
  <1>10. /\ list \in Seq(Nat)
         /\ \A n \in Nat : Past(rows, n) \ Tied \subseteq Past(list, n)
         /\ \A n \in Nat : Past(list, n) \ Tied \subseteq Past(rows, n)
    BY <1>9, OrderedPast
  <1>11. /\ Range(page) \subseteq Nat
         /\ Past(list, (asked - 1) * PageSize) \ Range(page) \subseteq Past(list, asked * PageSize)
    BY <1>3, <1>4, <1>10, PagePast
  <1>12. RowsInv'
    BY <1>1 DEF PagedInv, RowsInv
  <1>13. AnswersInv'
    BY <1>1, <1>5, <1>6, <1>7, <1>8, <1>11 DEF PagedInv, AnswersInv
  <1>14. AloneInv'
    BY <1>1, <1>4, <1>5, <1>6, <1>7 DEF PagedInv, AloneInv, Current, Tied
  <1>15. ASSUME ~gone' PROVE WalkInv'
    <2>1. WalkInv /\ Turned' = Turned /\ Missing' = Missing
      BY <1>1, <1>15 DEF PagedInv, Turned, Missing
    <2>2. asked * PageSize \in Nat /\ (asked - 1) * PageSize \in Nat
      <3>1. asked \in Nat /\ asked - 1 \in Nat
        BY <1>4
      <3> QED
        BY <3>1, Positions
    <2>3. Missing \cap Tied = {} /\ Missing \subseteq Past(rows, (asked - 1) * PageSize)
      BY <1>4, <2>1 DEF PagedInv, AloneInv, Missing, WalkInv
    <2>4. Missing \ Range(page) \subseteq Past(rows, asked * PageSize)
      BY <1>10, <1>11, <2>2, <2>3
    <2>5. raced \/ totals[f.version] = Len(rows)
      BY <1>1, <1>8, <2>1 DEF WalkInv
    <2>6. Missing \subseteq Range(page) \/ asked * PageSize < Len(rows)
      <3>1. Past(rows, asked * PageSize) # {} => asked * PageSize < Len(rows)
        BY <1>9, <2>2 DEF Past
      <3> QED
        BY <2>4, <3>1
    <2>7. Missing \subseteq Range(page) \/ raced \/ totals[f.version] > asked * PageSize
      BY <1>9, <2>2, <2>5, <2>6
    <2> QED
      BY <1>1, <1>4, <1>5, <1>8, <2>1, <2>4, <2>7 DEF WalkInv
  <1> QED
    BY <1>12, <1>13, <1>14, <1>15 DEF WalkKept

\* The summary tells nothing of the rows.
LEMMA SummaryKeeps ==
  ASSUME PagedInv, reader.walks, reader' = reader, NEW f \in flights, ServeSummary(f), UNCHANGED listVars
  PROVE  WalkKept
  <1>1. /\ flights' = (flights \ {f}) \cup {[f EXCEPT !.summary = written]}
        /\ UNCHANGED <<written, saves, requestVersion, loading, error, asked, strayed>>
        /\ UNCHANGED <<rows, totals, found, total, seen, stayed, gone, raced>>
    BY DEF ServeSummary, listVars, pageVars, walkVars
  <1>2. PICK g : /\ flights' = {g} /\ g = [f EXCEPT !.summary = written]
    BY <1>1, WalkerFacts
  <1>3. f \in Flight /\ flights = {f}
    BY WalkerFacts
  <1>4. g.version = f.version /\ g.list = f.list
    BY <1>2, <1>3 DEF Flight
  <1>5. RowsInv'
    BY <1>1 DEF PagedInv, RowsInv
  <1>6. AnswersInv'
    BY <1>1, <1>2, <1>3, <1>4 DEF PagedInv, AnswersInv
  <1>7. AloneInv'
    BY <1>1, <1>2, <1>3, <1>4 DEF PagedInv, AloneInv, Current, Tied
  <1>8. ASSUME ~gone' PROVE WalkInv'
    BY <1>1, <1>8 DEF PagedInv, Turned, Missing, WalkInv
  <1> QED
    BY <1>5, <1>6, <1>7, <1>8 DEF WalkKept

\* The answer of the only load leaves nothing under way.
LEMMA UnderWayEnds ==
  ASSUME PagedInv, reader.walks, NEW f \in flights, flights' = flights \ {f},
         totals' = UnderWay(totals), found' = UnderWay(found)
  PROVE  flights' = {} /\ DOMAIN totals' = {} /\ DOMAIN found' = {}
  <1>1. flights' = {}
    BY WalkerFacts
  <1> QED
    BY <1>1 DEF UnderWay, Restrict

\* What is shown is no longer missing; the rest is behind the page.
LEMMA ShownKeeps ==
  ASSUME PagedInv, reader.walks, reader' = reader, NEW f \in flights, Shown(f)
  PROVE  WalkKept
  <1>1. /\ Current(f) /\ f.version \in DOMAIN found /\ f.version \in DOMAIN totals
        /\ asked \in Nat \ {0} /\ Turned = asked - 1
    BY WalkerFacts DEF PagedInv, AloneInv, AnswersInv, Shown, Emit, Arrived
  <1>2. /\ flights' = flights \ {f} /\ loading' = FALSE
        /\ UNCHANGED <<written, saves, requestVersion, error, asked, strayed>>
        /\ UNCHANGED <<rows, stayed, gone, raced>>
        /\ total' = totals[f.version] /\ seen' = seen \cup Range(found[f.version])
    BY <1>1 DEF Shown, Emit, pageVars
  <1>3. flights' = {} /\ DOMAIN totals' = {} /\ DOMAIN found' = {}
    BY <1>2, UnderWayEnds DEF Shown
  <1>4. totals[f.version] \in Nat /\ Range(found[f.version]) \subseteq Nat
    BY <1>1 DEF PagedInv, AnswersInv
  <1>5. RowsInv'
    BY <1>2, <1>4 DEF PagedInv, RowsInv
  <1>6. AnswersInv'
    BY <1>2, <1>3, <1>4 DEF PagedInv, AnswersInv
  <1>7. AloneInv'
    BY <1>2, <1>3 DEF PagedInv, AloneInv, Tied
  <1>8. ASSUME ~gone' PROVE WalkInv'
    <2>1. WalkInv /\ Missing' = Missing \ Range(found[f.version])
      BY <1>2, <1>8 DEF PagedInv, Missing
    <2>2. Missing' \subseteq Past(rows, asked * PageSize) /\ Missing' \subseteq Past(rows, Turned * PageSize)
      BY <1>1, <2>1 DEF WalkInv
    <2>3. Missing' = {} \/ raced \/ total' > asked * PageSize
      BY <1>1, <1>2, <2>1 DEF WalkInv
    <2>4. Turned' \in {asked, Turned}
      BY <1>1, <1>2 DEF Turned
    <2> QED
      BY <1>2, <1>3, <2>2, <2>3, <2>4 DEF WalkInv
  <1> QED
    BY <1>5, <1>6, <1>7, <1>8 DEF WalkKept

\* After an error the same page is asked for again.
LEMMA NotShownKeeps ==
  ASSUME PagedInv, reader.walks, reader' = reader, NEW f \in flights, NotShown(f)
  PROVE  WalkKept
  <1>1. Current(f) /\ asked # 0 /\ Turned = asked - 1
    BY WalkerFacts DEF PagedInv, AloneInv
  <1>2. /\ flights' = flights \ {f} /\ loading' = FALSE /\ error' = TRUE
        /\ UNCHANGED <<written, saves, requestVersion, asked, strayed>>
        /\ UNCHANGED <<rows, total, seen, stayed, gone, raced>>
    BY <1>1 DEF NotShown, BreakOff, pageVars, walkVars
  <1>3. flights' = {} /\ DOMAIN totals' = {} /\ DOMAIN found' = {}
    BY <1>2, UnderWayEnds DEF NotShown
  <1>4. RowsInv'
    BY <1>2 DEF PagedInv, RowsInv
  <1>5. AnswersInv'
    BY <1>2, <1>3 DEF PagedInv, AnswersInv
  <1>6. AloneInv'
    BY <1>1, <1>2, <1>3, PagesAssumption DEF PagedInv, AloneInv, Tied
  <1>7. ASSUME ~gone' PROVE WalkInv'
    BY <1>1, <1>2, <1>3, <1>7 DEF PagedInv, Turned, Missing, WalkInv
  <1> QED
    BY <1>4, <1>5, <1>6, <1>7 DEF WalkKept

\* A load that starts is the only one and has found nothing yet.
LEMMA StartAlone ==
  ASSUME PagedInv, reader.walks, ~loading, NEW q, Start(q),
         saves' = {}, strayed' = FALSE, asked' # NoQuery, stayed' \cap Tied = {},
         UNCHANGED <<reader, totals, found, total>>
  PROVE  AnswersInv' /\ AloneInv' /\ DOMAIN totals' = {} /\ DOMAIN found' = {} /\ loading' = TRUE
  <1>1. flights = {} /\ DOMAIN totals = {} /\ DOMAIN found = {}
    BY WalkerFacts
  <1>2. PICK g : /\ g = [version |-> requestVersion + 1, query |-> q, list |-> Unread, summary |-> Unread]
                 /\ flights' = {g}
    BY <1>1 DEF Start
  <1>3. g.version = requestVersion' /\ g.list = Unread
    BY <1>2 DEF Start
  <1>4. AnswersInv'
    BY <1>1 DEF PagedInv, AnswersInv
  <1>5. AloneInv'
    BY <1>1, <1>2, <1>3 DEF AloneInv, Current, Tied
  <1> QED
    BY <1>1, <1>4, <1>5 DEF Start

\* At the beginning every row is behind page 0.
LEMMA BeginKeeps ==
  ASSUME PagedInv, reader.walks, reader' = reader, BeginWalk
  PROVE  WalkKept
  <1>1. /\ ~loading /\ Start(FirstQuery) /\ asked' = 1 /\ strayed' = FALSE /\ written' = written
        /\ saves' = {} /\ FirstQuery = 1 /\ NoQuery = 0
        /\ seen' = {} /\ stayed' = Range(rows) \ Tied /\ gone' = FALSE /\ raced' = FALSE
        /\ UNCHANGED <<rows, totals, found, total>>
    BY PagesAssumption DEF BeginWalk, Open, PagedInv, AloneInv
  <1>2. rows \in Seq(Nat) /\ Range(rows) \subseteq Nat
    BY DEF PagedInv, RowsInv, Range
  <1>3. RowsInv'
    BY <1>1, <1>2 DEF PagedInv, RowsInv
  <1>4. AnswersInv' /\ AloneInv' /\ DOMAIN totals' = {} /\ DOMAIN found' = {} /\ loading' = TRUE
    BY <1>1, StartAlone
  <1>5. WalkInv'
    <2>1. Turned' = 0
      BY <1>1, <1>4 DEF Turned
    <2>2. Range(rows) \subseteq Past(rows, 0)
      BY <1>2 DEF Past, Range
    <2>3. Missing' \subseteq Past(rows', Turned' * PageSize)
      BY <1>1, <2>1, <2>2, Positions DEF Missing
    <2> QED
      BY <1>4, <2>3 DEF WalkInv
  <1> QED
    BY <1>3, <1>4, <1>5 DEF WalkKept

\* Turning asks for the page behind which nothing has been shown.
LEMMA TurnKeeps ==
  ASSUME PagedInv, reader.walks, reader' = reader, TurnPage
  PROVE  WalkKept
  <1>1. PICK q : /\ Load(q)
                 /\ \/ ~error /\ q = asked + 1
                    \/ error /\ q = asked
    BY DEF TurnPage
  <1>2. /\ ~loading /\ Start(q) /\ asked # 0 /\ asked' = q /\ strayed' = FALSE
        /\ raced' = FALSE /\ UNCHANGED <<written, saves, rows, totals, found, total, seen, stayed, gone>>
    BY <1>1, PagesAssumption DEF TurnPage, Load
  <1>3. asked \in Nat /\ asked' # NoQuery
    BY <1>1, <1>2, WalkerFacts, PagesAssumption
  <1>4. RowsInv'
    BY <1>2 DEF PagedInv, RowsInv
  <1>5. AnswersInv' /\ AloneInv' /\ DOMAIN totals' = {} /\ DOMAIN found' = {} /\ loading' = TRUE
    BY <1>2, <1>3, StartAlone DEF PagedInv, AloneInv
  <1>6. ASSUME ~gone' PROVE WalkInv'
    <2>1. Turned' = Turned /\ Missing' = Missing
      BY <1>1, <1>2, <1>3, <1>5 DEF Turned, Missing
    <2>2. WalkInv
      BY <1>2, <1>6 DEF PagedInv
    <2> QED
      BY <1>2, <1>5, <2>1, <2>2 DEF WalkInv
  <1> QED
    BY <1>4, <1>5, <1>6 DEF WalkKept

\* Rows may change in any way that moves none forward that keeps its place, and a new one
\* between count and select is on record.
LEMMA ChangeKeeps ==
  ASSUME PagedInv, reader.walks, UNCHANGED <<totals, found, total, seen, reader>>, OtherWrite,
         rows' \in Seq(Nat), IsInjective(rows'),
         Range(rows') \subseteq Range(rows) \cup {reader.rows + written + 1},
         stayed' \subseteq stayed, gone' \in BOOLEAN, raced' \in BOOLEAN, raced => raced',
         ~gone' => /\ ~gone /\ \A n \in Nat : Past(rows, n) \cap stayed' \subseteq Past(rows', n)
                   /\ raced' \/ DOMAIN totals = DOMAIN found \/ Len(rows') = Len(rows)
  PROVE  WalkKept
  <1>1. /\ written' = written + 1 /\ written \in Nat
        /\ UNCHANGED <<saves, flights, requestVersion, loading, error, asked, strayed>>
    BY DEF OtherWrite, storeVars, pageVars, PagedInv, StoreInv, TypeOK
  <1>2. reader.rows \in Nat
    BY DEF PagedInv, RowsInv, Reader
  <1>3. \A r \in Range(rows) : r \in Nat /\ r <= reader.rows + written
    BY DEF PagedInv, RowsInv, Range
  <1>4. \A r \in Range(rows') : r <= reader'.rows + written'
    BY <1>1, <1>2, <1>3
  <1>5. RowsInv'
    BY <1>4 DEF PagedInv, RowsInv
  <1>6. AnswersInv'
    BY <1>1 DEF PagedInv, AnswersInv
  <1>7. AloneInv'
    BY <1>1 DEF PagedInv, AloneInv, Current, Tied
  <1>8. ASSUME ~gone' PROVE WalkInv'
    <2>1. WalkInv /\ Turned' = Turned /\ Missing' \subseteq Missing /\ Missing' \subseteq stayed'
      BY <1>1, <1>8 DEF PagedInv, Turned, Missing
    <2>2. Turned * PageSize \in Nat /\ asked * PageSize \in Nat
      BY WalkerFacts, Positions
    <2>3. \A n \in Nat : Past(rows, n) \cap Missing' \subseteq Past(rows', n)
      BY <1>8, <2>1
    <2>4. Missing' \subseteq Past(rows', Turned * PageSize)
      BY <2>1, <2>2, <2>3 DEF WalkInv
    <2>5. \A v \in DOMAIN found : Missing' \ Range(found[v]) \subseteq Past(rows', asked * PageSize)
      BY <2>1, <2>2, <2>3 DEF WalkInv
    <2>6. \A v \in DOMAIN found : Missing' \subseteq Range(found[v]) \/ raced' \/ totals[v] > asked * PageSize
      BY <2>1 DEF WalkInv
    <2>7. \A v \in DOMAIN totals \ DOMAIN found : raced' \/ totals[v] = Len(rows')
      BY <1>8, <2>1 DEF WalkInv
    <2>8. Missing' = {} \/ loading \/ error \/ raced' \/ total > asked * PageSize
      BY <2>1 DEF WalkInv
    <2> QED
      BY <1>1, <2>1, <2>4, <2>5, <2>6, <2>7, <2>8 DEF WalkInv
  <1> QED
    BY <1>5, <1>6, <1>7, <1>8 DEF WalkKept

\* Inserted, decided and leaving rows do.
LEMMA RowsKeep ==
  ASSUME PagedInv, reader.walks, reader' = reader, RowsChange
  PROVE  WalkKept
  <1>1. OtherWrite /\ UNCHANGED <<totals, found, total, seen, reader>>
    BY DEF RowsChange
  <1>2. /\ rows \in Seq(Nat) /\ IsInjective(rows) /\ DOMAIN rows = 1..Len(rows)
        /\ gone \in BOOLEAN /\ raced \in BOOLEAN /\ stayed \subseteq Nat
    BY DEF PagedInv, RowsInv
  <1>3. ASSUME NEW i \in Nat \ {0}, i <= Len(rows) + 1, Inserted(i) PROVE WalkKept
    <2> DEFINE e == reader.rows + written + 1
    <2>1. /\ rows' = InsertAt(rows, i, e) /\ raced' = (raced \/ DOMAIN totals # DOMAIN found)
          /\ UNCHANGED <<stayed, gone>>
      BY <1>3 DEF Inserted
    <2>2. e \in Nat /\ e \notin Range(rows)
      <3>1. reader.rows \in Nat /\ written \in Nat
        BY DEF PagedInv, RowsInv, Reader, StoreInv, TypeOK
      <3>2. \A r \in Range(rows) : r <= reader.rows + written
        BY DEF PagedInv, RowsInv
      <3> QED
        BY <3>1, <3>2
    <2> HIDE DEF e
    <2>3. /\ InsertAt(rows, i, e) \in Seq(Nat) /\ IsInjective(InsertAt(rows, i, e))
          /\ Range(InsertAt(rows, i, e)) \subseteq Range(rows) \cup {e}
          /\ \A n \in Nat : Past(rows, n) \subseteq Past(InsertAt(rows, i, e), n)
      BY <1>2, <1>3, <2>2, InsertedRows
    <2>4. /\ rows' \in Seq(Nat) /\ IsInjective(rows') /\ Range(rows') \subseteq Range(rows) \cup {e}
          /\ \A n \in Nat : Past(rows, n) \subseteq Past(rows', n)
      BY <2>1, <2>3
    <2>5. raced' \in BOOLEAN /\ (raced => raced') /\ (raced' \/ DOMAIN totals = DOMAIN found)
      BY <2>1
    <2>6. /\ stayed' \subseteq stayed /\ gone' \in BOOLEAN
          /\ ~gone' => ~gone /\ \A n \in Nat : Past(rows, n) \cap stayed' \subseteq Past(rows', n)
      BY <1>2, <2>1, <2>4
    <2> QED
      BY <1>1, <2>3, <2>4, <2>5, <2>6, ChangeKeeps DEF e
  <1>4. ASSUME NEW i \in DOMAIN rows, Decided(i) PROVE WalkKept
    <2>1. /\ rows' = <<rows[i]>> \o RemoveAt(rows, i) /\ stayed' = stayed \ {rows[i]}
          /\ UNCHANGED <<gone, raced>>
      BY <1>4 DEF Decided
    <2> DEFINE t == <<rows[i]>> \o RemoveAt(rows, i)
    <2>2. /\ t \in Seq(Nat) /\ Len(t) = Len(rows) /\ IsInjective(t) /\ Range(t) \subseteq Range(rows)
          /\ \A n \in Nat : Past(rows, n) \ {rows[i]} \subseteq Past(t, n)
      BY <1>2, MovedRows
    <2> HIDE DEF t
    <2>3. rows' = t
      BY <2>1 DEF t
    <2>4. /\ rows' \in Seq(Nat) /\ Len(rows') = Len(rows) /\ IsInjective(rows')
          /\ Range(rows') \subseteq Range(rows)
          /\ \A n \in Nat : Past(rows, n) \ {rows[i]} \subseteq Past(rows', n)
      BY <2>2, <2>3
    <2>5. /\ stayed' \subseteq stayed /\ gone' \in BOOLEAN /\ raced' \in BOOLEAN /\ (raced => raced')
          /\ ~gone' => ~gone /\ \A n \in Nat : Past(rows, n) \cap stayed' \subseteq Past(rows', n)
      BY <1>2, <2>1, <2>4
    <2> QED
      BY <1>1, <2>4, <2>5, ChangeKeeps
  <1>5. ASSUME NEW i \in DOMAIN rows, Left(i) PROVE WalkKept
    <2>1. rows' = RemoveAt(rows, i) /\ stayed' = stayed \ {rows[i]} /\ gone' = TRUE /\ UNCHANGED raced
      BY <1>5 DEF Left
    <2>2. LET t == RemoveAt(rows, i) IN t \in Seq(Nat) /\ IsInjective(t) /\ Range(t) \subseteq Range(rows)
      BY <1>2, LeftRows
    <2>3. rows' \in Seq(Nat) /\ IsInjective(rows') /\ Range(rows') \subseteq Range(rows)
      BY <2>1, <2>2
    <2>4. /\ stayed' \subseteq stayed /\ gone' \in BOOLEAN /\ gone' /\ raced' \in BOOLEAN
          /\ raced => raced'
      BY <1>2, <2>1
    <2> QED
      BY <1>1, <2>1, <2>3, <2>4, ChangeKeeps
  <1> QED
    BY <1>3, <1>4, <1>5 DEF RowsChange

-----------------------------------------------------------------------------
(* Paged lists.                                                            *)

\* Whoever reads: what a paged list may do.
PagedSteps == PagedInit(Reader) /\ [][PagedNext]_pagedVars

\* Nothing has been counted, selected or shown yet.
LEMMA InitPagedInv == PagedInit(Reader) => PagedInv
  <1> SUFFICES ASSUME PagedInit(Reader) PROVE PagedInv
    OBVIOUS
  <1>1. StoreInv
    BY InitStoreInv DEF PagedInit
  <1>2. /\ reader \in Reader /\ reader.rows \in Nat /\ rows = [i \in 1..reader.rows |-> i]
        /\ written = 0 /\ seen = {} /\ stayed = {} /\ gone = FALSE /\ raced = FALSE
    BY DEF PagedInit, Init, Reader
  <1>3. rows \in Seq(Nat)
    BY <1>2
  <1>4. IsInjective(rows) /\ \A r \in Range(rows) : r <= reader.rows + written
    BY <1>2 DEF IsInjective, Range
  <1>5. RowsInv
    BY <1>2, <1>3, <1>4 DEF RowsInv
  <1>6. DOMAIN totals = {} /\ DOMAIN found = {} /\ total = 0
    BY DEF PagedInit
  <1>7. AnswersInv
    BY <1>6 DEF AnswersInv
  <1>8. AloneInv
    BY <1>2 DEF PagedInit, Init, AloneInv
  <1>9. WalkInv
    BY <1>2, <1>6 DEF WalkInv, Missing
  <1> QED
    BY <1>1, <1>5, <1>7, <1>8, <1>9 DEF PagedInv

\* A step that is none of a walk changes no row, and writes are only counted up.
LEMMA OthersKeep ==
  ASSUME PagedInv, UNCHANGED listVars, reader' = reader, ~reader.walks, [Next]_vars
  PROVE  RowsInv' /\ AnswersInv'
  <1>1. UNCHANGED <<rows, totals, found, total, seen, stayed, gone, raced>>
    BY DEF listVars, walkVars
  <1>2. written \in Nat /\ reader.rows \in Nat /\ \A r \in Range(rows) : r \in Nat
    BY DEF PagedInv, StoreInv, TypeOK, RowsInv, Reader, Range
  <1>3. written' \in {written, written + 1}
    BY DEF Next, vars, Open, Load, AnswerTo, ServeList, ServeSummary, Emit, BreakOff, Send, OtherWrite,
       Committed, Refused, Confirm
  <1>4. \A r \in Range(rows) : r <= reader.rows + written'
    BY <1>2, <1>3 DEF PagedInv, RowsInv
  <1>5. RowsInv'
    BY <1>1, <1>4 DEF PagedInv, RowsInv
  <1>6. AnswersInv'
    BY <1>1 DEF PagedInv, AnswersInv
  <1> QED
    BY <1>5, <1>6

\* The invariant is inductive.
LEMMA PagedStep == PagedInv /\ [PagedNext]_pagedVars => PagedInv'
  <1> SUFFICES ASSUME PagedInv, [PagedNext]_pagedVars PROVE PagedInv'
    OBVIOUS
  <1>1. [Next]_vars
    BY PagedStoreStep
  <1>2. StoreInv'
    BY <1>1, StoreStep DEF PagedInv
  <1>3. reader' = reader
    BY DEF PagedNext, pagedVars
  <1>4. CASE reader.walks /\ PagedNext
    <2>1. WalkKept
      BY <1>3, <1>4, BeginKeeps, TurnKeeps, RowsKeep, CountKeeps, FindKeeps, SummaryKeeps, ShownKeeps,
         NotShownKeeps DEF PagedNext, Fetch
    <2> QED
      BY <1>2, <2>1 DEF WalkKept, PagedInv
  <1>5. CASE ~reader.walks
    <2>1. UNCHANGED listVars
      BY <1>5 DEF PagedNext, pagedVars
    <2> QED
      BY <1>1, <1>2, <1>3, <1>5, <2>1, OthersKeep DEF PagedInv
  <1>6. CASE UNCHANGED pagedVars
    <2>1. /\ UNCHANGED <<written, saves, flights, requestVersion, loading, error, asked, strayed>>
          /\ UNCHANGED <<rows, totals, found, total, seen, stayed, gone, raced, reader>>
      BY <1>6 DEF pagedVars, listVars, walkVars, vars, storeVars, pageVars
    <2>2. RowsInv' /\ AnswersInv'
      BY <2>1 DEF PagedInv, RowsInv, AnswersInv
    <2>3. reader.walks => AloneInv'
      BY <2>1 DEF PagedInv, AloneInv, Current, Tied
    <2>4. reader.walks /\ ~gone => WalkInv'
      BY <2>1 DEF PagedInv, WalkInv, Turned, Missing
    <2> QED
      BY <1>2, <2>1, <2>2, <2>3, <2>4 DEF PagedInv
  <1> QED
    BY <1>4, <1>5, <1>6

\* In every state the rows that a walk has yet to show stand behind the pages turned.
THEOREM PagedInvariance == PagedSteps => []PagedInv
  BY InitPagedInv, PagedStep, PTL DEF PagedSteps

\* Rows stay distinct, and counts and pages are kept only for loads under way.
THEOREM PagedTypesAreKept == PagedSteps => []PagedTypeOK
  <1>1. PagedInv => PagedTypeOK
    <2> SUFFICES ASSUME PagedInv PROVE PagedTypeOK
      OBVIOUS
    <2>1. TypeOK
      BY DEF PagedInv, StoreInv
    <2> QED
      BY <2>1 DEF PagedInv, RowsInv, AnswersInv, PagedTypeOK
  <1> QED
    BY <1>1, PagedInvariance, PTL

\* A reader who turns all the pages has seen every row that kept its place.
THEOREM WalksShowAll == PagedSteps => []WalkShowsAll
  <1>1. PagedInv => WalkShowsAll
    <2> SUFFICES ASSUME PagedInv, WalkEnded, ~gone, ~raced PROVE Missing = {}
      BY DEF WalkShowsAll, Missing
    <2>1. asked * PageSize \in Nat /\ total \in Nat
      BY WalkerFacts, Positions DEF WalkEnded, PagedInv, AnswersInv
    <2> QED
      BY <2>1 DEF WalkEnded, PagedInv, WalkInv
  <1> QED
    BY <1>1, PagedInvariance, PTL

\* A list with its rows does what a list store does.
THEOREM PagedListImplementsStore == PagedSteps => Init /\ [][Next]_vars
  <1>1. PagedInit(Reader) => Init
    BY DEF PagedInit
  <1>2. PagedInv /\ [PagedNext]_pagedVars => [Next]_vars
    BY PagedStoreStep
  <1> QED
    BY <1>1, <1>2, PagedInvariance, PTL DEF PagedSteps

\* It therefore shows what its page asks for and what it was told is saved, and never
\* the answer to an earlier question than the last.
THEOREM PagedListIsAStore == PagedSteps => [](OwnWritesShown /\ ShowsWhatPageAsks) /\ PageSpec
  <1>1. PagedInv => StoreInv /\ OwnWritesShown /\ ShowsWhatPageAsks
    BY DEF PagedInv, StoreInv, LoadsInv, PageInv, WritesInv, ShowsWhatPageAsks
  <1>2. Init => Page!Init
    BY DEF Init, Page!Init
  <1> QED
    BY <1>1, <1>2, PagedInvariance, PagedListImplementsStore, StoreRefines, PTL DEF PageSpec, Page!Spec

=============================================================================
