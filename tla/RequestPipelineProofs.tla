----------------------- MODULE RequestPipelineProofs -----------------------
(***************************************************************************)
(* Proofs about RequestPipeline for any phones, names and number of        *)
(* concurrent requests: registrations never give a phone two accounts,     *)
(* success is never reported of what was not committed, and audit rows     *)
(* stand for requests that succeeded, one for each at most.                *)
(*                                                                         *)
(* The inductive invariant PipelineInv numbers the requests: each number   *)
(* is in the hands of one request, which has left no trace before its      *)
(* handler's last statement, and no audit row before the middleware adds   *)
(* one unless its context says so.                                         *)
(***************************************************************************)
EXTENDS RequestPipeline, SequenceTheorems, TLAPS

USE MaxRequestsAssumption, FounderAssumption

\* The requests in progress have numbers of their own.
NumbersInv ==
  /\ \A p \in Proc : pc[p] # "idle" => req[p].id \in 1..arrived
  /\ \A p, q \in Proc : pc[p] # "idle" /\ pc[q] # "idle" /\ req[p].id = req[q].id => p = q

Audited(id) == \E a \in audit : a.request = id

\* What a request may have left in the tables so far.
TraceInv ==
  /\ \A p \in Proc : pc[p] \in {"handler", "create", "save"} => ~IsDone(req[p].id) /\ ~Audited(req[p].id)
  /\ \A p \in Proc : pc[p] = "after" /\ ctx[p].ok => ctx[p].persisted \/ ~Audited(req[p].id)

PipelineInv ==
  /\ TypeOK /\ NumbersInv /\ TraceInv
  /\ OneAccountPerPhone /\ SuccessIsCommitted /\ AuditIsTruthful

-----------------------------------------------------------------------------
(* Accounts.                                                               *)

\* A function on 1..n is a sequence.
LEMMA FunctionIsSeq ==
  ASSUME NEW S, NEW n \in Nat, NEW f \in [1..n -> S]
  PROVE  f \in Seq(S)
  BY SeqDef

\* The account tables stay sequences of accounts, and a renaming keeps the phones.
LEMMA AccountsTyped ==
  ASSUME users \in Seq([phone : Phone, name : Name]), NEW ph \in Phone, NEW n \in Name, NEW u
  PROVE  /\ Append(users, [phone |-> ph, name |-> n]) \in Seq([phone : Phone, name : Name])
         /\ [users EXCEPT ![u].name = n] \in Seq([phone : Phone, name : Name])
         /\ DOMAIN [users EXCEPT ![u].name = n] = DOMAIN users
         /\ \A i \in DOMAIN users : [users EXCEPT ![u].name = n][i].phone = users[i].phone
  <1> DEFINE Account == [phone : Phone, name : Name]
             saved == [users EXCEPT ![u].name = n]
  <1>1. [phone |-> ph, name |-> n] \in Account
    OBVIOUS
  <1>2. PICK k \in Nat : users \in [1..k -> Account]
    BY LenProperties
  <1>3. saved \in [1..k -> Account] /\ \A i \in 1..k : saved[i].phone = users[i].phone
    BY <1>2
  <1>4. saved \in Seq(Account) /\ DOMAIN saved = 1..k /\ DOMAIN users = 1..k
    BY <1>2, <1>3, FunctionIsSeq
  <1> QED
    BY <1>1, <1>3, <1>4

\* The unique index lets an insert in only if its phone is new; a renaming changes no
\* phone, whichever row it saves.
LEMMA AccountsUnique ==
  ASSUME TypeOK, OneAccountPerPhone, NEW ph \in Phone, NEW n \in Name, NEW u,
         \/ IndexAdmits(ph) /\ users' = Append(users, [phone |-> ph, name |-> n])
         \/ users' = [users EXCEPT ![u].name = n]
         \/ users' = users
  PROVE  users' \in Seq([phone : Phone, name : Name]) /\ OneAccountPerPhone'
  <1>1. users \in Seq([phone : Phone, name : Name])
    BY DEF TypeOK
  <1>2. users' \in Seq([phone : Phone, name : Name])
    <2>1. /\ Append(users, [phone |-> ph, name |-> n]) \in Seq([phone : Phone, name : Name])
          /\ [users EXCEPT ![u].name = n] \in Seq([phone : Phone, name : Name])
      BY <1>1, AccountsTyped
    <2> QED
      BY <1>1, <2>1
  <1>3. CASE IndexAdmits(ph) /\ users' = Append(users, [phone |-> ph, name |-> n])
    <2>1. PICK k \in Nat : k = Len(users) /\ DOMAIN users = 1..k
      BY <1>1
    <2>2. /\ DOMAIN users' = 1..(k + 1)
          /\ \A i \in 1..k : users'[i] = users[i]
          /\ users'[k + 1].phone = ph
      BY <1>1, <1>3, <2>1
    <2>3. \A i \in 1..k : users[i].phone # ph
      BY <1>3, <2>1 DEF IndexAdmits, Registered
    <2>4. \A i \in 1..(k + 1) : i \in 1..k \/ i = k + 1
      OBVIOUS
    <2>5. \A i, j \in 1..(k + 1) : users'[i].phone = users'[j].phone => i = j
      BY <2>1, <2>2, <2>3, <2>4 DEF OneAccountPerPhone
    <2> QED
      BY <1>2, <2>2, <2>5 DEF OneAccountPerPhone
  <1>4. CASE users' = [users EXCEPT ![u].name = n]
    BY <1>1, <1>2, <1>4, AccountsTyped DEF OneAccountPerPhone
  <1>5. CASE users' = users
    BY <1>2, <1>5 DEF OneAccountPerPhone
  <1> QED
    BY <1>3, <1>4, <1>5

-----------------------------------------------------------------------------
(* One lemma for each way in which a request goes on.                      *)

\* A request that arrives takes the next number, which is in no table.
LEMMA ArriveInv == ASSUME PipelineInv, NEW p \in Proc, Arrive(p) PROVE PipelineInv'
  <1> USE DEF PipelineInv
  <1>1. PICK r \in Request :
          /\ r.id = arrived + 1 /\ req' = [req EXCEPT ![p] = r]
          /\ pc' = [pc EXCEPT ![p] = "handler"] /\ pc[p] = "idle"
          /\ arrived' = arrived + 1 /\ arrived < MaxRequests
          /\ UNCHANGED <<dbVars, ctx>>
    <2>1. PICK route \in Route, phone \in Phone, name \in Name, user \in DOMAIN users :
            req' = [req EXCEPT ![p] = [id |-> arrived + 1, route |-> route,
                                       phone |-> phone, name |-> name, user |-> user]]
      BY DEF Arrive
    <2>2. arrived + 1 \in 0..MaxRequests /\ user \in Nat
      BY LenProperties DEF Arrive, TypeOK
    <2> DEFINE r == [id |-> arrived + 1, route |-> route, phone |-> phone, name |-> name, user |-> user]
    <2>3. r \in Request /\ r.id = arrived + 1
      BY <2>2 DEF Request
    <2> QED
      BY <2>1, <2>3 DEF Arrive
  <1>2. \A e \in audit \cup done : e.request \in 1..arrived
    BY DEF TypeOK
  <1>3. ~IsDone(r.id) /\ ~Audited(r.id) /\ arrived \in Nat
    BY <1>1, <1>2 DEF IsDone, Audited, TypeOK
  <1>4. UNCHANGED <<users, audit, done, ctx>>
    BY <1>1 DEF dbVars
  <1>5. req'[p] = r /\ pc'[p] = "handler" /\ \A q \in Proc \ {p} : req'[q] = req[q] /\ pc'[q] = pc[q]
    BY <1>1 DEF TypeOK
  <1>6. TypeOK'
    BY <1>1, <1>3, <1>4 DEF TypeOK
  <1>7. NumbersInv'
    BY <1>1, <1>3, <1>5 DEF NumbersInv
  <1>8. TraceInv' /\ SuccessIsCommitted' /\ AuditIsTruthful'
    BY <1>1, <1>3, <1>4, <1>5 DEF TraceInv, SuccessIsCommitted, AuditIsTruthful, IsDone, Audited
  <1> QED
    BY <1>4, <1>6, <1>7, <1>8 DEF OneAccountPerPhone

\* What a request leaves when its handler returns: success only with its write, an
\* audit row of the service only with its write, and marked if it reports success.
LEMMA AnswerInv ==
  ASSUME PipelineInv, NEW p \in Proc, NEW ok \in BOOLEAN, NEW persisted \in BOOLEAN,
         pc[p] \in {"handler", "create", "save"}, Return(p, ok, persisted),
         users' \in Seq([phone : Phone, name : Name]), OneAccountPerPhone',
         Done(p) \/ (UNCHANGED done /\ ~ok),
         \/ UNCHANGED audit
         \/ /\ audit' = audit \cup {[request |-> req[p].id, by |-> "service"]}
            /\ Done(p) /\ persisted = ok
  PROVE  PipelineInv'
  <1> USE DEF PipelineInv
  <1>0. PICK id \in 1..arrived : id = req[p].id
    BY DEF NumbersInv
  <1>1. req[p].route \in Route /\ ~IsDone(id) /\ ~Audited(id)
    BY <1>0 DEF TraceInv, TypeOK, Request
  <1>2. /\ pc'[p] = "after" /\ ctx'[p].ok = ok /\ ctx'[p].persisted = persisted
        /\ UNCHANGED <<arrived, req>>
        /\ \A q \in Proc \ {p} : pc'[q] = pc[q] /\ ctx'[q] = ctx[q]
    BY DEF Return, TypeOK
  <1>3. TypeOK'
    <2>1. done' \subseteq [request : 1..arrived, route : Route]
      BY <1>0, <1>1 DEF TypeOK, Done
    <2>2. audit' \subseteq [request : 1..arrived, by : {"service", "middleware"}]
      BY <1>0, <1>1 DEF TypeOK
    <2> QED
      BY <1>2, <2>1, <2>2 DEF TypeOK, Return
  <1>4. NumbersInv'
    BY <1>2 DEF NumbersInv
  <1>5. done' = done \/ done' = done \cup {[request |-> id, route |-> req[p].route]}
    BY <1>0 DEF Done
  <1>6. audit' = audit \/ audit' = audit \cup {[request |-> id, by |-> "service"]}
    BY <1>0
  <1>7. ASSUME Done(p) PROVE \E d \in done' : d.request = id
    <2> DEFINE d == [request |-> id, route |-> req[p].route]
    <2>1. d \in done' /\ d.request = id
      BY <1>0, <1>7 DEF Done
    <2> QED
      BY <2>1
  <1>8. ok => \E d \in done' : d.request = id
    BY <1>7
  <1>9. (\E a \in audit' : a.request = id) => Done(p) /\ persisted = ok
    BY <1>1 DEF Audited
  <1>10. \A q \in Proc \ {p} : pc[q] # "idle" => req[q].id # id
    BY <1>0, <1>1, <1>2 DEF NumbersInv
  <1>11. \A d \in done : \E e \in done' : e.request = d.request
    BY <1>5
  <1>12. \A d \in done' : d \in done \/ d.request = id
    BY <1>5
  <1>13. \A a \in audit' : a \in audit \/ a.request = id
    BY <1>6
  <1>14. TraceInv'
    <2>1. ASSUME NEW q \in Proc, pc'[q] \in {"handler", "create", "save"}
          PROVE  /\ ~\E d \in done' : d.request = req'[q].id
                 /\ ~\E a \in audit' : a.request = req'[q].id
      <3>1. q # p /\ pc[q] \in {"handler", "create", "save"} /\ req'[q] = req[q]
        BY <1>2, <2>1
      <3>2. req[q].id # id /\ ~IsDone(req[q].id) /\ ~Audited(req[q].id)
        BY <1>10, <3>1 DEF TraceInv
      <3> QED
        BY <1>12, <1>13, <3>1, <3>2 DEF IsDone, Audited
    <2>2. ASSUME NEW q \in Proc, pc'[q] = "after", ctx'[q].ok, ~ctx'[q].persisted
          PROVE  ~\E a \in audit' : a.request = req'[q].id
      <3>1. CASE q = p
        BY <1>0, <1>2, <1>9, <2>2, <3>1
      <3>2. CASE q # p
        <4>1. pc[q] = "after" /\ ctx[q].ok /\ ~ctx[q].persisted /\ req'[q] = req[q] /\ req[q].id # id
          BY <1>2, <1>10, <2>2, <3>2
        <4> QED
          BY <1>13, <4>1 DEF TraceInv, Audited
      <3> QED
        BY <3>1, <3>2
    <2> QED
      BY <2>1, <2>2 DEF TraceInv, IsDone, Audited
  <1>15. SuccessIsCommitted'
    <2> SUFFICES ASSUME NEW q \in Proc, pc'[q] = "after", ctx'[q].ok
                 PROVE  \E d \in done' : d.request = req'[q].id
      BY DEF SuccessIsCommitted, IsDone
    <2>1. CASE q = p
      BY <1>0, <1>2, <1>8, <2>1
    <2>2. CASE q # p
      <3>1. IsDone(req[q].id) /\ req'[q] = req[q]
        BY <1>2, <2>2 DEF SuccessIsCommitted
      <3> QED
        BY <1>11, <3>1 DEF IsDone
    <2> QED
      BY <2>1, <2>2
  <1>16. AuditIsTruthful'
    <2>1. ASSUME NEW a \in audit' PROVE \E d \in done' : d.request = a.request
      <3>1. CASE a \in audit
        BY <1>11, <3>1 DEF AuditIsTruthful, IsDone
      <3>2. CASE a.request = id
        BY <1>7, <1>9, <3>2
      <3> QED
        BY <1>13, <3>1, <3>2
    <2>2. ASSUME NEW a \in audit', NEW b \in audit', a.request = b.request PROVE a = b
      <3>1. \A c \in audit : c.request # id
        BY <1>1 DEF Audited
      <3> QED
        BY <1>6, <2>2, <3>1 DEF AuditIsTruthful
    <2> QED
      BY <2>1, <2>2 DEF AuditIsTruthful, IsDone
  <1> QED
    BY <1>3, <1>4, <1>14, <1>15, <1>16

\* A request that moves on to its next statement, or is cut.
LEMMA MoveInv ==
  ASSUME PipelineInv, NEW p \in Proc, NEW l \in {"idle", "create", "save"}, Goto(p, l),
         l # "idle" => pc[p] = "handler", pc[p] # "idle"
  PROVE  PipelineInv'
  <1> USE DEF PipelineInv
  <1>1. /\ pc'[p] = l /\ \A q \in Proc \ {p} : pc'[q] = pc[q]
        /\ UNCHANGED <<users, audit, done, arrived, req, ctx>>
    BY DEF Goto, dbVars, TypeOK
  <1>2. TypeOK'
    BY <1>1 DEF Goto, TypeOK
  <1> QED
    BY <1>1, <1>2 DEF NumbersInv, TraceInv, OneAccountPerPhone, SuccessIsCommitted,
       AuditIsTruthful, IsDone, Audited

\* The middleware adds a row only for a success that has none.
LEMMA AuditLogInv == ASSUME PipelineInv, NEW p \in Proc, AuditLog(p) PROVE PipelineInv'
  <1> USE DEF PipelineInv
  <1> DEFINE id == req[p].id
  <1>1. /\ pc[p] = "after" /\ pc'[p] = "idle" /\ \A q \in Proc \ {p} : pc'[q] = pc[q]
        /\ UNCHANGED <<users, done, arrived, req, ctx>>
    BY DEF AuditLog, TypeOK
  <1>2. id \in 1..arrived /\ \A q \in Proc \ {p} : pc[q] # "idle" => req[q].id # id
    BY <1>1 DEF NumbersInv
  <1>3. CASE UNCHANGED audit
    <2>1. TypeOK'
      BY <1>1, <1>3 DEF AuditLog, TypeOK
    <2> QED
      BY <1>1, <1>3, <2>1 DEF NumbersInv, TraceInv, OneAccountPerPhone, SuccessIsCommitted,
         AuditIsTruthful, IsDone, Audited
  <1>4. CASE /\ ctx[p].ok /\ ~ctx[p].persisted
             /\ audit' = audit \cup {[request |-> id, by |-> "middleware"]}
    <2>1. IsDone(id) /\ ~Audited(id)
      BY <1>1, <1>4 DEF TraceInv, SuccessIsCommitted
    <2>2. TypeOK'
      BY <1>1, <1>2, <1>4 DEF AuditLog, TypeOK
    <2>3. \A n : n # id => (Audited(n)' => Audited(n))
      BY <1>4 DEF Audited
    <2>4. TraceInv' /\ SuccessIsCommitted'
      BY <1>1, <1>2, <2>3 DEF TraceInv, SuccessIsCommitted, IsDone
    <2>5. AuditIsTruthful'
      BY <1>1, <1>4, <2>1 DEF AuditIsTruthful, IsDone, Audited
    <2> QED
      BY <1>1, <2>2, <2>4, <2>5 DEF NumbersInv, OneAccountPerPhone
  <1> QED
    BY <1>3, <1>4 DEF AuditLog

-----------------------------------------------------------------------------
(* The pipeline.                                                           *)

\* Before the first request there is the founder's account and nothing else.
LEMMA InitPipeline == Init => PipelineInv
  <1> SUFFICES ASSUME Init PROVE PipelineInv
    OBVIOUS
  <1>1. PICK n \in Name : users = <<[phone |-> Founder, name |-> n]>>
    BY DEF Init
  <1>2. /\ audit = {} /\ done = {} /\ arrived = 0 /\ pc = [p \in Proc |-> "idle"]
        /\ ctx = [p \in Proc |-> [ok |-> FALSE, persisted |-> FALSE]]
    BY DEF Init
  <1>3. users \in Seq([phone : Phone, name : Name]) /\ OneAccountPerPhone
    BY <1>1 DEF OneAccountPerPhone
  <1>4. req \in [Proc -> Request]
    BY DEF Init, Request, Route
  <1> QED
    BY <1>2, <1>3, <1>4 DEF PipelineInv, TypeOK, NumbersInv, TraceInv, SuccessIsCommitted, AuditIsTruthful

\* The invariant is inductive.
LEMMA PipelineStep == PipelineInv /\ [Next]_vars => PipelineInv'
  <1> SUFFICES ASSUME PipelineInv, [Next]_vars PROVE PipelineInv'
    OBVIOUS
  <1> USE DEF PipelineInv
  <1>1. CASE UNCHANGED vars
    BY <1>1 DEF vars, dbVars, TypeOK, NumbersInv, TraceInv, OneAccountPerPhone,
       SuccessIsCommitted, AuditIsTruthful, IsDone, Audited
  <1>2. ASSUME NEW p \in Proc, Refuse(p) PROVE PipelineInv'
    BY <1>2, AnswerInv DEF Refuse, Reject, dbVars, TypeOK, OneAccountPerPhone
  <1>3. ASSUME NEW p \in Proc, Workflow(p) PROVE PipelineInv'
    <2>1. PICK ok \in BOOLEAN : Return(p, ok, ok)
      BY <1>3 DEF Workflow
    <2>2. users' \in Seq([phone : Phone, name : Name]) /\ OneAccountPerPhone'
      BY <1>3 DEF Workflow, TypeOK, OneAccountPerPhone
    <2> QED
      BY <1>3, <2>1, <2>2, AnswerInv DEF Workflow, At
  <1>4. ASSUME NEW p \in Proc, Create(p) PROVE PipelineInv'
    <2>1. req[p].phone \in Phone /\ req[p].name \in Name
      BY DEF TypeOK, Request
    <2>2. users' \in Seq([phone : Phone, name : Name]) /\ OneAccountPerPhone'
      BY <1>4, <2>1, AccountsUnique DEF Create
    <2>3. PICK ok \in BOOLEAN : Return(p, ok, FALSE)
      BY <1>4 DEF Create
    <2> QED
      BY <1>4, <2>2, <2>3, AnswerInv DEF Create, At
  <1>5. ASSUME NEW p \in Proc, Save(p) PROVE PipelineInv'
    <2>1. req[p].phone \in Phone /\ req[p].name \in Name
      BY DEF TypeOK, Request
    <2>2. users' \in Seq([phone : Phone, name : Name]) /\ OneAccountPerPhone'
      BY <1>5, <2>1, AccountsUnique DEF Save
    <2>3. PICK ok \in BOOLEAN : Return(p, ok, FALSE)
      BY <1>5 DEF Save
    <2> QED
      BY <1>5, <2>2, <2>3, AnswerInv DEF Save, At
  <1>6. ASSUME NEW p \in Proc, Login(p) PROVE PipelineInv'
    <2>1. users' \in Seq([phone : Phone, name : Name]) /\ OneAccountPerPhone'
      BY <1>6 DEF Login, TypeOK, OneAccountPerPhone
    <2> QED
      BY <1>6, <2>1, AnswerInv DEF Login, At
  <1>7. ASSUME NEW p \in Proc, FindPhone(p) \/ FindUser(p) \/ Cut(p) PROVE PipelineInv'
    BY <1>7, MoveInv DEF FindPhone, FindUser, Cut, At
  <1> QED
    BY <1>1, <1>2, <1>3, <1>4, <1>5, <1>6, <1>7, ArriveInv, AuditLogInv DEF Next

\* Requests are numbered, leave no trace before their handler returns, and no audit
\* row that their context does not tell of; the three promises follow.
THEOREM PipelineInvariance == Spec => []PipelineInv
  BY InitPipeline, PipelineStep, PTL DEF Spec

\* No phone has two accounts, however registrations and renamings interleave.
THEOREM PhonesHaveOneAccount == Spec => []OneAccountPerPhone
  <1>1. PipelineInv => OneAccountPerPhone
    BY DEF PipelineInv
  <1> QED
    BY <1>1, PipelineInvariance, PTL

\* A request that is answered with success has done what it asked for.
THEOREM SuccessMeansCommitted == Spec => []SuccessIsCommitted
  <1>1. PipelineInv => SuccessIsCommitted
    BY DEF PipelineInv
  <1> QED
    BY <1>1, PipelineInvariance, PTL

\* Every audit row stands for a request that succeeded, and no two for one: handlers
\* and middleware never both audit.
THEOREM AuditRowsAreTruthful == Spec => []AuditIsTruthful
  <1>1. PipelineInv => AuditIsTruthful
    BY DEF PipelineInv
  <1> QED
    BY <1>1, PipelineInvariance, PTL

=============================================================================
