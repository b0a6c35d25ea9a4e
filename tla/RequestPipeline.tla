-------------------------- MODULE RequestPipeline --------------------------
(***************************************************************************)
(* Requests that write, on their way through the router: whatever refuses  *)
(* them (rate limit, token, role, body), the handler, and on the way back  *)
(* the AuditLog middleware, which adds an audit row for a handler that did *)
(* not add one itself.  The seven handlers of the clearance workflow do,   *)
(* in the transaction of their write; creating and renaming an account and *)
(* logging in leave it to the middleware.  The account handlers run        *)
(* statement by statement, for they use no transaction.                    *)
(***************************************************************************)
EXTENDS Naturals, Sequences

CONSTANTS
  Proc,          \* requests that may be in progress at once
  Phone, Name,   \* what accounts are registered with
  Founder,       \* the phone of the account that exists from the start
  MaxRequests    \* bound: requests that arrive altogether

ASSUME FounderAssumption == Founder \in Phone
ASSUME MaxRequestsAssumption == MaxRequests \in Nat

Route == {"workflow", "register", "rename", "login"}

VARIABLES
  users,       \* the table users, by id
  audit,       \* audit_logs: which request, and who added the row
  done,        \* history: requests that committed their write, or logged in
  arrived,     \* history: how many requests have arrived, which numbers them
  pc,          \* where each request is
  req,         \* what it asks for
  ctx          \* its gin.Context: the status and audit_persisted

dbVars == <<users, audit, done>>
vars   == <<dbVars, arrived, pc, req, ctx>>

Request == [id : 0..MaxRequests, route : Route, phone : Phone, name : Name, user : Nat]

TypeOK ==
  /\ users \in Seq([phone : Phone, name : Name])
  /\ audit \subseteq [request : 1..arrived, by : {"service", "middleware"}]
  /\ done \subseteq [request : 1..arrived, route : Route]
  /\ arrived \in 0..MaxRequests
  /\ pc \in [Proc -> {"idle", "handler", "create", "save", "after"}]
  /\ req \in [Proc -> Request]
  /\ ctx \in [Proc -> [ok : BOOLEAN, persisted : BOOLEAN]]

-----------------------------------------------------------------------------

Registered(phone) == \E i \in DOMAIN users : users[i].phone = phone

\* A slip for OneAccountPerPhone to catch, like those below: there is no index.
AnyPhone(phone) == TRUE

\* The unique index on users.phone.
IndexAdmits(phone) == ~Registered(phone)

\* The handler returns with this status; the middlewares take over.
Return(p, ok, persisted) ==
  /\ pc' = [pc EXCEPT ![p] = "after"]
  /\ ctx' = [ctx EXCEPT ![p] = [ok |-> ok, persisted |-> persisted]]
  /\ UNCHANGED <<arrived, req>>

Reject(p) == Return(p, FALSE, FALSE) /\ UNCHANGED dbVars

Goto(p, s) ==
  /\ pc' = [pc EXCEPT ![p] = s]
  /\ UNCHANGED <<dbVars, arrived, req, ctx>>

Done(p) == done' = done \cup {[request |-> req[p].id, route |-> req[p].route]}

At(p, s, route) == pc[p] = s /\ req[p].route = route

-----------------------------------------------------------------------------
(* Slips for the properties to catch.                                      *)

\* Create's error is dropped.
CreateRegardless(p) ==
  /\ At(p, "create", "register")
  /\ \/ /\ IndexAdmits(req[p].phone)
        /\ users' = Append(users, [phone |-> req[p].phone, name |-> req[p].name])
        /\ Done(p)
        /\ UNCHANGED audit
     \/ UNCHANGED dbVars
  /\ Return(p, TRUE, FALSE)

\* The handler does not say that it has audited.
WorkflowUnmarked(p) ==
  /\ At(p, "handler", "workflow")
  /\ audit' = audit \cup {[request |-> req[p].id, by |-> "service"]}
  /\ Done(p)
  /\ Return(p, TRUE, FALSE)
  /\ UNCHANGED users

-----------------------------------------------------------------------------

Arrive(p) ==
  /\ pc[p] = "idle" /\ arrived < MaxRequests
  /\ arrived' = arrived + 1
  /\ \E route \in Route, phone \in Phone, name \in Name, user \in DOMAIN users :
       req' = [req EXCEPT ![p] = [id |-> arrived + 1, route |-> route,
                                  phone |-> phone, name |-> name, user |-> user]]
  /\ pc' = [pc EXCEPT ![p] = "handler"]
  /\ UNCHANGED <<dbVars, ctx>>

\* Limit, AuthRequired, RequireRole, the body's binding or the service refuse it,
\* or a statement fails: Fail sets a status of 400 or more.  The steps below that
\* write may be answered so too, if the database's reply to the commit is lost.
Refuse(p) == pc[p] \in {"handler", "create", "save"} /\ Reject(p)

\* One of the seven workflow handlers: the write and its audit row are one
\* transaction, and audit_persisted is set once it is known to have committed.
Workflow(p) ==
  /\ At(p, "handler", "workflow")
  /\ audit' = audit \cup {[request |-> req[p].id, by |-> "service"]}
  /\ Done(p)
  /\ \E ok \in BOOLEAN : Return(p, ok, ok)
  /\ UNCHANGED users

\* Register looks for the phone first ...
FindPhone(p) ==
  /\ At(p, "handler", "register")
  /\ ~Registered(req[p].phone)
  /\ Goto(p, "create")

\* ... then inserts, unless another registration was faster.
Create(p) ==
  /\ At(p, "create", "register")
  /\ IndexAdmits(req[p].phone)
  /\ users' = Append(users, [phone |-> req[p].phone, name |-> req[p].name])
  /\ Done(p)
  /\ \E ok \in BOOLEAN : Return(p, ok, FALSE)
  /\ UNCHANGED audit

\* UpdateProfile reads the row of the token's user ...
FindUser(p) == At(p, "handler", "rename") /\ Goto(p, "save")

\* ... and saves it whole; nothing but its name is ever changed.
Save(p) ==
  /\ At(p, "save", "rename")
  /\ users' = [users EXCEPT ![req[p].user].name = req[p].name]
  /\ Done(p)
  /\ \E ok \in BOOLEAN : Return(p, ok, FALSE)
  /\ UNCHANGED audit

Login(p) ==
  /\ At(p, "handler", "login")
  /\ Registered(req[p].phone)
  /\ Done(p)
  /\ Return(p, TRUE, FALSE)
  /\ UNCHANGED <<users, audit>>

\* AuditLog after c.Next(): it adds a row unless the request was refused or has
\* one; if the insert fails that is only logged.
AuditLog(p) ==
  /\ pc[p] = "after"
  /\ \/ /\ ctx[p].ok /\ ~ctx[p].persisted
        /\ audit' = audit \cup {[request |-> req[p].id, by |-> "middleware"]}
     \/ UNCHANGED audit
  /\ pc' = [pc EXCEPT ![p] = "idle"]
  /\ UNCHANGED <<users, done, arrived, req, ctx>>

\* The server dies, is shut down, or the handler panics past the middleware.
Cut(p) == pc[p] # "idle" /\ Goto(p, "idle")

Init ==
  /\ users \in {<<[phone |-> Founder, name |-> n]>> : n \in Name}
  /\ audit = {} /\ done = {} /\ arrived = 0
  /\ pc = [p \in Proc |-> "idle"]
  /\ req \in {[p \in Proc |-> [id |-> 0, route |-> "login", phone |-> Founder,
                               name |-> n, user |-> 1]] : n \in Name}
  /\ ctx = [p \in Proc |-> [ok |-> FALSE, persisted |-> FALSE]]

Next ==
  \E p \in Proc :
    \/ Arrive(p) \/ Refuse(p) \/ Workflow(p) \/ FindPhone(p) \/ Create(p)
    \/ FindUser(p) \/ Save(p) \/ Login(p) \/ AuditLog(p) \/ Cut(p)

Spec == Init /\ [][Next]_vars

-----------------------------------------------------------------------------

IsDone(id) == \E d \in done : d.request = id

\* No phone has two accounts, however registrations and renamings interleave:
\* Register's look at the phone before the insert does not prevent it.
OneAccountPerPhone ==
  \A i, j \in DOMAIN users : users[i].phone = users[j].phone => i = j

\* A request that is answered with success has done what it asked for, also when
\* it lost a race on the way.
SuccessIsCommitted ==
  \A p \in Proc : pc[p] = "after" /\ ctx[p].ok => IsDone(req[p].id)

\* Every audit row stands for a request that succeeded, and no two for one: the
\* handlers that audit and the middleware that steps in for the others never both
\* do.
AuditIsTruthful ==
  /\ \A a \in audit : IsDone(a.request)
  /\ \A a, b \in audit : a.request = b.request => a = b

\* Every write is in the audit log once its request has ended (README and the audit
\* page say that all writes are).
WritesAreAudited ==
  \A d \in done : d.route # "login" =>
    \/ \E a \in audit : a.request = d.request
    \/ \E p \in Proc : pc[p] # "idle" /\ req[p].id = d.request

=============================================================================
