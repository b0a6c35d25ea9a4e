--------------------------- MODULE ConsoleProofs ---------------------------
(***************************************************************************)
(* Proofs about Console for any rows, any number of tokens, decisions and  *)
(* changes, and users who visit any pages in any way.                      *)
(*                                                                         *)
(* SessionInv is about the session, the router and the login page: a       *)
(* navigation that the guards have admitted is still admissible when the   *)
(* page is built, for whatever changes the session replaces it.  DeskInv   *)
(* is about the desks: what was asked for a row that the form was not      *)
(* filled in for concerns a row that has been decided or reviewed.         *)
(***************************************************************************)
EXTENDS Console, TLAPS

USE NoneAssumption

\* The bounds of a behaviour make sense.
ProperVisit(v) ==
  /\ v.pages \subseteq Page /\ v.roles \subseteq Role
  /\ v.tokens \in Nat /\ v.sent \in Nat /\ v.writes \in Nat

-----------------------------------------------------------------------------
(* The session and the router.                                             *)

SessionTypes ==
  /\ ProperVisit(visit)
  /\ issued \in Nat /\ issued <= visit.tokens /\ expired \in 0..issued
  /\ session \in {None} \cup [role : Role, n : Nat]
  /\ session # None => session.n = issued /\ issued # 0
  /\ page \in Page
  /\ target \in {None} \cup [to : Page, admitted : BOOLEAN]
  /\ target # None => target.to # page
  /\ {hasty, stranded} \subseteq BOOLEAN /\ loading \in BOOLEAN
  /\ missing \subseteq visit.doubtful \ {page}
  /\ rights \in Role \cup {None}
  /\ logins \subseteq [role : Role, live : BOOLEAN]

\* What the guards have admitted, they would still admit.
AdmittedStays == target # None /\ target.admitted => Admits(target.to)

\* The user of the login page has one login under way at most, and sees that it is;
\* one who waits is still there when it ends.
LoginsInv ==
  /\ \A l, m \in logins : l = m
  /\ loading => \A l \in logins : l.live
  /\ ~hasty /\ logins # {} => page = "login" /\ target = None

SessionInv ==
  /\ SessionTypes /\ AdmittedStays /\ LoginsInv
  /\ LoggedOutGoesToLogin /\ ButtonsFitRole

\* What the session's steps are to keep, and the properties of steps.
GuardedStep == page # "audit" /\ page' = "audit" => RoleOf(session) \in Managers
LockStep ==
  ~LoginLocked /\ LoginLocked' => (session # None /\ session' = None) \/ FetchFails

\* A navigation is none, or leads elsewhere and has yet to be admitted.
LEMMA TowardSomewhere ==
  ASSUME NEW p \in Page
  PROVE  /\ Toward(p) \in {None} \cup [to : Page, admitted : BOOLEAN]
         /\ p = page => Toward(p) = None
         /\ p # page => Toward(p) # None /\ Toward(p).to = p /\ ~Toward(p).admitted
  <1> DEFINE t == [to |-> p, admitted |-> FALSE]
  <1>1. t \in [to : Page, admitted : BOOLEAN] /\ t.to = p /\ ~t.admitted
    OBVIOUS
  <1>2. t # None
    BY <1>1
  <1>3. Toward(p) = IF p = page THEN None ELSE t
    BY DEF Toward
  <1> HIDE DEF t
  <1> QED
    BY <1>1, <1>2, <1>3

\* Steps that leave the session and the router alone.
LEMMA SessionFrame ==
  ASSUME SessionInv, UNCHANGED <<sessionVars, routerVars, visit>>
  PROVE  SessionInv' /\ GuardedStep /\ LockStep
  <1>1. UNCHANGED <<session, issued, expired, loading, logins, page, target, hasty, rights,
                    missing, stranded, visit>>
    BY DEF sessionVars, routerVars
  <1> QED
    BY <1>1 DEF SessionInv, SessionTypes, ProperVisit, AdmittedStays, Admits, RoleOf, LoginsInv,
       LoggedOutGoesToLogin, ButtonsFitRole, GuardedStep, LockStep, LoginLocked

\* A link, Back or Forward.
LEMMA NavigateSession ==
  ASSUME SessionInv, NEW p \in Page, Navigate(p), UNCHANGED visit
  PROVE  SessionInv' /\ GuardedStep /\ LockStep
  <1>1. /\ UNCHANGED <<session, issued, expired, loading, logins, page, rights, missing, stranded, visit>>
        /\ target' = Toward(p) /\ (page = "login" => p # page)
        /\ hasty' = (hasty \/ target # None \/ logins # {})
    BY DEF Navigate, sessionVars
  <1>2. /\ target' \in {None} \cup [to : Page, admitted : BOOLEAN]
        /\ target' # None => target'.to # page /\ ~target'.admitted
        /\ page = "login" => target' # None
    BY <1>1, TowardSomewhere
  <1>3. hasty' \in BOOLEAN
    BY <1>1 DEF SessionInv, SessionTypes
  <1>4. SessionTypes' /\ AdmittedStays'
    BY <1>1, <1>2, <1>3 DEF SessionInv, SessionTypes, ProperVisit, AdmittedStays
  <1>5. LoginsInv' /\ LoggedOutGoesToLogin' /\ ButtonsFitRole'
    BY <1>1 DEF SessionInv, LoginsInv, LoggedOutGoesToLogin, ButtonsFitRole
  <1> QED
    BY <1>1, <1>2, <1>4, <1>5 DEF SessionInv, GuardedStep, LockStep, LoginLocked

\* The guards run.
LEMMA GuardsSession ==
  ASSUME SessionInv, RunGuards, UNCHANGED visit
  PROVE  SessionInv' /\ GuardedStep /\ LockStep
  <1>1. /\ UNCHANGED <<session, issued, expired, loading, logins, page, hasty, rights,
                        missing, stranded, visit>>
        /\ target # None
    BY DEF RunGuards, sessionVars
  <1>2. Elsewhere \in Page
    BY DEF Elsewhere, Page
  <1>3. /\ target' \in {None} \cup [to : Page, admitted : BOOLEAN]
        /\ target' # None => target'.to # page
    <2>1. CASE Admits(target.to)
      BY <2>1, <1>1 DEF RunGuards, SessionInv, SessionTypes
    <2>2. CASE ~Admits(target.to)
      BY <2>2, <1>2, TowardSomewhere DEF RunGuards
    <2> QED
      BY <2>1, <2>2
  <1>4. target' # None /\ target'.admitted => Admits(target'.to)
    <2>1. CASE Admits(target.to)
      BY <2>1, <1>1 DEF RunGuards, SessionInv, SessionTypes
    <2>2. CASE ~Admits(target.to)
      BY <2>2, <1>2, TowardSomewhere DEF RunGuards
    <2> QED
      BY <2>1, <2>2
  <1>5. SessionTypes' /\ AdmittedStays' /\ LoginsInv' /\ ButtonsFitRole'
    BY <1>1, <1>3, <1>4 DEF SessionInv, SessionTypes, ProperVisit, AdmittedStays, Admits, RoleOf,
       LoginsInv, ButtonsFitRole
  <1>6. LoggedOutGoesToLogin'
    <2> SUFFICES ASSUME ~hasty, ~stranded, session = None, page # "login"
                 PROVE  target' # None /\ target'.to = "login"
      BY <1>1 DEF LoggedOutGoesToLogin
    <2>1. target.to = "login" /\ Admits("login")
      BY DEF SessionInv, LoggedOutGoesToLogin, Admits
    <2> QED
      BY <1>1, <2>1 DEF RunGuards, SessionInv, SessionTypes
  <1>7. LockStep
    \* Whoever has a session is not sent back to the login page.
    <2>1. page = "login" /\ session # None => target' # None
      <3>1. page = "login" /\ session # None => Toward(Elsewhere) # None
        BY <1>2, TowardSomewhere DEF Elsewhere
      <3> QED
        BY <1>1, <3>1 DEF RunGuards, SessionInv, SessionTypes
    <2> QED
      BY <1>1, <2>1 DEF LockStep, LoginLocked
  <1> QED
    BY <1>1, <1>5, <1>6, <1>7 DEF SessionInv, GuardedStep

\* The code of the page does not come.
LEMMA FetchFailsSession ==
  ASSUME SessionInv, FetchFails, UNCHANGED visit
  PROVE  SessionInv' /\ GuardedStep /\ LockStep
  <1>1. /\ target # None /\ target' = None
        /\ stranded' = (stranded \/ target.to = "login")
        /\ UNCHANGED <<session, issued, expired, loading, logins, page, hasty, rights,
                        missing, visit>>
    BY DEF FetchFails, sessionVars
  <1>2. stranded' \in BOOLEAN
    BY <1>1 DEF SessionInv, SessionTypes
  <1>3. SessionTypes' /\ AdmittedStays'
    BY <1>1, <1>2 DEF SessionInv, SessionTypes, ProperVisit, AdmittedStays
  <1>4. LoginsInv' /\ LoggedOutGoesToLogin' /\ ButtonsFitRole'
    BY <1>1 DEF SessionInv, LoginsInv, LoggedOutGoesToLogin, ButtonsFitRole
  <1> QED
    BY <1>1, <1>3, <1>4 DEF SessionInv, GuardedStep, LockStep

\* The page that the guards have admitted is built.
LEMMA ActivateSession ==
  ASSUME SessionInv, Activate, UNCHANGED visit
  PROVE  SessionInv' /\ GuardedStep /\ LockStep
  <1>1. /\ target # None /\ target.admitted /\ page' = target.to /\ target' = None
        /\ rights' = RoleOf(session) /\ loading' = FALSE
        /\ logins' = {[l EXCEPT !.live = FALSE] : l \in logins}
        /\ missing' = missing \ {target.to}
        /\ stranded' = (stranded /\ target.to # "login")
        /\ UNCHANGED <<session, issued, expired, hasty, visit>>
    BY DEF Activate, RightsAtBuild
  <1>2. /\ Admits(target.to) /\ target.to \in Page /\ target.to # page
        /\ session = None \/ session.role \in Role
    BY <1>1 DEF SessionInv, SessionTypes, AdmittedStays
  <1>3. /\ logins' \subseteq [role : Role, live : BOOLEAN]
        /\ \A l, m \in logins' : l = m
        /\ logins' # {} => logins # {}
    <2>1. logins \subseteq [role : Role, live : BOOLEAN] /\ \A l, m \in logins : l = m
      BY DEF SessionInv, SessionTypes, LoginsInv
    <2>2. \A x \in logins' : \E l \in logins : x = [l EXCEPT !.live = FALSE]
      BY <1>1
    <2>3. \A l \in logins : [l EXCEPT !.live = FALSE] \in [role : Role, live : BOOLEAN]
      BY <2>1
    <2> QED
      BY <2>1, <2>2, <2>3
  <1>4. SessionTypes' /\ AdmittedStays'
    <2>1. stranded' \in BOOLEAN
      BY <1>1 DEF SessionInv, SessionTypes
    <2> QED
      BY <1>1, <1>2, <1>3, <2>1 DEF SessionInv, SessionTypes, ProperVisit, AdmittedStays, RoleOf
  <1>5. LoginsInv'
    BY <1>1, <1>3 DEF SessionInv, LoginsInv
  <1>6. LoggedOutGoesToLogin' /\ ButtonsFitRole'
    BY <1>1, <1>2 DEF SessionInv, LoggedOutGoesToLogin, ButtonsFitRole, Admits, RoleOf
  <1>7. GuardedStep
    BY <1>1, <1>2 DEF GuardedStep, Admits
  <1> QED
    BY <1>1, <1>4, <1>5, <1>6, <1>7 DEF SessionInv, LockStep, LoginLocked

\* The browser's reload.
LEMMA ReloadSession ==
  ASSUME SessionInv, Reload, UNCHANGED visit
  PROVE  SessionInv' /\ GuardedStep /\ LockStep
  <1>1. /\ page' = IF session = None THEN "login"
                   ELSE IF page = "audit" /\ session.role \notin Managers THEN "turnarounds"
                   ELSE page
        /\ target' = None /\ hasty' = FALSE /\ rights' = RoleOf(session)
        /\ missing' = visit.doubtful \ {page'} /\ stranded' = FALSE
        /\ loading' = FALSE /\ logins' = {}
        /\ UNCHANGED <<session, issued, expired, visit>>
    BY DEF Reload, RightsAtBuild
  <1>2. page' \in Page /\ (session = None \/ session.role \in Role)
    BY <1>1 DEF SessionInv, SessionTypes, Page
  <1>3. SessionTypes' /\ AdmittedStays' /\ LoginsInv'
    BY <1>1, <1>2 DEF SessionInv, SessionTypes, ProperVisit, AdmittedStays, RoleOf, LoginsInv
  <1>4. LoggedOutGoesToLogin' /\ ButtonsFitRole'
    BY <1>1 DEF LoggedOutGoesToLogin, ButtonsFitRole, RoleOf
  <1> QED
    BY <1>1, <1>3, <1>4 DEF SessionInv, GuardedStep, LockStep, LoginLocked

\* The login form is sent.
LEMMA SubmitLoginSession ==
  ASSUME SessionInv, NEW role \in Role, SubmitLogin(role), UNCHANGED visit
  PROVE  SessionInv' /\ GuardedStep /\ LockStep
  <1>1. /\ page = "login" /\ logins = {} /\ loading' = TRUE
        /\ logins' = {[role |-> role, live |-> TRUE]}
        /\ hasty' = (hasty \/ target # None)
        /\ UNCHANGED <<session, issued, expired, page, target, rights, missing, stranded, visit>>
    BY DEF SubmitLogin
  <1>2. hasty' \in BOOLEAN /\ logins' \subseteq [role : Role, live : BOOLEAN]
    BY <1>1 DEF SessionInv, SessionTypes
  <1>3. SessionTypes' /\ AdmittedStays'
    BY <1>1, <1>2 DEF SessionInv, SessionTypes, ProperVisit, AdmittedStays, Admits, RoleOf
  <1>4. LoginsInv'
    <2>1. \A l \in logins' : l.live
      BY <1>1
    <2>2. \A l, m \in logins' : l = m
      BY <1>1
    <2>3. ~hasty' => target' = None /\ page' = "login"
      BY <1>1 DEF SessionInv, SessionTypes
    <2> QED
      BY <2>1, <2>2, <2>3 DEF LoginsInv
  <1>5. LoggedOutGoesToLogin' /\ ButtonsFitRole'
    BY <1>1 DEF LoggedOutGoesToLogin, ButtonsFitRole
  <1> QED
    BY <1>1, <1>3, <1>4, <1>5 DEF SessionInv, GuardedStep, LockStep, LoginLocked

\* A login succeeds; its navigation replaces any other.
LEMMA LoginSucceedsSession ==
  ASSUME SessionInv, NEW l \in logins, LoginSucceeds(l), UNCHANGED visit
  PROVE  SessionInv' /\ GuardedStep /\ LockStep
  <1>1. /\ issued < visit.tokens /\ issued' = issued + 1
        /\ session' = [role |-> l.role, n |-> issued + 1]
        /\ target' = Toward("turnarounds") /\ logins' = logins \ {l}
        /\ UNCHANGED <<expired, loading, page, hasty, rights, missing, stranded, visit>>
    BY DEF LoginSucceeds
  <1>2. /\ target' \in {None} \cup [to : Page, admitted : BOOLEAN]
        /\ target' # None => target'.to # page /\ ~target'.admitted
        /\ page = "login" => target' # None
    BY <1>1, TowardSomewhere DEF Page
  <1>3. session' \in [role : Role, n : Nat] /\ session' # None /\ session'.n = issued'
    BY <1>1 DEF SessionInv, SessionTypes
  <1>4. logins' = {} /\ (~hasty => page = "login")
    BY <1>1 DEF SessionInv, LoginsInv
  <1>5. SessionTypes' /\ AdmittedStays'
    BY <1>1, <1>2, <1>3, <1>4 DEF SessionInv, SessionTypes, ProperVisit, AdmittedStays
  <1>6. LoginsInv' /\ LoggedOutGoesToLogin' /\ ButtonsFitRole'
    BY <1>1, <1>3, <1>4 DEF LoginsInv, LoggedOutGoesToLogin, ButtonsFitRole
  <1> QED
    BY <1>1, <1>2, <1>3, <1>5, <1>6 DEF SessionInv, GuardedStep, LockStep, LoginLocked

\* A login fails; the form of the user who sent it is unlocked.
LEMMA LoginFailsSession ==
  ASSUME SessionInv, NEW l \in logins, LoginFails(l), UNCHANGED visit
  PROVE  SessionInv' /\ GuardedStep /\ LockStep
  <1>1. /\ logins' = logins \ {l} /\ loading' = (loading /\ ~l.live)
        /\ UNCHANGED <<session, issued, expired, page, target, hasty, rights, missing, stranded, visit>>
    BY DEF LoginFails, routerVars
  <1>2. loading' \in BOOLEAN /\ ~loading'
    BY <1>1 DEF SessionInv, SessionTypes, LoginsInv
  <1>3. SessionTypes' /\ AdmittedStays'
    BY <1>1, <1>2 DEF SessionInv, SessionTypes, ProperVisit, AdmittedStays, Admits, RoleOf
  <1>4. LoginsInv' /\ LoggedOutGoesToLogin' /\ ButtonsFitRole'
    BY <1>1, <1>2 DEF SessionInv, LoginsInv, LoggedOutGoesToLogin, ButtonsFitRole
  <1> QED
    BY <1>1, <1>2, <1>3, <1>4 DEF SessionInv, GuardedStep, LockStep, LoginLocked

\* The session ends, and with it whatever the router was about.
LEMMA EndSessionSession ==
  ASSUME SessionInv, EndSession, UNCHANGED visit
  PROVE  SessionInv' /\ GuardedStep /\ LockStep
  <1>1. /\ session' = None /\ target' = Toward("login")
        /\ UNCHANGED <<issued, expired, loading, logins, page, hasty, rights, missing, stranded, visit>>
    BY DEF EndSession
  <1>2. /\ target' \in {None} \cup [to : Page, admitted : BOOLEAN]
        /\ page = "login" => target' = None
        /\ page # "login" => target' # None /\ target'.to = "login" /\ ~target'.admitted
    BY <1>1, TowardSomewhere DEF Page
  <1>3. SessionTypes' /\ AdmittedStays'
    BY <1>1, <1>2 DEF SessionInv, SessionTypes, ProperVisit, AdmittedStays
  <1>4. LoginsInv' /\ LoggedOutGoesToLogin' /\ ButtonsFitRole'
    BY <1>1, <1>2 DEF SessionInv, LoginsInv, LoggedOutGoesToLogin, ButtonsFitRole
  <1> QED
    BY <1>1, <1>3, <1>4 DEF SessionInv, GuardedStep, LockStep, LoginLocked

\* A token expires.
LEMMA ExpireSession ==
  ASSUME SessionInv, Expire, UNCHANGED visit
  PROVE  SessionInv' /\ GuardedStep /\ LockStep
  <1>1. /\ expired < issued /\ expired' = expired + 1
        /\ UNCHANGED <<session, issued, loading, logins, page, target, hasty, rights,
                        missing, stranded, visit>>
    BY DEF Expire, routerVars
  <1>2. SessionTypes'
    BY <1>1 DEF SessionInv, SessionTypes, ProperVisit
  <1> QED
    BY <1>1, <1>2 DEF SessionInv, AdmittedStays, Admits, RoleOf, LoginsInv,
       LoggedOutGoesToLogin, ButtonsFitRole, GuardedStep, LockStep, LoginLocked

\* Every step keeps it.
LEMMA SessionStep ==
  SessionInv /\ [Next]_vars => SessionInv' /\ [GuardedStep]_vars /\ [LockStep]_vars
  <1> SUFFICES ASSUME SessionInv, [Next]_vars
               PROVE  SessionInv' /\ GuardedStep /\ LockStep
    OBVIOUS
  <1>1. CASE UNCHANGED vars
    BY <1>1, SessionFrame DEF vars
  <1>2. CASE UserStep /\ UNCHANGED visit
    <2>1. visit.pages \subseteq Page /\ visit.roles \subseteq Role
      BY DEF SessionInv, SessionTypes, ProperVisit
    <2>2. ASSUME Logout PROVE EndSession
      BY <2>2 DEF Logout
    <2>3. ASSUME \/ \E r \in Row : page \in Desk /\ \E shown \in Range(rows[page][r]) : Select(r, shown)
                 \/ Turn \/ (\E to \in Verdict : Submit(to)) \/ Confirm \/ Cancel
          PROVE  UNCHANGED <<sessionVars, routerVars>>
      BY <2>3 DEF Select, Turn, Submit, Confirm, Cancel
    <2> QED
      BY <1>2, <2>1, <2>2, <2>3, NavigateSession, SubmitLoginSession, EndSessionSession,
         ReloadSession, SessionFrame DEF UserStep
  <1>3. CASE ServerStep /\ UNCHANGED visit
    <2>1. Expire \/ UNCHANGED <<sessionVars, routerVars>>
      BY <1>3 DEF ServerStep, Serve, OtherWrite
    <2> QED
      BY <1>3, <2>1, ExpireSession, SessionFrame
  <1>4. CASE AnswerStep /\ UNCHANGED visit
    <2>1. \/ \E l \in logins : LoginSucceeds(l) \/ LoginFails(l)
          \/ EndSession \/ UNCHANGED <<sessionVars, routerVars>>
      BY <1>4 DEF AnswerStep, ListArrives, ListDenied, AnswerSaved, AnswerDenied, AnswerFailed
    <2> QED
      BY <1>4, <2>1, LoginSucceedsSession, LoginFailsSession, EndSessionSession, SessionFrame
  <1> QED
    BY <1>1, <1>2, <1>3, <1>4, GuardsSession, FetchFailsSession, ActivateSession DEF Next

\* A new tab.
LEMMA SessionInit ==
  ASSUME NEW Visits, \A v \in Visits : ProperVisit(v), InitFor(Visits)
  PROVE  SessionInv
  <1>1. /\ ProperVisit(visit) /\ session = None /\ issued = 0 /\ expired = 0
        /\ page = "login" /\ target = None /\ hasty = FALSE /\ rights = None
        /\ missing = visit.doubtful \ {"login"} /\ stranded = FALSE
        /\ loading = FALSE /\ logins = {}
    BY DEF InitFor
  <1>2. SessionTypes
    <2>1. hasty \in BOOLEAN /\ stranded \in BOOLEAN /\ loading \in BOOLEAN
      BY <1>1, Zenon
    <2> QED
      BY <1>1, <2>1 DEF SessionTypes, Page, ProperVisit
  <1> QED
    BY <1>1, <1>2 DEF SessionInv, AdmittedStays, LoginsInv, LoggedOutGoesToLogin, ButtonsFitRole

-----------------------------------------------------------------------------
(* The desks.                                                              *)

State == ClearanceState \cup CheckResult

FormFor == [row : Row, fresh : BOOLEAN]

Asking == [desk : Desk, row : Row, filledFor : Row, to : Verdict, live : BOOLEAN]

Asked == [desk : Desk, row : Row, filledFor : Row, to : Verdict, live : BOOLEAN,
          token : Nat, role : Role \cup {None}, reply : {None} \cup Reply]

RowsInv ==
  /\ rows \in [Desk -> [Row -> Seq(State)]]
  /\ \A d \in Desk, r \in Row : Len(rows[d][r]) > 0 /\ rows[d][r][1] = "pending"

\* A row that has been decided or reviewed.
Settled(d, r) == Present(d, r) # "pending"

\* The form may be filled in for another row than the selected one, which then is the
\* row just saved.
SelectionInv ==
  /\ selected \in {None} \cup [row : Row, state : State]
  /\ form \in {None} \cup FormFor
  /\ selected # None =>
       /\ page \in Desk /\ form \in FormFor
       /\ selected.row # form.row => Settled(page, selected.row)

\* What the user is asked to confirm.
GoodDialog(d) ==
  /\ d.live => ~saving /\ d.desk = page /\ form \in FormFor
  /\ d.row # d.filledFor => Settled(d.desk, d.row)

DialogInv == dialog \in {None} \cup Asking /\ (dialog # None => GoodDialog(dialog))

\* A decision or review under way.
GoodRequest(q) ==
  /\ q \in Asked
  /\ q.live => q.desk = page /\ form \in FormFor
  /\ q.row # q.filledFor => Settled(q.desk, q.row)
  /\ q.reply = "ok" => Settled(q.desk, q.row)
  /\ q.reply = "denied" => Rejected(q.token)
  /\ q.token <= issued

TokensInv == issued \in Nat /\ expired \in Nat /\ loads \subseteq 0..issued

DeskInv ==
  /\ page \in Page /\ saving \in BOOLEAN
  /\ RowsInv /\ TokensInv /\ SelectionInv /\ DialogInv
  /\ \A q \in sent : GoodRequest(q)
  /\ SavingHasRequest /\ MisdirectedOnlyRevokes

\* A row is written at its end, and with a verdict it is settled.
LEMMA WriteSettles ==
  ASSUME RowsInv, NEW d \in Desk, NEW r \in Row, NEW to \in Verdict, WriteRow(d, r, to)
  PROVE  /\ RowsInv' /\ Settled(d, r)'
         /\ \A e \in Desk, s \in Row : Settled(e, s) => Settled(e, s)'
  <1>1. /\ to \in State /\ to # "pending"
    BY DEF Verdict, State, ClearanceState, CheckResult
  <1> DEFINE old == rows[d][r]
             new == Append(old, to)
  <1>2. /\ old \in Seq(State) /\ Len(old) > 0 /\ old[1] = "pending"
    BY DEF RowsInv
  <1>3. /\ new \in Seq(State) /\ Len(new) = Len(old) + 1 /\ Len(old) \in Nat
        /\ new[1] = "pending" /\ new[Len(new)] = to
    BY <1>1, <1>2
  <1>4. /\ rows' \in [Desk -> [Row -> Seq(State)]]
        /\ rows'[d][r] = new
        /\ \A e \in Desk, s \in Row : e # d \/ s # r => rows'[e][s] = rows[e][s]
    <2>1. rows' = [rows EXCEPT ![d][r] = new]
      BY DEF WriteRow
    <2> HIDE DEF new
    <2> QED
      BY <1>3, <2>1 DEF RowsInv
  <1> HIDE DEF old, new
  <1>5. RowsInv'
    <2>1. Len(new) > 0
      BY <1>3
    <2>2. ASSUME NEW e \in Desk, NEW s \in Row
          PROVE  Len(rows'[e][s]) > 0 /\ rows'[e][s][1] = "pending"
      <3>1. CASE e = d /\ s = r
        BY <1>3, <1>4, <2>1, <3>1
      <3>2. CASE e # d \/ s # r
        BY <1>4, <3>2 DEF RowsInv
      <3> QED
        BY <3>1, <3>2
    <2> QED
      BY <1>4, <2>2 DEF RowsInv
  <1>6. \A e \in Desk, s \in Row : e # d \/ s # r => (Settled(e, s)' <=> Settled(e, s))
    BY <1>4 DEF Settled, Present
  <1>7. Settled(d, r)'
    BY <1>1, <1>3, <1>4 DEF Settled, Present
  <1> QED
    BY <1>5, <1>6, <1>7

\* A step after which rows, page and form are as they were leaves settled what was, and
\* requests good.
LEMMA StaySettled ==
  ASSUME UNCHANGED <<rows, page, form>>, TokensInv, TokensInv', issued <= issued', expired <= expired'
  PROVE  /\ \A d, r : Settled(d, r)' <=> Settled(d, r)
         /\ \A q : GoodRequest(q) => GoodRequest(q)'
  <1>1. \A d, r : Settled(d, r)' <=> Settled(d, r)
    BY DEF Settled, Present
  <1>2. ASSUME NEW q, GoodRequest(q) PROVE GoodRequest(q)'
    <2>1. q \in Asked /\ q.token \in Nat
      BY <1>2 DEF GoodRequest, Asked
    <2> QED
      BY <1>1, <1>2, <2>1 DEF GoodRequest, Rejected, TokensInv
  <1> QED
    BY <1>1, <1>2

\* Steps that concern the desks only in that a list is loaded, a dialog closed or the
\* selection dropped.
LEMMA DeskFrame ==
  ASSUME DeskInv, UNCHANGED <<page, form, saving, sent, rows>>,
         selected' = selected \/ selected' = None,
         dialog' = dialog \/ dialog' = None,
         TokensInv', issued <= issued', expired <= expired'
  PROVE  DeskInv'
  <1>1. /\ \A d, r : Settled(d, r)' <=> Settled(d, r)
        /\ \A q : GoodRequest(q) => GoodRequest(q)'
    BY StaySettled DEF DeskInv
  <1>2. RowsInv' /\ SavingHasRequest' /\ MisdirectedOnlyRevokes'
    BY DEF DeskInv, RowsInv, SavingHasRequest, MisdirectedOnlyRevokes
  <1>3. SelectionInv'
    BY <1>1 DEF DeskInv, SelectionInv
  <1>4. DialogInv'
    BY <1>1 DEF DeskInv, DialogInv, GoodDialog
  <1> QED
    BY <1>1, <1>2, <1>3, <1>4 DEF DeskInv

\* A page is built: nothing is selected, and nothing under way is its own.
LEMMA ActivateDesk ==
  ASSUME DeskInv, Activate, TokensInv', target.to \in Page
  PROVE  DeskInv'
  <1>1. /\ page' = target.to /\ selected' = None /\ form' = None /\ saving' = FALSE
        /\ dialog' = IF dialog = None THEN None ELSE [dialog EXCEPT !.live = FALSE]
        /\ sent' = {[q EXCEPT !.live = FALSE] : q \in sent}
        /\ UNCHANGED <<issued, expired, rows>>
    BY DEF Activate, FreshDesk
  <1>2. \A d, r : Settled(d, r)' <=> Settled(d, r)
    BY <1>1 DEF Settled, Present
  <1>3. ASSUME NEW x \in sent'
        PROVE  GoodRequest(x)' /\ ~x.live
               /\ (x.reply = "ok" /\ x.row # x.filledFor => x.desk = "clearance" /\ x.to = "revoked")
    <2>1. PICK q \in sent : x = [q EXCEPT !.live = FALSE]
      BY <1>1
    <2>2. GoodRequest(q)
      BY DEF DeskInv
    <2>3. /\ x \in Asked /\ x.live = FALSE /\ x.desk = q.desk /\ x.row = q.row
          /\ x.filledFor = q.filledFor /\ x.to = q.to /\ x.reply = q.reply /\ x.token = q.token
      BY <2>1, <2>2 DEF GoodRequest, Asked
    <2>4. GoodRequest(x)'
      BY <1>1, <1>2, <2>2, <2>3 DEF GoodRequest, Rejected
    <2> QED
      BY <2>3, <2>4 DEF DeskInv, MisdirectedOnlyRevokes
  <1>4. DialogInv'
    <2>1. CASE dialog = None
      BY <1>1, <2>1 DEF DialogInv
    <2>2. CASE dialog # None
      <3>1. dialog \in Asking /\ GoodDialog(dialog) /\ dialog' = [dialog EXCEPT !.live = FALSE]
        BY <1>1, <2>2 DEF DeskInv, DialogInv
      <3>2. /\ dialog' \in Asking /\ dialog'.live = FALSE
            /\ dialog'.desk = dialog.desk /\ dialog'.row = dialog.row
            /\ dialog'.filledFor = dialog.filledFor
        BY <3>1 DEF Asking
      <3> QED
        BY <1>2, <3>1, <3>2 DEF DialogInv, GoodDialog
    <2> QED
      BY <2>1, <2>2
  <1>5. SelectionInv'
    BY <1>1 DEF SelectionInv
  <1>6. RowsInv' /\ page' \in Page
    BY <1>1 DEF DeskInv, RowsInv
  <1>7. saving' \in BOOLEAN /\ ~saving'
    BY <1>1, Zenon
  <1>8. SavingHasRequest' /\ MisdirectedOnlyRevokes'
    BY <1>3, <1>7 DEF SavingHasRequest, MisdirectedOnlyRevokes
  <1> QED
    BY <1>3, <1>4, <1>5, <1>6, <1>7, <1>8 DEF DeskInv

\* A reload: nothing is under way.
LEMMA ReloadDesk ==
  ASSUME DeskInv, Reload, TokensInv'
  PROVE  DeskInv'
  <1>1. /\ selected' = None /\ form' = None /\ saving' = FALSE /\ dialog' = None /\ sent' = {}
        /\ UNCHANGED <<issued, expired, rows>>
    BY DEF Reload, FreshDesk
  <1>2. page' \in Page
    BY DEF Reload, DeskInv, Page
  <1>3. saving' \in BOOLEAN /\ ~saving'
    BY <1>1, Zenon
  <1>4. RowsInv' /\ SelectionInv' /\ DialogInv' /\ SavingHasRequest' /\ MisdirectedOnlyRevokes'
    BY <1>1, <1>3 DEF DeskInv, RowsInv, SelectionInv, DialogInv, SavingHasRequest, MisdirectedOnlyRevokes
  <1> QED
    BY <1>1, <1>2, <1>3, <1>4 DEF DeskInv

\* A row is selected: the form is filled in for it.
LEMMA SelectDesk ==
  ASSUME DeskInv, NEW r \in Row, NEW shown \in State, Select(r, shown)
  PROVE  DeskInv'
  <1>1. /\ page \in Desk /\ dialog = None
        /\ selected' = [row |-> r, state |-> shown]
        /\ form' = [row |-> r, fresh |-> shown = "pending"]
        /\ UNCHANGED <<issued, expired, page, dialog, saving, loads, sent, rows>>
    BY DEF Select, sessionVars, routerVars
  <1>2. /\ form' \in FormFor /\ form'.row = r
        /\ selected' \in [row : Row, state : State] /\ selected'.row = r
    BY <1>1 DEF FormFor
  <1>3. \A d, s : Settled(d, s)' <=> Settled(d, s)
    BY <1>1 DEF Settled, Present
  <1>4. \A q \in sent' : GoodRequest(q)'
    BY <1>1, <1>2, <1>3 DEF DeskInv, GoodRequest, Rejected
  <1>5. SelectionInv' /\ DialogInv'
    BY <1>1, <1>2 DEF SelectionInv, DialogInv
  <1>6. RowsInv' /\ TokensInv' /\ SavingHasRequest' /\ MisdirectedOnlyRevokes'
    BY <1>1 DEF DeskInv, RowsInv, TokensInv, SavingHasRequest, MisdirectedOnlyRevokes
  <1> QED
    BY <1>1, <1>4, <1>5, <1>6 DEF DeskInv

\* The dialog opens on the selected row, with what the form was filled in with.
LEMMA SubmitDesk ==
  ASSUME DeskInv, NEW to \in Verdict, Submit(to)
  PROVE  DeskInv'
  <1>1. /\ page \in Desk /\ selected # None /\ ~saving
        /\ dialog' = [desk |-> page, row |-> selected.row, filledFor |-> form.row,
                      to |-> to, live |-> TRUE]
        /\ UNCHANGED <<issued, expired, page, selected, form, saving, loads, sent, rows>>
    BY DEF Submit, FormShown, sessionVars, routerVars
  <1>2. /\ selected.row \in Row /\ form \in FormFor /\ form.row \in Row
        /\ selected.row # form.row => Settled(page, selected.row)
    BY <1>1 DEF DeskInv, SelectionInv, FormFor
  <1>3. /\ dialog' \in Asking /\ dialog'.desk = page /\ dialog'.row = selected.row
        /\ dialog'.filledFor = form.row
    BY <1>1, <1>2 DEF Asking
  <1>4. TokensInv'
    BY <1>1 DEF DeskInv, TokensInv
  <1>5. /\ \A d, r : Settled(d, r)' <=> Settled(d, r)
        /\ \A q : GoodRequest(q) => GoodRequest(q)'
    <2>1. issued <= issued' /\ expired <= expired'
      BY <1>1 DEF DeskInv, TokensInv
    <2> QED
      BY <1>1, <1>4, <2>1, StaySettled DEF DeskInv
  <1>6. DialogInv'
    BY <1>1, <1>2, <1>3, <1>5 DEF DialogInv, GoodDialog
  <1>7. RowsInv' /\ SelectionInv' /\ SavingHasRequest' /\ MisdirectedOnlyRevokes'
    BY <1>1, <1>5 DEF DeskInv, RowsInv, SelectionInv, SavingHasRequest, MisdirectedOnlyRevokes
  <1> QED
    BY <1>1, <1>4, <1>5, <1>6, <1>7 DEF DeskInv

\* The dialog is confirmed: its request is sent.
LEMMA ConfirmDesk ==
  ASSUME DeskInv, Confirm, Token \in 0..issued, RoleOf(session) \in Role \cup {None}
  PROVE  DeskInv'
  <1> DEFINE q == [desk |-> dialog.desk, row |-> dialog.row, filledFor |-> dialog.filledFor,
                   to |-> dialog.to, live |-> dialog.live, token |-> Token,
                   role |-> RoleOf(session), reply |-> None]
  <1>1. /\ dialog # None /\ saving' = (saving \/ dialog.live) /\ sent' = sent \cup {q}
        /\ dialog' = None
        /\ UNCHANGED <<issued, expired, page, selected, form, loads, rows>>
    BY DEF Confirm, sessionVars, routerVars
  <1>2. dialog \in Asking /\ GoodDialog(dialog)
    BY <1>1 DEF DeskInv, DialogInv
  <1>3. q \in Asked
    BY <1>2 DEF Asking, Asked, DeskInv, TokensInv
  <1>4. /\ q.desk = dialog.desk /\ q.row = dialog.row /\ q.filledFor = dialog.filledFor
        /\ q.live = dialog.live /\ q.token = Token /\ q.reply = None
    OBVIOUS
  <1>5. q.reply \notin Reply
    BY <1>4
  <1> HIDE DEF q
  <1>6. GoodRequest(q)
    BY <1>2, <1>3, <1>4, <1>5 DEF GoodRequest, GoodDialog, Reply
  <1>7. TokensInv' /\ issued <= issued' /\ expired <= expired'
    BY <1>1 DEF DeskInv, TokensInv
  <1>8. /\ \A d, r : Settled(d, r)' <=> Settled(d, r)
        /\ \A x : GoodRequest(x) => GoodRequest(x)'
    BY <1>1, <1>7, StaySettled DEF DeskInv
  <1>9. \A x \in sent' : GoodRequest(x)'
    BY <1>1, <1>6, <1>8 DEF DeskInv
  <1>10. saving' \in BOOLEAN /\ SavingHasRequest'
    <2>1. q.live \in BOOLEAN /\ (q.live => ~saving)
      BY <1>2, <1>4 DEF Asking, GoodDialog
    <2>2. saving' = (saving \/ q.live)
      BY <1>1, <1>4
    <2> QED
      BY <1>1, <2>1, <2>2 DEF DeskInv, SavingHasRequest
  <1>11. MisdirectedOnlyRevokes'
    BY <1>1, <1>5 DEF DeskInv, MisdirectedOnlyRevokes, Reply
  <1>12. RowsInv' /\ SelectionInv' /\ DialogInv'
    BY <1>1, <1>8 DEF DeskInv, RowsInv, SelectionInv, DialogInv
  <1> QED
    BY <1>1, <1>7, <1>9, <1>10, <1>11, <1>12 DEF DeskInv

\* Another user's write settles a row too, and unsettles none.
LEMMA OtherWriteDesk ==
  ASSUME DeskInv, NEW d \in Desk, NEW r \in Row, NEW to \in Verdict, OtherWrite(d, r, to)
  PROVE  DeskInv'
  <1>1. /\ WriteRow(d, r, to)
        /\ UNCHANGED <<issued, expired, page, selected, form, dialog, saving, loads, sent>>
    BY DEF OtherWrite, sessionVars, routerVars, deskVars
  <1>2. RowsInv' /\ \A e \in Desk, s \in Row : Settled(e, s) => Settled(e, s)'
    BY <1>1, WriteSettles DEF DeskInv
  <1>3. \A q \in sent' : GoodRequest(q)'
    BY <1>1, <1>2 DEF DeskInv, GoodRequest, Rejected, Asked
  <1>4. SelectionInv' /\ DialogInv'
    BY <1>1, <1>2 DEF DeskInv, SelectionInv, DialogInv, GoodDialog, Asking
  <1> QED
    BY <1>1, <1>2, <1>3, <1>4 DEF DeskInv, TokensInv, SavingHasRequest, MisdirectedOnlyRevokes

\* The server replies.  What it accepts for another row than the form was filled in
\* for is settled already, and the server's rule leaves nothing else for such a row.
LEMMA ServeDesk ==
  ASSUME DeskInv, NEW q \in sent, Serve(q)
  PROVE  DeskInv'
  <1>1. UNCHANGED <<issued, expired, page, selected, form, dialog, saving, loads>>
    BY DEF Serve, sessionVars, routerVars, deskVars
  <1>2. GoodRequest(q) /\ q \in Asked
    BY DEF DeskInv, GoodRequest
  <1>3. PICK reply \in Reply :
          /\ Replied(q, reply)
          /\ reply = "denied" => Rejected(q.token)
          /\ reply # "ok" => UNCHANGED rows
          /\ reply = "ok" => /\ Allowed(q.desk, Present(q.desk, q.row), q.to)
                             /\ WriteRow(q.desk, q.row, q.to)
    BY DEF Serve, Reply
  <1> DEFINE x == [q EXCEPT !.reply = reply]
  <1>4. sent' = (sent \ {q}) \cup {x}
    BY <1>3 DEF Replied
  <1>5. /\ x \in Asked /\ x.desk = q.desk /\ x.row = q.row /\ x.filledFor = q.filledFor
        /\ x.to = q.to /\ x.live = q.live /\ x.token = q.token /\ x.reply = reply
    BY <1>2 DEF Asked
  <1> HIDE DEF x
  <1>6. /\ RowsInv' /\ \A e \in Desk, s \in Row : Settled(e, s) => Settled(e, s)'
        /\ reply = "ok" => Settled(q.desk, q.row)'
    <2>1. CASE reply = "ok"
      <3>1. q.desk \in Desk /\ q.row \in Row /\ q.to \in Verdict
        BY <1>2 DEF Asked
      <3> QED
        BY <1>3, <2>1, <3>1, WriteSettles DEF DeskInv
    <2>2. CASE reply # "ok"
      BY <1>3, <2>2 DEF DeskInv, RowsInv, Settled, Present
    <2> QED
      BY <2>1, <2>2
  <1>7. \A y \in Asked : GoodRequest(y) => GoodRequest(y)'
    BY <1>1, <1>6 DEF GoodRequest, Rejected, Asked
  <1>8. GoodRequest(x)'
    BY <1>1, <1>2, <1>3, <1>5, <1>6 DEF GoodRequest, Rejected, Asked
  <1>9. \A y \in sent' : GoodRequest(y)'
    BY <1>4, <1>7, <1>8 DEF DeskInv, GoodRequest
  <1>10. SavingHasRequest'
    <2>1. q.live \in BOOLEAN
      BY <1>2 DEF Asked
    <2> QED
      BY <1>1, <1>4, <1>5, <2>1 DEF DeskInv, SavingHasRequest
  <1>11. reply = "ok" /\ q.row # q.filledFor => q.desk = "clearance" /\ q.to = "revoked"
    <2>1. q.desk \in Desk
      BY <1>2 DEF Asked
    <2> QED
      BY <1>2, <1>3, <2>1 DEF GoodRequest, Settled, Allowed, allowedClearanceTransition, Desk
  <1>12. MisdirectedOnlyRevokes'
    BY <1>4, <1>5, <1>11 DEF DeskInv, MisdirectedOnlyRevokes
  <1>13. SelectionInv' /\ DialogInv'
    BY <1>1, <1>6 DEF DeskInv, SelectionInv, DialogInv, GoodDialog, Asking
  <1> QED
    BY <1>1, <1>6, <1>9, <1>10, <1>12, <1>13 DEF DeskInv, TokensInv

\* An answer arrives: its desk is unlocked; if it was saved, its row is selected, which
\* is settled.
LEMMA AnswerDesk ==
  ASSUME DeskInv, NEW q \in sent, sent' = sent \ {q}, saving' = (saving /\ ~q.live),
         \/ UNCHANGED selected
         \/ q.reply = "ok" /\ selected' = IF q.live THEN [row |-> q.row, state |-> q.to] ELSE selected,
         UNCHANGED <<page, form, dialog, rows, issued, expired>>, TokensInv'
  PROVE  DeskInv'
  <1>1. GoodRequest(q) /\ q \in Asked
    BY DEF DeskInv, GoodRequest
  <1>2. issued <= issued' /\ expired <= expired'
    BY DEF DeskInv, TokensInv
  <1>3. /\ \A d, r : Settled(d, r)' <=> Settled(d, r)
        /\ \A x : GoodRequest(x) => GoodRequest(x)'
    BY <1>2, StaySettled DEF DeskInv
  <1>4. saving' \in BOOLEAN /\ SavingHasRequest' /\ MisdirectedOnlyRevokes'
    <2>1. q.live \in BOOLEAN
      BY <1>1 DEF Asked
    <2>2. saving' \in BOOLEAN
      BY <2>1 DEF DeskInv
    <2> QED
      BY <2>1, <2>2 DEF DeskInv, SavingHasRequest, MisdirectedOnlyRevokes
  <1>5. SelectionInv'
    <2>1. CASE selected' = selected
      BY <1>3, <2>1 DEF DeskInv, SelectionInv
    <2>2. CASE q.live /\ q.reply = "ok" /\ selected' = [row |-> q.row, state |-> q.to]
      <3>1. /\ page \in Desk /\ form \in FormFor /\ Settled(page, q.row)
        BY <1>1, <2>2 DEF GoodRequest, Asked
      <3>2. q.row \in Row /\ q.to \in State
        BY <1>1 DEF Asked, Verdict, State, ClearanceState, CheckResult
      <3>3. selected' \in [row : Row, state : State] /\ selected'.row = q.row
        BY <2>2, <3>2
      <3> QED
        BY <1>3, <3>1, <3>3 DEF SelectionInv
    <2> QED
      BY <2>1, <2>2
  <1>6. DialogInv'
    BY <1>3 DEF DeskInv, DialogInv, GoodDialog
  <1>7. RowsInv'
    BY DEF DeskInv, RowsInv
  <1> QED
    BY <1>3, <1>4, <1>5, <1>6, <1>7 DEF DeskInv

-----------------------------------------------------------------------------
(* The console.                                                            *)

ConsoleInv == SessionInv /\ DeskInv

\* Lists are asked for with a token that has been issued, or with none.
LEMMA TokenIssued ==
  ASSUME SessionInv
  PROVE  /\ issued \in Nat /\ expired \in Nat /\ Token \in 0..issued
         /\ RoleOf(session) \in Role \cup {None}
  BY DEF SessionInv, SessionTypes, Token, RoleOf

\* Every step keeps the desks in order.
LEMMA DeskStep == ConsoleInv /\ [Next]_vars => DeskInv'
  <1> SUFFICES ASSUME ConsoleInv, [Next]_vars PROVE DeskInv'
    OBVIOUS
  <1> USE DEF ConsoleInv
  <1>1. /\ issued \in Nat /\ expired \in Nat /\ Token \in 0..issued
        /\ RoleOf(session) \in Role \cup {None} /\ loads \subseteq 0..issued
    BY TokenIssued DEF DeskInv, TokensInv
  <1>2. ASSUME UNCHANGED <<issued, expired>>,
               loads' \in {loads, {}, {Token}, loads \cup {Token}} \/ \E n : loads' = loads \ {n}
        PROVE  TokensInv' /\ issued <= issued' /\ expired <= expired'
    BY <1>1, <1>2 DEF TokensInv
  <1>3. CASE UNCHANGED vars
    BY <1>2, <1>3, DeskFrame DEF vars, sessionVars, routerVars, deskVars
  <1>4. ASSUME NEW p, Navigate(p) PROVE DeskInv'
    BY <1>2, <1>4, DeskFrame DEF Navigate, sessionVars
  <1>5. CASE RunGuards \/ FetchFails
    BY <1>2, <1>5, DeskFrame DEF RunGuards, FetchFails, sessionVars, deskVars
  <1>6. CASE Activate
    <2>1. target.to \in Page
      BY <1>6 DEF Activate, SessionInv, SessionTypes
    <2>2. UNCHANGED <<issued, expired>> /\ loads' \in {loads, loads \cup {Token}}
      BY <1>6 DEF Activate
    <2> QED
      BY <1>2, <1>6, <2>1, <2>2, ActivateDesk
  <1>7. CASE Reload
    <2>1. UNCHANGED <<issued, expired>> /\ loads' \in {{}, {Token}}
      BY <1>7 DEF Reload
    <2> QED
      BY <1>2, <1>7, <2>1, ReloadDesk
  <1>8. ASSUME NEW role, SubmitLogin(role) PROVE DeskInv'
    BY <1>2, <1>8, DeskFrame DEF SubmitLogin, deskVars
  <1>9. ASSUME NEW l, LoginSucceeds(l) PROVE DeskInv'
    <2>1. TokensInv' /\ issued <= issued' /\ expired <= expired'
      BY <1>1, <1>9 DEF LoginSucceeds, TokensInv
    <2> QED
      BY <1>9, <2>1, DeskFrame DEF LoginSucceeds, deskVars
  <1>10. ASSUME NEW l, LoginFails(l) PROVE DeskInv'
    BY <1>2, <1>10, DeskFrame DEF LoginFails, routerVars, deskVars
  <1>11. CASE Logout
    BY <1>2, <1>11, DeskFrame DEF Logout, EndSession, deskVars
  <1>12. CASE Expire
    <2>1. TokensInv' /\ issued <= issued' /\ expired <= expired'
      BY <1>1, <1>12 DEF Expire, TokensInv
    <2> QED
      BY <1>12, <2>1, DeskFrame DEF Expire, routerVars, deskVars
  <1>13. ASSUME NEW n, ListArrives(n) \/ ListDenied(n) PROVE DeskInv'
    BY <1>2, <1>13, DeskFrame
       DEF ListArrives, ListDenied, EndSession, sessionVars, routerVars, deskVars
  <1>14. ASSUME NEW r \in Row, page \in Desk, NEW shown \in Range(rows[page][r]), Select(r, shown)
         PROVE  DeskInv'
    <2>1. rows[page][r] \in Seq(State)
      BY <1>14 DEF DeskInv, RowsInv
    <2>2. shown \in State
      BY <1>14, <2>1 DEF Range
    <2> QED
      BY <1>14, <2>2, SelectDesk
  <1>15. CASE Turn \/ Cancel
    BY <1>2, <1>15, DeskFrame DEF Turn, Cancel, sessionVars, routerVars
  <1>16. ASSUME NEW to \in Verdict, Submit(to) PROVE DeskInv'
    BY <1>16, SubmitDesk
  <1>17. CASE Confirm
    BY <1>1, <1>17, ConfirmDesk
  <1>18. ASSUME NEW q \in sent, Serve(q) PROVE DeskInv'
    BY <1>18, ServeDesk
  <1>19. ASSUME NEW d \in Desk, NEW r \in Row, NEW to \in Verdict, OtherWrite(d, r, to)
         PROVE  DeskInv'
    BY <1>19, OtherWriteDesk
  <1>20. ASSUME NEW q \in sent, AnswerSaved(q) \/ AnswerDenied(q) \/ AnswerFailed(q)
         PROVE  DeskInv'
    <2>1. /\ sent' = sent \ {q} /\ saving' = (saving /\ ~q.live)
          /\ \/ UNCHANGED selected
             \/ q.reply = "ok" /\ selected' = IF q.live THEN [row |-> q.row, state |-> q.to] ELSE selected
          /\ UNCHANGED <<page, form, dialog, rows, issued, expired>>
          /\ loads' \in {loads, loads \cup {Token}}
      BY <1>20 DEF AnswerSaved, AnswerDenied, AnswerFailed, EndSession, sessionVars, routerVars
    <2> QED
      BY <1>2, <2>1, AnswerDesk
  <1>21. CASE UserStep
    BY <1>4, <1>7, <1>8, <1>11, <1>14, <1>15, <1>16, <1>17, <1>21 DEF UserStep
  <1>22. CASE ServerStep
    BY <1>12, <1>18, <1>19, <1>22 DEF ServerStep
  <1>23. CASE AnswerStep
    BY <1>9, <1>10, <1>13, <1>20, <1>23 DEF AnswerStep
  <1> QED
    BY <1>3, <1>5, <1>6, <1>21, <1>22, <1>23 DEF Next

\* A new tab: nothing is under way.
LEMMA DeskInit ==
  ASSUME NEW Visits, InitFor(Visits)
  PROVE  DeskInv
  <1>1. /\ issued = 0 /\ expired = 0 /\ page = "login" /\ loads = {}
        /\ selected = None /\ form = None /\ dialog = None /\ saving = FALSE /\ sent = {}
        /\ rows = [d \in Desk |-> [r \in Row |-> <<"pending">>]]
    BY DEF InitFor
  <1>2. RowsInv
    <2>1. "pending" \in State /\ <<"pending">> \in Seq({"pending"})
      BY DEF State, CheckResult
    <2>2. <<"pending">> \in Seq(State) /\ Len(<<"pending">>) > 0 /\ <<"pending">>[1] = "pending"
      BY <2>1
    <2> QED
      BY <1>1, <2>2 DEF RowsInv
  <1>3. saving \in BOOLEAN /\ ~saving
    BY <1>1, Zenon
  <1>4. TokensInv /\ SelectionInv /\ DialogInv
    BY <1>1 DEF TokensInv, SelectionInv, DialogInv
  <1> QED
    BY <1>1, <1>2, <1>3, <1>4 DEF DeskInv, Page, SavingHasRequest, MisdirectedOnlyRevokes

\* The session and the desks of a tab stay as SessionInv and DeskInv say, whatever its
\* user does and whenever the server answers.
THEOREM ConsoleInvariance ==
  ASSUME NEW Visits, \A v \in Visits : ProperVisit(v)
  PROVE  InitFor(Visits) /\ [][Next]_vars => []ConsoleInv
  <1>1. InitFor(Visits) => ConsoleInv
    BY SessionInit, DeskInit DEF ConsoleInv
  <1>2. ConsoleInv /\ [Next]_vars => ConsoleInv'
    BY SessionStep, DeskStep DEF ConsoleInv
  <1> QED
    BY <1>1, <1>2, PTL

\* What the tab and the server's tokens range over.
THEOREM ConsoleTypesAreKept ==
  ASSUME NEW Visits, \A v \in Visits : ProperVisit(v)
  PROVE  InitFor(Visits) /\ [][Next]_vars => []TypeOK
  <1>1. ConsoleInv => TypeOK
    <2> SUFFICES ASSUME ConsoleInv PROVE TypeOK
      OBVIOUS
    <2>1. /\ session \in {None} \cup [role : Role, n : 1..issued]
          /\ issued \in 0..visit.tokens /\ expired \in 0..issued
      BY DEF ConsoleInv, SessionInv, SessionTypes, ProperVisit
    <2>2. target \in {None} \cup [to : Page \ {page}, admitted : BOOLEAN]
      BY DEF ConsoleInv, SessionInv, SessionTypes
    <2>3. /\ page \in Page /\ {hasty, stranded} \subseteq BOOLEAN /\ loading \in BOOLEAN
          /\ rights \in Role \cup {None} /\ logins \subseteq [role : Role, live : BOOLEAN]
          /\ missing \subseteq visit.doubtful \ {page}
      BY DEF ConsoleInv, SessionInv, SessionTypes
    <2>4. /\ loads \subseteq 0..issued /\ saving \in BOOLEAN
          /\ selected \in {None} \cup [row : Row, state : ClearanceState \cup CheckResult]
          /\ form \in {None} \cup [row : Row, fresh : BOOLEAN]
          /\ dialog \in {None} \cup
               [desk : Desk, row : Row, filledFor : Row, to : Verdict, live : BOOLEAN]
      BY DEF ConsoleInv, DeskInv, TokensInv, SelectionInv, DialogInv, State, FormFor, Asking
    <2>5. ASSUME NEW q \in sent
          PROVE  /\ q.desk \in Desk /\ {q.row, q.filledFor} \subseteq Row /\ q.to \in Verdict
                 /\ q.live \in BOOLEAN /\ q.token \in 0..issued
                 /\ q.reply \in {None} \cup Reply
      <3>1. q \in Asked /\ q.token <= issued /\ issued \in Nat
        BY DEF ConsoleInv, DeskInv, GoodRequest, TokensInv
      <3> QED
        BY <3>1 DEF Asked
    <2>6. \A d \in Desk, r \in Row : rows[d][r][1] = "pending"
      BY DEF ConsoleInv, DeskInv, RowsInv
    <2> QED
      BY <2>1, <2>2, <2>3, <2>4, <2>5, <2>6 DEF TypeOK
  <1> QED
    BY <1>1, ConsoleInvariance, PTL

\* A desk is locked by exactly the request its user waits for.
THEOREM DesksAreLockedByRequests ==
  ASSUME NEW Visits, \A v \in Visits : ProperVisit(v)
  PROVE  InitFor(Visits) /\ [][Next]_vars => []SavingHasRequest
  <1>1. ConsoleInv => SavingHasRequest
    BY DEF ConsoleInv, DeskInv
  <1> QED
    BY <1>1, ConsoleInvariance, PTL

\* What the server accepts for another row than the form was filled in for is a
\* revocation.
THEOREM MisdirectionsOnlyRevoke ==
  ASSUME NEW Visits, \A v \in Visits : ProperVisit(v)
  PROVE  InitFor(Visits) /\ [][Next]_vars => []MisdirectedOnlyRevokes
  <1>1. ConsoleInv => MisdirectedOnlyRevokes
    BY DEF ConsoleInv, DeskInv
  <1> QED
    BY <1>1, ConsoleInvariance, PTL

\* A user who waits is led to the login page when the session has ended, unless the
\* code of that page does not come.
THEOREM EndsLeadToLogin ==
  ASSUME NEW Visits, \A v \in Visits : ProperVisit(v)
  PROVE  InitFor(Visits) /\ [][Next]_vars => []LoggedOutGoesToLogin
  <1>1. ConsoleInv => LoggedOutGoesToLogin
    BY DEF ConsoleInv, SessionInv
  <1> QED
    BY <1>1, ConsoleInvariance, PTL

\* A user who waits sees the buttons of the own role, never those of a predecessor.
THEOREM ButtonsAreTheUsers ==
  ASSUME NEW Visits, \A v \in Visits : ProperVisit(v)
  PROVE  InitFor(Visits) /\ [][Next]_vars => []ButtonsFitRole
  <1>1. ConsoleInv => ButtonsFitRole
    BY DEF ConsoleInv, SessionInv
  <1> QED
    BY <1>1, ConsoleInvariance, PTL

\* The audit page is only ever built for an administrator or a safety manager.
THEOREM AuditPageIsGuarded ==
  ASSUME NEW Visits, \A v \in Visits : ProperVisit(v)
  PROVE  InitFor(Visits) /\ [][Next]_vars => AuditOnlyForManagers
  <1>1. ConsoleInv /\ [Next]_vars => [GuardedStep]_vars
    BY SessionStep DEF ConsoleInv
  <1>2. InitFor(Visits) /\ [][Next]_vars => [][GuardedStep]_vars
    BY <1>1, ConsoleInvariance, PTL
  <1> QED
    BY <1>2 DEF AuditOnlyForManagers, GuardedStep

\* The login page only locks when a 401 ends the session that has just begun, or when
\* the code of the page it leads to does not come.
THEOREM LoginLocksOnlyForCause ==
  ASSUME NEW Visits, \A v \in Visits : ProperVisit(v)
  PROVE  InitFor(Visits) /\ [][Next]_vars => LoginLocksForCause
  <1>1. ConsoleInv /\ [Next]_vars => [LockStep]_vars
    BY SessionStep DEF ConsoleInv
  <1>2. InitFor(Visits) /\ [][Next]_vars => [][LockStep]_vars
    BY <1>1, ConsoleInvariance, PTL
  <1> QED
    BY <1>2 DEF LoginLocksForCause, LockStep

EndStep ==
  session # None /\ session' = None =>
    \/ Logout
    \/ Rejected(session.n)
    \/ \E n \in loads \cup {q.token : q \in sent} : Rejected(n) /\ n < session.n

\* What is denied had a token that has expired; it was issued no later than the
\* session's.
LEMMA EndForCause == ConsoleInv /\ [Next]_vars => EndStep
  <1> SUFFICES ASSUME ConsoleInv, [Next]_vars, session # None, session' = None
               PROVE  \/ Logout
                      \/ Rejected(session.n)
                      \/ \E n \in loads \cup {q.token : q \in sent} : Rejected(n) /\ n < session.n
    BY DEF EndStep
  <1>1. /\ session.n = issued /\ issued \in Nat
        /\ \A n \in loads : n \in Nat /\ n <= issued
        /\ \A q \in sent : GoodRequest(q) /\ q.token \in Nat /\ q.token <= issued
    BY DEF ConsoleInv, SessionInv, SessionTypes, DeskInv, TokensInv, GoodRequest, Asked
  <1>2. ASSUME NEW n \in loads \cup {q.token : q \in sent}, Rejected(n)
        PROVE  Rejected(session.n) \/ \E m \in loads \cup {q.token : q \in sent} : Rejected(m) /\ m < session.n
    <2>1. n \in Nat /\ n <= session.n
      BY <1>1
    <2>2. CASE n = session.n
      BY <1>2, <2>2
    <2>3. CASE n < session.n
      BY <1>2, <2>3
    <2> QED
      BY <1>1, <2>1, <2>2, <2>3
  <1>3. ASSUME NEW n \in loads, ListDenied(n) PROVE Rejected(n)
    BY <1>3 DEF ListDenied
  <1>4. ASSUME NEW q \in sent, AnswerDenied(q) PROVE Rejected(q.token)
    BY <1>1, <1>4 DEF AnswerDenied, GoodRequest
  <1>5. ASSUME NEW l \in logins, LoginSucceeds(l) PROVE session' # None
    <2>1. l.role \in Role /\ issued + 1 \in Nat
      BY <1>1 DEF ConsoleInv, SessionInv, SessionTypes
    <2>2. [role |-> l.role, n |-> issued + 1] \in [role : Role, n : Nat]
      BY <2>1
    <2> QED
      BY <1>5, <2>2 DEF LoginSucceeds
  <1>6. CASE UNCHANGED vars
    BY <1>6 DEF vars, sessionVars
  <1>7. CASE UserStep
    BY <1>7 DEF UserStep, Navigate, SubmitLogin, Reload, Select, Turn, Submit, Confirm, Cancel, sessionVars
  <1>8. CASE ServerStep
    BY <1>8 DEF ServerStep, Expire, Serve, OtherWrite, sessionVars
  <1>9. CASE AnswerStep
    <2>1. ASSUME NEW l \in logins, LoginFails(l) PROVE session' = session
      BY <2>1 DEF LoginFails
    <2>2. ASSUME NEW n, ListArrives(n) PROVE session' = session
      BY <2>2 DEF ListArrives, sessionVars
    <2>3. ASSUME NEW q, AnswerSaved(q) \/ AnswerFailed(q) PROVE session' = session
      BY <2>3 DEF AnswerSaved, AnswerFailed, sessionVars
    <2> QED
      BY <1>2, <1>3, <1>4, <1>5, <1>9, <2>1, <2>2, <2>3 DEF AnswerStep
  <1>10. CASE RunGuards \/ FetchFails \/ Activate
    BY <1>10 DEF RunGuards, FetchFails, Activate, sessionVars
  <1> QED
    BY <1>6, <1>7, <1>8, <1>9, <1>10 DEF Next

\* A session ends because its user logs out, its token has expired, or a request sent
\* before it began is denied.
THEOREM SessionsEndForCause ==
  ASSUME NEW Visits, \A v \in Visits : ProperVisit(v)
  PROVE  InitFor(Visits) /\ [][Next]_vars => SessionEndsForCause
  <1>1. ConsoleInv /\ [Next]_vars => [EndStep]_vars
    BY EndForCause
  <1>2. InitFor(Visits) /\ [][Next]_vars => [][EndStep]_vars
    <2> HIDE DEF EndStep
    <2> QED
      BY <1>1, ConsoleInvariance, PTL
  <1>3. ASSUME ConsoleInv, [Next]_vars
        PROVE  [session # None /\ session' = None =>
                  \/ Logout
                  \/ Rejected(session.n)
                  \/ \E n \in loads \cup {q.token : q \in sent} : Rejected(n) /\ n < session.n]_vars
    BY <1>1, <1>3 DEF EndStep
  <1> QED
    BY <1>3, ConsoleInvariance, PTL DEF SessionEndsForCause

=============================================================================
