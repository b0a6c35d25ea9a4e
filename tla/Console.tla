------------------------------- MODULE Console -------------------------------
(***************************************************************************)
(* One browser tab of the console: the session kept by AuthStore, the      *)
(* router with its guards, the pages, the two desks on which checks are    *)
(* reviewed and decisions made, and the requests under way to the server.  *)
(*                                                                         *)
(* Components die when their page is left, but not the subscriptions and   *)
(* dialogs they have opened: what is answered or confirmed later finds     *)
(* another page, another selection or another session than it was meant    *)
(* for.  That is what the properties are about.                            *)
(***************************************************************************)
EXTENDS ClearanceRules, Naturals, Sequences, FiniteSets, Functions

CONSTANTS
  Row,          \* rows in the list of each desk
  None          \* no session, navigation, selection or dialog

VARIABLES
  session,      \* AuthStore: the user's role and the number of the token
  issued,       \* tokens the server has issued
  expired,      \* of these the first so many have expired
  page,         \* the component in the router outlet
  target,       \* the navigation under way
  hasty,        \* history: the user did not wait for a navigation or a login
  rights,       \* the role from which the page derived canManage and canReview
  missing,      \* pages whose code the tab has not, and may fail to get
  stranded,     \* history: the login page was sought last when its code failed to come
  loading,      \* LoginPage.loading
  logins,       \* logins under way; live: their page is still there
  loads,        \* tokens of the lists under way, 0 if sent without one
  selected,     \* the desk's selected row, as it was last shown
  form,         \* the row the desk's form was reset for, and if that was pending
  dialog,       \* the open ConfirmDialog and what it will send
  saving,       \* the desk's saving
  sent,         \* decisions and reviews under way
  rows,         \* the server's rows of each desk, each with its past states
  visit         \* bounds of the behaviour: the pages the user visits, the roles
                \* that log in, whether the user is patient (never hasty), tokens
                \* issued, decisions and reviews under way, changes of rows, and
                \* the pages whose code may fail to come

sessionVars == <<session, issued, expired, loading, logins>>
routerVars  == <<page, target, hasty, rights, missing, stranded>>
deskVars    == <<selected, form, dialog, saving>>
vars == <<sessionVars, routerVars, deskVars, loads, sent, rows, visit>>

-----------------------------------------------------------------------------

Page == {"login", "turnarounds", "ground-units", "checks", "clearance", "audit"}
Desk == {"clearance", "checks"}

Role == {Admin, SafetyManager, Inspector, "worker"}
Managers  == {Admin, SafetyManager}
Reviewers == {Admin, SafetyManager, Inspector}

\* The roles a desk shows its form to; the server admits the same.
MayUse(desk) == IF desk = "clearance" THEN Managers ELSE Reviewers

\* How the server answers a save: it is done, the token is denied, or it is refused.
Reply == {"ok", "denied", "refused"}

\* None is no row, no reply, no session and no navigation.
ASSUME NoneAssumption ==
  None \notin Row \cup Reply \cup [role : Role, n : Nat] \cup [to : Page, admitted : BOOLEAN]

Verdict == {"cleared", "restricted", "revoked", "passed", "failed"}

\* What the desk's form offers for a row; fresh: it was pending when selected.
Offered(desk, fresh) ==
  CASE desk = "checks" -> {"passed", "failed"}
    [] desk = "clearance" /\ fresh -> {"cleared", "restricted", "revoked"}
    [] desk = "clearance" /\ ~fresh -> {"revoked"}

Present(desk, r) == rows[desk][r][Len(rows[desk][r])]

Token == IF session = None THEN 0 ELSE session.n

RoleOf(s) == IF s = None THEN None ELSE s.role

Rejected(n) == n <= expired

Written ==
  Cardinality({x \in Desk \X Row \X (2..3) : x[3] <= Len(rows[x[1]][x[2]])})

TypeOK ==
  /\ session \in {None} \cup [role : Role, n : 1..issued]
  /\ issued \in 0..visit.tokens /\ expired \in 0..issued
  /\ page \in Page
  /\ target \in {None} \cup [to : Page \ {page}, admitted : BOOLEAN]
  /\ missing \subseteq visit.doubtful \ {page}
  /\ {hasty, stranded} \subseteq BOOLEAN
  /\ rights \in Role \cup {None}
  /\ loading \in BOOLEAN
  /\ logins \subseteq [role : Role, live : BOOLEAN]
  /\ loads \subseteq 0..issued
  /\ selected \in {None} \cup [row : Row, state : ClearanceState \cup CheckResult]
  /\ form \in {None} \cup [row : Row, fresh : BOOLEAN]
  /\ dialog \in {None} \cup
       [desk : Desk, row : Row, filledFor : Row, to : Verdict, live : BOOLEAN]
  /\ saving \in BOOLEAN
  /\ \A q \in sent :
       /\ q.desk \in Desk /\ {q.row, q.filledFor} \subseteq Row /\ q.to \in Verdict
       /\ q.live \in BOOLEAN /\ q.token \in 0..issued
       /\ q.reply \in {None} \cup Reply
  /\ \A d \in Desk, r \in Row : rows[d][r][1] = "pending"

-----------------------------------------------------------------------------
(* Slips a change to the code could introduce; the properties are tested   *)
(* against them and nothing else uses them.                                *)

AllowedAgain(desk, from, to) == from # to /\ from # "revoked"

-----------------------------------------------------------------------------

\* The server's rule for the row itself; its other guards may refuse as well.
Allowed(desk, from, to) ==
  IF desk = "clearance" THEN allowedClearanceTransition(from, to)
  ELSE from = "pending" /\ to \in {"passed", "failed"}

\* Router.navigate: a new navigation supersedes the one under way; one to the
\* page shown only does that.
Toward(p) == IF p = page THEN None ELSE [to |-> p, admitted |-> FALSE]

-----------------------------------------------------------------------------
(* More slips.                                                             *)

FreshDeskStillSaving == selected' = None /\ form' = None /\ UNCHANGED saving

FirstRights == IF rights = None THEN RoleOf(session) ELSE rights

LoginSucceedsInPlace(l) ==
  /\ issued < visit.tokens
  /\ issued' = issued + 1
  /\ session' = [role |-> l.role, n |-> issued + 1]
  /\ logins' = logins \ {l}
  /\ UNCHANGED <<expired, loading, routerVars, deskVars, loads, sent, rows>>

LoginFailsLocked(l) ==
  /\ logins' = logins \ {l}
  /\ UNCHANGED <<session, issued, expired, loading, routerVars, deskVars, loads, sent, rows>>

EndSessionInPlace ==
  /\ session' = None
  /\ UNCHANGED <<issued, expired, loading, logins, routerVars>>

LoginFailsLoggedOut(l) ==
  /\ session' = None
  /\ target' = Toward("login")
  /\ logins' = logins \ {l}
  /\ loading' = (loading /\ ~l.live)
  /\ UNCHANGED <<issued, expired, page, hasty, rights, missing, stranded,
                 deskVars, loads, sent, rows>>

-----------------------------------------------------------------------------
(* Navigation.                                                             *)

\* authGuard guards the layout, so it runs when the layout is entered; roleGuard
\* runs whenever the audit page is.
Admits(p) ==
  /\ page = "login" /\ p # "login" => session # None
  /\ p = "audit" => RoleOf(session) \in Managers

\* Where the guard that refuses sends the user.
Elsewhere == IF page = "login" /\ session = None THEN "login" ELSE "turnarounds"

\* A page's component is built: its desk, and the rights it goes by from then on.
FreshDesk == selected' = None /\ form' = None /\ saving' = FALSE

RightsAtBuild == RoleOf(session)

\* A link, or Back and Forward, which alone get past an open dialog and close it.
Navigate(p) ==
  /\ \/ p # page
     \/ target # None /\ dialog = None /\ page # "login"
  /\ target' = Toward(p)
  /\ dialog' = None
  /\ hasty' = (hasty \/ target # None \/ logins # {})
  /\ visit.patient => ~hasty'
  /\ UNCHANGED <<sessionVars, page, rights, missing, stranded,
                 selected, form, saving, loads, sent, rows>>

\* The guards of the target run, before its component is fetched.
RunGuards ==
  /\ target # None
  /\ ~target.admitted
  /\ target' = IF Admits(target.to) THEN [target EXCEPT !.admitted = TRUE]
               ELSE Toward(Elsewhere)
  /\ UNCHANGED <<sessionVars, page, hasty, rights, missing, stranded,
                 deskVars, loads, sent, rows>>

\* The code of the page does not come (the line is down, or a deployment has replaced
\* the file); the navigation ends where it began, and nobody looks at its outcome.
FetchFails ==
  /\ target # None
  /\ target.admitted
  /\ target.to \in missing
  /\ target' = None
  /\ stranded' = (stranded \/ target.to = "login")
  /\ UNCHANGED <<sessionVars, page, hasty, rights, missing, deskVars, loads, sent, rows>>

\* The code is there.  The old component is destroyed, the new one built; it loads its lists.
Activate ==
  /\ target # None
  /\ target.admitted
  /\ page' = target.to
  /\ target' = None
  /\ rights' = RightsAtBuild
  /\ missing' = missing \ {target.to}
  /\ stranded' = (stranded /\ target.to # "login")
  /\ loading' = FALSE
  /\ logins' = {[l EXCEPT !.live = FALSE] : l \in logins}
  /\ FreshDesk
  /\ dialog' = IF dialog = None THEN None ELSE [dialog EXCEPT !.live = FALSE]
  /\ sent' = {[q EXCEPT !.live = FALSE] : q \in sent}
  /\ loads' = IF target.to = "login" THEN loads ELSE loads \cup {Token}
  /\ UNCHANGED <<session, issued, expired, hasty, rows>>

\* The browser's reload: what the tab remembers is in localStorage and its URL,
\* and whatever was under way is never heard of again.  (A reload that does not get
\* its page leaves an empty tab, and has to be made again.)
Reload ==
  /\ page' = IF session = None THEN "login"
             ELSE IF page = "audit" /\ session.role \notin Managers THEN "turnarounds"
             ELSE page
  /\ target' = None /\ hasty' = FALSE /\ rights' = RightsAtBuild
  /\ missing' = visit.doubtful \ {page'} /\ stranded' = FALSE
  /\ loading' = FALSE /\ logins' = {}
  /\ loads' = IF page' = "login" THEN {} ELSE {Token}
  /\ FreshDesk /\ dialog' = None
  /\ sent' = {}
  /\ UNCHANGED <<session, issued, expired, rows>>

-----------------------------------------------------------------------------
(* The session.                                                            *)

SubmitLogin(role) ==
  /\ page = "login" /\ dialog = None
  /\ ~loading
  /\ logins = {}
  /\ loading' = TRUE
  /\ logins' = logins \cup {[role |-> role, live |-> TRUE]}
  /\ hasty' = (hasty \/ target # None)
  /\ visit.patient => ~hasty'
  /\ UNCHANGED <<session, issued, expired, page, target, rights, missing, stranded,
                 deskVars, loads, sent, rows>>

\* loading stays as it is: the page is about to be left.
LoginSucceeds(l) ==
  /\ issued < visit.tokens
  /\ issued' = issued + 1
  /\ session' = [role |-> l.role, n |-> issued + 1]
  /\ target' = Toward("turnarounds")
  /\ logins' = logins \ {l}
  /\ UNCHANGED <<expired, loading, page, hasty, rights, missing, stranded,
                 deskVars, loads, sent, rows>>

\* A wrong password, which is a 401 that errorInterceptor lets pass.
LoginFails(l) ==
  /\ logins' = logins \ {l}
  /\ loading' = (loading /\ ~l.live)
  /\ UNCHANGED <<session, issued, expired, routerVars, deskVars, loads, sent, rows>>

\* The layout's button; also what errorInterceptor does on any other 401.
EndSession ==
  /\ session' = None
  /\ target' = Toward("login")
  /\ UNCHANGED <<issued, expired, loading, logins, page, hasty, rights, missing, stranded>>

Logout ==
  /\ page # "login" /\ dialog = None
  /\ EndSession
  /\ UNCHANGED <<deskVars, loads, sent, rows>>

\* Tokens are all issued for the same time.
Expire ==
  /\ expired < issued
  /\ expired' = expired + 1
  /\ UNCHANGED <<session, issued, loading, logins, routerVars, deskVars, loads, sent, rows>>

\* A list arrives in its store, or its request fails otherwise than with 401.
ListArrives(n) ==
  /\ loads' = loads \ {n}
  /\ UNCHANGED <<sessionVars, routerVars, deskVars, sent, rows>>

ListDenied(n) ==
  /\ Rejected(n)
  /\ EndSession
  /\ loads' = loads \ {n}
  /\ UNCHANGED <<deskVars, sent, rows>>

-----------------------------------------------------------------------------
(* The desks.                                                              *)

\* A click on a row of the list, which may show any state the row has had.
Select(r, shown) ==
  /\ page \in Desk /\ dialog = None
  /\ selected' = [row |-> r, state |-> shown]
  /\ form' = [row |-> r, fresh |-> shown = "pending"]
  /\ UNCHANGED <<sessionVars, routerVars, dialog, saving, loads, sent, rows>>

\* Another filter or page of the list.
Turn ==
  /\ page \in Desk /\ dialog = None
  /\ selected' = None
  /\ loads' = loads \cup {Token}
  /\ UNCHANGED <<sessionVars, routerVars, form, dialog, saving, sent, rows>>

FormShown ==
  /\ page \in Desk /\ dialog = None
  /\ selected # None
  /\ rights \in MayUse(page)
  /\ IF page = "clearance" THEN selected.state # "revoked" ELSE selected.state = "pending"

\* decide() or review().  Nothing that changes the selection can be reached
\* behind the dialog, so the row is as good as read when it is confirmed.
Submit(to) ==
  /\ FormShown
  /\ ~saving
  /\ to \in Offered(page, form.fresh)
  /\ dialog' = [desk |-> page, row |-> selected.row, filledFor |-> form.row,
                to |-> to, live |-> TRUE]
  /\ UNCHANGED <<sessionVars, routerVars, selected, form, saving, loads, sent, rows>>

\* The dialog may have outlived its page; the request takes the present token.
Confirm ==
  /\ dialog # None
  /\ Cardinality(sent) < visit.sent
  /\ saving' = (saving \/ dialog.live)
  /\ sent' = sent \cup
       {[desk |-> dialog.desk, row |-> dialog.row, filledFor |-> dialog.filledFor,
         to |-> dialog.to, live |-> dialog.live, token |-> Token,
         role |-> RoleOf(session), reply |-> None]}
  /\ dialog' = None
  /\ UNCHANGED <<sessionVars, routerVars, selected, form, loads, rows>>

Cancel ==
  /\ dialog # None
  /\ dialog' = None
  /\ UNCHANGED <<sessionVars, routerVars, selected, form, saving, loads, sent, rows>>

WriteRow(desk, r, to) == rows' = [rows EXCEPT ![desk][r] = Append(@, to)]

Replied(q, reply) == sent' = (sent \ {q}) \cup {[q EXCEPT !.reply = reply]}

\* AuthRequired, RequireRole and the service, in this order.
Serve(q) ==
  /\ q.reply = None
  /\ \/ /\ Rejected(q.token)
        /\ Replied(q, "denied")
        /\ UNCHANGED rows
     \/ /\ ~Rejected(q.token)
        /\ Replied(q, "refused")
        /\ UNCHANGED rows
     \/ /\ ~Rejected(q.token)
        /\ q.role \in MayUse(q.desk)
        /\ Written < visit.writes
        /\ Allowed(q.desk, Present(q.desk, q.row), q.to)
        /\ Replied(q, "ok")
        /\ WriteRow(q.desk, q.row, q.to)
  /\ UNCHANGED <<sessionVars, routerVars, deskVars, loads>>

\* The row that was saved becomes the selected one, whatever has been selected
\* since; form and targetStates stay.  A component that is gone reloads too.
AnswerSaved(q) ==
  /\ q.reply = "ok"
  /\ sent' = sent \ {q}
  /\ loads' = loads \cup {Token}
  /\ saving' = (saving /\ ~q.live)
  /\ selected' = IF q.live THEN [row |-> q.row, state |-> q.to] ELSE selected
  /\ UNCHANGED <<sessionVars, routerVars, form, dialog, rows>>

AnswerDenied(q) ==
  /\ q.reply = "denied"
  /\ EndSession
  /\ sent' = sent \ {q}
  /\ saving' = (saving /\ ~q.live)
  /\ UNCHANGED <<selected, form, dialog, loads, rows>>

\* Any other error; a lost connection, after which the server may have saved.
AnswerFailed(q) ==
  /\ sent' = sent \ {q}
  /\ saving' = (saving /\ ~q.live)
  /\ UNCHANGED <<sessionVars, routerVars, selected, form, dialog, loads, rows>>

\* Another user's decision or review.
OtherWrite(desk, r, to) ==
  /\ Written < visit.writes
  /\ Allowed(desk, Present(desk, r), to)
  /\ WriteRow(desk, r, to)
  /\ UNCHANGED <<sessionVars, routerVars, deskVars, loads, sent>>

-----------------------------------------------------------------------------

\* A new tab on the login page, and a user whose visit is one of these.
InitFor(Visits) ==
  /\ visit \in Visits
  /\ session = None /\ issued = 0 /\ expired = 0
  /\ page = "login" /\ target = None /\ hasty = FALSE /\ rights = None
  /\ missing = visit.doubtful \ {"login"} /\ stranded = FALSE
  /\ loading = FALSE /\ logins = {}
  /\ loads = {}
  /\ selected = None /\ form = None /\ dialog = None /\ saving = FALSE
  /\ sent = {}
  /\ rows = [d \in Desk |-> [r \in Row |-> <<"pending">>]]

UserStep ==
  \/ \E p \in visit.pages : Navigate(p)
  \/ \E role \in visit.roles : SubmitLogin(role)
  \/ Logout
  \/ Reload
  \/ \E r \in Row : page \in Desk /\ \E shown \in Range(rows[page][r]) : Select(r, shown)
  \/ Turn
  \/ \E to \in Verdict : Submit(to)
  \/ Confirm
  \/ Cancel

ServerStep ==
  \/ Expire
  \/ \E q \in sent : Serve(q)
  \/ \E d \in Desk \cap visit.pages, r \in Row, to \in Verdict : OtherWrite(d, r, to)

AnswerStep ==
  \/ \E l \in logins : LoginSucceeds(l) \/ LoginFails(l)
  \/ \E n \in loads : ListArrives(n) \/ ListDenied(n)
  \/ \E q \in sent : AnswerSaved(q) \/ AnswerDenied(q) \/ AnswerFailed(q)

Next ==
  /\ UserStep \/ ServerStep \/ AnswerStep \/ RunGuards \/ FetchFails \/ Activate
  /\ UNCHANGED visit

-----------------------------------------------------------------------------
(* Properties.                                                             *)

\* A desk is locked by exactly the request that its user waits for, and so it is
\* unlocked by the answer, though pages, sessions and selections have changed
\* meanwhile (saving in ClearancePage and ChecksPage).
SavingHasRequest ==
  /\ saving <=> \E q \in sent : q.live
  /\ \A p, q \in sent : p.live /\ q.live => p = q

\* What the server accepts for another row than the form was filled in for is
\* never more than a revocation, and never a review: the selection may jump to
\* the row just saved (AnswerSaved), but that row takes nothing else any more.
MisdirectedOnlyRevokes ==
  \A q \in sent :
    q.reply = "ok" /\ q.row # q.filledFor => q.desk = "clearance" /\ q.to = "revoked"

\* However the session changes between guard and activation, the audit page is
\* only ever built for an administrator or a safety manager (roleGuard).
AuditOnlyForManagers ==
  [][page # "audit" /\ page' = "audit" => RoleOf(session) \in Managers]_vars

\* A session ends because the user logs out, because its token has expired, or
\* because a request sent before it began is answered with 401; never because
\* of a refused action or a mistyped password (errorInterceptor).
SessionEndsForCause ==
  [][session # None /\ session' = None =>
       \/ Logout
       \/ Rejected(session.n)
       \/ \E n \in loads \cup {q.token : q \in sent} : Rejected(n) /\ n < session.n]_vars

\* A protected page is not left standing without a session, unless the user broke
\* off a navigation or left the login page while a login was under way, or the code
\* of the login page has failed to come since it was last shown (errorInterceptor,
\* MainLayout.logout).
LoggedOutGoesToLogin ==
  ~hasty /\ ~stranded /\ session = None /\ page # "login" =>
    target # None /\ target.to = "login"

\* With the first exception alone, the buttons of a page are those of its user's role,
\* through expiry, logout and the next user's login (canManage, canReview).
ButtonsFitRole ==
  ~hasty /\ session # None /\ page # "login" => rights = session.role

\* The login page shows its spinner, its button is disabled, and neither an answer
\* nor a navigation with a session is under way that would change this.
LoginLocked ==
  page = "login" /\ loading /\ logins = {} /\ (session = None \/ target = None)

\* That only happens when a late 401 ends the session just opened before its first
\* navigation is done, or when the code of the page it leads to does not come; never
\* after a failed login (LoginPage.submit).
LoginLocksForCause ==
  [][~LoginLocked /\ LoginLocked' => (session # None /\ session' = None) \/ FetchFails]_vars

=============================================================================
