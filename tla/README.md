# Ground-equipment clearance: models, checks and proofs

This directory models the clearance service of the repository: the Go backend that
assigns ground equipment to the turnaround of a flight, collects safety checks on it,
and decides whether it may go. It says what each committed state of its database
promises, checks that on small instances with TLC, for transactions interleaved
statement by statement, and proves all of it but liveness for every instance with TLAPS.
Around that core it models the parts that requests pass on their way: the readiness
report, the request pipeline with its audit middleware and the user accounts, the rate
limiter, configuration, start-up and seeding, and, on the other side of the network, the
console: its lists and the pages of rows behind them, and a browser tab with its
session, router, desks and dialogs.
`PROJECT.json` holds the same structure in machine-readable form: runs,
properties, the mutants that show each property can fail, and the source lines of
every definition.

## 1. Inventory

Paths are relative to `src/backend/internal` unless they begin with `src`.

| Component | Source | State it keeps | Operations | What makes it hard |
| --- | --- | --- | --- | --- |
| Ground units | `service/ground_unit_service.go` | `ground_units`: state, version | create, change state (revokes releases the unit serves) | writes three tables; looks for turnarounds before it locks the unit |
| Turnarounds | `service/turnaround_service.go` | `turnarounds`: status, version, units | create, change status, readiness (read) | a new row cannot be row-locked, so advisory locks guard the assignment; locks taken unit by unit; ids of units stored as they were spelt |
| Safety checks | `service/safety_check_service.go` | `safety_checks`: result by code | add, review (first review moves the status) | race with the decision that relies on the checks |
| Decisions | `service/clearance_decision_service.go` | `clearance_decisions`: state, previous state | decide, revoke | reads four tables, one of them under locks in the client's order |
| Transition audit | `service/support_service.go` | `audit_logs` | one row per transition, in its transaction | must agree with the decision it describes |
| Readiness | `service/turnaround_service.go` | none | read turnaround, checks, units and decision | four or more statements, no transaction |
| Audit middleware | `middleware/observability.go` | `audit_logs` | one row after every other write | outside the transaction, best effort |
| Rate limiter | `middleware/protection.go` | Redis counters, local token buckets | allow or reject | window ends, fallback between the two |
| Users and access | `service/user_service.go`, `middleware/access.go` | `users` | register, log in, rename; role checks | check-then-insert on the phone |
| Seed and start-up | `src/backend/cmd/server/main.go`, `service/support_service.go` | all tables, once | migrate, seed, serve, shut down | two servers on one empty database; requests cut off at shutdown |
| Configuration | `config/config.go` | the settings of one server | load, validate | defaults and spellings decide whether demo data and secrets reach production |
| Paged lists | `repository/*.go` `List`, `handler/audit_handler.go` | none | count, then select a page | two statements per page, rows move between pages |
| Console stores | `src/frontend/src/stores` | the list shown, request counter; the session | load a page; set and clear the session | responses out of order; stores outlive pages |
| Console pages and router | `src/frontend/src/pages`, `src/frontend/src/app`, `src/frontend/src/router` | page shown, navigation under way, selection, form, dialog, `saving` | navigate, log in and out, select, decide, review, confirm | late answers and dialogs meet newer pages, selections and sessions; the code of a page may not come |
| Dto, deployment | the rest | none that outlives a request | validation, settings | - |

The four services share one PostgreSQL database and nothing else: no cache, no
in-process state. Each request that writes runs in one `db.Transaction`, at
PostgreSQL's default READ COMMITTED, and interacts with the others through committed
rows and locks: `SELECT ... FOR UPDATE` on rows, `pg_advisory_xact_lock` on the
assignment of a unit, and the versions that PATCH requests carry back. The services
call each other's repositories directly: a change of equipment writes decisions, a
review writes a status, a decision reads equipment. The properties each component
needs are listed with the runs in section 4; the hazards they are aimed at, with the
line where each bites, are `hazards` in `PROJECT.json`.

## 2. Plan

Done:

1. `ClearanceRules` - states, roles, transition tables.
2. `ClearanceDB` - the rows, what services read from and write to them, the properties.
3. `Clearance` - every service method as one indivisible step: the abstract specification.
4. `ClearanceTx` - the same requests as interleaved transactions; implements 3.
5. `ClearanceProofs` - inductive invariant and theorems about 3.
6. `Workflow` - 3 from both of its initial databases and under concurrency, with a record
   of what concurrency costs, and what holds as long as it has cost nothing.
7. `Readiness` - the readiness report's separate reads; composed with the writers of 3.
8. `RequestPipeline` - handlers, audit middleware and user accounts.
9. `RateLimiter` - windows in Redis, clock, failures, local buckets.
10. `ListPage`, `ListStore` - what a list promises its reader, and the stores and pages
    that keep it; `PagedList` composes them with the rows behind the list.
11. `Console` - a browser tab: session, router, desks, dialogs, requests under way.
12. `Configuration`, `Seed` - servers that start in any environment, race, seed and are
    killed on an empty database.
13. `ClearanceTxProofs` - the lock invariant of 4: interleaved transactions implement 3,
    so the theorems about 3 are theorems about them; where deadlocks can arise.
14. `ServiceProofs` - 6 and 7, on top of 5: the demo shift, what holds until a release is
    missed, and what a readiness report may say.
15. `ListStoreProofs`, `RequestPipelineProofs`, `RateLimiterProofs`, `ConsoleProofs`,
    `SeedProofs` - the safety of 8 to 12, `PagedList` included.

Nothing of the plan is left. What would come next is in section 6: several tabs of one
browser, and summaries statement by statement.

`Readiness` is not composed with `ClearanceTx`: a reader takes no locks, so only commits
matter to it.

## 3. Modules and their correspondence to the code

**`ClearanceRules`** has the four value sets of `constants/domain.go`, the three
transition functions under the names they have in Go, and the inspectors' restriction.

**`ClearanceDB`** has one variable per column that the properties tell apart. Ids of
units and turnarounds come from small sets of numbers (loops and queries use their
order); ids of turnarounds are handed out in order, as by the sequence. `ground_unit_ids`
is a list of strings, stored as the request spelt them. `Create`, `Decide` and
`Readiness` parse them and refuse what is no number, so "7" and "007" are the same unit
to them; `FindActiveByGroundUnitTx` looks for the canonical string and does not find
"007". So `assigned[t]` has the units, `padded[t]` those whose ids are stored with leading
zeros, and `ActiveWith`, which stands for that query, looks at the rest, `Findable(t)`.
Any number of zeros is the same to the code; `Paddable` bounds which units are so named. A row that
does not exist has the value `Absent` in every column, and so has `previous_state`
before the first decision, where the code stores the empty string. `result[t][c]` is
the check with code `c` of turnaround `t`: codes are unique within a turnaround.
`trail[t]` holds the `CLEARANCE_TRANSITION` audit rows of a decision. Left out: names,
stands, schedules, notes, evidence, operators and times, which no guard of a state
change depends on once the request has passed validation.

**`Clearance`** has one action per writing endpoint; each names the handler's route and
stands for the whole service method, audit row included. Requests that the code
refuses change no row and are no step. `CreateTurnaround` has the units of a request and, among them, the padded ones;
nothing compares the spelling of one request with that of another. `ChangeUnitState`
takes as a parameter the turnarounds its query found: `Spec` gives it all active ones, `RelaxedSpec` any subset
of them. The version a PATCH carries is not a parameter here: a step is only taken
with the present one. `MaxVersion` bounds how often a unit's row is updated, nothing
else needs a bound: turnarounds only move forward.

**`ClearanceTx`** runs the same requests as `Proc` concurrent transactions. `pc` says
which statement is next, `req` is the request, `units`, `rows`, `found` and `read` are
the locals of its loops and queries. A request for a unit's state carries the role of
its sender, which `ChangeState` looks at under the lock; the other roles are refused
before a transaction begins. The statements are:

| `pc` | statement | action |
| --- | --- | --- |
| `assign` | `LockAssignmentTx`, per unit, ascending | `LockAssignment` |
| `find` | `FindActiveByGroundUnitTx` starts; its snapshot fixes the rows | `FindActive` |
| `rows` | the query locks its rows in order of id and re-evaluates them | `LockActiveRow`, then `ReadDecisions` or `CheckAssignment` |
| `row` | `FindByIDTx` on the turnaround and the checks made under its lock | `LockTurnaround` |
| `unit` | `FindByIDTx` on a unit and the check of its state | `LockUnit` |
| `commit` | writes, audit row, COMMIT | `Commit` |
| `rollback` | a refusal returns an error | `Rollback` |

What a statement sees follows READ COMMITTED: a query looks at the rows committed when
it starts, waits for their locks, and takes each row as it is once its lock is granted,
dropping it if it no longer matches. Writes take effect with the commit, for the rows
written are locked or new until then. The rows of checks and decisions are locked by
the code too, but only by a transaction that holds the lock of their turnaround, so
those locks never block anyone and are left out, and reading them is part of the step
that precedes it. `Fail` ends a transaction at any statement: a failed statement, a
broken connection, a dead server. The server has no state of its own to recover, so a
restart needs no action. PostgreSQL itself (`Free`, `Release`, `Victim`, ...) is
external, modelled as far as the services rely on it.

**`Workflow`** is `Clearance` as its operators meet it. `WorkflowInit` has both databases
that `main()` may leave to the router: empty, or with the demo shift of `Seed()`, whose
first turnaround is under check although one of its units awaits inspection, which no
sequence of requests leads to. `WorkflowNext` is `RelaxedNext` with one history
variable: `missed` says whether an equipment change has left a release standing that it
should have revoked. What only serial requests promise is stated as promised until
`missed`. `NewUnits` and `NewStates` bound the units that requests create, `MaxEvents` the
equipment changes and the padded ids of a behaviour, taken together.

**`MCClearanceTx`** has two initial conditions beside the empty database, both reachable
from it with two available units: `RevokedInit`, where a turnaround was revoked before its
first review, and `SharedInit`, where two turnarounds share the units, the earlier one
under padded ids, and wait for their decisions with all checks passed.

**`Readiness`** extends `Clearance` with one reader, for readers change nothing and so
do not meet. `next` is the statement that is due, `left` the units still to be looked
up, `report` the accumulators of the function. Between any two statements `Commit`
takes a step of `RelaxedNext`. Each lookup may fail, with what the code makes of it: an
error for the checks, a missing unit, a pending decision.

**`RequestPipeline`** has `Proc` requests on one of four kinds of route. `workflow`
stands for the seven handlers that audit in their own transaction, which `ClearanceTx`
details; `register`, `rename` and `login` are the handlers that leave it to the
middleware, and run statement by statement. `ctx` is what the middleware looks at on
the way back: the status, and `audit_persisted`. `Refuse` is every refusal and every
failed statement, `Cut` every end that skips the middleware. A write that has committed
may still be answered with an error, when the reply to the commit is lost.

**`RateLimiter`** counts time in ticks. `req` remembers the window a request took from
its clock; its script may run up to `MaxDelay` ticks later. `Counted` and `Unanswered`
both run the script; the second loses the reply, upon which the client library sends
it again or returns the error. `Forget` is a Redis that restarts without its last
second. Buckets count tokens in fractions of `1/Minute`, which makes the code's
floating point exact for whole ticks; what rounding does beyond that is left out.

**`ListPage`** says what a list promises its reader, in four variables and three
actions. **`ListStore`** is the code of the four stores that have a request counter
(they differ only in types), with the server and the pages around it as far as they
matter: a list and its totals are two requests that `forkJoin` joins, and both are
represented by how many writes they reflect. A load that is superseded stays under way
and is dropped when it arrives: nothing cancels it. Pages come and go, the store stays:
`saves` carry what their page was set to when it was left, and when they are confirmed
the page that is gone loads the shared store with that (`AskedBy`).

**`PagedList`** adds the rows. `CountRows` and `FindRows` are the two statements of every
`List`; between and after them `RowsChange` inserts a row where the order puts it, moves
one to the front (clearances are ordered by `decided_at`) or takes one off the list (a
filter it no longer matches). `Orders` lets two rows be tied, as `scheduled_at` and
`created_at` are not unique. `BeginWalk` and `TurnPage` are a reader who turns the pages
one by one as the paginator offers them, `seen`, `stayed`, `gone` and `raced` what has
happened on the way. A `Reader` says which rows there are at first and what bounds a
behaviour. The other reader of the instance uses the page in any order, as in
`ListStore`, and does not look at the rows.

**`Console`** is one tab. `session` is the user's role and the number of the token;
`issued` and `expired` are the server's side of it. `page` and `target` are the router:
`RunGuards` and `Activate` are apart because the code of a page is fetched in between,
and what was decided by the one is used by the other. `missing` has the pages whose
code the tab has not got and may fail to get, because the line is down or a deployment
has replaced the files; `FetchFails` then ends the navigation where it began, and nobody
looks at its outcome: neither `errorInterceptor` nor `logout` nor `LoginPage.submit`.
`stranded` records that this has happened to the login page. Code that has come once is
kept until the tab is reloaded. `rights` is the role from which a
page derived `canManage` or `canReview` when it was built. `selected`, `form`, `dialog`
and `saving` are `ClearancePage` and `ChecksPage`, `sent`, `loads` and `logins` the
requests under way; `live` says of a login, a dialog or a request that the component it
belongs to is still there. `rows` keeps every state a row has had, for a list may show
an old one. A response with status 401 ends the session whichever token it was about.
`hasty` records that the user broke off a navigation or left the login page while a
login was under way. `visit` bounds a behaviour: which pages, which roles, how many
tokens, saves and writes, and which pages' code may fail to come.

**`Configuration`** is `Load` and `Validate` for the four settings that decide whether a
server starts and seeds; `Environment` has for each what is not set, what is right, and
the values the code treats specially. **`Seed`** runs `main()` of several servers, each in
its environment, up to `ListenAndServe`. Of the rows it keeps the ids, and of the
sequences the one whose values the seed takes for granted. A server that exits is started
again, as its container is.

Operators under the heading "Slips" are alternative bodies that a faulty change might
have; they are used only to test that the properties can fail. The `MC` modules hold
the constants and initial conditions of the instances; `Readiness` needs none of its own.

## 4. Runs

| Run | Question | Instance | Distinct states |
| --- | --- | --- | --- |
| `workflow` | What holds even if equipment changes miss releases, and what until one does? (9 properties and types) | empty, or the demo shift: 3 units, 2 turnarounds, 2 codes, 2 equipment changes or padded ids | 1.3 million |
| `tx_concurrent` | Do concurrent transactions implement the relaxed service? Are reads under locks current at the commit, and does no PATCH overwrite a state its sender did not see? | from an empty database: 2 requests, 1 unit, 2 turnarounds, 3 versions, 2 roles, one verdict | 2.1 million |
| `tx_progress` | Which requests can deadlock, and is every request answered? | 2 requests, 2 units, 2 turnarounds: one revoked, or both to be decided and sharing padded units | 270 thousand |
| `tx_standing_release` | Are clearances on available equipment under concurrency too? **No.** | as `tx_concurrent` | stops at the violation |
| `readiness_reports` | What may a report say that mixes several states? | 2 units, 1 turnaround, 1 code, 3 versions, padded ids | 1.4 million |
| `pipeline` | Do races, cut-off requests and failing inserts keep accounts unique, answers honest and audit rows true? | 3 requests, 2 at once, 2 phones, 2 names | 549 thousand |
| `pipeline_unaudited` | Does every write get its audit row? **No.** | as `pipeline` | stops at the violation |
| `rate_limits` | Do windows and buckets keep their limits under delay, loss and restarts? | limit 2, windows of 2 ticks, delay up to 1, 2 requests at once | 1.9 million |
| `list_stores` | Do lists show what was asked for last, whatever arrives when, and does turning all pages show all rows? | 3 pages of 2 rows, up to 4 loads, 2 writes | 821 thousand |
| `console` | What do late answers, expiring tokens, other users' logins, missing code and outlived dialogs do to a tab? | three visits: logins and guards with 3 tokens, one to each desk with 2 rows | 1.8 million |
| `seed_race` | Do racing and dying servers seed the database once, where they may, and do all serve that can? | 3 servers, one in any of 256 environments, 2 stops | 227 thousand |
| `seed_stopped` | Is the seed coherent? **No.** | as `seed_race` | stops at the violation |

*What they show of the workflow.* `StatusFollowsDecision`, `ExclusiveUnlessPadded`,
`ReleaseNeedsReview` and `AuditExplains` relate the rows of several tables after any
sequence of requests; `DecisionsAreFinal`, `EvidenceFrozen` and `VersionTellsStates` say
what a committed step may never do. None of them needs an equipment change to find all
releases, and none depends on the database having been empty at first.
`AvailableUnlessMissed` and `RevokedUnlessMissed` do: of the units that a
turnaround names canonically they hold up to the first release that was missed, so the
race described under *The violations* is the only way to lose them. Of units named with
padded ids they do not hold at all, see *Padded ids*. `ImplementsRelaxed` is the
refinement: the committed rows of the interleaved transactions start and move only as
those of the indivisible requests of `RelaxedSpec`. `CommitsAreSerial` is its step part,
checked again where requests contend for two units and creations pad their ids. `NoBlindOverwrite` and
`ReadsStayCurrent` are why: versions and locks. `RingsNeedCreateOrPadding` locates the
deadlocks: `Create` locks turnaround rows unit by unit and so out of order; all other
requests lock in a common order (advisory, turnarounds ascending, units), but for one:
`Decide` locks units in the order of the turnaround's creation. Two decisions that wait
for each other's units need two common units and hold two turnarounds that share them,
which `ExclusiveUnlessPadded` allows only if the earlier one has padded their ids. The run
contains deadlocks of both kinds: those of creations from `RevokedInit`, those of two
decisions from `SharedInit`.

*Padded ids.* `Create` stores the ids of units as they came (`turnaround_service.go:60`,
`dto_plan.go:11` does not constrain them, and the console's field takes them as typed,
`turnarounds.page.ts:118`), and `FindActiveByGroundUnitTx` compares strings
(`turnaround_repository.go:50`). What follows needs no race; each trace is one that TLC
gives for the property without its exception, on the instance of `workflow` or
`tx_progress`:

- a turnaround created with "007" and then one created with "7" are both accepted and
  both engage unit 7 (exclusive assignment, which the conflict check at
  `turnaround_service.go:110` is for);
- a turnaround created with "007" is reviewed and fully cleared, and then unit 7 is
  blocked: the query finds nothing, no decision is revoked, and the clearance stands on
  equipment that is not available, which `README.md:33` of the repository excludes;
- turnarounds 1 with "01", "02" and 2 with "2", "1" are decided at the same time: each
  decision locks one unit and waits for the other's.

Storing what `Create` has parsed would remove all three. The properties are therefore
stated for what a turnaround names canonically, and are exact: nothing else is lost.

*What they show of the rest.* A readiness report never invents a blocker
(`BlockersAreReal`), and its status, decision and checks fit one another although they
are read apart, because it reads the status first and what comes after it is frozen by
then (`ReportsAreConsistent`). It may be too good: if a check is added after the checks
were read, and the last blocked unit is restored before that unit is read, it names no
blocker although one was persisted at every moment. `Decide` repeats every test under
locks, so nothing rests on the report but its reader. In the pipeline it is the unique
index, not the look at the phone before it, that `OneAccountPerPhone` rests on;
`AuditIsTruthful` says that handlers and middleware never both audit. `WindowLimit`
needs the half minute by which a counter outlives its window: without it a late script
starts the window anew. Twice the limit in a minute that straddles two windows, and a
full bucket on top when Redis fails, remain possible and are not excluded.

*What they show of the lists.* `PageSpec` is the refinement of `ListPage` by `ListStore`:
the counter makes the order of answers irrelevant. Its mutant is the code of the audit
store, which has no counter. `OwnWritesShown` says that a confirmed save is in list and
totals once the list has settled, whichever of several loads is the last.
`ShowsWhatPageAsks` relates the list to the page that is open: the two agree except
after a save that was confirmed when its page had been left (`checks.page.ts:119` reloads
with the filter of a page that is gone), and then until the next load. `WalkShowsAll`
says what turning pages is good for: every row that kept its place is seen, although
count and select are apart and writes fall between them. Its exceptions are needed: a
row that leaves a filtered list moves its successors onto a page already turned, one
inserted between the last page's two statements pushes the last row past the total, and
tied rows may change places. `LoadingEnds` is the liveness of the progress bar.

*What they show of the console.* `SavingHasRequest`: a desk is locked by exactly the
request its user waits for, through page changes and new sessions. The answer to a
decision selects its row again, whatever has been selected since, while the form and
its targets stay those of the other row; `MisdirectedOnlyRevokes` says that what can be
sent so, and accepted, is at most a revocation, because the row just decided takes
nothing else. (It may thus be a revocation of a row the user had not filled the form in
for.) `AuditOnlyForManagers` holds although guard and activation are apart, since every
end of a session starts a navigation that supersedes the one under way;
`LoggedOutGoesToLogin` and `ButtonsFitRole` hold for a user who waits for navigations,
and fail for one who does not, because `authGuard` is not asked again between pages. The
first has one more exception. After a reload of a tab with a session the code of the
login page has to be fetched when the session ends; if that fails, the protected page
stands without a session until the user asks for another page (`stranded`).
`SessionEndsForCause`: a login may be ended by the late 401 of a request sent before
it, but by nothing else than that, its own expiry or the user. If that happens before
the first page is built, the login page keeps its spinner (`login.page.ts:85` never
resets `loading`), and so it does, with the session, if the code of the page that the
login leads to does not come; `LoginLocksForCause` says that these are the only ways, a
failed login in particular is none.

*What they show of start-up.* `SeededOnce` and `AllServe` are about the race of servers
on one database; `RedLines` about what they were started with: whatever is set, left out
or misspelt, demo accounts exist only if a server outside production was told to create
them, and production is served neither with the secret that is built in nor with a
wildcard origin. The defaults of `docker-compose.yml` alone are such a refusal: they name
production and the placeholder, so the backend exits until a secret is set.

*The violations.* `ChangeState` looks for the turnarounds to revoke
(`ground_unit_service.go:98`) before it locks the unit (`:110`). If a turnaround is
created on the unit, reviewed and fully cleared between the two, it is not among them.
`Decide` does not touch the unit's version, so the version check passes and the unit
is committed as blocked while the clearance stands, which `README.md:33` of the
repository excludes. Locking the unit's row first would change the order of locks, so
that is not a fix by itself; repeating the query after the lock and failing on a
difference would be. This is why `RelaxedSpec` lets an equipment change miss
releases, and `workflow` and the `tx` runs show that nothing else is lost.

The README and the audit page say that the audit log has all writes. Accounts are
created and renamed without a row if the middleware's insert fails, which it only logs
(`observability.go:47`), or if the request is cut off before it. And the seed names the
units of its turnarounds by the ids that a fresh sequence hands out
(`support_service.go:75`); one that is cut off after inserting the units leaves the
sequence advanced, and its repetition writes turnarounds whose units do not exist.

*Types.* The runs of the workflow and of its transactions and the one of the lists check a
type invariant. `TypeOK` or `ReadTypeOK` in `Readiness`, `RequestPipeline`, `RateLimiter`,
`Console` and `Seed` says what the variables range over, as a help to the reader; the
invariants of section 5 imply them.

*Bounds.* Two units and two turnarounds give every way in which two turnarounds share
none, some or all equipment, and a successor on a unit; the demo shift's names of units
make it three in `workflow`, where `MaxEvents` lets a unit leave a state and return, two
units leave theirs, or one leave its state while a turnaround names it by a padded id. One
paddable unit beside others that are not tells the two spellings apart; `tx_progress` has
two, as a ring of decisions needs. New units enter `workflow` available or awaiting
inspection: one that is blocked moves as one that awaits inspection does, and from the
remaining states nothing moves. Two check codes distinguish
"some" from "all" checks. Two concurrent requests suffice for every race between a
pair of operations, while earlier and later requests of the same behaviour come before
and after them; rings of three or more are not covered by `tx_progress`, but by the theorem. `MaxVersion`
lets a unit leave a state and return to it, where the run is about that; `tx_progress`
has `MaxVersion = 1`, so that changes of equipment are refused at the end, after they
took all their locks, no verdicts, for reviews lock a single row, and of the decisions
only full releases, which lock the units that the others do not. `Target`, `Asker`,
`Verdict` and `Outcome` restrict what requests ask for: of the targets, `tx_concurrent`
has one that withdraws a unit and one that restores it, each asked for by a role that may
do both and by inspectors, who may not restore, all decisions, and reviews that pass; the
other targets and the other verdict pass the same statements and are in `workflow`.
`tx_concurrent` pads no ids: it is about what locks secure, and what a creation does with
padded ids under locks is in `tx_progress`. Concurrent requests are interchangeable, and check codes
and names are only compared, so these are symmetric; the runs with liveness properties
use no symmetry. In `rate_limits` a bucket grants up to twice what it holds, each
window is overrun by two, and the clock passes a window's end by more than the delay;
one server is enough, for Redis does not see which server asks and buckets share
nothing. `list_stores` has, for a page used in any order, three loads: the one shown, one
superseded and one current, and two saves, one at a time where pages turn and both at
once where they do not; for the reader who turns pages, three pages and four loads,
so that one can fail and be repeated, and with tied rows four rows on two pages.
`console` has a visit with three tokens, so that one is expired, one late and one
current, by users of two roles, no desk, and code of four pages that may not come; and one to each desk, by one user who waits
for navigations, with two rows, so that the selection can be the wrong one. `seed_race`
has three servers, so that one is killed while two others race; `MaxStops` allows one
stop in each of two attempts. Two of its servers seed for development or run production,
the third has any environment: the environments meet in the database only, where it
matters who seeds. Deadlock
checking is off everywhere: the bounds let every system come to rest, with all
turnarounds completed or revoked, or no request, load or stop left.

*Fairness.* `TxFairness` asks strong fairness of each transaction's steps and weak
fairness of the deadlock victim. Goroutines are scheduled fairly and the database
executes every statement; PostgreSQL serves lock queues in order of arrival, so a
transaction whose lock is freed again and again does get it; the deadlock detector runs
after `deadlock_timeout` whenever a ring persists. Nothing is assumed of new requests
or of failures. `ListStore` and `PagedList` ask weak fairness of answers: the server's write timeout of
30 seconds and the browser end every HTTP request, with a response or an error. `Seed`
asks weak fairness of each server's next step: `main()` waits for nothing but the
database and Redis, and an exited container is started again.

## 5. Proofs

Every theorem is for all values of the constants: any sets of units, turnarounds, check
codes, requests, servers, rows, pages, phones and names, finite or not, any limits and
bounds. The assumptions are the named `ASSUME`s of the modules, which TLC evaluates in
the runs: ids are numbers, bounds are natural numbers, the values that stand for "none"
are nothing else, pages are numbered from 1 and hold a row at least, there is a server, and
`TimeAssumption`, `Minute + MaxDelay <= Retention`: counters outlive their window by half
a minute (`protection.go:133`), and that a script runs within that time of its request's
look at the clock is what `WindowLimit` takes for granted of Redis and its client.
`Console`, `Seed` and `PagedList` have no initial condition of their own: their theorems
hold of `InitFor` for every set of visits with proper pages, roles and bounds
(`ProperVisit`) and for every set of deployments, and of `PagedInit(Reader)`, that is of
all readers whose pages are among the queries. That the instances' visits and readers are
such is an assumption of their MC modules.

| Module | About | Theorems that state a property of a run |
| --- | --- | --- |
| `ClearanceProofs` | `RelaxedSpec` of `Clearance` | `TypeCorrect` (`TypeOK`), `StatusesFollowDecisions`, `UnitsAreExclusive` (`ExclusiveUnlessPadded`), `ReleasesAreReviewed`, `TrailsExplainDecisions` (`AuditExplains`), `ClosedTurnaroundsAreFinal` (`DecisionsAreFinal`), `EvidenceStaysFrozen`, `VersionsTellStates`; of `Spec`, which `SpecIsRelaxed` makes a case of it, `ClearedUnitsStayAvailable` |
| `ClearanceTxProofs` | `TxSpec` of `ClearanceTx` | `TxImplementsRelaxed`: `TxSpec => RelaxedSpec`; `CommitsRunSerially` (`ImplementsRelaxed`), `CommitsAreSteps` (`CommitsAreSerial`), `TxTypesAreKept`, `SendersOverwriteWhatTheySaw` (`NoBlindOverwrite`), `ReadsAreCurrent` (`ReadsStayCurrent`), `RingsNeedCreate` (`RingsNeedCreateOrPadding`); `TxKeepsPromises` |
| `ServiceProofs` | `WorkflowSpec` | `AvailableWhileNothingMissed`, `WithdrawalsRevokeAll` (`RevokedUnlessMissed`), `WorkflowKeepsPromises` (all of the first row) |
| | `ReadSpec` of `Readiness` | `NamedBlockersAreReal`, `ReportsFitTheirStatus` (`ReportsAreConsistent`) |
| `RequestPipelineProofs` | its `Spec` | `PhonesHaveOneAccount`, `SuccessMeansCommitted`, `AuditRowsAreTruthful` |
| `RateLimiterProofs` | its `Spec` | `WindowsAreLimited` (`WindowLimit`), `BucketsAreLimited` (`LocalLimit`) |
| `ListStoreProofs` | its `Spec` | `StoreImplementsPage` (`PageSpec`), `ConfirmedWritesAreShown` (`OwnWritesShown`), `PagesGetWhatTheyAsk` (`ShowsWhatPageAsks`) |
| | `PagedInit(Reader)` and `PagedNext` of `PagedList` | `WalksShowAll` (`WalkShowsAll`), `PagedTypesAreKept` (`PagedTypeOK`), `PagedListIsAStore` (the three of the row above), by `PagedListImplementsStore`: each of its steps is one of `ListStore` |
| `ConsoleProofs` | `InitFor` and `Next` | `DesksAreLockedByRequests` (`SavingHasRequest`), `MisdirectionsOnlyRevoke`, `EndsLeadToLogin` (`LoggedOutGoesToLogin`), `ButtonsAreTheUsers` (`ButtonsFitRole`), `AuditPageIsGuarded`, `LoginLocksOnlyForCause`, `SessionsEndForCause`; and the types |
| `SeedProofs` | `InitFor` and `Next` | `SeedsOnce` (`SeededOnce`), `RedLinesHold` |

Each rests on an inductive invariant, which is a theorem too (`...Invariance`). Why
the invariants are what they are:

*Committed rows* (`Inv`). It has types, ids of turnarounds that are handed out in order,
statuses that follow decisions, exclusive units and reviewed releases, and neither of the
last two is inductive without the others. Exclusive units need the order of ids: that a new turnaround
is later than all others says which of two turnarounds may be the one nobody finds. They
need statuses that follow decisions: a turnaround is engaged by its
status or by its decision, and `Decide` turns the one into the other. Reviewed releases
need it too: checks are written while the decision is pending, and that no release
stands on them then is what the status says. Each operation has one lemma for the types
and one for the rest; a step that leaves turnarounds, checks and decisions alone is
covered by one frame lemma, and what cannot engage anyone new by another.
`FindableUnitsAvailable` is inductive relative to `Inv`, under `Spec` only: the proof uses
that all active turnarounds that name a withdrawn unit canonically are revoked, the very
step the violation above breaks. Finality needs `Inv` because a revocation must not find a completed
turnaround, nor `Decide` a completed one that is still released. `HistoryInv` adds what
ties a trail to the row it explains: its last entry is the decision's previous and
present state, and what does not exist has no trail and no checks.

*Interleaved transactions* (`TxInv`). For each request it says what the request has found
out so far, and which locks keep that true until it commits: `ReadInv`, a decision that
was read belongs to a locked turnaround; `SeenInv`, a version that is still the row's
tells the state that the sender saw; `ChangeStateInv`, the rows found are locked and
active, and name the unit canonically; `CreateInv`, the units asked for are
advisory-locked, no engaged turnaround names those looked at canonically, and those locked
are available; `RowOpInv`, the turnaround is locked and accepts
the request. The proof has two halves. A request's own step establishes what its next
place requires, and its commit is then a step of `RelaxedNext`. A step of another
request changes no row that this one has locked, engages no unit whose advisory lock this
one holds, and changes no state without raising its version (`Respects`), so it leaves
alone what this one relies on. That argument is where each lock of the code is used. What
no lock secures is that `ChangeState` still knows all active turnarounds when it commits,
which is why the theorem is about `RelaxedSpec` and not `Spec`. `RingsNeedCreate` adds `LockOrder`, inductive relative to
`TxInv`: without `Create`, rows are locked in ascending order and units after them, so in
a ring nobody waits for a unit, and the one that waits for the least row holds none below
it. That two decisions never wait for each other's units, unless the earlier turnaround has
padded the id of one they share, is `ExclusiveUnlessPadded` and the lock on the turnaround.

*Workflow* (`WorkflowInv`). A step that misses nothing is one of `Next`, for then what an
equipment change revokes is what `Next` would have revoked; one that misses something
ends the promise. The demo shift satisfies the invariant at the start, which is where its
uncommon first turnaround has to be looked at. *Readiness* (`ReadInv`): what the report
says so far is related to what the rows say now, and what has been decided by the time
the status is read cannot change any more, which is `EvidenceFrozen` again.

*Request pipeline* (`PipelineInv`). Requests have numbers of their own, and one that is
still in its handler has left no trace under its number; so an audit row can only be that
of a request that is past its handler. The unique index is all that uniqueness needs.

*Rate limiter* (`LimiterInv`). A request that is about to run its script looked at its
clock at most `MaxDelay` ago, so a window that it may still ask for has not been closed
for longer, and `TimeAssumption` says that the counter is then still there. As long as a
window can be asked for, its counter and what Redis forgot cover its grants; afterwards
nothing is granted in it. For buckets, every suffix of the grants together with
the tokens left is covered by a full bucket and what has flowed in since, which is
`LocalLimit` made inductive.

*Lists* (`StoreInv`). At most one load under way is current, it carries the last question,
and whatever the server has answered it is as new as the last write confirmed, since each
confirmation starts a load. The step simulation of `ListPage` follows.

*Paged lists* (`PagedInv`) adds where the rows are that the walker has not been shown.
With `k` pages shown, a row that has kept its place and has not been seen stands behind
the first `k * PageSize` rows; while the next page is selected and not yet shown, it
stands behind those of that page too, or on it. It stays there, because what others do
while no row leaves can only push it back: an insertion before it, or another row's move
to the front, which comes from behind it or leaves its position alone. That is why
`WalkShowsAll` excepts a list that a row has left (`gone`). A row that still stands
behind the page shown also stands within the total that was counted with it, so the
paginator offers another page, unless a row was inserted between that count and its
select (`raced`). Tied rows never count as having kept their place. The lemmas under
*Sequences* say what `InsertAt`, `RemoveAt`, `SubSeq` and the move to the front are as
functions on positions; after them the proof is arithmetic about positions.

*Console* (`ConsoleInv`). `AdmittedStays`: what the guards have admitted they would still
admit, because whatever replaces the session supersedes the navigation. `DeskInv`: a form
is filled in for another row than the selected, confirmed or requested one only if that
row is settled, that is decided or reviewed, and a settled row accepts a
revocation at most. `FetchFails` only takes a navigation away, which weakens nothing the
invariant says of one under way; that a page without a session has one to the login page
holds as long as none of those has failed.

*Seed* (`SeedInv`). At most one server is between its first insert and its commit, with no
accounts committed beside it; its draft is four consecutive ids; and whoever is past
`Start` has a configuration that passes `Validate`, and seeds only when told to. The red
lines then are two lemmas about `Load` and `Validate`.

*Only model-checked.* Liveness (`RequestsFinish`, `LoadingEnds`, `AllServe`) is out of the
prover's reach. The three violations are counterexamples, for TLC to find. Every other
property of a run is stated by a theorem.

## 6. Not modelled

- Summaries and single rows: a summary's two or three statements are represented by its
  first, the lookups of 200 rows that desks make for labels not at all. One of these goes
  to a shared store: a checks page whose save is confirmed after it was left may so load
  200 clearances under an open clearance page (`checks.page.ts:119`).
- The moments in which a dialog opens and closes. In `Console` a dialog is there from
  `open` to `afterClosed`, and nothing else can be done meanwhile. Its animations leave
  short gaps: `decide()` and `review()` do not look whether a dialog is open already, so
  two Enters in quick succession may open two, and the row is read when the dialog has
  closed (`clearance.page.ts:125`), not when it is confirmed.
- What a browser shows when a reload does not get its page: an empty tab, to be reloaded
  once more.
- Ids of turnarounds that are taken from the sequence in another order than they are
  committed: the models hand out an id with the commit.
- Other spellings of a unit's id within one request: the parser refuses signs and spaces,
  and two spellings of one unit in a request are refused as duplicates.
- What the console's forms contain and refuse, and the dialogs of the equipment and
  turnaround pages, which have no selection to lose; layout, health light and formatting.
  Several tabs of one browser: they share `localStorage`, but each reads it only when it
  is loaded.
- Password hashing, roles of the routes without a desk, CORS, request ids, error formats
  and dto binding: stateless, or library code. To the pipeline they are one refusal.
- Settings that decide no step: ports, names, passwords, hours, limits.
- Sequence numbers of checks: assigned under the turnaround's lock, nothing reads them
  but the order of a list.
- The 32-bit truncation of the advisory key: units whose ids agree modulo 2^32 share a
  lock, which serialises more and excludes nothing.
- Who asks, in the workflow, except the role for a unit's state: route guards admit or
  refuse a request before it reaches a service. The desks' routes are in `Console`.
- The map of local buckets, which only grows, and the time that revoked turnarounds,
  active for ever, cost later requests: matters of load.
- Nginx, images, volumes and health checks.
