-------------------------------- MODULE Seed --------------------------------
(***************************************************************************)
(* Servers that start, each in its environment, on one database that is    *)
(* empty at first: each that is configured to seed counts the users and,   *)
(* if there are none, writes the demo shift in one transaction.  What a    *)
(* transaction inserts is gone if it does not commit, but the ids it took  *)
(* from a sequence are not given back.  A server that exits is started     *)
(* again, in the same environment.                                         *)
(***************************************************************************)
EXTENDS Configuration, Naturals, Sequences

CONSTANTS
  Server,
  MaxStops    \* bound: servers killed, statements or connections that fail

ASSUME MaxStopsAssumption == MaxStops \in Nat

VARIABLES
  environment,   \* what each server is started in
  users,         \* how many accounts are committed
  units,         \* ids of the committed ground units
  turnarounds,   \* the ground_unit_ids of the committed turnarounds
  lastUnit,      \* the sequence that hands out ids of units
  pc,            \* where each server is in main()
  drafted,       \* the units that its transaction has inserted
  stops

rowVars == <<users, units, turnarounds>>
vars    == <<environment, rowVars, lastUnit, pc, drafted, stops>>

TypeOK ==
  /\ environment \in [Server -> Environment]
  /\ users \in Nat
  /\ units \subseteq 1..lastUnit
  /\ turnarounds \in Seq(SUBSET Nat)
  /\ lastUnit \in Nat
  /\ pc \in [Server -> {"down", "count", "users", "units", "rest", "ping", "serving"}]
  /\ drafted \in [Server -> SUBSET (1..lastUnit)]
  /\ stops \in 0..MaxStops

Goto(s, l) == pc' = [pc EXCEPT ![s] = l]

\* Some transaction has inserted the accounts and not ended yet.
Inserting == \E s \in Server : pc[s] \in {"units", "rest"}

-----------------------------------------------------------------------------
(* Slips for the properties to catch.                                      *)

AlwaysEmpty == TRUE

\* The units are inserted outside the transaction.
InsertUnitsAtOnce(s) ==
  /\ pc[s] = "units"
  /\ lastUnit' = lastUnit + 4
  /\ units' = units \cup (lastUnit + 1 .. lastUnit + 4)
  /\ Goto(s, "rest")
  /\ UNCHANGED <<users, turnarounds, drafted, stops>>

-----------------------------------------------------------------------------

Config(s) == Load(environment[s])

\* With an invalid configuration, main exits at once and is started again.
Start(s) ==
  /\ pc[s] = "down"
  /\ Validate(Config(s))
  /\ Goto(s, IF Config(s).SeedDemoData THEN "count" ELSE "ping")
  /\ UNCHANGED <<rowVars, lastUnit, drafted, stops>>

Empty == users = 0

Count(s) ==
  /\ pc[s] = "count"
  /\ Goto(s, IF Empty THEN "users" ELSE "ping")
  /\ UNCHANGED <<rowVars, lastUnit, drafted, stops>>

\* The phones are unique: the insert waits for other transactions that insert
\* them, and fails if one has committed; then main exits.
InsertUsers(s) ==
  /\ pc[s] = "users" /\ ~Inserting
  /\ Goto(s, IF users = 0 THEN "units" ELSE "down")
  /\ UNCHANGED <<rowVars, lastUnit, drafted, stops>>

InsertUnits(s) ==
  /\ pc[s] = "units"
  /\ lastUnit' = lastUnit + 4
  /\ drafted' = [drafted EXCEPT ![s] = lastUnit + 1 .. lastUnit + 4]
  /\ Goto(s, "rest")
  /\ UNCHANGED <<rowVars, stops>>

\* Two turnarounds, whose units are written down as "1", "2" and "4", their checks
\* and decisions; then the commit.
InsertRest(s) ==
  /\ pc[s] = "rest"
  /\ users' = users + 4
  /\ units' = units \cup drafted[s]
  /\ turnarounds' = turnarounds \o <<{1, 2}, {4}>>
  /\ drafted' = [drafted EXCEPT ![s] = {}]
  /\ Goto(s, "ping")
  /\ UNCHANGED <<lastUnit, stops>>

\* Redis answers; the server listens.
Serve(s) ==
  /\ pc[s] = "ping"
  /\ Goto(s, "serving")
  /\ UNCHANGED <<rowVars, lastUnit, drafted, stops>>

\* The server is killed, or exits because a statement or Redis failed.
Stop(s) ==
  /\ pc[s] # "down" /\ stops < MaxStops
  /\ stops' = stops + 1
  /\ drafted' = [drafted EXCEPT ![s] = {}]
  /\ Goto(s, "down")
  /\ UNCHANGED <<rowVars, lastUnit>>

InitFor(Deployments) ==
  /\ environment \in Deployments
  /\ users = 0 /\ units = {} /\ turnarounds = <<>> /\ lastUnit = 0
  /\ pc = [s \in Server |-> "down"]
  /\ drafted = [s \in Server |-> {}]
  /\ stops = 0

Advance(s) ==
  Start(s) \/ Count(s) \/ InsertUsers(s) \/ InsertUnits(s) \/ InsertRest(s) \/ Serve(s)

Next ==
  /\ \E s \in Server : Advance(s) \/ Stop(s)
  /\ UNCHANGED environment

Fairness == \A s \in Server : WF_vars(Advance(s) /\ UNCHANGED environment)

-----------------------------------------------------------------------------

IsNamedProduction(env) == env.APP_ENV \in {"production", "PRODUCTION"}

\* Whatever races and stops there are, the demo shift is there once and whole, or
\* not at all.
SeededOnce ==
  \/ users = 0 /\ units = {} /\ turnarounds = <<>>
  \/ users = 4 /\ \E n \in 0..lastUnit : units = n + 1 .. n + 4
     /\ Len(turnarounds) = 2

\* The red lines of the configuration hold of what is served and stored, whatever
\* else is set or left to its default: demo accounts exist only if a server outside
\* production was told to create them, and a server in production has a secret of
\* its own and no open origins (Load, Validate, and main's order of steps).
RedLines ==
  /\ users # 0 => \E s \in Server :
       environment[s].SEED_DEMO_DATA = "true" /\ ~IsNamedProduction(environment[s])
  /\ \A s \in Server : pc[s] = "serving" /\ IsNamedProduction(environment[s]) =>
       /\ environment[s].JWT_SECRET = "random"
       /\ environment[s].APP_CORS_ORIGINS \in {"", "https://ops"}

\* The seed does not keep a server from serving whose configuration is valid: one
\* that lost the race exits, and when it is started again it finds the users and
\* goes on.
AllServe == \A s \in Server : Validate(Config(s)) => <>[](pc[s] = "serving")

\* The seed is coherent: the units that its turnarounds name are there.
UnitsAreThere == \A i \in DOMAIN turnarounds : turnarounds[i] \subseteq units

=============================================================================
