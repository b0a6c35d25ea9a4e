----------------------------- MODULE SeedProofs -----------------------------
(***************************************************************************)
(* Proofs about Seed for any servers, deployments and number of stops: the *)
(* demo shift is there once and whole or not at all, and the red lines of  *)
(* the configuration hold.                                                 *)
(*                                                                         *)
(* SeedInv says that at most one transaction has inserted the accounts and *)
(* not ended, with no accounts committed beside it, and that whoever has   *)
(* passed a check of its configuration still has one that passes it.       *)
(***************************************************************************)
EXTENDS Seed, Integers, TLAPS

\* The unique phones let one transaction at a time past its first insert, and none
\* once another has committed.
OneSeeds ==
  \A s \in Server : pc[s] \in {"units", "rest"} =>
    /\ users = 0
    /\ \A r \in Server : pc[r] \in {"units", "rest"} => r = s

\* A transaction that has inserted units has taken the next four ids.
DraftsAreWhole ==
  \A s \in Server : pc[s] = "rest" =>
    \E n \in 0..lastUnit : n + 4 <= lastUnit /\ drafted[s] = n + 1 .. n + 4

\* main() validates before anything else, and only seeds when told to.
ConfigsAreChecked ==
  \A s \in Server :
    /\ pc[s] # "down" => Validate(Config(s))
    /\ pc[s] \in {"count", "users", "units", "rest"} => Config(s).SeedDemoData

SeedInv == TypeOK /\ OneSeeds /\ DraftsAreWhole /\ ConfigsAreChecked /\ SeededOnce /\ RedLines

-----------------------------------------------------------------------------
(* Lemmas about Load and Validate.                                         *)

\* Demo accounts are only created outside production, by a server that is told to.
LEMMA SeedingIsAskedFor ==
  ASSUME NEW env \in Environment, Validate(Load(env)), Load(env).SeedDemoData
  PROVE  env.SEED_DEMO_DATA = "true" /\ ~IsNamedProduction(env)
  <1>1. env.SEED_DEMO_DATA = "true"
    BY DEF Load, getEnvBool, Environment
  <1>2. ~IsNamedProduction(env)
    <2>1. getEnv(env.APP_ENV, "development") \notin {"production", "PRODUCTION"}
      BY DEF Validate, Load, IsProduction
    <2> QED
      BY <2>1 DEF getEnv, IsNamedProduction
  <1> QED
    BY <1>1, <1>2

\* What Validate admits in production has a secret of its own and no open origins.
LEMMA ProductionIsClosed ==
  ASSUME NEW env \in Environment, Validate(Load(env)), IsNamedProduction(env)
  PROVE  env.JWT_SECRET = "random" /\ env.APP_CORS_ORIGINS \in {"", "https://ops"}
  <1>1. IsProduction(Load(env).AppEnv)
    BY DEF IsNamedProduction, IsProduction, Load, getEnv
  <1>2. Load(env).JWTSecret \notin {"short", "placeholder"}
    BY <1>1 DEF Validate
  <1>3. env.JWT_SECRET = "random"
    BY <1>2 DEF Load, getEnv, Environment
  <1>4. /\ parseCSV(getEnv(env.APP_CORS_ORIGINS, "http://localhost")) # {}
        /\ "*" \notin parseCSV(getEnv(env.APP_CORS_ORIGINS, "http://localhost"))
    BY DEF Validate, Load
  <1>5. env.APP_CORS_ORIGINS \notin {",", "https://ops,*"}
    BY <1>4 DEF getEnv, parseCSV
  <1> QED
    BY <1>3, <1>5 DEF Environment

-----------------------------------------------------------------------------

\* Every deployment starts with an empty database and all servers down.
LEMMA InitSeed ==
  ASSUME NEW Deployments, Deployments \subseteq [Server -> Environment], InitFor(Deployments)
  PROVE  SeedInv
  <1>1. TypeOK
    BY MaxStopsAssumption DEF InitFor, TypeOK
  <1> QED
    BY <1>1 DEF InitFor, SeedInv, OneSeeds, DraftsAreWhole, ConfigsAreChecked, SeededOnce, RedLines

\* No step leaves the types.
LEMMA SeedTypes ==
  ASSUME SeedInv, [Next]_vars
  PROVE  TypeOK'
  <1> USE MaxStopsAssumption DEF SeedInv, TypeOK, Goto, rowVars
  <1>1. CASE UNCHANGED vars
    BY <1>1 DEF vars
  <1>2. ASSUME NEW s \in Server, Start(s), UNCHANGED environment PROVE TypeOK'
    BY <1>2 DEF Start
  <1>3. ASSUME NEW s \in Server, Count(s), UNCHANGED environment PROVE TypeOK'
    BY <1>3 DEF Count
  <1>4. ASSUME NEW s \in Server, InsertUsers(s), UNCHANGED environment PROVE TypeOK'
    BY <1>4 DEF InsertUsers
  <1>5. ASSUME NEW s \in Server, InsertUnits(s), UNCHANGED environment PROVE TypeOK'
    <2>1. lastUnit' \in Nat /\ 1..lastUnit \subseteq 1..lastUnit'
      BY <1>5 DEF InsertUnits
    <2>2. lastUnit + 1 .. lastUnit + 4 \subseteq 1..lastUnit'
      BY <1>5 DEF InsertUnits
    <2>3. drafted' \in [Server -> SUBSET (1..lastUnit')]
      BY <1>5, <2>1, <2>2 DEF InsertUnits
    <2> QED
      BY <1>5, <2>1, <2>3 DEF InsertUnits
  <1>6. ASSUME NEW s \in Server, InsertRest(s), UNCHANGED environment PROVE TypeOK'
    <2>1. <<{1, 2}, {4}>> \in Seq(SUBSET Nat)
      OBVIOUS
    <2>2. turnarounds' \in Seq(SUBSET Nat)
      BY <1>6, <2>1 DEF InsertRest
    <2>3. users' \in Nat
      BY <1>6 DEF InsertRest
    <2>4. units' \subseteq 1..lastUnit
      BY <1>6 DEF InsertRest
    <2>5. /\ pc' \in [Server -> {"down", "count", "users", "units", "rest", "ping", "serving"}]
          /\ drafted' \in [Server -> SUBSET (1..lastUnit)]
      BY <1>6 DEF InsertRest
    <2> QED
      BY <1>6, <2>2, <2>3, <2>4, <2>5 DEF InsertRest
  <1>7. ASSUME NEW s \in Server, Serve(s), UNCHANGED environment PROVE TypeOK'
    BY <1>7 DEF Serve
  <1>8. ASSUME NEW s \in Server, Stop(s), UNCHANGED environment PROVE TypeOK'
    BY <1>8 DEF Stop
  <1> QED
    BY <1>1, <1>2, <1>3, <1>4, <1>5, <1>6, <1>7, <1>8 DEF Next, Advance

\* Two transactions never insert side by side, nor one beside committed accounts.
LEMMA OneSeedsStep ==
  ASSUME SeedInv, [Next]_vars
  PROVE  OneSeeds'
  <1> USE DEF SeedInv, TypeOK, OneSeeds, Goto, rowVars
  <1>1. CASE UNCHANGED vars
    BY <1>1 DEF vars
  <1>2. ASSUME NEW s \in Server, Start(s) PROVE OneSeeds'
    BY <1>2 DEF Start
  <1>3. ASSUME NEW s \in Server, Count(s) PROVE OneSeeds'
    BY <1>3 DEF Count
  <1>4. ASSUME NEW s \in Server, InsertUsers(s) PROVE OneSeeds'
    BY <1>4 DEF InsertUsers, Inserting
  <1>5. ASSUME NEW s \in Server, InsertUnits(s) PROVE OneSeeds'
    BY <1>5 DEF InsertUnits
  <1>6. ASSUME NEW s \in Server, InsertRest(s) PROVE OneSeeds'
    BY <1>6 DEF InsertRest
  <1>7. ASSUME NEW s \in Server, Serve(s) PROVE OneSeeds'
    BY <1>7 DEF Serve
  <1>8. ASSUME NEW s \in Server, Stop(s) PROVE OneSeeds'
    BY <1>8 DEF Stop
  <1> QED
    BY <1>1, <1>2, <1>3, <1>4, <1>5, <1>6, <1>7, <1>8 DEF Next, Advance

\* The ids of a draft were taken in one go, and are not taken again.
LEMMA DraftsStep ==
  ASSUME SeedInv, [Next]_vars
  PROVE  DraftsAreWhole'
  <1> USE DEF SeedInv, TypeOK, DraftsAreWhole, Goto, rowVars
  <1>1. CASE UNCHANGED vars
    BY <1>1 DEF vars
  <1>2. ASSUME NEW s \in Server, Start(s) PROVE DraftsAreWhole'
    BY <1>2 DEF Start
  <1>3. ASSUME NEW s \in Server, Count(s) PROVE DraftsAreWhole'
    BY <1>3 DEF Count
  <1>4. ASSUME NEW s \in Server, InsertUsers(s) PROVE DraftsAreWhole'
    BY <1>4 DEF InsertUsers
  <1>5. ASSUME NEW s \in Server, InsertUnits(s) PROVE DraftsAreWhole'
    <2> SUFFICES ASSUME NEW r \in Server, pc'[r] = "rest"
                 PROVE  \E n \in 0..lastUnit' : n + 4 <= lastUnit' /\ drafted'[r] = n + 1 .. n + 4
      OBVIOUS
    <2>1. r = s
      BY <1>5 DEF InsertUnits, OneSeeds
    <2>2. lastUnit \in 0..lastUnit' /\ lastUnit + 4 <= lastUnit'
      BY <1>5 DEF InsertUnits
    <2>3. drafted'[r] = lastUnit + 1 .. lastUnit + 4
      BY <1>5, <2>1 DEF InsertUnits
    <2> QED
      BY <2>2, <2>3
  <1>6. ASSUME NEW s \in Server, InsertRest(s) PROVE DraftsAreWhole'
    BY <1>6 DEF InsertRest
  <1>7. ASSUME NEW s \in Server, Serve(s) PROVE DraftsAreWhole'
    BY <1>7 DEF Serve
  <1>8. ASSUME NEW s \in Server, Stop(s) PROVE DraftsAreWhole'
    BY <1>8 DEF Stop
  <1> QED
    BY <1>1, <1>2, <1>3, <1>4, <1>5, <1>6, <1>7, <1>8 DEF Next, Advance

\* A server keeps its environment, and goes past "down" and "count" only by a check.
LEMMA ConfigsStep ==
  ASSUME SeedInv, [Next]_vars
  PROVE  ConfigsAreChecked'
  <1> DEFINE C(s) == Validate(Config(s))
             D(s) == Config(s).SeedDemoData
  <1>1. environment' = environment
    BY DEF Next, vars
  <1>2. \A s : (C(s)' <=> C(s)) /\ D(s)' = D(s)
    BY <1>1 DEF Config
  <1>3. ASSUME NEW s \in Server
        PROVE  /\ pc'[s] # "down" => C(s)
               /\ pc'[s] \in {"count", "users", "units", "rest"} => D(s)
    <2>1. /\ pc[s] # "down" => C(s)
          /\ pc[s] \in {"count", "users", "units", "rest"} => D(s)
      BY DEF SeedInv, ConfigsAreChecked
    <2>2. ASSUME NEW r \in Server, Start(r)
          PROVE  \/ pc'[s] = pc[s]
                 \/ C(s) /\ (pc'[s] = "count" => D(s)) /\ pc'[s] \in {"count", "ping"}
      BY <2>2 DEF Start, Goto, SeedInv, TypeOK
    <2>3. ASSUME NEW r \in Server,
                 Count(r) \/ InsertUsers(r) \/ InsertUnits(r) \/ InsertRest(r) \/ Serve(r) \/ Stop(r)
          PROVE  \/ pc'[s] = pc[s]
                 \/ pc'[s] = "down"
                 \/ pc[s] \in {"count", "users", "units", "rest"} /\ pc'[s] # "down"
                 \/ pc[s] = "ping" /\ pc'[s] = "serving"
      BY <2>3 DEF Count, InsertUsers, InsertUnits, InsertRest, Serve, Stop, Goto, SeedInv, TypeOK
    <2>4. CASE UNCHANGED vars
      BY <2>1, <2>4 DEF vars
    <2> HIDE DEF C, D
    <2> QED
      BY <2>1, <2>2, <2>3, <2>4 DEF Next, Advance
  <1>4. ASSUME NEW s \in Server
        PROVE  /\ pc'[s] # "down" => C(s)'
               /\ pc'[s] \in {"count", "users", "units", "rest"} => D(s)'
    <2> HIDE DEF C, D
    <2> QED
      BY <1>2, <1>3
  <1> QED
    BY <1>4 DEF ConfigsAreChecked

\* Only a commit touches the rows, and then all of them: there were none.
LEMMA SeededOnceStep ==
  ASSUME SeedInv, [Next]_vars
  PROVE  SeededOnce'
  <1>1. CASE UNCHANGED <<rowVars, lastUnit>>
    BY <1>1 DEF SeedInv, SeededOnce, rowVars
  <1>2. ASSUME NEW s \in Server, InsertUnits(s) PROVE SeededOnce'
    <2>1. lastUnit' = lastUnit + 4 /\ lastUnit \in Nat /\ UNCHANGED rowVars
      BY <1>2 DEF InsertUnits, SeedInv, TypeOK
    <2>2. 0..lastUnit \subseteq 0..lastUnit'
      BY <2>1
    <2> QED
      BY <2>1, <2>2 DEF SeedInv, SeededOnce, rowVars
  <1>3. ASSUME NEW s \in Server, InsertRest(s) PROVE SeededOnce'
    <2>1. users = 0 /\ pc[s] = "rest"
      BY <1>3 DEF InsertRest, SeedInv, OneSeeds
    <2>2. units = {} /\ turnarounds = <<>>
      BY <2>1 DEF SeedInv, SeededOnce
    <2>3. PICK n \in 0..lastUnit : n + 4 <= lastUnit /\ drafted[s] = n + 1 .. n + 4
      BY <2>1 DEF SeedInv, DraftsAreWhole
    <2>4. units' = n + 1 .. n + 4 /\ users' = 4 /\ lastUnit' = lastUnit
      BY <1>3, <2>1, <2>2, <2>3 DEF InsertRest
    <2>5. Len(turnarounds') = 2
      BY <1>3, <2>2 DEF InsertRest
    <2> QED
      BY <2>4, <2>5 DEF SeededOnce
  <1> QED
    BY <1>1, <1>2, <1>3
       DEF Next, Advance, vars, rowVars, Start, Count, InsertUsers, Serve, Stop

\* The red lines follow from the checks that whoever serves or commits has passed.
LEMMA RedLinesStep ==
  ASSUME SeedInv, [Next]_vars
  PROVE  RedLines'
  <1>1. environment' = environment /\ environment \in [Server -> Environment]
    BY DEF Next, vars, SeedInv, TypeOK
  <1>2. ASSUME users' # 0
        PROVE  \E s \in Server :
                 environment[s].SEED_DEMO_DATA = "true" /\ ~IsNamedProduction(environment[s])
    <2>1. ASSUME NEW s \in Server, InsertRest(s)
          PROVE  environment[s].SEED_DEMO_DATA = "true" /\ ~IsNamedProduction(environment[s])
      <3>1. Validate(Load(environment[s])) /\ Load(environment[s]).SeedDemoData
        BY <2>1 DEF InsertRest, SeedInv, ConfigsAreChecked, Config
      <3> QED
        BY <1>1, <3>1, SeedingIsAskedFor
    <2>2. users' = users \/ \E s \in Server : InsertRest(s)
      BY DEF Next, Advance, vars, rowVars, Start, Count, InsertUsers, InsertUnits, Serve, Stop
    <2> QED
      BY <1>2, <2>1, <2>2 DEF SeedInv, RedLines
  <1>3. ASSUME NEW s \in Server, pc'[s] = "serving", IsNamedProduction(environment[s])
        PROVE  /\ environment[s].JWT_SECRET = "random"
               /\ environment[s].APP_CORS_ORIGINS \in {"", "https://ops"}
    <2>1. Validate(Load(environment'[s]))
      BY <1>3, ConfigsStep DEF ConfigsAreChecked, Config
    <2> QED
      BY <1>1, <1>3, <2>1, ProductionIsClosed
  <1> QED
    BY <1>1, <1>2, <1>3 DEF RedLines, IsNamedProduction

\* Whatever is deployed, races and stops.
THEOREM SeedInvariance ==
  ASSUME NEW Deployments, Deployments \subseteq [Server -> Environment]
  PROVE  InitFor(Deployments) /\ [][Next]_vars => []SeedInv
  <1>1. InitFor(Deployments) => SeedInv
    BY InitSeed
  <1>2. SeedInv /\ [Next]_vars => SeedInv'
    BY SeedTypes, OneSeedsStep, DraftsStep, ConfigsStep, SeededOnceStep, RedLinesStep
       DEF SeedInv
  <1> QED
    BY <1>1, <1>2, PTL

\* However many servers race and are stopped, the demo shift is there once and whole,
\* or not at all.
THEOREM SeedsOnce ==
  ASSUME NEW Deployments, Deployments \subseteq [Server -> Environment]
  PROVE  InitFor(Deployments) /\ [][Next]_vars => []SeededOnce
  <1>1. SeedInv => SeededOnce
    BY DEF SeedInv
  <1> QED
    BY <1>1, SeedInvariance, PTL

\* No combination of settings crosses the red lines of the configuration.
THEOREM RedLinesHold ==
  ASSUME NEW Deployments, Deployments \subseteq [Server -> Environment]
  PROVE  InitFor(Deployments) /\ [][Next]_vars => []RedLines
  <1>1. SeedInv => RedLines
    BY DEF SeedInv
  <1> QED
    BY <1>1, SeedInvariance, PTL

=============================================================================
