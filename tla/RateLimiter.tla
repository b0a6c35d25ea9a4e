---------------------------- MODULE RateLimiter ----------------------------
(***************************************************************************)
(* The limiter in front of every route, for one client address: addresses  *)
(* share nothing.  Redis counts the requests of each fixed window for all  *)
(* servers; a server that cannot reach Redis falls back to a token bucket  *)
(* of its own.  Time moves in ticks, Minute of them to a window, and takes *)
(* at most MaxDelay between a request's look at its clock and the script's *)
(* execution; differences between the servers' clocks count as delay.      *)
(***************************************************************************)
EXTENDS Naturals, Sequences

CONSTANTS
  Server,      \* backends behind one Redis
  Request,     \* requests that may be in the limiter at once
  PerMin,      \* RATE_LIMIT_PER_MINUTE
  Minute,      \* ticks of a window: 60 seconds
  Retention,   \* ticks a window's counter is kept: 90 seconds
  MaxDelay,    \* ticks between clock and script
  MaxTime,     \* bound: the clock stops here
  MaxCount,    \* bound: increments of one counter, retries included
  MaxLoss,     \* bound: increments that Redis loses of a counter
  MaxGrants    \* bound: what one bucket grants altogether

ASSUME ServerAssumption == Server # {}
ASSUME PerMinAssumption == PerMin \in Nat \ {0}
ASSUME TimeAssumption ==
  /\ Minute \in Nat \ {0} /\ MaxDelay \in Nat /\ Retention \in Nat
  /\ Minute + MaxDelay <= Retention
ASSUME BoundAssumption ==
  MaxTime \in Nat /\ MaxCount \in Nat /\ MaxLoss \in Nat /\ MaxGrants \in Nat

Window == 0..MaxTime \div Minute

VARIABLES
  now,                   \* the clock
  count, expires,        \* Redis: the counter of each window, and when it goes
  pc, req,               \* the requests: where, and their server, window and time
  tokens, lastFill,      \* the servers' buckets, in fractions of 1/Minute; none is empty
  granted, forgotten,    \* history: per window, what Redis granted and what it lost
  grants                 \* history: when each server's bucket granted

redisVars   == <<count, expires>>
requestVars == <<pc, req>>
bucketVars  == <<tokens, lastFill>>
vars == <<now, redisVars, requestVars, bucketVars, granted, forgotten, grants>>

\* A request that has looked at the clock of its server.
Asked == [server : Server, window : Window, since : 0..MaxTime]

\* One that is not there.
Nobody == [server |-> CHOOSE s \in Server : TRUE, window |-> 0, since |-> 0]

Full == PerMin * Minute
None == Full + 1        \* no bucket for this address yet

TypeOK ==
  /\ now \in 0..MaxTime
  /\ count \in [Window -> 0..MaxCount]
  /\ expires \in [Window -> 0..MaxTime + Retention]
  /\ pc \in [Request -> {"idle", "script", "local"}]
  /\ req \in [Request -> Asked]
  /\ tokens \in [Server -> 0..Full \cup {None}]
  /\ lastFill \in [Server -> 0..MaxTime]
  /\ granted \in [Window -> 0..MaxCount + MaxLoss]
  /\ forgotten \in [Window -> 0..MaxLoss]
  /\ grants \in [Server -> Seq(0..MaxTime)]

-----------------------------------------------------------------------------

AtMost(n, bound) == IF n < bound THEN n ELSE bound

\* A slip for WindowLimit to catch: the counter is kept for the window only.
ExpiryAfterMinute(w) == IF count[w] = 0 THEN now + Minute ELSE expires[w]

\* EXPIRE is only sent with the first increment.
Expiry(w) == IF count[w] = 0 THEN now + Retention ELSE expires[w]

\* Tokens after the refill; a new bucket is full.
Refilled(s) ==
  IF tokens[s] = None THEN Full ELSE AtMost(tokens[s] + (now - lastFill[s]) * PerMin, Full)

\* The script: INCR, and EXPIRE if the counter was not there.
Increment(w) ==
  /\ count[w] < MaxCount
  /\ count' = [count EXCEPT ![w] = @ + 1]
  /\ expires' = [expires EXCEPT ![w] = Expiry(w)]

\* The request turns to the bucket of its server.
FallBack(r) ==
  /\ pc' = [pc EXCEPT ![r] = "local"]
  /\ req' = [req EXCEPT ![r] = [Nobody EXCEPT !.server = req[r].server]]

Leave(R) ==
  /\ pc' = [r \in Request |-> IF r \in R THEN "idle" ELSE pc[r]]
  /\ req' = [r \in Request |-> IF r \in R THEN Nobody ELSE req[r]]

-----------------------------------------------------------------------------
(* A slip for LocalLimit to catch.                                         *)

\* The time of the last refill is only kept when the bucket is new.
LocalWithoutStamp(r) ==
  LET s == req[r].server IN
  /\ pc[r] = "local" /\ Len(grants[s]) < MaxGrants
  /\ Leave({r})
  /\ lastFill' = [lastFill EXCEPT ![s] = IF tokens[s] = None THEN now ELSE @]
  /\ IF Refilled(s) < Minute
     THEN tokens' = [tokens EXCEPT ![s] = Refilled(s)] /\ UNCHANGED grants
     ELSE /\ tokens' = [tokens EXCEPT ![s] = Refilled(s) - Minute]
          /\ grants' = [grants EXCEPT ![s] = Append(@, now)]
  /\ UNCHANGED <<now, redisVars, granted, forgotten>>

-----------------------------------------------------------------------------

\* allowDistributed takes the window from the server's clock.
Ask(r, s) ==
  /\ pc[r] = "idle"
  /\ pc' = [pc EXCEPT ![r] = "script"]
  /\ req' = [req EXCEPT ![r] = [server |-> s, window |-> now \div Minute, since |-> now]]
  /\ UNCHANGED <<now, redisVars, bucketVars, granted, forgotten, grants>>

\* The script runs and its reply arrives: allowed up to PerMin.
Counted(r) ==
  /\ pc[r] = "script"
  /\ Increment(req[r].window)
  /\ granted' = [granted EXCEPT ![req[r].window] =
                   IF count[req[r].window] < PerMin THEN @ + 1 ELSE @]
  /\ Leave({r})
  /\ UNCHANGED <<now, bucketVars, forgotten, grants>>

\* The script runs and its reply is lost: the client library tries again, or
\* gives up and returns the error.
Unanswered(r) ==
  /\ pc[r] = "script"
  /\ Increment(req[r].window)
  /\ FallBack(r) \/ UNCHANGED requestVars
  /\ UNCHANGED <<now, bucketVars, granted, forgotten, grants>>

\* Redis cannot be reached.
Unreached(r) ==
  /\ pc[r] = "script"
  /\ FallBack(r)
  /\ UNCHANGED <<now, redisVars, bucketVars, granted, forgotten, grants>>

\* allowLocal, under its mutex.
Local(r) ==
  LET s == req[r].server IN
  /\ pc[r] = "local" /\ Len(grants[s]) < MaxGrants
  /\ Leave({r})
  /\ lastFill' = [lastFill EXCEPT ![s] = now]
  /\ IF Refilled(s) < Minute
     THEN tokens' = [tokens EXCEPT ![s] = Refilled(s)] /\ UNCHANGED grants
     ELSE /\ tokens' = [tokens EXCEPT ![s] = Refilled(s) - Minute]
          /\ grants' = [grants EXCEPT ![s] = Append(@, now)]
  /\ UNCHANGED <<now, redisVars, granted, forgotten>>

\* Redis restarts and has lost what its log had not yet synced of a counter.
Forget(w) ==
  /\ count[w] > 0 /\ forgotten[w] < MaxLoss
  /\ count' = [count EXCEPT ![w] = @ - 1]
  /\ forgotten' = [forgotten EXCEPT ![w] = @ + 1]
  /\ UNCHANGED <<now, expires, requestVars, bucketVars, granted, grants>>

\* A server restarts: its requests and its bucket are gone.
Restart(s) ==
  /\ tokens' = [tokens EXCEPT ![s] = None]
  /\ lastFill' = [lastFill EXCEPT ![s] = 0]
  /\ Leave({r \in Request : req[r].server = s})
  /\ grants' = [grants EXCEPT ![s] = <<>>]
  /\ UNCHANGED <<now, redisVars, granted, forgotten>>

Tick ==
  /\ now < MaxTime
  /\ \A r \in Request : pc[r] = "script" => now < req[r].since + MaxDelay
  /\ now' = now + 1
  /\ count' = [w \in Window |-> IF now' < expires[w] THEN count[w] ELSE 0]
  /\ UNCHANGED <<expires, requestVars, bucketVars, granted, forgotten, grants>>

Init ==
  /\ now = 0
  /\ count = [w \in Window |-> 0] /\ expires = [w \in Window |-> 0]
  /\ pc = [r \in Request |-> "idle"] /\ req = [r \in Request |-> Nobody]
  /\ tokens = [s \in Server |-> None] /\ lastFill = [s \in Server |-> 0]
  /\ granted = [w \in Window |-> 0] /\ forgotten = [w \in Window |-> 0]
  /\ grants = [s \in Server |-> <<>>]

Next ==
  \/ \E r \in Request, s \in Server : Ask(r, s)
  \/ \E r \in Request : Counted(r) \/ Unanswered(r) \/ Unreached(r) \/ Local(r)
  \/ \E w \in Window : Forget(w)
  \/ \E s \in Server : Restart(s)
  \/ Tick

Spec == Init /\ [][Next]_vars

-----------------------------------------------------------------------------

\* In no window does Redis grant a client more than its limit, apart from grants it
\* has itself forgotten: also to requests that come late to a window that is over,
\* for whose sake the counter outlives its window by half a minute.
WindowLimit == \A w \in Window : granted[w] <= PerMin + forgotten[w]

\* Between any two moments a server's bucket grants what a full bucket holds and
\* what flows in between them, and no more (allowLocal since the server started).
LocalLimit ==
  \A s \in Server : \A i, j \in DOMAIN grants[s] :
    i <= j => (j - i + 1) * Minute <= Full + (grants[s][j] - grants[s][i]) * PerMin

=============================================================================
