------------------------- MODULE RateLimiterProofs -------------------------
(***************************************************************************)
(* Proofs about RateLimiter for any servers, requests, limits and bounds:  *)
(* in no window does Redis grant more than the limit, apart from what it   *)
(* has itself forgotten, and no server's bucket ever grants more than it   *)
(* holds and receives.                                                     *)
(*                                                                         *)
(* The two are independent.  WindowInv says that as long as a window can   *)
(* still be asked for, its counter covers the grants: a counter expires    *)
(* only when the last request of its window has been served or has given   *)
(* up, which is where Minute + MaxDelay <= Retention is needed.  BucketInv *)
(* says how much any suffix of a bucket's grants leaves in it.             *)
(***************************************************************************)
EXTENDS RateLimiter, Integers, TLAPS

USE ServerAssumption, PerMinAssumption, TimeAssumption, BoundAssumption

Opens(w)  == w * Minute
Closes(w) == w * Minute + Minute

\* A request may still be counted in this window, or come to be.
Current(w) == now < Closes(w) \/ \E r \in Request : pc[r] = "script" /\ req[r].window = w

\* A request on its way to Redis has looked at its clock in its window and not long ago.
AskedInv ==
  \A r \in Request : pc[r] = "script" =>
    /\ req[r].since <= now /\ now <= req[r].since + MaxDelay
    /\ Opens(req[r].window) <= req[r].since /\ req[r].since < Closes(req[r].window)

CountersInv ==
  \A w \in Window :
    /\ count[w] > 0 => Closes(w) + MaxDelay <= expires[w]
    /\ Current(w) => granted[w] <= count[w] + forgotten[w]

WindowInv == TypeOK /\ AskedInv /\ CountersInv /\ WindowLimit

\* What a bucket holds, and has granted since some grant, it held then or has received.
BucketInv ==
  \A s \in Server :
    /\ lastFill[s] <= now
    /\ tokens[s] = None => grants[s] = <<>>
    /\ tokens[s] # None => \A i \in 1..Len(grants[s]) :
         tokens[s] + (Len(grants[s]) - i + 1) * Minute <= Full + (lastFill[s] - grants[s][i]) * PerMin

LimiterInv == WindowInv /\ BucketInv /\ LocalLimit

-----------------------------------------------------------------------------
(* Arithmetic.                                                             *)

\* A moment lies in its window.
LEMMA InItsWindow ==
  ASSUME NEW a \in 0..MaxTime
  PROVE  /\ a \div Minute \in Window
         /\ Opens(a \div Minute) <= a /\ a < Closes(a \div Minute)
  <1>1. \A b \in Nat : b \div Minute \in Nat /\ (b \div Minute) * Minute <= b /\ b < (b \div Minute) * Minute + Minute
    OBVIOUS
  <1>2. a \div Minute \in Nat /\ MaxTime \div Minute \in Nat
    BY <1>1
  <1>3. a \div Minute <= MaxTime \div Minute
    <2> DEFINE x == a \div Minute
               y == MaxTime \div Minute
    <2>1. x \in Nat /\ y \in Nat /\ x * Minute <= a /\ a < y * Minute + Minute
      BY <1>1
    <2> HIDE DEF x, y
    <2>2. CASE y < x
      <3>1. (y + 1) * Minute <= x * Minute
        BY <2>1, <2>2
      <3> QED
        BY <2>1, <3>1
    <2>3. x <= y
      BY <2>1, <2>2
    <2> QED
      BY <2>3 DEF x, y
  <1> QED
    BY <1>1, <1>2, <1>3 DEF Window, Opens, Closes

\* Windows are numbers, and so are their ends.
LEMMA WindowEnds ==
  ASSUME NEW w \in Window
  PROVE  w \in Nat /\ Opens(w) \in Nat /\ Closes(w) \in Nat /\ Closes(w) = Opens(w) + Minute
  <1>1. w \in Nat
    BY DEF Window
  <1>2. \A a, b \in Nat : a * b \in Nat
    OBVIOUS
  <1> QED
    BY <1>1, <1>2 DEF Opens, Closes

\* A request that is not there is one of the first server.
LEMMA NobodyAsked == Nobody \in Asked /\ \A s \in Server : [Nobody EXCEPT !.server = s] \in Asked
  <1>1. 0 \in Window
    BY InItsWindow DEF Window
  <1>2. (CHOOSE s \in Server : TRUE) \in Server
    OBVIOUS
  <1>3. Nobody \in Asked
    BY <1>1, <1>2 DEF Nobody, Asked
  <1> QED
    BY <1>3 DEF Asked

-----------------------------------------------------------------------------
(* Requests.                                                               *)

\* Requests only leave the script.
OnlyLeave == \A r \in Request : pc'[r] = "script" => pc[r] = "script" /\ req'[r] = req[r]

\* Leaving the limiter, or turning to the bucket, is a case of it.
LEMMA Leaving ==
  ASSUME TypeOK,
         \/ \E R \in SUBSET Request : Leave(R)
         \/ \E r \in Request : FallBack(r)
         \/ UNCHANGED requestVars
  PROVE  /\ pc' \in [Request -> {"idle", "script", "local"}]
         /\ req' \in [Request -> Asked]
         /\ OnlyLeave
  <1>1. CASE \E R \in SUBSET Request : Leave(R)
    BY <1>1, NobodyAsked DEF Leave, TypeOK, OnlyLeave
  <1>2. ASSUME NEW r \in Request, FallBack(r)
        PROVE  /\ pc' \in [Request -> {"idle", "script", "local"}]
               /\ req' \in [Request -> Asked]
               /\ OnlyLeave
    <2>1. req[r].server \in Server
      BY DEF TypeOK, Asked
    <2>2. [Nobody EXCEPT !.server = req[r].server] \in Asked
      BY <2>1, NobodyAsked
    <2> QED
      BY <1>2, <2>2 DEF FallBack, TypeOK, OnlyLeave
  <1>3. CASE UNCHANGED requestVars
    BY <1>3 DEF requestVars, TypeOK, OnlyLeave
  <1> QED
    BY <1>1, <1>2, <1>3

\* Then a request that goes on is as it was, and no window becomes current.
LEMMA LeavingKeeps ==
  ASSUME AskedInv, OnlyLeave, UNCHANGED now
  PROVE  AskedInv' /\ \A w : Current(w)' => Current(w)
  BY DEF AskedInv, OnlyLeave, Current

-----------------------------------------------------------------------------
(* The counters of Redis.                                                  *)

\* A window that a request asks for is the present one.
LEMMA AskWindow ==
  ASSUME WindowInv, NEW r \in Request, NEW s \in Server, Ask(r, s)
  PROVE  WindowInv'
  <1> USE DEF WindowInv
  <1> DEFINE q == [server |-> s, window |-> now \div Minute, since |-> now]
  <1>1. /\ pc' = [pc EXCEPT ![r] = "script"] /\ req' = [req EXCEPT ![r] = q]
        /\ UNCHANGED <<now, count, expires, tokens, lastFill, granted, forgotten, grants>>
    BY DEF Ask, redisVars, bucketVars
  <1>2. /\ now \in 0..MaxTime /\ now \div Minute \in Window
        /\ Opens(now \div Minute) <= now /\ now < Closes(now \div Minute)
    BY InItsWindow DEF TypeOK
  <1>3. q \in Asked /\ q.window = now \div Minute /\ q.since = now
    BY <1>2 DEF Asked
  <1> HIDE DEF q
  <1>4. TypeOK'
    BY <1>1, <1>3 DEF TypeOK
  <1>5. AskedInv'
    <2> SUFFICES ASSUME NEW x \in Request, pc'[x] = "script"
                 PROVE  /\ req'[x].since <= now /\ now <= req'[x].since + MaxDelay
                        /\ Opens(req'[x].window) <= req'[x].since
                        /\ req'[x].since < Closes(req'[x].window)
      BY <1>1 DEF AskedInv, Opens, Closes
    <2>1. CASE x = r
      <3>1. req'[x] = q
        BY <1>1, <2>1 DEF TypeOK
      <3> QED
        BY <1>2, <1>3, <3>1
    <2>2. CASE x # r
      <3>1. req'[x] = req[x] /\ pc[x] = "script"
        BY <1>1, <2>2 DEF TypeOK
      <3> QED
        BY <3>1 DEF AskedInv
    <2> QED
      BY <2>1, <2>2
  <1>6. \A w : Current(w)' => Current(w)
    BY <1>1, <1>2, <1>3 DEF Current, TypeOK
  <1>7. CountersInv' /\ WindowLimit'
    BY <1>1, <1>6 DEF CountersInv, WindowLimit
  <1> QED
    BY <1>4, <1>5, <1>7

\* The script's increment: a counter begun now is kept till nobody asks for it, and
\* what it grants is counted.
LEMMA IncrementWindow ==
  ASSUME WindowInv, NEW r \in Request, pc[r] = "script", Increment(req[r].window),
         pc' \in [Request -> {"idle", "script", "local"}], req' \in [Request -> Asked], OnlyLeave,
         \/ UNCHANGED granted
         \/ granted' = [granted EXCEPT ![req[r].window] =
                          IF count[req[r].window] < PerMin THEN @ + 1 ELSE @],
         UNCHANGED <<now, tokens, lastFill, forgotten, grants>>
  PROVE  WindowInv'
  <1> USE DEF WindowInv
  <1>1. PICK v \in Window : v = req[r].window
    BY DEF TypeOK, Asked
  <1>2. /\ count[v] < MaxCount /\ count' = [count EXCEPT ![v] = count[v] + 1]
        /\ expires' = [expires EXCEPT ![v] = IF count[v] = 0 THEN now + Retention ELSE expires[v]]
    BY <1>1 DEF Increment, Expiry
  <1>3. /\ \A w \in Window : w # v => granted'[w] = granted[w]
        /\ granted'[v] = granted[v] \/ (count[v] < PerMin /\ granted'[v] = granted[v] + 1)
        /\ DOMAIN granted' = Window /\ granted' = [w \in Window |-> granted'[w]]
    BY <1>1 DEF TypeOK
  <1>4. Current(v) /\ Opens(v) <= now
    <2>1. req[r].since \in Nat /\ now \in Nat /\ Opens(v) \in Nat
      BY WindowEnds DEF TypeOK, Asked
    <2> QED
      BY <1>1, <2>1 DEF Current, AskedInv
  <1>5. granted[v] <= count[v] + forgotten[v]
    BY <1>4 DEF CountersInv
  <1>6. /\ count[v] \in Nat /\ forgotten[v] \in 0..MaxLoss /\ granted[v] \in Nat
        /\ now \in 0..MaxTime
    BY DEF TypeOK
  <1>7. TypeOK'
    <2>1. count' \in [Window -> 0..MaxCount]
      BY <1>2, <1>6 DEF TypeOK
    <2>2. expires' \in [Window -> 0..MaxTime + Retention]
      BY <1>2, <1>6 DEF TypeOK
    <2>3. granted'[v] \in 0..MaxCount + MaxLoss
      <3>1. count[v] < MaxCount /\ MaxCount \in Nat /\ MaxLoss \in Nat
        BY <1>2
      <3>2. granted'[v] = granted[v] \/ granted'[v] = granted[v] + 1
        BY <1>3
      <3> QED
        BY <1>5, <1>6, <3>1, <3>2
    <2>4. granted' \in [Window -> 0..MaxCount + MaxLoss]
      <3>1. \A w \in Window : granted'[w] \in 0..MaxCount + MaxLoss
        BY <1>3, <2>3 DEF TypeOK
      <3>2. granted' = [w \in Window |-> granted'[w]]
        BY <1>3
      <3> QED
        BY <3>1, <3>2
    <2> QED
      BY <2>1, <2>2, <2>4 DEF TypeOK
  <1>8. AskedInv' /\ \A w : Current(w)' => Current(w)
    BY LeavingKeeps
  <1>9. CountersInv'
    <2> SUFFICES ASSUME NEW w \in Window
                 PROVE  /\ count'[w] > 0 => Closes(w) + MaxDelay <= expires'[w]
                        /\ Current(w)' => granted'[w] <= count'[w] + forgotten'[w]
      BY DEF CountersInv
    <2>1. CASE w # v
      BY <1>2, <1>3, <1>8, <2>1 DEF CountersInv, TypeOK
    <2>2. CASE w = v
      <3>1. Closes(v) \in Nat /\ Closes(v) = Opens(v) + Minute /\ Opens(v) \in Nat
        BY WindowEnds
      <3>2. count[v] > 0 => Closes(v) + MaxDelay <= expires[v]
        BY DEF CountersInv
      <3>3. count'[v] = count[v] + 1 /\ expires'[v] = IF count[v] = 0 THEN now + Retention ELSE expires[v]
        BY <1>2 DEF TypeOK
      <3>4. Closes(v) + MaxDelay <= expires'[v]
        BY <1>4, <1>6, <3>1, <3>2, <3>3
      <3> QED
        BY <1>3, <1>5, <1>6, <2>2, <3>3, <3>4
    <2> QED
      BY <2>1, <2>2
  <1>10. WindowLimit'
    BY <1>3, <1>5, <1>6 DEF WindowLimit
  <1> QED
    BY <1>7, <1>8, <1>9, <1>10

\* What Redis forgets of a counter is counted as forgotten.
LEMMA ForgetWindow ==
  ASSUME WindowInv, NEW v \in Window, Forget(v)
  PROVE  WindowInv'
  <1> USE DEF WindowInv
  <1>1. /\ count[v] > 0 /\ forgotten[v] < MaxLoss
        /\ count' = [count EXCEPT ![v] = count[v] - 1]
        /\ forgotten' = [forgotten EXCEPT ![v] = forgotten[v] + 1]
        /\ UNCHANGED <<now, expires, pc, req, tokens, lastFill, granted, grants>>
    BY DEF Forget, requestVars, bucketVars
  <1>2. /\ count \in [Window -> 0..MaxCount] /\ forgotten \in [Window -> 0..MaxLoss]
        /\ granted \in [Window -> 0..MaxCount + MaxLoss]
    BY DEF TypeOK
  <1>3. count' \in [Window -> 0..MaxCount] /\ forgotten' \in [Window -> 0..MaxLoss]
    BY <1>1, <1>2
  <1>4. TypeOK'
    BY <1>1, <1>3 DEF TypeOK
  <1>5. AskedInv' /\ \A w : Current(w)' => Current(w)
    BY <1>1 DEF AskedInv, Current
  <1>6. CountersInv'
    BY <1>1, <1>2, <1>5 DEF CountersInv
  <1>7. WindowLimit'
    BY <1>1, <1>2 DEF WindowLimit
  <1> QED
    BY <1>4, <1>5, <1>6, <1>7

\* A counter that expires belongs to a window that is no longer current.
LEMMA TickWindow ==
  ASSUME WindowInv, Tick
  PROVE  WindowInv'
  <1> USE DEF WindowInv
  <1>1. /\ now < MaxTime /\ now' = now + 1
        /\ \A r \in Request : pc[r] = "script" => now < req[r].since + MaxDelay
        /\ count' = [w \in Window |-> IF now' < expires[w] THEN count[w] ELSE 0]
        /\ UNCHANGED <<expires, pc, req, tokens, lastFill, granted, forgotten, grants>>
    BY DEF Tick, requestVars, bucketVars
  <1>2. /\ now \in Nat /\ now' \in 0..MaxTime
        /\ \A r \in Request : req[r].since \in Nat /\ req[r].window \in Window
    BY <1>1 DEF TypeOK, Asked
  <1>3. TypeOK'
    <2>1. count' \in [Window -> 0..MaxCount]
      BY <1>1 DEF TypeOK
    <2> QED
      BY <1>1, <1>2, <2>1 DEF TypeOK
  <1>4. AskedInv'
    BY <1>1, <1>2 DEF AskedInv
  <1>5. ASSUME NEW w \in Window, Current(w)'
        PROVE  Current(w) /\ now' < Closes(w) + MaxDelay
    <2>1. Closes(w) \in Nat
      BY WindowEnds
    <2>2. CASE now' < Closes(w)
      BY <1>1, <1>2, <2>1, <2>2 DEF Current
    <2>3. CASE \E r \in Request : pc'[r] = "script" /\ req'[r].window = w
      <3>1. PICK r \in Request : pc[r] = "script" /\ req[r].window = w
        BY <1>1, <2>3
      <3> QED
        BY <1>1, <1>2, <2>1, <3>1 DEF AskedInv, Current
    <2> QED
      BY <1>5, <2>2, <2>3 DEF Current, Closes
  <1>6. CountersInv'
    <2> SUFFICES ASSUME NEW w \in Window
                 PROVE  /\ count'[w] > 0 => Closes(w) + MaxDelay <= expires'[w]
                        /\ Current(w)' => granted'[w] <= count'[w] + forgotten'[w]
      BY DEF CountersInv
    <2>1. /\ count[w] \in Nat /\ expires[w] \in Nat /\ Closes(w) \in Nat
          /\ count'[w] = IF now' < expires[w] THEN count[w] ELSE 0
          /\ expires'[w] = expires[w] /\ granted'[w] = granted[w] /\ forgotten'[w] = forgotten[w]
      BY <1>1, WindowEnds DEF TypeOK
    <2>2. /\ count[w] > 0 => Closes(w) + MaxDelay <= expires[w]
          /\ Current(w) => granted[w] <= count[w] + forgotten[w]
      BY DEF CountersInv
    <2>3. Current(w)' => count'[w] = count[w]
      BY <1>2, <1>5, <2>1, <2>2
    <2> QED
      BY <1>5, <2>1, <2>2, <2>3
  <1>7. WindowLimit'
    BY <1>1 DEF WindowLimit
  <1> QED
    BY <1>3, <1>4, <1>6, <1>7

\* The buckets, and servers that restart, do not concern Redis.
LEMMA OtherWindow ==
  ASSUME WindowInv, OnlyLeave,
         pc' \in [Request -> {"idle", "script", "local"}], req' \in [Request -> Asked],
         tokens' \in [Server -> 0..Full \cup {None}], lastFill' \in [Server -> 0..MaxTime],
         grants' \in [Server -> Seq(0..MaxTime)],
         UNCHANGED <<now, count, expires, granted, forgotten>>
  PROVE  WindowInv'
  <1> USE DEF WindowInv
  <1>1. AskedInv' /\ \A w : Current(w)' => Current(w)
    BY LeavingKeeps
  <1> QED
    BY <1>1 DEF TypeOK, CountersInv, WindowLimit

-----------------------------------------------------------------------------
(* The buckets.                                                            *)

\* A bucket holds as much as it may.
LEMMA FullBucket == Full \in Nat /\ None = Full + 1
  BY DEF Full, None

\* The refill: what flows in since the last one, up to a full bucket.
LEMMA Refill ==
  ASSUME TypeOK, BucketInv, NEW s \in Server
  PROVE  /\ Refilled(s) \in 0..Full
         /\ tokens[s] = None => Refilled(s) = Full
         /\ tokens[s] # None =>
              tokens[s] \in 0..Full /\ Refilled(s) <= tokens[s] + (now - lastFill[s]) * PerMin
  <1>1. now - lastFill[s] \in Nat /\ tokens[s] \in 0..Full \cup {None}
    BY DEF TypeOK, BucketInv
  <1>2. (now - lastFill[s]) * PerMin \in Nat
    <2>1. \A a, b \in Nat : a * b \in Nat
      OBVIOUS
    <2> QED
      BY <1>1, <2>1
  <1> QED
    BY <1>1, <1>2, FullBucket DEF Refilled, AtMost

\* allowLocal: the refill is what it can grant, and what is left is what it keeps.
LEMMA LocalBucket ==
  ASSUME TypeOK, BucketInv, LocalLimit, NEW r \in Request, Local(r)
  PROVE  /\ tokens' \in [Server -> 0..Full \cup {None}]
         /\ lastFill' \in [Server -> 0..MaxTime]
         /\ grants' \in [Server -> Seq(0..MaxTime)]
         /\ BucketInv' /\ LocalLimit'
  <1>1. PICK s \in Server : s = req[r].server
    BY DEF TypeOK, Asked
  <1> DEFINE g == grants[s]
             level == Refilled(s)
  <1>2. /\ lastFill' = [lastFill EXCEPT ![s] = now] /\ now' = now
        /\ \/ /\ level < Minute
              /\ tokens' = [tokens EXCEPT ![s] = level] /\ grants' = grants
           \/ /\ ~(level < Minute)
              /\ tokens' = [tokens EXCEPT ![s] = level - Minute]
              /\ grants' = [grants EXCEPT ![s] = Append(g, now)]
    BY <1>1 DEF Local
  <1>3. /\ level \in 0..Full
        /\ tokens[s] = None => level = Full
        /\ tokens[s] # None =>
             tokens[s] \in 0..Full /\ level <= tokens[s] + (now - lastFill[s]) * PerMin
    BY Refill
  <1>4. /\ now \in 0..MaxTime /\ lastFill[s] \in 0..MaxTime /\ g \in Seq(0..MaxTime)
        /\ Len(g) \in Nat /\ \A i \in 1..Len(g) : g[i] \in 0..MaxTime
    BY DEF TypeOK
  <1>5. /\ tokens[s] = None => g = <<>>
        /\ tokens[s] # None => \A i \in 1..Len(g) :
             tokens[s] + (Len(g) - i + 1) * Minute <= Full + (lastFill[s] - g[i]) * PerMin
    BY DEF BucketInv
  <1> HIDE DEF g, level
  \* Every suffix of the grants leaves room for what the bucket now holds.
  <1>6. \A i \in 1..Len(g) : level + (Len(g) - i + 1) * Minute <= Full + (now - g[i]) * PerMin
    <2> SUFFICES ASSUME NEW i \in 1..Len(g)
                 PROVE  level + (Len(g) - i + 1) * Minute <= Full + (now - g[i]) * PerMin
      OBVIOUS
    <2>1. tokens[s] # None
      BY <1>5
    <2>2. tokens[s] + (Len(g) - i + 1) * Minute <= Full + (lastFill[s] - g[i]) * PerMin
      BY <1>5, <2>1
    <2>3. level <= tokens[s] + (now - lastFill[s]) * PerMin
      BY <1>3, <2>1
    <2> DEFINE spent == (Len(g) - i + 1) * Minute
               recent == (now - lastFill[s]) * PerMin
               former == (lastFill[s] - g[i]) * PerMin
               whole == (now - g[i]) * PerMin
    <2>4. /\ spent \in Int /\ recent \in Int /\ former \in Int /\ whole \in Int
          /\ recent + former = whole
      <3>1. \A a, b, c, d \in Int : (a - b) * d + (b - c) * d = (a - c) * d
        OBVIOUS
      <3>2. \A a, b \in Int : a * b \in Int
        OBVIOUS
      <3>3. /\ now \in Int /\ lastFill[s] \in Int /\ g[i] \in Int /\ PerMin \in Int
            /\ Minute \in Int /\ Len(g) - i + 1 \in Int
        BY <1>4
      <3>4. /\ now - lastFill[s] \in Int /\ lastFill[s] - g[i] \in Int /\ now - g[i] \in Int
        BY <3>3
      <3>5. spent \in Int
        BY <3>2, <3>3
      <3>6. recent \in Int /\ former \in Int /\ whole \in Int
        BY <3>2, <3>3, <3>4
      <3>7. recent + former = whole
        BY <3>1, <3>3
      <3> QED
        BY <3>5, <3>6, <3>7
    <2>5. level \in Int /\ tokens[s] \in Int /\ Full \in Int
      BY <1>3, <2>1, FullBucket
    <2> HIDE DEF spent, recent, former, whole, Full
    <2>6. tokens[s] + spent <= Full + former /\ level <= tokens[s] + recent
      BY <2>2, <2>3 DEF spent, recent, former
    <2>7. level + spent <= Full + whole
      BY <2>4, <2>5, <2>6
    <2> QED
      BY <2>7 DEF spent, whole
  <1>7. CASE level < Minute
    <2>1. /\ tokens' = [tokens EXCEPT ![s] = level] /\ grants' = grants
      BY <1>2, <1>7
    <2>2. /\ tokens' \in [Server -> 0..Full \cup {None}]
          /\ lastFill' \in [Server -> 0..MaxTime]
          /\ grants' \in [Server -> Seq(0..MaxTime)]
      BY <1>2, <1>3, <1>4, <2>1 DEF TypeOK
    <2>3. BucketInv'
      <3> SUFFICES ASSUME NEW x \in Server
                   PROVE  /\ lastFill'[x] <= now'
                          /\ tokens'[x] = None => grants'[x] = <<>>
                          /\ tokens'[x] # None => \A i \in 1..Len(grants'[x]) :
                               tokens'[x] + (Len(grants'[x]) - i + 1) * Minute
                                 <= Full + (lastFill'[x] - grants'[x][i]) * PerMin
        BY DEF BucketInv
      <3>1. CASE x = s
        <4>1. /\ tokens'[x] = level /\ level # None /\ lastFill'[x] = now /\ grants'[x] = g
          BY <1>2, <1>3, <2>1, <3>1, FullBucket DEF TypeOK, g
        <4> QED
          BY <1>2, <1>4, <1>6, <4>1
      <3>2. CASE x # s
        <4>1. /\ tokens'[x] = tokens[x] /\ lastFill'[x] = lastFill[x] /\ grants'[x] = grants[x]
          BY <1>2, <2>1, <3>2 DEF TypeOK
        <4> QED
          BY <1>2, <4>1 DEF BucketInv
      <3> QED
        BY <3>1, <3>2
    <2> QED
      BY <2>1, <2>2, <2>3 DEF LocalLimit
  <1>8. CASE ~(level < Minute)
    <2> DEFINE h == Append(g, now)
    <2>1. /\ tokens' = [tokens EXCEPT ![s] = level - Minute] /\ grants' = [grants EXCEPT ![s] = h]
      BY <1>2, <1>8
    <2>2. /\ h \in Seq(0..MaxTime) /\ Len(h) = Len(g) + 1 /\ h[Len(g) + 1] = now
          /\ \A i \in 1..Len(g) : h[i] = g[i]
          /\ DOMAIN h = 1..Len(g) + 1
      BY <1>4
    <2>3. level - Minute \in 0..Full
      BY <1>3, <1>8, FullBucket
    <2> HIDE DEF h
    <2>4. /\ tokens' \in [Server -> 0..Full \cup {None}]
          /\ lastFill' \in [Server -> 0..MaxTime]
          /\ grants' \in [Server -> Seq(0..MaxTime)]
      BY <1>2, <1>4, <2>1, <2>2, <2>3 DEF TypeOK
    <2>5. \A i \in 1..Len(g) + 1 :
            (level - Minute) + (Len(g) + 1 - i + 1) * Minute <= Full + (now - h[i]) * PerMin
      <3> SUFFICES ASSUME NEW i \in 1..Len(g) + 1
                   PROVE  (level - Minute) + (Len(g) + 1 - i + 1) * Minute <= Full + (now - h[i]) * PerMin
        OBVIOUS
      <3>1. CASE i \in 1..Len(g)
        <4>1. (Len(g) + 1 - i + 1) * Minute = (Len(g) - i + 1) * Minute + Minute
          <5>1. \A a, b \in Int : (a + 1) * b = a * b + b
            OBVIOUS
          <5> QED
            BY <1>4, <5>1
        <4>2. (Len(g) - i + 1) * Minute \in Int /\ (now - g[i]) * PerMin \in Int
          BY <1>4, <3>1
        <4>3. level + (Len(g) - i + 1) * Minute <= Full + (now - g[i]) * PerMin
          BY <1>6, <3>1
        <4>4. level \in Int /\ Full \in Int /\ Minute \in Int /\ h[i] = g[i]
          BY <1>3, <2>2, <3>1, FullBucket
        <4>5. \A l, k, m, f, n \in Int : l + k <= f + n => (l - m) + (k + m) <= f + n
          OBVIOUS
        <4> QED
          BY <4>1, <4>2, <4>3, <4>4, <4>5
      <3>2. CASE i = Len(g) + 1
        <4>1. (Len(g) + 1 - i + 1) * Minute = Minute /\ (now - h[i]) * PerMin = 0
          BY <1>4, <2>2, <3>2
        <4> QED
          BY <1>3, <4>1, FullBucket
      <3> QED
        BY <1>4, <3>1, <3>2
    <2>6. BucketInv'
      <3> SUFFICES ASSUME NEW x \in Server
                   PROVE  /\ lastFill'[x] <= now'
                          /\ tokens'[x] = None => grants'[x] = <<>>
                          /\ tokens'[x] # None => \A i \in 1..Len(grants'[x]) :
                               tokens'[x] + (Len(grants'[x]) - i + 1) * Minute
                                 <= Full + (lastFill'[x] - grants'[x][i]) * PerMin
        BY DEF BucketInv
      <3>1. CASE x = s
        <4>1. /\ tokens'[x] = level - Minute /\ level - Minute # None
              /\ lastFill'[x] = now /\ grants'[x] = h
          BY <1>2, <2>1, <2>3, <3>1, FullBucket DEF TypeOK
        <4>2. \A i \in 1..Len(h) :
                (level - Minute) + (Len(h) - i + 1) * Minute <= Full + (now - h[i]) * PerMin
          BY <2>2, <2>5
        <4>3. lastFill'[x] <= now'
          BY <1>2, <1>4, <4>1
        <4> QED
          BY <4>1, <4>2, <4>3
      <3>2. CASE x # s
        <4>1. /\ tokens'[x] = tokens[x] /\ lastFill'[x] = lastFill[x] /\ grants'[x] = grants[x]
          BY <1>2, <2>1, <3>2 DEF TypeOK
        <4> QED
          BY <1>2, <4>1 DEF BucketInv
      <3> QED
        BY <3>1, <3>2
    <2>7. \A i, j \in 1..Len(g) + 1 :
            i <= j => (j - i + 1) * Minute <= Full + (h[j] - h[i]) * PerMin
      <3> SUFFICES ASSUME NEW i \in 1..Len(g) + 1, NEW j \in 1..Len(g) + 1, i <= j
                   PROVE  (j - i + 1) * Minute <= Full + (h[j] - h[i]) * PerMin
        OBVIOUS
      <3>1. CASE j = Len(g) + 1
        <4>1. (level - Minute) + (j - i + 1) * Minute <= Full + (h[j] - h[i]) * PerMin
          BY <2>2, <2>5, <3>1
        <4>2. (j - i + 1) * Minute \in Int /\ (h[j] - h[i]) * PerMin \in Int
          <5>1. h[j] \in Int /\ h[i] \in Int
            BY <1>4, <2>2
          <5> QED
            BY <1>4, <5>1
        <4> QED
          BY <2>3, <4>1, <4>2, FullBucket
      <3>2. CASE j # Len(g) + 1
        <4>1. i \in 1..Len(g) /\ j \in 1..Len(g) /\ DOMAIN grants[s] = 1..Len(g)
          BY <1>4, <3>2 DEF g
        <4>2. (j - i + 1) * Minute <= Full + (g[j] - g[i]) * PerMin
          BY <4>1 DEF LocalLimit, g
        <4> QED
          BY <2>2, <4>1, <4>2
      <3> QED
        BY <3>1, <3>2
    <2>8. LocalLimit'
      <3> SUFFICES ASSUME NEW x \in Server, NEW i \in DOMAIN grants'[x], NEW j \in DOMAIN grants'[x], i <= j
                   PROVE  (j - i + 1) * Minute <= Full + (grants'[x][j] - grants'[x][i]) * PerMin
        BY DEF LocalLimit
      <3>1. CASE x = s
        <4>1. grants'[x] = h
          BY <2>1, <3>1 DEF TypeOK
        <4> QED
          BY <2>2, <2>7, <4>1
      <3>2. CASE x # s
        <4>1. grants'[x] = grants[x]
          BY <2>1, <3>2 DEF TypeOK
        <4> QED
          BY <4>1 DEF LocalLimit
      <3> QED
        BY <3>1, <3>2
    <2> QED
      BY <2>4, <2>6, <2>8
  <1> QED
    BY <1>7, <1>8

\* A server that restarts has a bucket that has granted nothing.
LEMMA RestartBucket ==
  ASSUME TypeOK, BucketInv, LocalLimit, NEW s \in Server, Restart(s)
  PROVE  /\ tokens' \in [Server -> 0..Full \cup {None}]
         /\ lastFill' \in [Server -> 0..MaxTime]
         /\ grants' \in [Server -> Seq(0..MaxTime)]
         /\ BucketInv' /\ LocalLimit'
  <1>1. /\ tokens' = [tokens EXCEPT ![s] = None] /\ lastFill' = [lastFill EXCEPT ![s] = 0]
        /\ grants' = [grants EXCEPT ![s] = <<>>] /\ now' = now
    BY DEF Restart
  <1>2. \A x \in Server :
          \/ tokens'[x] = None /\ lastFill'[x] = 0 /\ grants'[x] = <<>>
          \/ tokens'[x] = tokens[x] /\ lastFill'[x] = lastFill[x] /\ grants'[x] = grants[x]
    BY <1>1 DEF TypeOK
  <1>3. /\ tokens' \in [Server -> 0..Full \cup {None}]
        /\ lastFill' \in [Server -> 0..MaxTime]
        /\ grants' \in [Server -> Seq(0..MaxTime)]
    BY <1>1 DEF TypeOK
  <1>4. BucketInv'
    BY <1>1, <1>2 DEF BucketInv, TypeOK
  <1>5. LocalLimit'
    BY <1>2 DEF LocalLimit
  <1> QED
    BY <1>3, <1>4, <1>5

\* Time passes, and other requests leave the buckets alone.
LEMMA OtherBucket ==
  ASSUME TypeOK, BucketInv, LocalLimit, UNCHANGED <<tokens, lastFill, grants>>,
         now' = now \/ now' = now + 1
  PROVE  BucketInv' /\ LocalLimit'
  BY DEF TypeOK, BucketInv, LocalLimit

-----------------------------------------------------------------------------
(* The limiter.                                                            *)

\* Nothing is counted and nothing granted at first.
LEMMA InitLimiter == Init => LimiterInv
  <1> SUFFICES ASSUME Init PROVE LimiterInv
    OBVIOUS
  <1>1. TypeOK
    BY NobodyAsked, FullBucket DEF Init, TypeOK
  <1>2. AskedInv /\ CountersInv /\ WindowLimit
    BY DEF Init, AskedInv, CountersInv, WindowLimit
  <1>3. BucketInv /\ LocalLimit
    BY DEF Init, BucketInv, LocalLimit
  <1> QED
    BY <1>1, <1>2, <1>3 DEF LimiterInv, WindowInv

\* The invariant is inductive.
LEMMA StepLimiter == LimiterInv /\ [Next]_vars => LimiterInv'
  <1> SUFFICES ASSUME LimiterInv, [Next]_vars PROVE LimiterInv'
    OBVIOUS
  <1> USE DEF LimiterInv
  <1>0. TypeOK
    BY DEF WindowInv
  <1>1. ASSUME NEW r \in Request, NEW s \in Server, Ask(r, s) PROVE LimiterInv'
    BY <1>0, <1>1, AskWindow, OtherBucket DEF Ask, bucketVars
  <1>2. ASSUME NEW r \in Request, Counted(r) PROVE LimiterInv'
    <2>1. \E R \in SUBSET Request : Leave(R)
      BY <1>2 DEF Counted
    <2> QED
      BY <1>0, <1>2, <2>1, Leaving, IncrementWindow, OtherBucket DEF Counted, bucketVars
  <1>3. ASSUME NEW r \in Request, Unanswered(r) PROVE LimiterInv'
    BY <1>0, <1>3, Leaving, IncrementWindow, OtherBucket DEF Unanswered, bucketVars
  <1>4. ASSUME NEW r \in Request, Unreached(r) PROVE LimiterInv'
    BY <1>0, <1>4, Leaving, OtherWindow, OtherBucket DEF Unreached, redisVars, bucketVars, TypeOK
  <1>5. ASSUME NEW r \in Request, Local(r) PROVE LimiterInv'
    <2>1. \E R \in SUBSET Request : Leave(R)
      BY <1>5 DEF Local
    <2> QED
      BY <1>0, <1>5, <2>1, Leaving, OtherWindow, LocalBucket DEF Local, redisVars
  <1>6. ASSUME NEW w \in Window, Forget(w) PROVE LimiterInv'
    BY <1>0, <1>6, ForgetWindow, OtherBucket DEF Forget, bucketVars
  <1>7. ASSUME NEW s \in Server, Restart(s) PROVE LimiterInv'
    <2>1. \E R \in SUBSET Request : Leave(R)
      BY <1>7 DEF Restart
    <2> QED
      BY <1>0, <1>7, <2>1, Leaving, OtherWindow, RestartBucket DEF Restart, redisVars
  <1>8. ASSUME Tick PROVE LimiterInv'
    BY <1>0, <1>8, TickWindow, OtherBucket DEF Tick, bucketVars
  <1>9. CASE UNCHANGED vars
    BY <1>9, <1>0, Leaving, OtherWindow, OtherBucket
       DEF vars, redisVars, requestVars, bucketVars, TypeOK
  <1> QED
    BY <1>1, <1>2, <1>3, <1>4, <1>5, <1>6, <1>7, <1>8, <1>9 DEF Next

\* As long as a window can be asked for, its counter covers its grants; and buckets
\* hold and grant no more than they have received.
THEOREM LimiterInvariance == Spec => []LimiterInv
  BY InitLimiter, StepLimiter, PTL DEF Spec

\* In no window does Redis grant a client more than its limit, apart from grants it
\* has itself forgotten.
THEOREM WindowsAreLimited == Spec => []WindowLimit
  <1>1. LimiterInv => WindowLimit
    BY DEF LimiterInv, WindowInv
  <1> QED
    BY <1>1, LimiterInvariance, PTL

\* Between any two moments a bucket grants what a full one holds and what flows in.
THEOREM BucketsAreLimited == Spec => []LocalLimit
  <1>1. LimiterInv => LocalLimit
    BY DEF LimiterInv
  <1> QED
    BY <1>1, LimiterInvariance, PTL

=============================================================================
