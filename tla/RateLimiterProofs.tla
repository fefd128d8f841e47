------------------------- MODULE RateLimiterProofs -------------------------
(***************************************************************************)
(* Proofs about RateLimiter, for any number of addresses, requests and     *)
(* buckets, and any limits that satisfy LimiterAssumption.                 *)
(*                                                                         *)
(* IInv adds to what the runs check when things happened: a request is     *)
(* never older than MaxLag, the last call of its address is no older than  *)
(* the request, and a bucket was last drawn from at most MaxLag after that *)
(* call.  A bucket that is old enough to be swept is therefore full, and   *)
(* nobody holds it.                                                        *)
(***************************************************************************)
EXTENDS RateLimiter, TLAPS

\* Two addresses never share a bucket.
OwnBuckets ==
    \A ip, jp \in IP : byIP[ip] # None /\ byIP[ip] = byIP[jp] => ip = jp

\* The address of a request was last seen when the request came, or later.
HeldSeen ==
    \A q \in Req : host[q] # None =>
        /\ held[q] = byIP[host[q]]
        /\ since[q] <= lastSeen[host[q]] /\ now <= since[q] + MaxLag

\* A bucket was last drawn from soon after the last call.
DrawnSoon ==
    \A ip \in IP : byIP[ip] # None => last[byIP[ip]] <= lastSeen[ip] + MaxLag

IInv == TypeOK /\ OwnBuckets /\ HeldSeen /\ DrawnSoon

-----------------------------------------------------------------------------

\* The capacity of a bucket is a number, and a stale address' bucket is full.
LEMMA CapFacts == Cap \in Nat /\ Cost \in Nat /\ Cap + MaxLag <= StaleAfter
  BY LimiterAssumption DEF Cap

\* What can be drawn from a bucket is a number up to Cap.
LEMMA AvailableType == ASSUME TypeOK, NEW b \in Bucket PROVE Available(b) \in 0..Cap
  <1>1. tokens[b] \in 0..Cap /\ last[b] \in 0..now /\ now \in Nat
    BY DEF TypeOK
  <1> QED
    BY <1>1, CapFacts DEF Available, AtMost

\* NewLimiter's state satisfies the invariant.
LEMMA InitInv == Init => IInv
  BY LimiterAssumption, CapFacts DEF Init, IInv, TypeOK, OwnBuckets, HeldSeen, DrawnSoon

\* Every step keeps the types.
LEMMA TypeStep == TypeOK /\ [Next]_vars => TypeOK'
  <1> SUFFICES ASSUME TypeOK, [Next]_vars PROVE TypeOK'
    OBVIOUS
  <1> USE LimiterAssumption, CapFacts DEF TypeOK, clock, clients, buckets, requests
  <1>1. ASSUME NEW q \in Req, NEW ip \in IP, GetBucket(q, ip) PROVE TypeOK'
    BY <1>1 DEF GetBucket, Touched, Hold
  <1>2. ASSUME NEW q \in Req, NEW ip \in IP, CreateBucket(q, ip) PROVE TypeOK'
    BY <1>2 DEF CreateBucket, Hold, Fresh
  <1>3. ASSUME NEW q \in Req, Allow(q) PROVE TypeOK'
    <2>1. held[q] \in Bucket /\ host[q] \in IP
      BY <1>3 DEF Allow
    <2>2. Available(held[q]) - Cost \in 0..Cap
      BY <1>3, <2>1, AvailableType DEF Allow
    <2> QED
      BY <1>3, <2>1, <2>2 DEF Allow, Answered
  <1>4. ASSUME NEW q \in Req, TooManyRequests(q) PROVE TypeOK'
    BY <1>4 DEF TooManyRequests, Answered
  <1>5. CASE sweep
    BY <1>5 DEF sweep
  <1>6. CASE Tick
    BY <1>6 DEF Tick
  <1>7. CASE UNCHANGED vars
    BY <1>7 DEF vars
  <1> QED
    BY <1>1, <1>2, <1>3, <1>4, <1>5, <1>6, <1>7 DEF Next, Check

\* A bucket that sweep takes away is full, and nobody holds it.
LEMMA StaleFull ==
    ASSUME IInv, NEW ip \in IP, Stale(ip)
    PROVE  /\ Available(byIP[ip]) = Cap
           /\ \A q \in Req : host[q] # ip
  <1>1. byIP[ip] \in Bucket /\ last[byIP[ip]] <= lastSeen[ip] + MaxLag
    BY DEF IInv, TypeOK, DrawnSoon, Stale
  <1>2. now - lastSeen[ip] > Cap + MaxLag
    BY CapFacts, LimiterAssumption DEF IInv, TypeOK, Stale
  <1>3. Available(byIP[ip]) = Cap
    BY <1>1, <1>2, CapFacts, LimiterAssumption DEF IInv, TypeOK, Available, AtMost
  <1>4. ASSUME NEW q \in Req, host[q] = ip PROVE FALSE
    BY <1>2, <1>4, CapFacts, LimiterAssumption DEF IInv, TypeOK, HeldSeen
  <1> QED
    BY <1>3, <1>4

\* Every step keeps the invariant.
LEMMA InvStep == IInv /\ [Next]_vars => IInv'
  <1> SUFFICES ASSUME IInv, [Next]_vars PROVE OwnBuckets' /\ HeldSeen' /\ DrawnSoon'
    BY TypeStep DEF IInv
  <1> USE LimiterAssumption, CapFacts
      DEF IInv, TypeOK, OwnBuckets, HeldSeen, DrawnSoon, clock, clients, buckets, requests
  <1>1. ASSUME NEW q \in Req, NEW ip \in IP, GetBucket(q, ip)
        PROVE  OwnBuckets' /\ HeldSeen' /\ DrawnSoon'
    BY <1>1 DEF GetBucket, Touched, Hold
  <1>2. ASSUME NEW q \in Req, NEW ip \in IP, CreateBucket(q, ip)
        PROVE  OwnBuckets' /\ HeldSeen' /\ DrawnSoon'
    <2>1. PICK b \in Bucket \ InUse :
            /\ host[q] = None /\ byIP[ip] = None
            /\ byIP' = [byIP EXCEPT ![ip] = b]
            /\ lastSeen' = [lastSeen EXCEPT ![ip] = now]
            /\ last' = [last EXCEPT ![b] = now]
            /\ now' = now
            /\ Hold(q, ip, b)
      BY <1>2 DEF CreateBucket
    <2>2. \A jp \in IP : byIP[jp] # b
      BY DEF InUse
    <2>3. \A p \in Req : host[p] # ip
      BY <2>1
    <2>4. OwnBuckets'
      BY <2>1, <2>2
    <2>5. HeldSeen'
      BY <2>1, <2>3 DEF Hold
    <2>6. DrawnSoon'
      BY <2>1, <2>2
    <2> QED
      BY <2>4, <2>5, <2>6
  <1>3. ASSUME NEW q \in Req, Allow(q) PROVE OwnBuckets' /\ HeldSeen' /\ DrawnSoon'
    <2>1. host[q] \in IP /\ held[q] = byIP[host[q]] /\ held[q] \in Bucket
      BY <1>3 DEF Allow
    <2>2. now <= lastSeen[host[q]] + MaxLag
      BY <2>1
    <2>3. OwnBuckets' /\ HeldSeen'
      BY <1>3, <2>1 DEF Allow, Answered
    <2>4. DrawnSoon'
      BY <1>3, <2>1, <2>2 DEF Allow, Answered
    <2> QED
      BY <2>3, <2>4
  <1>4. ASSUME NEW q \in Req, TooManyRequests(q) PROVE OwnBuckets' /\ HeldSeen' /\ DrawnSoon'
    BY <1>4 DEF TooManyRequests, Answered
  <1>5. CASE sweep
    <2>1. \A q \in Req : host[q] # None => ~Stale(host[q])
      BY StaleFull
    <2> QED
      BY <1>5, <2>1 DEF sweep
  <1>6. CASE Tick
    BY <1>6 DEF Tick
  <1>7. CASE UNCHANGED vars
    BY <1>7 DEF vars
  <1> QED
    BY <1>1, <1>2, <1>3, <1>4, <1>5, <1>6, <1>7 DEF Next, Check

\* Reachable states satisfy the invariant.
THEOREM LimiterInvariant == Spec => []IInv
  BY InitInv, InvStep, PTL DEF Spec

\* The types hold in every reachable state.
THEOREM LimiterTypeCorrect == Spec => []TypeOK
  <1>1. IInv => TypeOK
    BY DEF IInv
  <1> QED
    BY <1>1, LimiterInvariant, PTL

\* A request asks the bucket that its address has, whatever was swept since.
THEOREM NoForgottenBucket == Spec => []HeldIsCurrent
  <1>1. IInv => HeldIsCurrent
    BY DEF IInv, HeldSeen, HeldIsCurrent
  <1> QED
    BY <1>1, LimiterInvariant, PTL

-----------------------------------------------------------------------------
(* What an address can draw.                                                *)

Credit == [ip \in IP |-> IF byIP[ip] = None THEN Cap ELSE Available(byIP[ip])]

\* The credit of an address is at most Cap.
LEMMA CreditType == TypeOK => Credit \in [IP -> 0..Cap]
  BY AvailableType, CapFacts DEF Credit, TypeOK

\* getOrCreate changes nobody's credit: a fresh bucket is full.
LEMMA GetCredit ==
    ASSUME IInv, NEW q \in Req, NEW ip \in IP, GetBucket(q, ip) \/ CreateBucket(q, ip)
    PROVE  Credit' = Credit
  <1>1. CASE GetBucket(q, ip)
    BY <1>1 DEF GetBucket, Credit, Available, buckets, clock
  <1>2. CASE CreateBucket(q, ip)
    <2>1. PICK b \in Bucket \ InUse :
            /\ byIP[ip] = None
            /\ byIP' = [byIP EXCEPT ![ip] = b]
            /\ tokens' = [tokens EXCEPT ![b] = Cap]
            /\ last' = [last EXCEPT ![b] = now]
            /\ now' = now
      BY <1>2 DEF CreateBucket, Fresh, clock
    <2> SUFFICES ASSUME NEW jp \in IP PROVE Credit'[jp] = Credit[jp]
      BY DEF Credit
    <2>2. CASE jp = ip
      BY <2>1, <2>2, CapFacts, LimiterAssumption DEF IInv, TypeOK, Credit, Available, AtMost
    <2>3. CASE jp # ip
      <3>1. byIP'[jp] = byIP[jp] /\ byIP[jp] # b
        BY <2>1, <2>3 DEF IInv, TypeOK, InUse
      <3>2. byIP[jp] # None => tokens'[byIP[jp]] = tokens[byIP[jp]] /\ last'[byIP[jp]] = last[byIP[jp]]
        BY <2>1, <3>1 DEF IInv, TypeOK
      <3> QED
        BY <2>1, <3>1, <3>2 DEF Credit, Available
    <2> QED
      BY <2>2, <2>3
  <1> QED
    BY <1>1, <1>2

\* A request that goes on takes Cost from the credit of its address alone.
LEMMA AllowCredit ==
    ASSUME IInv, NEW q \in Req, Allow(q)
    PROVE  /\ host[q] \in IP /\ Credit[host[q]] = Available(held[q])
           /\ Credit[host[q]] >= Cost
           /\ Credit' = [Credit EXCEPT ![host[q]] = @ - Cost]
  <1> DEFINE ip == host[q]
  <1>1. ip \in IP /\ held[q] = byIP[ip] /\ held[q] \in Bucket /\ byIP[ip] # None
    BY LimiterAssumption DEF Allow, IInv, TypeOK, HeldSeen
  <1>2. Credit[ip] = Available(held[q]) /\ Available(held[q]) \in 0..Cap
    BY <1>1, AvailableType DEF Credit, IInv
  <1>3. Credit[ip] >= Cost
    BY <1>2 DEF Allow
  <1>4. Credit'[ip] = Credit[ip] - Cost
    <2>1. tokens'[held[q]] = Credit[ip] - Cost /\ last'[held[q]] = now /\ now' = now /\ byIP' = byIP
      BY <1>1, <1>2 DEF Allow, IInv, TypeOK, clock, clients
    <2>2. Credit'[ip] = AtMost(Cap, (Credit[ip] - Cost) + (now - now))
      BY <1>1, <2>1 DEF Credit, Available
    <2> QED
      BY <2>2, <1>2, <1>3, CapFacts DEF AtMost, IInv, TypeOK
  <1>5. ASSUME NEW jp \in IP, jp # ip PROVE Credit'[jp] = Credit[jp]
    <2>1. byIP[jp] # held[q]
      BY <1>1, <1>5 DEF IInv, OwnBuckets
    <2>2. byIP[jp] # None => tokens'[byIP[jp]] = tokens[byIP[jp]] /\ last'[byIP[jp]] = last[byIP[jp]]
      BY <2>1, <1>1 DEF Allow, IInv, TypeOK
    <2> QED
      BY <2>2 DEF Credit, Available, Allow, clock, clients
  <1>6. Credit' = [Credit EXCEPT ![ip] = @ - Cost]
    BY <1>4, <1>5 DEF Credit
  <1> QED
    BY <1>1, <1>2, <1>3, <1>6

\* A sweep changes nobody's credit.
LEMMA SweepCredit == IInv /\ sweep => Credit' = Credit
  <1> SUFFICES ASSUME IInv, sweep, NEW ip \in IP PROVE Credit'[ip] = Credit[ip]
    BY DEF Credit
  <1>1. now' = now /\ tokens' = tokens /\ last' = last
    BY DEF sweep, buckets
  <1>2. CASE Stale(ip)
    BY <1>1, <1>2, StaleFull DEF sweep, Credit, Stale
  <1>3. CASE ~Stale(ip)
    BY <1>1, <1>3 DEF sweep, Credit, Available
  <1> QED
    BY <1>2, <1>3

\* A tick adds a unit to every bucket that is not full.
LEMMA TickCredit == IInv /\ Tick => Credit' = [ip \in IP |-> AtMost(Cap, Credit[ip] + 1)]
  <1> SUFFICES ASSUME IInv, Tick, NEW ip \in IP PROVE Credit'[ip] = AtMost(Cap, Credit[ip] + 1)
    BY DEF Credit
  <1> USE CapFacts
  <1>1. now' = now + 1 /\ tokens' = tokens /\ last' = last /\ byIP' = byIP
    BY DEF Tick, buckets, clients
  <1>2. CASE byIP[ip] = None
    BY <1>1, <1>2 DEF Credit, AtMost
  <1>3. CASE byIP[ip] # None
    <2>1. byIP[ip] \in Bucket
      BY <1>3 DEF IInv, TypeOK
    <2>2. tokens[byIP[ip]] \in 0..Cap /\ last[byIP[ip]] \in 0..now /\ now \in Nat
      BY <2>1 DEF IInv, TypeOK
    <2> QED
      BY <1>1, <1>3, <2>2 DEF Credit, Available, AtMost
  <1> QED
    BY <1>2, <1>3

\* The initial state is one of TokenBuckets.
LEMMA InitRefines == Init => TokenBucket!Init
  BY DEF Init, TokenBucket!Init

\* Every step is a step of TokenBuckets, or none at all.
LEMMA StepRefines == IInv /\ [Next]_vars => [TokenBucket!Next]_TokenBucket!vars
  <1> SUFFICES ASSUME IInv, [Next]_vars PROVE [TokenBucket!Next]_TokenBucket!vars
    OBVIOUS
  <1>1. ASSUME NEW q \in Req, NEW ip \in IP, GetBucket(q, ip) \/ CreateBucket(q, ip)
        PROVE  TokenBucket!Ask(q, ip)
    <2>1. Credit' = Credit
      BY <1>1, GetCredit
    <2> QED
      BY <1>1, <2>1 DEF GetBucket, CreateBucket, Hold, TokenBucket!Ask, Credit
  <1>2. ASSUME NEW q \in Req, Allow(q) PROVE TokenBucket!Serve(q)
    BY <1>2, AllowCredit DEF Allow, Answered, TokenBucket!Serve, Credit
  <1>3. ASSUME NEW q \in Req, TooManyRequests(q) PROVE TokenBucket!Refuse(q)
    <2>1. host[q] \in IP /\ held[q] = byIP[host[q]] /\ byIP[host[q]] # None
      BY <1>3, LimiterAssumption DEF TooManyRequests, IInv, TypeOK, HeldSeen
    <2>2. Credit[host[q]] < Cost
      BY <1>3, <2>1 DEF TooManyRequests, Credit
    <2>3. Credit' = Credit
      BY <1>3 DEF TooManyRequests, Credit, Available, clock, clients, buckets
    <2> QED
      BY <1>3, <2>1, <2>2, <2>3 DEF TooManyRequests, Answered, TokenBucket!Refuse, Credit
  <1>4. CASE sweep
    BY <1>4, SweepCredit DEF sweep, requests, TokenBucket!vars, Credit
  <1>5. CASE Tick
    BY <1>5, TickCredit DEF Tick, requests, TokenBucket!Tick, TokenBucket!Next, TokenBucket!AtMost,
                            AtMost, Credit
  <1>6. CASE UNCHANGED vars
    BY <1>6 DEF vars, clock, clients, buckets, requests, Available, TokenBucket!vars
  <1> QED
    BY <1>1, <1>2, <1>3, <1>4, <1>5, <1>6 DEF Next, Check, TokenBucket!Next

\* The limiter that forgets implements the buckets that are kept for ever.
THEOREM LimiterRefinesTokenBuckets == Spec => RefinesTokenBuckets
  BY InitRefines, StepRefines, LimiterInvariant, PTL DEF Spec, RefinesTokenBuckets, TokenBucket!Spec

\* What was drawn and what is left come from the first burst and from time.
Balance == \A ip \in IP : passed[ip] * Cost + Credit[ip] <= Cap + now

\* At the start nothing was drawn.
LEMMA InitBalance == Init => Balance
  <1>1. 0 * Cost = 0
    BY CapFacts
  <1>2. ASSUME Init, NEW ip \in IP PROVE passed[ip] = 0 /\ Credit[ip] = Cap /\ now = 0
    BY <1>2 DEF Init, Credit
  <1>3. ASSUME Init, NEW ip \in IP PROVE passed[ip] * Cost + Credit[ip] <= Cap + now
    BY <1>1, <1>2, <1>3, CapFacts
  <1> QED
    BY <1>3 DEF Balance

\* No step lets an address draw more than it has.
LEMMA BalanceStep == IInv /\ Balance /\ [Next]_vars => Balance'
  <1> SUFFICES ASSUME IInv, Balance, [Next]_vars, NEW ip \in IP
               PROVE  passed'[ip] * Cost + Credit'[ip] <= Cap + now'
    BY DEF Balance
  <1> USE CapFacts DEF clock
  <1>a. /\ passed[ip] \in Nat /\ Credit[ip] \in 0..Cap /\ now \in Nat
        /\ passed[ip] * Cost + Credit[ip] <= Cap + now
    BY CreditType DEF IInv, TypeOK, Balance
  <1>1. ASSUME NEW q \in Req, NEW jp \in IP, GetBucket(q, jp) \/ CreateBucket(q, jp)
        PROVE  passed'[ip] * Cost + Credit'[ip] <= Cap + now'
    BY <1>a, <1>1, GetCredit DEF GetBucket, CreateBucket
  <1>2. ASSUME NEW q \in Req, Allow(q)
        PROVE  passed'[ip] * Cost + Credit'[ip] <= Cap + now'
    <2>1. Credit' = [Credit EXCEPT ![host[q]] = @ - Cost] /\ Credit \in [IP -> 0..Cap]
      BY <1>2, AllowCredit, CreditType DEF IInv
    <2>2. CASE ip = host[q]
      <3>1. passed'[ip] = passed[ip] + 1 /\ now' = now
        BY <1>2, <2>2 DEF Allow, IInv, TypeOK
      <3>2. Credit'[ip] = Credit[ip] - Cost
        BY <2>1, <2>2
      <3>3. (passed[ip] + 1) * Cost = passed[ip] * Cost + Cost /\ passed[ip] * Cost \in Nat
        BY <1>a
      <3> QED
        BY <1>a, <3>1, <3>2, <3>3
    <2>3. CASE ip # host[q]
      BY <1>a, <1>2, <2>1, <2>3 DEF Allow, IInv, TypeOK
    <2> QED
      BY <2>2, <2>3
  <1>3. ASSUME NEW q \in Req, TooManyRequests(q)
        PROVE  passed'[ip] * Cost + Credit'[ip] <= Cap + now'
    BY <1>a, <1>3 DEF TooManyRequests, Credit, Available, clients, buckets
  <1>4. CASE sweep
    BY <1>a, <1>4, SweepCredit DEF sweep
  <1>5. CASE Tick
    <2>1. passed' = passed /\ now' = now + 1 /\ Credit'[ip] <= Credit[ip] + 1 /\ Credit'[ip] \in Nat
      BY <1>a, <1>5, TickCredit DEF Tick, AtMost
    <2>2. passed[ip] * Cost \in Nat
      BY <1>a
    <2> QED
      BY <1>a, <2>1, <2>2
  <1>6. CASE UNCHANGED vars
    BY <1>a, <1>6 DEF vars, Credit, Available, clients, buckets
  <1> QED
    BY <1>1, <1>2, <1>3, <1>4, <1>5, <1>6 DEF Next, Check

\* No address gets more requests through than its burst and one per Cost ticks.
THEOREM RateIsBounded == Spec => []RateBounded
  <1>1. IInv /\ Balance => RateBounded
    <2> SUFFICES ASSUME IInv, Balance, NEW ip \in IP PROVE passed[ip] * Cost <= Cap + now
      BY DEF RateBounded
    <2>1. passed[ip] \in Nat /\ Credit[ip] \in 0..Cap /\ now \in Nat
      BY CreditType DEF IInv, TypeOK
    <2>2. passed[ip] * Cost \in Nat
      BY <2>1, CapFacts
    <2> QED
      BY <2>1, <2>2, CapFacts DEF Balance
  <1> QED
    BY <1>1, InitBalance, BalanceStep, LimiterInvariant, PTL DEF Spec

-----------------------------------------------------------------------------

\* The ticker is never late, and the last sweep left nothing stale behind.
Swept ==
    /\ now <= nextSweep /\ nextSweep <= now + SweepEvery
    /\ \A ip \in IP : byIP[ip] # None => nextSweep <= lastSeen[ip] + StaleAfter + SweepEvery

\* At the start there is nothing to forget.
LEMMA InitSwept == Init => Swept
  BY LimiterAssumption DEF Init, Swept

\* Every step keeps what the last sweep achieved.
LEMMA SweptStep == IInv /\ Swept /\ [Next]_vars => Swept'
  <1> SUFFICES ASSUME IInv, Swept, [Next]_vars PROVE Swept'
    OBVIOUS
  <1> USE LimiterAssumption DEF IInv, TypeOK, Swept, clock, clients
  <1>1. ASSUME NEW q \in Req, NEW ip \in IP, GetBucket(q, ip) PROVE Swept'
    BY <1>1 DEF GetBucket, Touched
  <1>2. ASSUME NEW q \in Req, NEW ip \in IP, CreateBucket(q, ip) PROVE Swept'
    <2>1. PICK b \in Bucket :
            /\ byIP' = [byIP EXCEPT ![ip] = b]
            /\ lastSeen' = [lastSeen EXCEPT ![ip] = now]
            /\ now' = now /\ nextSweep' = nextSweep
      BY <1>2 DEF CreateBucket
    <2>2. nextSweep <= now + StaleAfter + SweepEvery
      OBVIOUS
    <2>3. ASSUME NEW jp \in IP, byIP'[jp] # None
          PROVE  nextSweep' <= lastSeen'[jp] + StaleAfter + SweepEvery
      BY <2>1, <2>2, <2>3
    <2> QED
      BY <2>1, <2>3
  <1>3. ASSUME NEW q \in Req, Allow(q) \/ TooManyRequests(q) PROVE Swept'
    BY <1>3 DEF Allow, TooManyRequests
  <1>4. CASE sweep
    BY <1>4 DEF sweep, Stale
  <1>5. CASE Tick
    BY <1>5 DEF Tick
  <1>6. CASE UNCHANGED vars
    BY <1>6 DEF vars
  <1> QED
    BY <1>1, <1>2, <1>3, <1>4, <1>5, <1>6 DEF Next, Check

\* A quiet address is forgotten one sweep after it is stale.
THEOREM QuietAreForgotten == Spec => []QuietForgotten
  <1>1. IInv /\ Swept => QuietForgotten
    BY LimiterAssumption DEF IInv, TypeOK, Swept, QuietForgotten
  <1> QED
    BY <1>1, InitSwept, SweptStep, LimiterInvariant, PTL DEF Spec
=============================================================================
