----------------------------- MODULE RateLimiter -----------------------------
(***************************************************************************)
(* web.Limiter: a bucket per caller's address, made on demand, and a       *)
(* sweeper that forgets the addresses that have been quiet.  Check takes a *)
(* bucket under the limiter's lock and asks it for a token after giving    *)
(* the lock back, so that a sweep may come between.                        *)
(*                                                                         *)
(* Time is counted in ticks; a token is worth Cost units, and a bucket     *)
(* gains one unit per tick.  The limits of api.go, in minutes: Cost is 5,  *)
(* 1/3, 1/12 and 1/12, Burst is 5, 3, 30 and 30, StaleAfter is 60.         *)
(***************************************************************************)
EXTENDS Naturals

CONSTANTS
    IP,           \* callers' addresses ("unknown" is one)
    Req,          \* requests; one that was answered stands for the next
    Bucket,       \* rate.Limiter objects
    Burst, Cost,
    StaleAfter,   \* rateLimitStaleAfter
    SweepEvery,   \* rateLimitSweepEvery
    MaxLag,       \* how long a request may take from getOrCreate to Allow
    MaxTime,      \* the model's clock stops here
    None

Cap == Burst * Cost

\* A bucket is full again well before it can be forgotten.
ASSUME LimiterAssumption ==
    /\ Burst \in Nat /\ Cost \in Nat \ {0}
    /\ StaleAfter \in Nat /\ SweepEvery \in Nat \ {0}
    /\ MaxLag \in Nat /\ MaxTime \in Nat
    /\ Burst * Cost + MaxLag <= StaleAfter
    /\ None \notin IP \cup Bucket

VARIABLES
    now, nextSweep,     \* the clock; when the ticker fires next
    byIP, lastSeen,     \* Limiter.byIP: an address' bucket or None; its last call
    tokens, last,       \* a bucket: units at its last use; when that was
    host, held, since,  \* a request in Check: its address, its bucket, since when
    passed              \* how many requests of each address went on

clock == <<now, nextSweep>>
clients == <<byIP, lastSeen>>
buckets == <<tokens, last>>
requests == <<host, held, since>>
vars == <<clock, clients, buckets, requests, passed>>

TypeOK ==
    /\ now \in Nat /\ nextSweep \in Nat
    /\ byIP \in [IP -> Bucket \cup {None}] /\ lastSeen \in [IP -> 0..now]
    /\ tokens \in [Bucket -> 0..Cap] /\ last \in [Bucket -> 0..now]
    /\ host \in [Req -> IP \cup {None}] /\ held \in [Req -> Bucket \cup {None}]
    /\ since \in [Req -> 0..now]
    /\ \A q \in Req : host[q] = None <=> held[q] = None
    /\ passed \in [IP -> Nat]

Init ==
    /\ now = 0 /\ nextSweep = SweepEvery
    /\ byIP = [ip \in IP |-> None] /\ lastSeen = [ip \in IP |-> 0]
    /\ tokens = [b \in Bucket |-> Cap] /\ last = [b \in Bucket |-> 0]
    /\ host = [q \in Req |-> None] /\ held = [q \in Req |-> None]
    /\ since = [q \in Req |-> 0]
    /\ passed = [ip \in IP |-> 0]

-----------------------------------------------------------------------------
(* Check.                                                                   *)

Hold(q, ip, b) ==
    /\ host' = [host EXCEPT ![q] = ip]
    /\ held' = [held EXCEPT ![q] = b]
    /\ since' = [since EXCEPT ![q] = now]

Touched_never(ip) == lastSeen
Touched(ip) == [lastSeen EXCEPT ![ip] = now]

\* getOrCreate, for an address that has a bucket.
GetBucket(q, ip) ==
    /\ host[q] = None /\ byIP[ip] # None
    /\ lastSeen' = Touched(ip)
    /\ Hold(q, ip, byIP[ip])
    /\ UNCHANGED <<clock, byIP, buckets, passed>>

InUse == {byIP[ip] : ip \in IP} \cup {held[q] : q \in Req}

Fresh_oneMore == Cap + Cost
Fresh == Cap

\* getOrCreate, for a fresh address.
CreateBucket(q, ip) == \E b \in Bucket \ InUse :
    /\ host[q] = None /\ byIP[ip] = None
    /\ byIP' = [byIP EXCEPT ![ip] = b]
    /\ lastSeen' = [lastSeen EXCEPT ![ip] = now]
    /\ tokens' = [tokens EXCEPT ![b] = Fresh]
    /\ last' = [last EXCEPT ![b] = now]
    /\ Hold(q, ip, b)
    /\ UNCHANGED <<clock, passed>>

AtMost(cap, n) == IF n > cap THEN cap ELSE n

Available(b) == AtMost(Cap, tokens[b] + (now - last[b]))

Answered(q) ==
    /\ host' = [host EXCEPT ![q] = None]
    /\ held' = [held EXCEPT ![q] = None]
    /\ since' = [since EXCEPT ![q] = 0]

\* rateLimiter.Allow, and the request goes on to the handler.
Allow(q) ==
    /\ host[q] # None /\ Available(held[q]) >= Cost
    /\ tokens' = [tokens EXCEPT ![held[q]] = Available(held[q]) - Cost]
    /\ last' = [last EXCEPT ![held[q]] = now]
    /\ passed' = [passed EXCEPT ![host[q]] = @ + 1]
    /\ Answered(q)
    /\ UNCHANGED <<clock, clients>>

\* ErrTooManyRequests; the bucket stays as it was.
TooManyRequests(q) ==
    /\ host[q] # None /\ Available(held[q]) < Cost
    /\ Answered(q)
    /\ UNCHANGED <<clock, clients, buckets, passed>>

-----------------------------------------------------------------------------
(* The sweeper, and time.                                                   *)

Stale_swapped(ip) == byIP[ip] # None /\ lastSeen[ip] > now + StaleAfter
Stale_beforeSweep(ip) == byIP[ip] # None /\ now - lastSeen[ip] >= SweepEvery
Stale(ip) == byIP[ip] # None /\ now - lastSeen[ip] > StaleAfter

sweep ==
    /\ nextSweep <= now
    /\ byIP' = [ip \in IP |-> IF Stale(ip) THEN None ELSE byIP[ip]]
    /\ nextSweep' = nextSweep + SweepEvery
    /\ UNCHANGED <<now, lastSeen, buckets, requests, passed>>

\* Time passes, but a sweep that is due is not put off, nor is a request kept
\* for longer than MaxLag.
Tick ==
    /\ now < MaxTime /\ now < nextSweep
    /\ \A q \in Req : host[q] # None => now - since[q] < MaxLag
    /\ now' = now + 1
    /\ UNCHANGED <<nextSweep, clients, buckets, requests, passed>>

Check(q) ==
    \/ \E ip \in IP : GetBucket(q, ip) \/ CreateBucket(q, ip)
    \/ Allow(q) \/ TooManyRequests(q)

Next == (\E q \in Req : Check(q)) \/ sweep \/ Tick

Spec == Init /\ [][Next]_vars

-----------------------------------------------------------------------------

\* Though Check gives the lock back before it asks for a token, the bucket it
\* asks is the one that getOrCreate hands out to everyone else: no sweep comes
\* between, and two buckets never serve one address.
HeldIsCurrent ==
    \A q \in Req : host[q] # None => held[q] = byIP[host[q]]

\* Forgetting an address does nobody a favour: the limiter answers every
\* request as one whose buckets are kept for ever.
TokenBucket == INSTANCE TokenBuckets WITH
    credit <- [ip \in IP |-> IF byIP[ip] = None THEN Cap ELSE Available(byIP[ip])]

RefinesTokenBuckets == TokenBucket!Spec

\* However an address spreads its requests, and whenever it is forgotten in
\* between, no more go on than the burst and one for every Cost ticks.
RateBounded == \A ip \in IP : passed[ip] * Cost <= Cap + now

\* The map does not grow without bound: an address that stays quiet is gone
\* one sweep after it is stale.
QuietForgotten ==
    \A ip \in IP : byIP[ip] # None => now - lastSeen[ip] <= StaleAfter + SweepEvery
=============================================================================
