---------------------------- MODULE TokenBuckets ----------------------------
(***************************************************************************)
(* What the rate limiter promises: every address has a bucket for ever, it *)
(* fills by one unit per tick up to Cap, a request that finds Cost units   *)
(* takes them and goes on, and any other request is turned away.           *)
(***************************************************************************)
EXTENDS Naturals

CONSTANTS IP, Req, Cap, Cost, None

VARIABLES
    credit,   \* what is in each address' bucket
    host,     \* the address a request waits for an answer to, or None
    passed    \* how many requests of each address went on

vars == <<credit, host, passed>>

AtMost(cap, n) == IF n > cap THEN cap ELSE n

Init ==
    /\ credit = [ip \in IP |-> Cap]
    /\ host = [q \in Req |-> None]
    /\ passed = [ip \in IP |-> 0]

Tick ==
    /\ credit' = [ip \in IP |-> AtMost(Cap, credit[ip] + 1)]
    /\ UNCHANGED <<host, passed>>

Ask(q, ip) ==
    /\ host[q] = None
    /\ host' = [host EXCEPT ![q] = ip]
    /\ UNCHANGED <<credit, passed>>

Serve(q) ==
    /\ host[q] # None /\ credit[host[q]] >= Cost
    /\ credit' = [credit EXCEPT ![host[q]] = @ - Cost]
    /\ passed' = [passed EXCEPT ![host[q]] = @ + 1]
    /\ host' = [host EXCEPT ![q] = None]

Refuse(q) ==
    /\ host[q] # None /\ credit[host[q]] < Cost
    /\ host' = [host EXCEPT ![q] = None]
    /\ UNCHANGED <<credit, passed>>

Next ==
    \/ Tick
    \/ \E q \in Req : Serve(q) \/ Refuse(q) \/ \E ip \in IP : Ask(q, ip)

Spec == Init /\ [][Next]_vars
=============================================================================
