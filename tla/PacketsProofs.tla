----------------------------- MODULE PacketsProofs -----------------------------
(***************************************************************************)
(* Proofs about Packets, for any packets and any limits: since gws does    *)
(* not run two handlers of one connection at once, packets are applied     *)
(* entirely or not at all, and in order; the guard's counter, which is     *)
(* the greatest that was sealed so far, drops none of the client's own;    *)
(* and roommates are shown the player as its valid messages have set it.   *)
(***************************************************************************)
EXTENDS Packets, TLAPS

Busy(w) == pc[w] # "idle"

Shapes ==
    /\ wire \in Seq(Packet) /\ taken \in 0..Len(wire)
    /\ pc \in [Worker -> PCs]
    /\ doing \in [Worker -> Nat] /\ nth \in [Worker -> Nat]
    /\ effects \in Seq(Nat \X Nat)

\* The packet that is handled is the one that was taken last.
AtWork(w) ==
    Busy(w) =>
        /\ doing[w] = taken /\ taken \in 1..Len(wire)
        /\ pc[w] = "process" => nth[w] \in 1..Len(wire[taken].body)

Alone == \A v, w \in Worker : Busy(v) /\ Busy(w) => v = w

\* What the last effect was.
LastEffect ==
    /\ \A k \in 1..Len(effects) : effects[k][1] <= taken
    /\ \A w \in Worker :
          /\ Busy(w) /\ (pc[w] = "process" => nth[w] = 1)
                => \A k \in 1..Len(effects) : effects[k][1] < taken
          /\ pc[w] = "process" /\ nth[w] > 1
                => Len(effects) > 0 /\ effects[Len(effects)] = <<taken, nth[w] - 1>>

InOrder ==
    \A k \in 1..Len(effects) - 1 :
        \/ effects[k + 1] = <<effects[k][1], effects[k][2] + 1>>
        \/ effects[k + 1][1] > effects[k][1] /\ effects[k + 1][2] = 1

\* How many messages of each packet have been applied.
Applied ==
    /\ \A w \in Worker : pc[w] = "process" => Took(taken) = 1..nth[w] - 1
    /\ \A i \in 1..taken :
          (i = taken => \A w \in Worker : pc[w] # "process")
              => Took(i) \in {{}, 1..Len(wire[i].body)}

OrderInv == Shapes /\ (\A w \in Worker : AtWork(w)) /\ Alone /\ LastEffect /\ InOrder

PacketsInv == OrderInv /\ Applied

-----------------------------------------------------------------------------

\* The elements of a sequence of pairs.
LEMMA ToSetIs ==
    ASSUME NEW s \in Seq(Nat \X Nat), NEW e
    PROVE  e \in ToSet(s) <=> \E k \in 1..Len(s) : s[k] = e
  <1>1. DOMAIN s = 1..Len(s)
    OBVIOUS
  <1> QED
    BY <1>1, Zenon DEF ToSet

\* Nothing was sent.
LEMMA PacketsInit == Init => PacketsInv
  BY DEF Init, PacketsInv, OrderInv, Shapes, PCs, AtWork, Busy, Alone, LastEffect, InOrder, Applied

\* A message more on the wire changes nothing about those before it.
LEMMA SendPacketInv ==
    ASSUME PacketsInv, NEW p \in Packet, SendPacket(p)
    PROVE  PacketsInv'
  <1> USE DEF PacketsInv, OrderInv, Shapes, SendPacket, workVars
  <1>1. /\ wire' \in Seq(Packet) /\ Len(wire') = Len(wire) + 1
        /\ \A i \in 1..Len(wire) : wire'[i] = wire[i]
    OBVIOUS
  <1>2. Shapes' /\ (\A w \in Worker : AtWork(w))'
    BY <1>1 DEF AtWork, Busy
  <1>3. Alone' /\ LastEffect' /\ InOrder'
    BY DEF Alone, Busy, LastEffect, InOrder
  <1>4. Applied'
    <2>1. \A i \in 1..taken : Took(i)' = Took(i)
      BY <1>1 DEF Took
    <2>2. taken \in 1..taken \/ taken = 0
      OBVIOUS
    <2>3. ASSUME NEW w \in Worker, pc'[w] = "process" PROVE Took(taken)' = 1..nth'[w] - 1
      BY <2>1, <2>3 DEF Applied, AtWork, Busy
    <2> QED
      BY <1>1, <2>1, <2>3 DEF Applied
  <1> QED
    BY <1>2, <1>3, <1>4

\* Handlers that are not at their messages yet, and those that give up.
LEMMA GuardInv ==
    ASSUME PacketsInv, NEW w \in Worker, Accept(w) \/ Parse(w) \/ Validate(w) \/ Drop(w)
    PROVE  PacketsInv'
  <1> USE PacketsAssumption DEF PacketsInv, OrderInv, Shapes, PCs, clientVars, Goto
  <1>1. /\ UNCHANGED <<wire, taken, effects>>
        /\ \/ pc[w] \in {"guard", "parse"} /\ pc' = [pc EXCEPT ![w] = "parse"]
                 /\ doing' = doing /\ nth' = nth
           \/ pc[w] = "parse" /\ pc' = [pc EXCEPT ![w] = "validate"] /\ doing' = doing /\ nth' = nth
           \/ pc[w] = "validate" /\ pc' = [pc EXCEPT ![w] = "process"] /\ doing' = doing
                 /\ nth' = [nth EXCEPT ![w] = 1]
           \/ pc[w] # "process" /\ Busy(w) /\ pc' = [pc EXCEPT ![w] = "idle"]
                 /\ doing' = [doing EXCEPT ![w] = 0] /\ nth' = nth
    BY DEF Accept, Parse, Validate, Drop, Busy
  <1>2. pc[w] # "process" /\ Busy(w) /\ taken \in 1..Len(wire)
    BY <1>1 DEF Busy, AtWork
  <1>3. Shapes'
    <2>1. pc' \in [Worker -> PCs]
      BY <1>1
    <2>2. doing' \in [Worker -> Nat]
      BY ONLY <1>1, Shapes DEF Shapes
    <2>3. nth' \in [Worker -> Nat]
      BY ONLY <1>1, Shapes DEF Shapes
    <2> QED
      BY <1>1, <2>1, <2>2, <2>3
  <1>4. ASSUME NEW v \in Worker PROVE AtWork(v)'
    <2>1. Len(wire[taken].body) \in Nat \ {0}
      BY <1>2
    <2> QED
      BY <1>1, <1>2, <2>1 DEF AtWork, Busy
  <1>5. Alone'
    BY <1>1, <1>2 DEF Alone, Busy
  <1>6. \A k \in 1..Len(effects) : effects[k][1] < taken
    BY <1>2 DEF LastEffect
  <1>7. LastEffect'
    BY <1>1, <1>2, <1>6 DEF LastEffect, Busy, Alone
  <1>8. InOrder'
    BY <1>1 DEF InOrder
  <1>9. Applied'
    <2>1. \A i \in 1..taken : Took(i)' = Took(i)
      BY <1>1 DEF Took
    <2>2. Took(taken) = {}
      <3> SUFFICES ASSUME NEW j \in Nat, <<taken, j>> \in ToSet(effects) PROVE FALSE
        BY <1>2 DEF Took
      <3>1. PICK k \in 1..Len(effects) : effects[k] = <<taken, j>>
        BY ToSetIs
      <3> QED
        BY <1>6, <3>1
    <2>3. \A v \in Worker : pc[v] # "process"
      BY <1>2 DEF Alone, Busy
    <2>4. ASSUME NEW v \in Worker, pc'[v] = "process" PROVE Took(taken)' = 1..nth'[v] - 1
      <3>1. nth'[v] = 1
        BY <1>1, <2>3, <2>4
      <3>2. 1..nth'[v] - 1 = {}
        BY <3>1
      <3>3. Took(taken)' = Took(taken)
        BY <1>1, <1>2, <2>1
      <3> QED
        BY <2>2, <3>2, <3>3, Zenon
    <2> QED
      BY <1>1, <1>2, <2>1, <2>2, <2>3, <2>4 DEF Applied
  <1> QED
    BY <1>3, <1>4, <1>5, <1>7, <1>8, <1>9

\* The next packet is taken when no handler is running.
LEMMA OnMessageInv ==
    ASSUME PacketsInv, NEW w \in Worker, OnMessage(w)
    PROVE  PacketsInv'
  <1> USE PacketsAssumption DEF PacketsInv, OrderInv, Shapes, PCs, clientVars, Goto
  <1>1. /\ UNCHANGED <<wire, nth, effects>> /\ taken < Len(wire) /\ taken' = taken + 1
        /\ pc' = [pc EXCEPT ![w] = "guard"] /\ doing' = [doing EXCEPT ![w] = taken + 1]
        /\ \A v \in Worker : pc[v] = "idle"
    BY DEF OnMessage, ParallelEnabled
  <1>2. Shapes'
    BY <1>1
  <1>3. (\A v \in Worker : AtWork(v))' /\ Alone'
    BY <1>1 DEF AtWork, Alone, Busy
  <1>4. \A k \in 1..Len(effects) : effects[k] \in Nat \X Nat /\ effects[k][1] <= taken
    BY DEF LastEffect
  <1>5. LastEffect'
    <2>1. \A k \in 1..Len(effects) : effects[k][1] < taken'
      BY <1>1, <1>4
    <2>2. \A v \in Worker : pc'[v] # "process"
      BY <1>1
    <2> QED
      BY ONLY <1>1, <1>4, <2>1, <2>2 DEF LastEffect
  <1>6. InOrder'
    BY <1>1 DEF InOrder
  <1>7. Applied'
    <2>1. \A i \in 1..taken' : Took(i)' = Took(i)
      BY <1>1 DEF Took
    <2>2. Took(taken + 1) = {}
      <3> SUFFICES ASSUME NEW j \in Nat, <<taken + 1, j>> \in ToSet(effects) PROVE FALSE
        BY <1>1 DEF Took
      <3>1. PICK k \in 1..Len(effects) : effects[k] = <<taken + 1, j>>
        BY ToSetIs
      <3> QED
        BY <1>4, <3>1
    <2>3. \A i \in 1..taken : Took(i) \in {{}, 1..Len(wire[i].body)}
      BY <1>1 DEF Applied
    <2>4. ASSUME NEW i \in 1..taken' PROVE Took(i)' \in {{}, 1..Len(wire'[i].body)}
      <3>1. CASE i = taken + 1
        BY <2>1, <2>2, <3>1
      <3>2. CASE i \in 1..taken
        BY <1>1, <2>1, <2>3, <3>2
      <3> QED
        BY <1>1, <3>1, <3>2
    <2>5. \A v \in Worker : pc'[v] # "process"
      BY <1>1
    <2> QED
      BY <2>4, <2>5 DEF Applied
  <1> QED
    BY <1>2, <1>3, <1>5, <1>6, <1>7

\* A message is applied after the one before it.
LEMMA AdvanceInv ==
    ASSUME PacketsInv, NEW w \in Worker, pc[w] = "process", Advance(w), UNCHANGED <<wire, taken>>
    PROVE  PacketsInv'
  <1> USE PacketsAssumption DEF PacketsInv, OrderInv, Shapes, PCs, Goto
  <1> DEFINE n == nth[w]
             L == Len(wire[taken].body)
  <1>1. taken \in 1..Len(wire) /\ L \in Nat /\ n \in 1..L /\ doing[w] = taken
    BY DEF AtWork, Busy
  <1>2. /\ pc' = [pc EXCEPT ![w] = IF n = L THEN "idle" ELSE "process"]
        /\ doing' = [doing EXCEPT ![w] = IF n = L THEN 0 ELSE @]
        /\ nth' = [nth EXCEPT ![w] = IF n = L THEN 0 ELSE @ + 1]
        /\ effects' = Append(effects, <<taken, n>>)
    BY <1>1 DEF Advance, msgs
  <1>3. \A v \in Worker \ {w} : pc[v] = "idle" /\ pc'[v] = "idle"
    BY <1>2 DEF Alone, Busy
  <1> HIDE DEF n, L
  <1>4. Shapes'
    <2>1. effects' \in Seq(Nat \X Nat)
      BY <1>1, <1>2
    <2>2. pc' \in [Worker -> PCs] /\ doing' \in [Worker -> Nat] /\ nth' \in [Worker -> Nat]
      BY <1>2
    <2> QED
      BY <2>1, <2>2
  <1>5. (\A v \in Worker : AtWork(v))' /\ Alone'
    BY <1>1, <1>2, <1>3 DEF AtWork, Alone, Busy, L, n
  <1>6. /\ Len(effects') = Len(effects) + 1 /\ effects'[Len(effects) + 1] = <<taken, n>>
        /\ \A k \in 1..Len(effects) : effects'[k] = effects[k] /\ effects[k] \in Nat \X Nat
    BY <1>1, <1>2
  <1>7. LastEffect'
    <2>1. ASSUME NEW k \in 1..Len(effects') PROVE effects'[k][1] <= taken
      <3>1. CASE k = Len(effects) + 1
        BY <1>1, <1>6, <3>1
      <3>2. CASE k \in 1..Len(effects)
        BY <1>6, <3>2 DEF LastEffect
      <3> QED
        BY <1>6, <3>1, <3>2
    <2>2. ASSUME NEW v \in Worker, pc'[v] = "process" PROVE v = w /\ nth'[v] = n + 1
      BY <1>2, <1>3, <2>2 DEF n
    <2>3. ASSUME NEW v \in Worker, Busy(v)' PROVE pc'[v] = "process"
      BY <1>2, <1>3, <2>3 DEF Busy
    <2>4. n \in Nat \ {0} /\ n + 1 # 1 /\ (n + 1) - 1 = n /\ Len(effects) \in Nat
      BY <1>1
    <2>5. ASSUME NEW v \in Worker, pc'[v] = "process"
          PROVE  nth'[v] # 1 /\ effects'[Len(effects')] = <<taken, nth'[v] - 1>>
      BY <1>6, <2>2, <2>4, <2>5
    <2> QED
      BY <1>6, <2>1, <2>3, <2>4, <2>5 DEF LastEffect
  <1>8. InOrder'
    <2> SUFFICES ASSUME NEW k \in 1..Len(effects') - 1
                 PROVE  \/ effects'[k + 1] = <<effects'[k][1], effects'[k][2] + 1>>
                        \/ effects'[k + 1][1] > effects'[k][1] /\ effects'[k + 1][2] = 1
      BY DEF InOrder
    <2>1. CASE k \in 1..Len(effects) - 1
      <3>1. Len(effects) \in Nat
        OBVIOUS
      <3>2. k \in 1..Len(effects) /\ k + 1 \in 1..Len(effects)
        BY ONLY <2>1, <3>1
      <3>3. effects'[k] = effects[k] /\ effects'[k + 1] = effects[k + 1]
        BY ONLY <1>6, <3>2
      <3> QED
        BY <2>1, <3>3 DEF InOrder
    <2>2. CASE k = Len(effects) /\ n = 1
      <3>1. effects[k][1] < taken
        <4>1. Busy(w) /\ nth[w] = 1 /\ k \in 1..Len(effects)
          BY <2>2 DEF Busy, n
        <4> QED
          BY <4>1 DEF LastEffect
      <3>2. effects'[k] = effects[k] /\ effects'[k + 1] = <<taken, 1>>
        BY <1>6, <2>2
      <3> QED
        BY <3>1, <3>2
    <2>3. CASE k = Len(effects) /\ n > 1
      <3>1. effects[k] = <<taken, n - 1>>
        BY <2>3 DEF LastEffect, n
      <3>2. effects'[k] = effects[k] /\ effects'[k + 1] = <<taken, n>>
        BY <1>6, <2>3
      <3> QED
        BY <1>1, <3>1, <3>2
    <2>4. k \in 1..Len(effects) /\ Len(effects) \in Nat /\ n \in Nat \ {0}
      BY <1>1, <1>6
    <2>5. k \in 1..Len(effects) - 1 \/ (k = Len(effects) /\ (n = 1 \/ n > 1))
      BY ONLY <2>4
    <2> QED
      BY <2>1, <2>2, <2>3, <2>5
  <1>9. Applied'
    <2>1. ASSUME NEW e PROVE e \in ToSet(effects') <=> e \in ToSet(effects) \/ e = <<taken, n>>
      <3>1. e \in ToSet(effects') <=> \E k \in 1..Len(effects') : effects'[k] = e
        BY <1>4, ToSetIs
      <3>2. e \in ToSet(effects) <=> \E k \in 1..Len(effects) : effects[k] = e
        BY ToSetIs
      <3>3. \A k : k \in 1..Len(effects') <=> k \in 1..Len(effects) \/ k = Len(effects) + 1
        BY <1>6
      <3> QED
        BY <1>6, <3>1, <3>2, <3>3, Zenon
    <2>2. \A i \in 1..taken : i # taken => Took(i)' = Took(i)
      BY <2>1 DEF Took
    <2>3. Took(taken)' = Took(taken) \cup {n}
      BY <1>1, <2>1 DEF Took, L
    <2>4. Took(taken)' = 1..n
      <3>1. Took(taken) = 1..n - 1
        BY DEF Applied, n
      <3> QED
        BY <1>1, <2>3, <3>1
    <2>5. ASSUME NEW v \in Worker, pc'[v] = "process" PROVE Took(taken)' = 1..nth'[v] - 1
      <3>1. v = w /\ nth'[v] = n + 1
        BY <1>2, <1>3, <2>5 DEF n
      <3> QED
        BY <1>1, <2>4, <3>1
    <2>6. pc'[w] # "process" => Took(taken)' = 1..L
      BY <1>2, <2>4
    <2>7. ASSUME NEW i \in 1..taken, i # taken \/ \A v \in Worker : pc'[v] # "process"
          PROVE  Took(i)' \in {{}, 1..Len(wire[i].body)}
      BY <2>2, <2>6, <2>7 DEF Applied, L
    <2> QED
      BY <2>5, <2>7 DEF Applied
  <1> QED
    BY <1>4, <1>5, <1>7, <1>8, <1>9

\* Every step keeps the invariant.
LEMMA PacketsStep == PacketsInv /\ [Next]_vars => PacketsInv'
  <1> SUFFICES ASSUME PacketsInv, [Next]_vars PROVE PacketsInv'
    OBVIOUS
  <1>1. ASSUME NEW w \in Worker, processMessage(w) \/ SwitchRoom(w) PROVE PacketsInv'
    BY <1>1, AdvanceInv DEF processMessage, SwitchRoom
  <1>2. CASE UNCHANGED vars
    BY <1>2 DEF vars, workVars, clientVars, PacketsInv, OrderInv, Shapes, AtWork, Busy, Alone,
                LastEffect, InOrder, Applied, Took
  <1> QED
    BY <1>1, <1>2, SendPacketInv, GuardInv, OnMessageInv DEF Next, Rest

-----------------------------------------------------------------------------

(* The guard's counter.                                                     *)

\* The packet has a greater counter than all that were sealed before it.
Fresh(i) == \A h \in 1..i - 1 : wire[h].sealed => wire[h].count < wire[i].count

\* The guard has looked at the packet.
Seen(i) == i = taken => \A w \in Worker : pc[w] # "guard"

Counted ==
    /\ guardCount \in Nat
    /\ \A h \in 1..taken : wire[h].sealed /\ Seen(h) => wire[h].count <= guardCount
    /\ guardCount = 0
         \/ \E h \in 1..taken : wire[h].sealed /\ Seen(h) /\ wire[h].count = guardCount
    /\ \A w \in Worker : pc[w] \in {"parse", "validate", "process"} => Fresh(taken)
    /\ \A i \in 1..taken : Took(i) # {} => Fresh(i)
    /\ \A i \in 1..taken : Proper(i) /\ (i = taken => Settled) => Took(i) # {}

\* Each of the client's own messages is parsed and is within its limits.
LegitValid == \A m \in Legit : Deserialize(<<m>>) /\ Validated(<<m>>)

DeliveredInv == PacketsInv /\ Counted

\* A packet of legitimate messages passes.
LEMMA ProperPasses ==
    ASSUME LegitValid, PacketsInv, NEW i \in 1..taken, Proper(i)
    PROVE  Deserialize(wire[i].body) /\ Validated(wire[i].body)
  <1> DEFINE b == wire[i].body
  <1>1. \A j \in 1..Len(b) : b[j] \in Legit
    BY DEF Proper
  <1>2. ASSUME NEW m, Deserialize(<<m>>), Validated(<<m>>)
        PROVE  /\ m.kind \in Kinds /\ Len(m.parts) = Len(Types(m.kind))
               /\ \A j \in 1..Len(m.parts) : Parses(Types(m.kind)[j], m.parts[j])
               /\ validateMessage(m)
    BY <1>2 DEF Deserialize, Validated
  <1> HIDE DEF b
  <1>3. Deserialize(b)
    BY <1>1, <1>2 DEF LegitValid, Deserialize
  <1>4. Validated(b)
    BY <1>1, <1>2 DEF LegitValid, Validated
  <1> QED
    BY <1>3, <1>4 DEF b

LEMMA CountedInit == Init => Counted
  BY DEF Init, Counted, Fresh

\* What is asked of the packets taken so far, when none is added and nothing has
\* an effect.
LEMMA SameTaken ==
    ASSUME PacketsInv, wire' \in Seq(Packet), Len(wire) <= Len(wire'),
           \A i \in 1..Len(wire) : wire'[i] = wire[i], effects' = effects
    PROVE  \A i \in 1..taken : /\ wire'[i] = wire[i] /\ Took(i)' = Took(i)
                               /\ Fresh(i)' = Fresh(i) /\ Proper(i)' = Proper(i)
  <1>1. taken \in 0..Len(wire)
    BY DEF PacketsInv, OrderInv, Shapes
  <1> SUFFICES ASSUME NEW i \in 1..taken
               PROVE  /\ wire'[i] = wire[i] /\ Took(i)' = Took(i)
                      /\ Fresh(i)' = Fresh(i) /\ Proper(i)' = Proper(i)
    OBVIOUS
  <1>2. wire'[i] = wire[i] /\ \A h \in 1..i - 1 : wire'[h] = wire[h]
    BY <1>1
  <1> QED
    BY <1>2 DEF Took, Fresh, Proper

\* More packets come.
LEMMA SendPacketCounted ==
    ASSUME DeliveredInv, NEW p \in Packet, SendPacket(p)
    PROVE  Counted'
  <1> USE DEF SendPacket, workVars
  <1>1. PacketsInv /\ taken \in 0..Len(wire) /\ wire \in Seq(Packet)
    BY DEF DeliveredInv, PacketsInv, OrderInv, Shapes
  <1>2. /\ wire' \in Seq(Packet) /\ Len(wire) <= Len(wire')
        /\ \A i \in 1..Len(wire) : wire'[i] = wire[i]
    BY <1>1
  <1>3. \A i \in 1..taken : /\ wire'[i] = wire[i] /\ Took(i)' = Took(i)
                            /\ Fresh(i)' = Fresh(i) /\ Proper(i)' = Proper(i)
    BY <1>1, <1>2, SameTaken
  <1>4. \A w \in Worker : pc[w] # "idle" => taken \in 1..taken
    BY DEF DeliveredInv, PacketsInv, OrderInv, AtWork, Busy
  <1>5. UNCHANGED <<taken, guardCount, pc>>
    OBVIOUS
  <1>6. Counted
    BY DEF DeliveredInv
  <1>7. \A i \in 1..taken : Seen(i)' = Seen(i)
    BY <1>5 DEF Seen
  <1>8. \A w \in Worker : pc'[w] \in {"parse", "validate", "process"} => Fresh(taken)'
    BY <1>3, <1>4, <1>5, <1>6 DEF Counted
  <1>9. /\ \A h \in 1..taken : wire'[h].sealed /\ Seen(h)' => wire'[h].count <= guardCount
        /\ guardCount = 0 \/ \E h \in 1..taken :
              wire'[h].sealed /\ Seen(h)' /\ wire'[h].count = guardCount
    BY <1>3, <1>6, <1>7 DEF Counted
  <1>10. /\ \A i \in 1..taken : Took(i)' # {} => Fresh(i)'
         /\ \A i \in 1..taken : Proper(i)' /\ (i = taken => Settled') => Took(i)' # {}
    BY <1>3, <1>5, <1>6 DEF Counted, Settled
  <1> HIDE DEF SendPacket
  <1> QED
    BY <1>5, <1>6, <1>8, <1>9, <1>10 DEF Counted

\* The packet that is taken has yet to be looked at.
LEMMA OnMessageCounted ==
    ASSUME DeliveredInv, NEW w \in Worker, OnMessage(w)
    PROVE  Counted'
  <1> USE DEF OnMessage, ParallelEnabled, Goto, clientVars
  <1>1. PacketsInv /\ taken \in 0..Len(wire) /\ wire \in Seq(Packet) /\ pc \in [Worker -> PCs]
    BY DEF DeliveredInv, PacketsInv, OrderInv, Shapes
  <1>2. /\ UNCHANGED <<wire, guardCount, effects>> /\ taken' = taken + 1 /\ taken < Len(wire)
        /\ pc' = [pc EXCEPT ![w] = "guard"] /\ \A v \in Worker : pc[v] = "idle"
    OBVIOUS
  <1>3. \A i \in 1..taken' : /\ Took(i)' = Took(i) /\ Fresh(i)' = Fresh(i)
                             /\ Proper(i)' = Proper(i)
    BY <1>2 DEF Took, Fresh, Proper
  <1>4. Took(taken + 1) = {}
    <2> SUFFICES ASSUME NEW j \in Nat, <<taken + 1, j>> \in ToSet(effects) PROVE FALSE
      BY <1>1, <1>2, PacketsAssumption DEF Took
    <2>1. PICK k \in 1..Len(effects) : effects[k] = <<taken + 1, j>>
      BY ToSetIs DEF DeliveredInv, PacketsInv, OrderInv, Shapes
    <2>2. effects[k][1] <= taken
      BY DEF DeliveredInv, PacketsInv, OrderInv, LastEffect
    <2> QED
      BY <1>1, <2>1, <2>2
  <1>5. \A i \in 1..taken : Seen(i) /\ Seen(i)' /\ i # taken'
    BY <1>1, <1>2 DEF Seen
  <1>6. \A i \in 1..taken' : i = taken + 1 => ~Seen(i)'
    BY <1>1, <1>2 DEF Seen
  <1>7. ~Settled' /\ Settled
    BY <1>1, <1>2 DEF Settled
  <1>8. \A v \in Worker : pc'[v] \notin {"parse", "validate", "process"}
    BY <1>1, <1>2
  <1>9. \A i \in 1..taken' : i \in 1..taken \/ i = taken + 1
    BY <1>1, <1>2
  <1>10. guardCount' \in Nat /\ taken' = taken + 1
    BY <1>2 DEF DeliveredInv, Counted
  <1>11. \A h \in 1..taken' : wire'[h].sealed /\ Seen(h)' => wire'[h].count <= guardCount'
    BY <1>2, <1>5, <1>6, <1>9 DEF DeliveredInv, Counted
  <1>12. guardCount' = 0 \/ \E h \in 1..taken' :
            wire'[h].sealed /\ Seen(h)' /\ wire'[h].count = guardCount'
    <2>1. 1..taken \subseteq 1..taken'
      BY <1>1, <1>2
    <2> QED
      BY <1>2, <1>5, <2>1 DEF DeliveredInv, Counted
  <1>13. \A i \in 1..taken' : Took(i)' # {} => Fresh(i)'
    BY <1>3, <1>4, <1>9 DEF DeliveredInv, Counted
  <1>14. \A i \in 1..taken' : Proper(i)' /\ (i = taken' => Settled') => Took(i)' # {}
    BY <1>2, <1>3, <1>5, <1>7, <1>9 DEF DeliveredInv, Counted
  <1> QED
    BY <1>8, <1>10, <1>11, <1>12, <1>13, <1>14 DEF Counted

\* The guard lets a packet pass if its counter is greater than all before.
LEMMA GuardCounted ==
    ASSUME LegitValid, DeliveredInv, NEW w \in Worker,
           Accept(w) \/ Parse(w) \/ Validate(w) \/ Drop(w)
    PROVE  Counted'
  <1> USE DEF Goto, clientVars
  <1>1. /\ PacketsInv /\ taken \in 1..Len(wire) /\ wire \in Seq(Packet)
        /\ pc \in [Worker -> PCs] /\ doing[w] = taken
        /\ pc[w] \in {"guard", "parse", "validate"}
        /\ \A v \in Worker \ {w} : pc[v] = "idle"
    BY DEF DeliveredInv, PacketsInv, OrderInv, Shapes, AtWork, Alone, Busy,
           Accept, Parse, Validate, Drop
  <1>2. UNCHANGED <<wire, taken, effects>>
    BY DEF Accept, Parse, Validate, Drop
  <1>3. \A i \in 1..taken : /\ Took(i)' = Took(i) /\ Fresh(i)' = Fresh(i)
                            /\ Proper(i)' = Proper(i)
    BY <1>2 DEF Took, Fresh, Proper
  <1>4. wire[taken].count \in Nat /\ wire[taken].sealed \in BOOLEAN
    BY <1>1, PacketsAssumption
  <1>5. \A i \in 1..taken : i # taken => Seen(i) /\ Seen(i)'
    BY <1>2 DEF Seen
  <1>6. pc[w] = "guard" <=> ~Seen(taken)
    BY <1>1 DEF Seen
  <1>7. pc[w] = "guard" /\ Guarded(w) => Fresh(taken)
    <2> SUFFICES ASSUME Guarded(w), NEW h \in 1..taken - 1, wire[h].sealed
                 PROVE  wire[h].count < wire[taken].count
      BY DEF Fresh
    <2>1. h \in 1..taken /\ wire[h] \in Packet /\ Seen(h)
      BY <1>1, <1>5
    <2>2. wire[h].count \in Nat /\ wire[h].count <= guardCount /\ guardCount \in Nat
      BY <2>1, PacketsAssumption DEF DeliveredInv, Counted
    <2>3. guardCount < wire[taken].count
      BY <1>1, <1>4, <2>2 DEF Guarded
    <2> QED
      BY <1>4, <2>2, <2>3
  <1>8. pc[w] = "guard" /\ Proper(taken) => Guarded(w)
    <2> SUFFICES ASSUME pc[w] = "guard", Proper(taken) PROVE wire[taken].count > guardCount
      BY <1>1 DEF Guarded, Proper
    <2>1. CASE guardCount = 0
      BY <2>1 DEF Proper
    <2>2. ASSUME NEW h \in 1..taken, wire[h].sealed, Seen(h), wire[h].count = guardCount
          PROVE  wire[taken].count > guardCount
      <3>1. h \in 1..taken - 1
        BY <1>1, <1>6, <2>2
      <3> QED
        BY <1>1, <1>4, <2>2, <3>1, PacketsAssumption DEF Proper
    <2> QED
      BY <2>1, <2>2 DEF DeliveredInv, Counted
  <1>9. Proper(taken) => Deserialize(msgs(w)) /\ Validated(msgs(w))
    BY <1>1, ProperPasses DEF msgs
  <1>10. Drop(w) => ~Proper(taken)
    BY <1>8, <1>9 DEF Drop
  <1>11. CASE Accept(w)
    <2>1. /\ guardCount' = wire[taken].count /\ wire[taken].sealed
          /\ wire[taken].count > guardCount /\ pc[w] = "guard" /\ pc' = [pc EXCEPT ![w] = "parse"]
      BY <1>1, <1>11 DEF Accept, Guarded
    <2>2. Seen(taken)' /\ ~Settled'
      BY <1>1, <1>2, <2>1 DEF Seen, Settled
    <2>3. guardCount \in Nat
      BY DEF DeliveredInv, Counted
    <2>4. ASSUME NEW h \in 1..taken, wire[h].sealed PROVE wire[h].count <= guardCount'
      <3>1. CASE h = taken
        BY <1>4, <2>1, <3>1
      <3>2. CASE h # taken
        <4>1. wire[h].count <= guardCount /\ wire[h].count \in Nat
          BY <1>1, <1>5, <2>4, <3>2, PacketsAssumption DEF DeliveredInv, Counted
        <4> QED
          BY <1>4, <2>1, <2>3, <4>1
      <3> QED
        BY <3>1, <3>2
    <2>5. Fresh(taken)'
      BY <1>2, <1>7, <1>11 DEF Accept, Fresh
    <2> QED
      BY <1>1, <1>2, <1>3, <1>4, <2>1, <2>2, <2>4, <2>5 DEF DeliveredInv, Counted, Seen, Settled
  <1>12. CASE Parse(w) \/ Validate(w)
    <2>1. /\ guardCount' = guardCount /\ pc[w] \in {"parse", "validate"}
          /\ \/ pc' = [pc EXCEPT ![w] = "validate"]
             \/ pc' = [pc EXCEPT ![w] = "process"]
      BY <1>12 DEF Parse, Validate
    <2>2. Seen(taken) /\ Seen(taken)' /\ ~Settled'
      BY <1>1, <1>2, <2>1 DEF Seen, Settled
    <2>3. Fresh(taken)'
      <3>1. Fresh(taken)
        BY <1>1, <2>1 DEF DeliveredInv, Counted
      <3> QED
        BY <1>2, <3>1 DEF Fresh
    <2> QED
      BY <1>1, <1>2, <1>3, <1>5, <2>1, <2>2, <2>3 DEF DeliveredInv, Counted
  <1>13. CASE Drop(w)
    <2>1. /\ guardCount' = guardCount /\ pc' = [pc EXCEPT ![w] = "idle"]
          /\ pc[w] = "guard" => ~Guarded(w)
      BY <1>13 DEF Drop
    <2>2. Seen(taken)'
      BY <1>1, <1>2, <2>1 DEF Seen
    <2>3. guardCount \in Nat
      BY DEF DeliveredInv, Counted
    <2>4. wire[taken].sealed => wire[taken].count <= guardCount
      <3>1. CASE pc[w] = "guard"
        BY <1>1, <1>4, <2>1, <2>3, <3>1 DEF Guarded
      <3>2. CASE pc[w] # "guard"
        BY <1>1, <1>6, <3>2 DEF DeliveredInv, Counted
      <3> QED
        BY <3>1, <3>2
    <2>5. \A v \in Worker : pc'[v] = "idle"
      BY <1>1, <2>1
    <2> QED
      BY <1>1, <1>2, <1>3, <1>5, <1>10, <1>13, <2>1, <2>2, <2>4, <2>5
      DEF DeliveredInv, Counted, Settled
  <1> QED
    BY <1>11, <1>12, <1>13

\* Whatever has an effect was let pass by the guard.
LEMMA AdvanceCounted ==
    ASSUME DeliveredInv, NEW w \in Worker, pc[w] = "process", Advance(w),
           UNCHANGED <<wire, taken, guardCount>>
    PROVE  Counted'
  <1> DEFINE n == nth[w]
  <1>1. /\ PacketsInv /\ taken \in 1..Len(wire) /\ effects \in Seq(Nat \X Nat)
        /\ pc \in [Worker -> PCs] /\ doing[w] = taken /\ n \in 1..Len(wire[taken].body)
        /\ \A v \in Worker \ {w} : pc[v] = "idle"
    BY DEF DeliveredInv, PacketsInv, OrderInv, Shapes, AtWork, Alone, Busy
  <1>2. /\ effects' = Append(effects, <<taken, n>>)
        /\ \/ pc' = [pc EXCEPT ![w] = "idle"]
           \/ pc' = [pc EXCEPT ![w] = "process"]
    BY <1>1 DEF Advance, Goto
  <1> HIDE DEF n
  <1>3. PacketsInv' /\ effects' \in Seq(Nat \X Nat)
    BY <1>1, AdvanceInv DEF PacketsInv, OrderInv, Shapes
  <1>4. ASSUME NEW e PROVE e \in ToSet(effects') <=> e \in ToSet(effects) \/ e = <<taken, n>>
    <2>1. e \in ToSet(effects') <=> \E k \in 1..Len(effects') : effects'[k] = e
      BY <1>3, ToSetIs
    <2>2. e \in ToSet(effects) <=> \E k \in 1..Len(effects) : effects[k] = e
      BY <1>1, ToSetIs
    <2>3. /\ Len(effects') = Len(effects) + 1 /\ effects'[Len(effects) + 1] = <<taken, n>>
          /\ \A k \in 1..Len(effects) : effects'[k] = effects[k]
      BY <1>1, <1>2, PacketsAssumption
    <2>4. \A k : k \in 1..Len(effects') <=> k \in 1..Len(effects) \/ k = Len(effects) + 1
      BY <1>1, <2>3
    <2> QED
      BY <2>1, <2>2, <2>3, <2>4, Zenon
  <1>5. /\ Took(taken)' # {}
        /\ \A i \in 1..taken : /\ i # taken => Took(i)' = Took(i)
                              /\ Fresh(i)' = Fresh(i) /\ Proper(i)' = Proper(i)
    <2>1. \A i \in 1..taken : i # taken => Took(i)' = Took(i)
      BY <1>4 DEF Took
    <2>2. n \in Took(taken)'
      BY <1>1, <1>4 DEF Took
    <2> QED
      BY <2>1, <2>2 DEF Fresh, Proper
  <1>6. Fresh(taken) /\ (Fresh(taken)' <=> Fresh(taken))
    BY <1>1 DEF DeliveredInv, Counted, Fresh
  <1>7. \A i \in 1..taken : Seen(i) /\ Seen(i)'
    BY <1>1, <1>2 DEF Seen
  <1>8. \A i \in 1..taken : Took(i)' # {} => Fresh(i)'
    BY <1>5, <1>6 DEF DeliveredInv, Counted
  <1>9. \A i \in 1..taken : Proper(i)' /\ (i = taken => Settled') => Took(i)' # {}
    BY <1>5 DEF DeliveredInv, Counted
  <1> QED
    BY <1>6, <1>7, <1>8, <1>9 DEF DeliveredInv, Counted

\* Every step keeps what is known of the counter.
LEMMA CountedStep == LegitValid /\ DeliveredInv /\ [Next]_vars => Counted'
  <1> SUFFICES ASSUME LegitValid, DeliveredInv, [Next]_vars PROVE Counted'
    OBVIOUS
  <1>1. ASSUME NEW w \in Worker, processMessage(w) \/ SwitchRoom(w) PROVE Counted'
    BY <1>1, AdvanceCounted DEF processMessage, SwitchRoom
  <1>2. CASE UNCHANGED vars
    BY <1>2 DEF vars, workVars, clientVars, DeliveredInv, Counted, Fresh, Seen, Took, Proper,
                Settled
  <1> QED
    BY <1>1, <1>2, SendPacketCounted, GuardCounted, OnMessageCounted DEF Next, Rest

-----------------------------------------------------------------------------
(* What the messages do to the player's data.                               *)

\* The messages of the packet in hand have passed what comes before them.
Passed ==
    \A w \in Worker :
        /\ pc[w] \in {"validate", "process"} => Deserialize(wire[taken].body)
        /\ pc[w] = "process" => Validated(wire[taken].body)

\* A sprite comes with its index; roommates show what is known of the player.
Dressed ==
    /\ room \in Rooms
    /\ DOMAIN data = DOMAIN Default /\ data = [f \in DOMAIN Default |-> data[f]]
    /\ data.sprite = 0 <=> data.index = -1
    /\ room \notin SPMaps => view = data

LooksInv == PacketsInv /\ Passed /\ Dressed

\* A message within its limits that has the parts of its kind.
Good(m) ==
    /\ m.kind \in Kinds /\ Len(m.parts) = Len(Types(m.kind)) /\ validateMessage(m)
    /\ m = [kind |-> m.kind, parts |-> m.parts] /\ m.parts \in Seq(Part)

\* The fields of a kind are fields of the data, each named once, one for each
\* part that the kind has.
LEMMA FieldsShape ==
    ASSUME NEW kind
    PROVE  /\ Len(Fields(kind)) \in Nat
           /\ \A j \in 1..Len(Fields(kind)) : Fields(kind)[j] \in DOMAIN Default
           /\ \A i, j \in 1..Len(Fields(kind)) : Fields(kind)[i] = Fields(kind)[j] => i = j
           /\ Fields(kind) = <<>> <=> Len(Fields(kind)) = 0
           /\ Fields(kind) # <<>> => Len(Types(kind)) = Len(Fields(kind))
  <1> USE DEF Default
  <1>1. CASE kind \in Position
    <2>1. Fields(kind) = <<"x", "y">> /\ Types(kind) = <<"int32", "int32">>
      BY <1>1 DEF Fields, Types, Position, Flashes
    <2> QED
      BY <2>1
  <1>2. CASE kind = "Sprite"
    <2>1. Fields(kind) = <<"sprite", "index">> /\ Types(kind) = <<"string", "int32">>
      BY <1>2 DEF Fields, Types, Position, Flashes
    <2> QED
      BY <2>1
  <1>3. CASE kind \in {"Speed", "Facing", "Hidden", "SysName", "Transparency"}
    <2>1. /\ Fields(kind) \in {<<"speed">>, <<"facing">>, <<"hidden">>, <<"sysName">>,
                               <<"transparency">>}
          /\ Types(kind) \in {<<"string">>, <<"bool">>, <<"int32">>}
      BY <1>3 DEF Fields, Types, Position, Flashes
    <2> QED
      BY <2>1
  <1>4. CASE kind \notin Position \cup {"Sprite", "Speed", "Facing", "Hidden", "SysName",
                                        "Transparency"}
    <2>1. Fields(kind) = <<>>
      BY <1>4 DEF Fields
    <2> QED
      BY <2>1
  <1> QED
    BY <1>1, <1>2, <1>3, <1>4

\* What is written is what the parts say,
LEMMA WrittenField ==
    ASSUME NEW d, DOMAIN d = DOMAIN Default, NEW m, NEW j \in 1..Len(Fields(m.kind))
    PROVE  Written(d, m)[Fields(m.kind)[j]] = m.parts[j]
  <1> DEFINE F == Fields(m.kind)
  <1>1. Written(d, m) = [f \in DOMAIN Default |->
                           IF \E i \in 1..Len(F) : F[i] = f
                             THEN m.parts[CHOOSE i \in 1..Len(F) : F[i] = f] ELSE d[f]]
    BY DEF Written
  <1>2. F[j] \in DOMAIN Default /\ \A i \in 1..Len(F) : F[i] = F[j] => i = j
    BY FieldsShape
  <1>3. (CHOOSE i \in 1..Len(F) : F[i] = F[j]) = j
    BY <1>2
  <1> HIDE DEF F
  <1> QED
    BY <1>1, <1>2, <1>3 DEF F

\* ... and the rest stays.
LEMMA WrittenRest ==
    ASSUME NEW d, DOMAIN d = DOMAIN Default, NEW m
    PROVE  /\ DOMAIN Written(d, m) = DOMAIN Default
           /\ Written(d, m) = [f \in DOMAIN Default |-> Written(d, m)[f]]
           /\ \A f \in DOMAIN Default :
                 (\A j \in 1..Len(Fields(m.kind)) : Fields(m.kind)[j] # f) => Written(d, m)[f] = d[f]
  <1> DEFINE F == Fields(m.kind)
             e == Written(d, m)
  <1>1. e = [f \in DOMAIN Default |->
               IF \E i \in 1..Len(F) : F[i] = f
                 THEN m.parts[CHOOSE i \in 1..Len(F) : F[i] = f] ELSE d[f]]
    BY DEF Written
  <1> HIDE DEF e, F
  <1>2. DOMAIN e = DOMAIN Default /\ e = [f \in DOMAIN Default |-> e[f]]
    BY <1>1
  <1>3. ASSUME NEW f \in DOMAIN Default, \A j \in 1..Len(F) : F[j] # f PROVE e[f] = d[f]
    BY <1>1, <1>3
  <1> QED
    BY <1>2, <1>3 DEF e, F

\* A message that is shared as the data it has set is the message itself.
LEMMA ShareIs ==
    ASSUME NEW d, DOMAIN d = DOMAIN Default, NEW m, Good(m)
    PROVE  Share(Written(d, m), m) = m
  <1> DEFINE F == Fields(m.kind)
             e == Written(d, m)
  <1>1. CASE F = <<>>
    BY <1>1 DEF Share, Good
  <1>2. CASE F # <<>>
    <2>1. Len(m.parts) = Len(F) /\ m.parts \in Seq(Part) /\ m = [kind |-> m.kind, parts |-> m.parts]
      BY <1>2, FieldsShape DEF Good
    <2>2. \A j \in 1..Len(m.parts) : e[F[j]] = m.parts[j]
      <3>1. \A j \in 1..Len(F) : e[F[j]] = m.parts[j]
        BY WrittenField
      <3> HIDE DEF e, F
      <3> QED
        BY <2>1, <3>1
    <2> HIDE DEF e
    <2>3. [j \in 1..Len(m.parts) |-> e[F[j]]] = m.parts
      <3>1. m.parts = [j \in 1..Len(m.parts) |-> m.parts[j]]
        BY <2>1
      <3> QED
        BY <2>2, <3>1, Zenon
    <2>4. Share(e, m) = [kind |-> m.kind, parts |-> [j \in 1..Len(m.parts) |-> e[F[j]]]]
      BY <1>2 DEF Share
    <2> QED
      BY <2>1, <2>3, <2>4 DEF e
  <1> QED
    BY <1>1, <1>2

\* The packet in hand is of good messages.
LEMMA GoodMessages ==
    ASSUME LooksInv, NEW w \in Worker, pc[w] = "process"
    PROVE  Good(msgs(w)[nth[w]])
  <1> DEFINE b == wire[taken].body
  <1>1. /\ doing[w] = taken /\ taken \in 1..Len(wire) /\ wire \in Seq(Packet) /\ nth[w] \in 1..Len(b)
        /\ Deserialize(b) /\ Validated(b)
    BY DEF LooksInv, PacketsInv, OrderInv, Shapes, AtWork, Busy, Passed
  <1>2. b \in Seq([kind : STRING, parts : Seq(Part)])
    <2>1. wire[taken] \in Packet
      BY <1>1
    <2> QED
      BY <2>1, BodyAssumption
  <1>3. msgs(w) = b
    BY <1>1 DEF msgs
  <1> HIDE DEF b
  <1>4. b[nth[w]] \in [kind : STRING, parts : Seq(Part)]
    <2>1. ASSUME NEW S, b \in Seq(S) PROVE b[nth[w]] \in S
      BY <1>1, <2>1
    <2> QED
      BY <1>2, <2>1
  <1> DEFINE m == b[nth[w]]
  <1>5. m = [kind |-> m.kind, parts |-> m.parts] /\ m.parts \in Seq(Part)
    BY <1>4
  <1>6. m.kind \in Kinds /\ Len(m.parts) = Len(Types(m.kind))
    <2>1. nth[w] \in 1..Len(b) /\ Deserialize(b)
      BY <1>1
    <2> QED
      BY ONLY <2>1, Zenon DEF Deserialize
  <1>7. validateMessage(m)
    BY <1>1 DEF Validated
  <1> QED
    BY <1>3, <1>5, <1>6, <1>7 DEF Good

\* Roommates who are told what the data is have it.
LEMMA ViewStep ==
    ASSUME NEW d, DOMAIN d = DOMAIN Default, NEW m, Good(m)
    PROVE  Written(d, Share(Written(d, m), m)) = Written(d, m)
  BY ShareIs

\* Sprites are sent with their index, neither of which may be the default.
LEMMA SpriteStep ==
    ASSUME NEW d, DOMAIN d = DOMAIN Default, d.sprite = 0 <=> d.index = -1, NEW m, Good(m)
    PROVE  Written(d, m).sprite = 0 <=> Written(d, m).index = -1
  <1> DEFINE e == Written(d, m)
  <1>1. CASE m.kind = "Sprite"
    <2>1. Fields("Sprite") = <<"sprite", "index">> /\ Types("Sprite") = <<"string", "int32">>
          /\ Limits("Sprite") = <<Sprites, Natural>>
      BY DEF Fields, Types, Position, Flashes, Limits, LimitsOf
    <2>2. Len(m.parts) = 2 /\ m.parts[1] \in Sprites /\ m.parts[2] \in Natural
      <3>1. Types(m.kind) = <<"string", "int32">> /\ Limits(m.kind) = <<Sprites, Natural>>
        BY <1>1, <2>1
      <3>2. Len(m.parts) = Len(Types(m.kind)) /\ \A j \in 1..Len(m.parts) : m.parts[j] \in Limits(m.kind)[j]
        BY ONLY Good(m), Zenon DEF Good, validateMessage
      <3>3. Len(m.parts) = 2
        BY <3>1, <3>2
      <3>4. m.parts[1] \in Limits(m.kind)[1] /\ m.parts[2] \in Limits(m.kind)[2]
        BY <3>2, <3>3
      <3> QED
        BY ONLY <3>1, <3>3, <3>4
    <2>3. e["sprite"] = m.parts[1] /\ e["index"] = m.parts[2]
      <3>1. Len(Fields(m.kind)) = 2 /\ Fields(m.kind)[1] = "sprite" /\ Fields(m.kind)[2] = "index"
        BY <1>1, <2>1
      <3> QED
        BY <3>1, WrittenField
    <2> HIDE DEF e
    <2> QED
      BY <2>2, <2>3, PacketsAssumption DEF Natural, e
  <1>2. CASE m.kind # "Sprite"
    <2>1. \A j \in 1..Len(Fields(m.kind)) : Fields(m.kind)[j] \notin {"sprite", "index"}
      <3>1. Fields(m.kind) \in {<<"x", "y">>, <<"speed">>, <<"facing">>, <<"hidden">>, <<"sysName">>,
                               <<"transparency">>, <<>>}
        BY <1>2 DEF Fields
      <3> QED
        BY <3>1
    <2>2. "sprite" \in DOMAIN Default /\ "index" \in DOMAIN Default
      BY DEF Default
    <2>3. e["sprite"] = d["sprite"] /\ e["index"] = d["index"]
      <3>1. \A f \in DOMAIN Default :
               (\A j \in 1..Len(Fields(m.kind)) : Fields(m.kind)[j] # f) => e[f] = d[f]
        BY WrittenRest
      <3>2. \A j \in 1..Len(Fields(m.kind)) :
               Fields(m.kind)[j] # "sprite" /\ Fields(m.kind)[j] # "index"
        BY <2>1
      <3> HIDE DEF e
      <3> QED
        BY <2>2, <3>1, <3>2, Zenon
    <2> HIDE DEF e
    <2> QED
      BY <2>3 DEF e
  <1> QED
    BY <1>1, <1>2

\* An introduction that leaves the defaults out still says what the data is.
LEMMA IntroducedIs ==
    ASSUME NEW d, DOMAIN d = DOMAIN Default, d = [f \in DOMAIN Default |-> d[f]],
           d.sprite = 0 <=> d.index = -1
    PROVE  Introduced(d) = d
  <1>1. ASSUME NEW f \in DOMAIN Default PROVE (IF f \in Intro(d) THEN d[f] ELSE Default[f]) = d[f]
    BY <1>1 DEF Intro, Default
  <1> QED
    BY <1>1, Zenon DEF Introduced

\* What is known of a handler that is at its messages.
LEMMA AtMessages ==
    ASSUME LooksInv, NEW w \in Worker, pc[w] # "idle"
    PROVE  /\ doing[w] = taken /\ taken \in 1..Len(wire) /\ wire \in Seq(Packet)
           /\ pc \in [Worker -> PCs] /\ msgs(w) = wire[taken].body
           /\ \A v \in Worker \ {w} : pc[v] = "idle"
  BY DEF LooksInv, PacketsInv, OrderInv, Shapes, AtWork, Alone, Busy, msgs

\* Nothing but Parse and Validate lets a packet further.
LEMMA PassedStep ==
    ASSUME LooksInv, [Next]_vars
    PROVE  Passed'
  <1>1. /\ pc \in [Worker -> PCs] /\ wire \in Seq(Packet) /\ taken \in 0..Len(wire) /\ Passed
    BY DEF LooksInv, PacketsInv, OrderInv, Shapes
  <1>2. ASSUME NEW p \in Packet, SendPacket(p) PROVE Passed'
    <2>1. pc' = pc /\ taken' = taken /\ wire' = Append(wire, p)
      BY <1>2 DEF SendPacket, workVars
    <2>2. \A w \in Worker : pc[w] # "idle" => wire'[taken'] = wire[taken]
      BY <1>1, <2>1, AtMessages
    <2> QED
      BY <1>1, <2>1, <2>2 DEF Passed
  <1>3. ASSUME NEW w \in Worker, OnMessage(w) PROVE Passed'
    BY <1>1, <1>3 DEF Passed, OnMessage, ParallelEnabled, Goto
  <1>4. ASSUME NEW w \in Worker, UNCHANGED <<wire, taken>>, pc[w] # "idle",
               \/ pc' = [pc EXCEPT ![w] = "parse"] \/ pc' = [pc EXCEPT ![w] = "idle"]
               \/ pc' = [pc EXCEPT ![w] = "validate"] /\ Deserialize(msgs(w))
               \/ /\ pc' = [pc EXCEPT ![w] = "process"]
                  /\ Deserialize(wire[taken].body) /\ Validated(msgs(w))
        PROVE  Passed'
    <2>1. msgs(w) = wire[taken].body /\ \A v \in Worker \ {w} : pc[v] = "idle"
      BY <1>4, AtMessages
    <2> QED
      BY <1>1, <1>4, <2>1 DEF Passed
  <1>5. ASSUME NEW w \in Worker, Accept(w) \/ Parse(w) \/ Validate(w) \/ Drop(w) PROVE Passed'
    BY <1>1, <1>4, <1>5 DEF Accept, Parse, Validate, Drop, Goto, clientVars, Passed
  <1>6. ASSUME NEW w \in Worker, processMessage(w) \/ SwitchRoom(w) PROVE Passed'
    <2>1. /\ UNCHANGED <<wire, taken>> /\ pc[w] = "process"
          /\ pc' = [pc EXCEPT ![w] = "idle"] \/ pc' = [pc EXCEPT ![w] = "process"]
      BY <1>6 DEF processMessage, SwitchRoom, Advance, Goto
    <2>2. Deserialize(wire[taken].body) /\ Validated(msgs(w))
      BY <1>1, <2>1, AtMessages DEF Passed
    <2> QED
      BY <1>4, <2>1, <2>2
  <1>7. CASE UNCHANGED vars
    BY <1>1, <1>7 DEF vars, workVars, clientVars, Passed
  <1> QED
    BY <1>2, <1>3, <1>5, <1>6, <1>7 DEF Next, Rest

\* The player is introduced as it is, and whoever has been there sees each change.
LEMMA DressedStep ==
    ASSUME LooksInv, [Next]_vars
    PROVE  Dressed'
  <1>1. Dressed
    BY DEF LooksInv
  <1>2. CASE UNCHANGED <<room, data, view>>
    BY <1>1, <1>2 DEF Dressed
  <1>3. ASSUME NEW w \in Worker, processMessage(w) PROVE Dressed'
    <2> DEFINE m == msgs(w)[nth[w]]
    <2>1. Good(m)
      BY <1>3, GoodMessages DEF processMessage
    <2>2. /\ room' = room /\ data' = Written(data, m)
          /\ view' = IF room \in SPMaps THEN view ELSE Written(view, Share(data', m))
      BY <1>3 DEF processMessage
    <2> HIDE DEF m
    <2>3. DOMAIN data' = DOMAIN Default /\ data' = [f \in DOMAIN Default |-> data'[f]]
      BY <1>1, <2>2, WrittenRest DEF Dressed
    <2>4. data'.sprite = 0 <=> data'.index = -1
      BY <1>1, <2>1, <2>2, SpriteStep DEF Dressed
    <2>5. ASSUME room \notin SPMaps PROVE view' = data'
      <3>1. view' = Written(data, Share(Written(data, m), m))
        BY <1>1, <2>2, <2>5 DEF Dressed
      <3> QED
        BY <1>1, <2>1, <2>2, <3>1, ViewStep DEF Dressed
    <2> QED
      BY <1>1, <2>2, <2>3, <2>4, <2>5 DEF Dressed
  <1>4. ASSUME NEW w \in Worker, SwitchRoom(w) PROVE Dressed'
    <2> DEFINE m == msgs(w)[nth[w]]
    <2>1. Good(m) /\ m.kind = "SwitchRoom"
      BY <1>4, GoodMessages DEF SwitchRoom
    <2>2. room' = m.parts[1] /\ data' = data /\ view' = Introduced(data)
      BY <1>4 DEF SwitchRoom
    <2> HIDE DEF m
    <2>3. room' \in Rooms
      <3>1. Types("SwitchRoom") = <<"int32">> /\ Limits("SwitchRoom") = <<Rooms>>
        BY DEF Types, Position, Flashes, Limits, LimitsOf
      <3>2. /\ Len(m.parts) = Len(Types(m.kind))
            /\ \A j \in 1..Len(m.parts) : m.parts[j] \in Limits(m.kind)[j]
        BY ONLY <2>1, Zenon DEF Good, validateMessage
      <3>3. Len(m.parts) = 1 /\ Limits(m.kind) = <<Rooms>>
        BY <2>1, <3>1, <3>2
      <3>4. m.parts[1] \in Limits(m.kind)[1]
        BY <3>2, <3>3
      <3> QED
        BY ONLY <2>2, <3>3, <3>4
    <2>4. view' = data
      BY <1>1, <2>2, IntroducedIs DEF Dressed
    <2> QED
      BY <1>1, <2>2, <2>3, <2>4 DEF Dressed
  <1> QED
    BY <1>2, <1>3, <1>4
    DEF Next, Rest, SendPacket, OnMessage, Accept, Parse, Validate, Drop, vars, clientVars

LEMMA LooksInit == Init => LooksInv
  BY PacketsInit DEF LooksInv, Passed, Dressed, Init, Default

LEMMA LooksStep == LooksInv /\ [Next]_vars => LooksInv'
  BY PacketsStep, PassedStep, DressedStep DEF LooksInv

\* Every message that is parsed and is within its limits is one that the game's
\* own client may send.
LegitComplete ==
    \A p \in Packet : \A j \in 1..Len(p.body) :
        Deserialize(<<p.body[j]>>) /\ Validated(<<p.body[j]>>) => p.body[j] \in Legit

ValidInv == LooksInv /\ DataValid

\* What is processed has been let through.
LEMMA LegitMessages ==
    ASSUME LegitComplete, LooksInv, NEW w \in Worker, pc[w] = "process"
    PROVE  msgs(w)[nth[w]] \in Legit
  <1> DEFINE b == wire[taken].body
             j == nth[w]
  <1>1. /\ msgs(w) = b /\ j \in 1..Len(b) /\ wire[taken] \in Packet
        /\ Deserialize(b) /\ Validated(b)
    BY AtMessages DEF LooksInv, PacketsInv, OrderInv, Shapes, AtWork, Busy, Passed
  <1>2. Deserialize(<<b[j]>>) /\ Validated(<<b[j]>>) => b[j] \in Legit
    BY <1>1 DEF LegitComplete
  <1> HIDE DEF b, j
  <1> DEFINE s == <<b[j]>>
  <1>3. \A i \in 1..Len(s) : s[i] = b[j]
    OBVIOUS
  <1>4. /\ b[j].kind \in Kinds /\ Len(b[j].parts) = Len(Types(b[j].kind))
        /\ \A k \in 1..Len(b[j].parts) : Parses(Types(b[j].kind)[k], b[j].parts[k])
        /\ validateMessage(b[j])
    BY ONLY <1>1, Zenon DEF Deserialize, Validated
  <1> HIDE DEF s
  <1>5. Deserialize(s) /\ Validated(s)
    BY ONLY <1>3, <1>4 DEF Deserialize, Validated
  <1> QED
    BY <1>1, <1>2, <1>5 DEF s, j

\* Everything that a player is seen to be comes from such messages.
LEMMA ValidStep ==
    ASSUME LegitComplete, ValidInv, [Next]_vars
    PROVE  DataValid'
  <1>1. LooksInv /\ DataValid /\ Dressed
    BY DEF ValidInv, LooksInv
  <1>2. CASE UNCHANGED <<data, shared>>
    BY <1>1, <1>2 DEF DataValid
  <1>3. ASSUME NEW w \in Worker, processMessage(w) PROVE DataValid'
    <2> DEFINE m == msgs(w)[nth[w]]
    <2>1. Good(m) /\ m \in Legit
      BY <1>1, <1>3, GoodMessages, LegitMessages DEF processMessage
    <2>2. /\ data' = Written(data, m)
          /\ shared' = IF room \in SPMaps THEN shared ELSE Share(data', m)
      BY <1>3 DEF processMessage
    <2> HIDE DEF m
    <2>3. shared' = Nothing \/ shared' \in Legit
      BY <1>1, <2>1, <2>2, ShareIs DEF DataValid, Dressed
    <2>4. ASSUME NEW f \in DOMAIN data', data'[f] # Default[f]
          PROVE  \E n \in Legit : \E j \in 1..Len(Fields(n.kind)) :
                    Fields(n.kind)[j] = f /\ n.parts[j] = data'[f]
      <3>1. f \in DOMAIN Default /\ DOMAIN data = DOMAIN Default
        BY <1>1, <2>2, WrittenRest DEF Dressed
      <3>2. CASE \E j \in 1..Len(Fields(m.kind)) : Fields(m.kind)[j] = f
        <4>1. PICK j \in 1..Len(Fields(m.kind)) : Fields(m.kind)[j] = f
          BY <3>2
        <4>2. m.parts[j] = data'[f]
          BY <2>2, <3>1, <4>1, WrittenField
        <4> QED
          BY <2>1, <4>1, <4>2
      <3>3. CASE \A j \in 1..Len(Fields(m.kind)) : Fields(m.kind)[j] # f
        <4>1. data'[f] = data[f]
          BY <2>2, <3>1, <3>3, WrittenRest
        <4> QED
          BY <1>1, <2>4, <3>1, <4>1 DEF DataValid
      <3> QED
        BY <3>2, <3>3
    <2> QED
      BY <2>3, <2>4 DEF DataValid
  <1>4. ASSUME NEW w \in Worker, SwitchRoom(w) PROVE DataValid'
    BY <1>2, <1>4 DEF SwitchRoom
  <1> QED
    BY <1>2, <1>3, <1>4
    DEF Next, Rest, SendPacket, OnMessage, Accept, Parse, Validate, Drop, vars, clientVars

-----------------------------------------------------------------------------

\* For packets of any number of messages, as many as are sent: they are applied
\* in the order in which they were sent, and wholly or not at all.
THEOREM PacketsWhole == Spec => []AllOrNothing
  <1>1. PacketsInv => AllOrNothing
    BY DEF PacketsInv, OrderInv, InOrder, Applied, AllOrNothing, Settled
  <1> QED
    BY <1>1, PacketsInit, PacketsStep, PTL DEF Spec

\* If each of the client's own messages is valid by itself, no packet of them is
\* dropped whatever came before it, and no counter is accepted again.
THEOREM LegitimateDelivered == ASSUME LegitValid PROVE Spec => []LegitDelivered
  <1>1. Init => DeliveredInv
    BY PacketsInit, CountedInit DEF DeliveredInv
  <1>2. DeliveredInv /\ [Next]_vars => DeliveredInv'
    BY PacketsStep, CountedStep DEF DeliveredInv
  <1>3. DeliveredInv => LegitDelivered
    BY DEF DeliveredInv, Counted, LegitDelivered, Fresh
  <1> QED
    BY <1>1, <1>2, <1>3, PTL DEF Spec

\* "So we look how we are meant to look on their screen": whoever has been in the
\* room and whoever enters it sees the player as it is, for all limits.
THEOREM RoommatesSeeTheSame == Spec => []RoommatesAgree
  <1>1. LooksInv => RoommatesAgree
    BY IntroducedIs DEF LooksInv, Dressed, RoommatesAgree
  <1> QED
    BY <1>1, LooksInit, LooksStep, PTL DEF Spec

\* If each message that passes the checks by itself is one of the client's own,
\* then whatever packets they come in, with whatever else and in whatever
\* order, nothing else shows in the player's data or is shared.
THEOREM LooksAreValid == ASSUME LegitComplete PROVE Spec => []DataValid
  <1>1. Init => ValidInv
    BY LooksInit DEF Init, ValidInv, DataValid
  <1>2. ValidInv /\ [Next]_vars => ValidInv'
    BY LooksStep, ValidStep DEF ValidInv
  <1>3. ValidInv => DataValid
    BY DEF ValidInv
  <1> QED
    BY <1>1, <1>2, <1>3, PTL DEF Spec
=============================================================================
