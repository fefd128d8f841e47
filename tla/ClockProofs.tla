----------------------------- MODULE ClockProofs -----------------------------
(***************************************************************************)
(* Proofs about SendLoop and Clock.                                        *)
(*                                                                         *)
(* SendLoop, for any users, messages, intervals and lag: LoopInv relates   *)
(* the timers to what the properties speak of.  The timer never goes past  *)
(* the end of the batch, the batch's age is what endMax has counted down,  *)
(* and the timer is set to sendDelay or, late in a batch, left at less.    *)
(*                                                                         *)
(* Clock, for any users, lengths of a minute and values: its variables     *)
(* keep their types, and whatever the clock sends, SendLoop is used as     *)
(* SendLoop specifies, so that its theorems hold of it.                    *)
(*                                                                         *)
(* What clients know: of everyone who is connected, NewestInv says that    *)
(* the newest packet is on its way (Background is at it), or is the last   *)
(* of its kind in the batch, or has been told; and by when.                *)
(***************************************************************************)
EXTENDS Clock, TLAPS

\* Of a batch that has begun.
TimersAgree(u) ==
    /\ endC[u] <= endMax[u]
    /\ age[u] = SendMaxInterval - endMax[u]
    /\ endC[u] + quiet[u] <= SendDelay
    /\ sent[u] = SendDelay \/ sent[u] + endC[u] >= SendDelay

LoopInv == LoopTypeOK /\ \A u \in User : InBatch(u) => TimersAgree(u)

-----------------------------------------------------------------------------

\* The timers and what is counted of a user's batch, as numbers.
LEMMA LoopRanges ==
    ASSUME LoopTypeOK, NEW u \in User
    PROVE  /\ endMax[u] \in Int /\ 0 - Lag <= endMax[u] /\ endMax[u] <= SendMaxInterval
           /\ endC[u] \in Int
           /\ InBatch(u) => 0 - Lag <= endC[u] /\ endC[u] <= SendMaxInterval
           /\ age[u] \in Nat /\ quiet[u] \in Nat /\ sent[u] \in 0..SendDelay
  <1>1. endMax[u] \in Timers /\ endC[u] \in Timers \cup {Nil}
    BY DEF LoopTypeOK
  <1>2. age[u] \in Nat /\ quiet[u] \in Nat /\ sent[u] \in 0..SendDelay
    <2>1. age[u] \in 0..SendMaxInterval + Lag /\ quiet[u] \in 0..SendMaxInterval + Lag
      BY DEF LoopTypeOK
    <2> QED
      BY <2>1, SendLoopAssumption DEF LoopTypeOK
  <1> QED
    BY <1>1, <1>2, SendLoopAssumption DEF InBatch, Timers, Nil

\* A SendLoop starts outside a batch.
LEMMA LoopInitInv == LoopInit => LoopInv
  BY SendLoopAssumption
  DEF LoopInit, LoopInv, LoopTypeOK, InBatch, Nil, Timers

\* What is sent is added to the batch.
LEMMA SendsType ==
    ASSUME LoopTypeOK, NEW u \in User, NEW msgs \in Sends
    PROVE  [pending EXCEPT ![u] = @ \o msgs] \in [User -> Seq(Message)]
  <1>1. msgs \in Seq(Message)
    <2>1. CASE msgs = <<>>
      BY <2>1
    <2>2. ASSUME NEW m \in Message, msgs = <<m>> PROVE msgs \in Seq(Message)
      BY <2>2
    <2> QED
      BY <2>1, <2>2 DEF Sends
  <1>2. pending[u] \o msgs \in Seq(Message)
    BY <1>1 DEF LoopTypeOK
  <1> QED
    BY <1>2 DEF LoopTypeOK

\* A message sets the timer within the batch, whichever it belongs to.
LEMMA ReceiveInv ==
    ASSUME LoopInv, NEW u \in User, NEW msgs \in Sends, Receive(u, msgs)
    PROVE  LoopInv'
  <1> USE SendLoopAssumption DEF LoopInv, LoopTypeOK, InBatch, Nil, Timers
  <1>1. pending' \in [User -> Seq(Message)]
    BY SendsType DEF Receive
  <1>2. TimeLeft(u) \in Timers /\ TimerAfter(u) \in Timers
    BY LoopRanges DEF TimeLeft, TimerAfter, TimersAgree
  <1>3. LoopTypeOK'
    <2>1. endMax' \in [User -> Timers] /\ endC' \in [User -> Timers \cup {Nil}]
      BY <1>2 DEF Receive
    <2>2. /\ age' \in [User -> 0..SendMaxInterval + Lag]
          /\ quiet' \in [User -> 0..SendMaxInterval + Lag]
      BY DEF Receive
    <2> QED
      BY <1>1, <2>1, <2>2 DEF Receive
  <1>4. TimersAgree(u)'
    <2>1. CASE InBatch(u)
      BY <2>1, <1>2 DEF Receive, TimeLeft, TimerAfter, TimersAgree
    <2>2. CASE ~InBatch(u)
      BY <2>2, <1>2 DEF Receive, TimeLeft, TimerAfter, TimersAgree
    <2> QED
      BY <2>1, <2>2
  <1>5. ASSUME NEW v \in User \ {u}, InBatch(v)' PROVE TimersAgree(v)'
    BY <1>5 DEF Receive, TimersAgree
  <1> QED
    BY <1>3, <1>4, <1>5

\* The clock never passes a timer by more than Lag.
LEMMA LoopTickInv == ASSUME LoopInv, LoopTick PROVE LoopInv'
  <1>a. ASSUME NEW u \in User
        PROVE  /\ endMax[u] \in Int /\ endMax[u] <= SendMaxInterval /\ endC[u] \in Int
               /\ age[u] \in Nat /\ quiet[u] \in Nat /\ sent[u] \in 0..SendDelay
    BY LoopRanges DEF LoopInv
  <1> USE SendLoopAssumption DEF LoopInv, LoopTypeOK, InBatch, Nil, Timers
  <1>1. ASSUME NEW u \in User, InBatch(u)
        PROVE  /\ endC[u] - 1 \in Timers /\ endMax[u] - 1 \in Timers
               /\ age[u] + 1 \in 0..SendMaxInterval + Lag
               /\ quiet[u] + 1 \in 0..SendMaxInterval + Lag
    <2>1. endC[u] > 0 - Lag
      BY <1>1 DEF LoopTick
    <2>2. TimersAgree(u)
      BY <1>1
    <2>3. /\ endC[u] \in Int /\ endMax[u] \in Int /\ age[u] \in Nat /\ quiet[u] \in Nat
          /\ endMax[u] <= SendMaxInterval
      BY <1>a
    <2> QED
      BY ONLY <2>1, <2>2, <2>3, SendLoopAssumption DEF Timers, TimersAgree
  <1>2. LoopTypeOK'
    <2>1. /\ endMax' \in [User -> Timers] /\ endC' \in [User -> Timers \cup {Nil}]
      BY <1>1 DEF LoopTick
    <2>2. /\ age' \in [User -> 0..SendMaxInterval + Lag]
          /\ quiet' \in [User -> 0..SendMaxInterval + Lag]
      BY <1>1 DEF LoopTick
    <2>3. sent' \in [User -> 0..SendDelay]
      BY DEF LoopTick
    <2> QED
      BY <2>1, <2>2, <2>3 DEF LoopTick
  <1>3. ASSUME NEW u \in User, InBatch(u)' PROVE TimersAgree(u)'
    <2>1. InBatch(u) /\ TimersAgree(u)
      BY <1>3 DEF LoopTick
    <2>2. /\ endC'[u] = endC[u] - 1 /\ endMax'[u] = endMax[u] - 1
          /\ age'[u] = age[u] + 1 /\ quiet'[u] = quiet[u] + 1
          /\ sent'[u] = IF sent[u] < SendDelay THEN sent[u] + 1 ELSE SendDelay
      BY <2>1 DEF LoopTick
    <2>3. /\ endC[u] \in Int /\ endMax[u] \in Int /\ age[u] \in Int /\ quiet[u] \in Int
          /\ sent[u] \in 0..SendDelay
      BY <1>a
    <2>4. endC'[u] <= endMax'[u] /\ age'[u] = SendMaxInterval - endMax'[u]
      BY ONLY <2>1, <2>2, <2>3, SendLoopAssumption DEF TimersAgree
    <2>5. endC'[u] + quiet'[u] <= SendDelay
      BY ONLY <2>1, <2>2, <2>3, SendLoopAssumption DEF TimersAgree
    <2>6. sent'[u] = SendDelay \/ sent'[u] + endC'[u] >= SendDelay
      BY ONLY <2>1, <2>2, <2>3, SendLoopAssumption DEF TimersAgree
    <2> QED
      BY <2>4, <2>5, <2>6 DEF TimersAgree
  <1> QED
    BY <1>2, <1>3

\* Every step keeps the invariant.
LEMMA LoopStepInv == LoopInv /\ [LoopNext]_loopVars => LoopInv'
  <1> SUFFICES ASSUME LoopInv, [LoopNext]_loopVars PROVE LoopInv'
    OBVIOUS
  <1> USE SendLoopAssumption DEF LoopInv, LoopTypeOK, InBatch, Nil, Timers
  <1>1. CASE LoopTick
    BY <1>1, LoopTickInv
  <1>2. ASSUME NEW u \in User, Serve(u) PROVE LoopInv'
    BY <1>2 DEF Serve, historyVars, TimersAgree
  <1>3. ASSUME NEW u \in User, Flush(u) PROVE LoopInv'
    <2>1. pending' \in [User -> Seq(Message)]
      BY <1>3 DEF Flush
    <2> QED
      BY <1>3, <2>1 DEF Flush, TimersAgree
  <1>4. ASSUME NEW u \in User, CloseOutbox(u) PROVE LoopInv'
    <2>1. pending' \in [User -> Seq(Message)]
      BY <1>4 DEF CloseOutbox
    <2> QED
      BY <1>4, <2>1 DEF CloseOutbox, historyVars, TimersAgree
  <1>5. ASSUME NEW u \in User, NEW msgs \in Sends, Receive(u, msgs) PROVE LoopInv'
    BY <1>5, ReceiveInv
  <1>6. CASE UNCHANGED loopVars
    BY <1>6 DEF loopVars, historyVars, TimersAgree
  <1> QED
    BY <1>1, <1>2, <1>3, <1>4, <1>5, <1>6 DEF LoopNext

\* The invariant implies the two bounds.
LEMMA LoopInvImplies == LoopInv => LoopTypeOK /\ BatchBounded /\ QuietEnds
  BY SendLoopAssumption
  DEF LoopInv, LoopTypeOK, InBatch, Nil, Timers, TimersAgree, BatchBounded, QuietEnds

\* A batch ends at its flush, when its timer has fired.
LEMMA FlushInv ==
    ASSUME LoopInv, [LoopNext]_loopVars, NEW u \in User,
           InBatch(u), u \in served', endC'[u] = Nil
    PROVE  sent[u] = SendDelay
  <1> USE SendLoopAssumption DEF LoopInv, LoopTypeOK, InBatch, Nil, Timers
  <1>1. CASE LoopTick
    BY <1>1 DEF LoopTick
  <1>2. ASSUME NEW v \in User, Serve(v) PROVE FALSE
    BY <1>2 DEF Serve
  <1>3. ASSUME NEW v \in User, Flush(v) PROVE sent[u] = SendDelay
    BY <1>3 DEF Flush, TimersAgree
  <1>4. ASSUME NEW v \in User, CloseOutbox(v) PROVE FALSE
    BY <1>4 DEF CloseOutbox
  <1>5. ASSUME NEW v \in User, NEW msgs \in Sends, Receive(v, msgs) PROVE FALSE
    <2>1. TimerAfter(v) \in Timers
      BY DEF TimeLeft, TimerAfter, TimersAgree
    <2>2. endC'[u] \in {TimerAfter(v), endC[u]}
      BY <1>5 DEF Receive
    <2>3. TimerAfter(v) # Nil
      BY <2>1
    <2> QED
      BY <2>2, <2>3
  <1>6. CASE UNCHANGED loopVars
    BY <1>6 DEF loopVars
  <1> QED
    BY <1>1, <1>2, <1>3, <1>4, <1>5, <1>6 DEF LoopNext

-----------------------------------------------------------------------------

\* The loop's variables keep their types.
THEOREM LoopTypeCorrect == LoopSpec => []LoopTypeOK
  BY LoopInitInv, LoopStepInv, LoopInvImplies, PTL DEF LoopSpec

\* No batch is older than sendMaxInterval, but for the lag, whatever comes in.
THEOREM BatchesEnd == LoopSpec => []BatchBounded
  BY LoopInitInv, LoopStepInv, LoopInvImplies, PTL DEF LoopSpec

\* A batch is sent sendDelay after its last message, but for the lag.
THEOREM QuietBatchesEnd == LoopSpec => []QuietEnds
  BY LoopInitInv, LoopStepInv, LoopInvImplies, PTL DEF LoopSpec

\* Batches are at least sendDelay apart.
THEOREM PacketRateLow == LoopSpec => RateLow
  <1>1. LoopInv /\ [LoopNext]_loopVars
          => [\A u \in User : InBatch(u) /\ u \in served' /\ endC'[u] = Nil
                => sent[u] = SendDelay]_loopVars
    BY FlushInv
  <1> QED
    BY LoopInitInv, LoopStepInv, <1>1, PTL DEF LoopSpec, RateLow

-----------------------------------------------------------------------------
(* The clock of Collective Unconscious                                      *)

\* A quotient is below the factor that bounds the dividend.
LEMMA QuotientBound ==
    ASSUME NEW a \in Nat, NEW b \in Nat \ {0}, NEW c \in Nat, a < b * c
    PROVE  a \div b \in 0..c - 1
  <1> DEFINE q == a \div b
  <1>1. q \in Nat /\ a = b * q + (a % b) /\ a % b \in 0..b - 1
    BY Z3
  <1>2. b * q < b * c
    BY <1>1, Z3
  <1>3. q < c
    <2>1. SUFFICES ASSUME q >= c PROVE FALSE
      BY <1>1
    <2>2. b * c <= b * q
      BY <1>1, <2>1, Z3
    <2> QED
      BY <1>1, <1>2, <2>2
  <1> QED
    BY <1>1, <1>3

\* The minute is a positive number of ticks, and the hour one of the cycle.
LEMMA MinuteFacts == Minute \in Nat \ {0} /\ Cycle * Minute \in Nat \ {0}
  <1>1. \A a, b \in Nat \ {0} : a * b \in Nat \ {0}
    BY Z3
  <1> QED
    BY <1>1, ClockAssumption DEF Minute

\* The hour of the game is one of the cycle's.
LEMMA HourType == ASSUME TypeOK PROVE Hour \in 0..Cycle - 1
  <1>1. now \in Nat /\ now < Minute * Cycle
    <2>1. Minute * Cycle = Cycle * Minute
      BY MinuteFacts, ClockAssumption
    <2> QED
      BY <2>1, MinuteFacts DEF TypeOK
  <1> QED
    BY <1>1, QuotientBound, MinuteFacts, ClockAssumption DEF Hour

\* The tickers are never set to a time that is not in the future, or is more than
\* a minute away.
LEMMA Until59Type == ASSUME NEW t \in 0..Minute - 1 PROVE getUntil59(t) \in 1..Minute
  <1> DEFINE second == (t % Minute) \div SecondTicks
             until == Seconds - 1 - second
             wait == IF until <= 0 THEN until + Seconds ELSE until
  <1>1. t % Minute = t
    BY MinuteFacts
  <1>2. second \in 0..Seconds - 1
    <2>1. t \in Nat /\ t < SecondTicks * Seconds
      BY MinuteFacts, ClockAssumption DEF Minute
    <2> QED
      BY <1>1, <2>1, QuotientBound, ClockAssumption
  <1>3. wait \in 1..Seconds
    BY <1>2, ClockAssumption
  <1>4. \A a, b \in Nat \ {0} : \A k \in 1..a : b * k \in 1..a * b
    BY Z3
  <1>5. SecondTicks * wait \in 1..Minute
    BY <1>3, <1>4, ClockAssumption DEF Minute
  <1> QED
    BY <1>5 DEF getUntil59

-----------------------------------------------------------------------------

\* What is broadcast is a message of the loop's.
LEMMA PacketType ==
    ASSUME TypeOK PROVE GetTimePacket \in Packet /\ GetWeatherPacket \in Packet
  BY HourType DEF TypeOK, GetTimePacket, GetWeatherPacket, Packet

\* Every step of the clock is one of the loop's, or changes nothing of it.
LEMMA ClockLoopStep == TypeOK /\ [Next]_vars => [LoopNext]_loopVars
  <1> SUFFICES ASSUME TypeOK, [Next]_vars PROVE [LoopNext]_loopVars
    OBVIOUS
  <1>1. CASE Tick
    BY <1>1 DEF Tick, LoopNext
  <1>2. CASE Background
    <2>1. ASSUME NEW u \in User, BroadcastSend(u) PROVE LoopNext
      <3>1. packet \in Message
        BY <2>1, ClockAssumption DEF TypeOK, BroadcastSend
      <3>2. Receive(u, <<packet>>) /\ <<packet>> \in Sends
        BY <2>1, <3>1 DEF BroadcastSend, Sends
      <3> QED
        BY <3>2 DEF LoopNext
    <2> QED
      BY <1>2, <2>1
      DEF Background, OnTimeTick, OnWeatherTick, OnWeatherTickPrecip, BroadcastBegin, BroadcastEnd
  <1>3. ASSUME NEW u \in User, Connection(u) PROVE [LoopNext]_loopVars
    <2>1. CASE Chatter(u)
      <3>1. Receive(u, <<>>) /\ <<>> \in Sends
        BY <2>1 DEF Chatter, Sends
      <3> QED
        BY <3>1 DEF LoopNext
    <2>2. CASE OnOpen(u)
      BY <2>2 DEF OnOpen, LoopNext
    <2>3. CASE SendBatch(u)
      BY <2>3 DEF SendBatch, LoopNext
    <2>4. CASE OnClose(u)
      BY <2>4 DEF OnClose, LoopNext
    <2> QED
      BY <1>3, <2>1, <2>2, <2>3, <2>4
      DEF Connection, InitialTime, InitialTemp, InitialPrecip, OpenStep, SendInitial
  <1>4. CASE UNCHANGED vars
    BY <1>4 DEF vars
  <1> QED
    BY <1>1, <1>2, <1>3, <1>4 DEF Next

ClockInv == TypeOK /\ LoopInv

\* The server starts with types and tickers in order.
LEMMA ClockInitInv == Init => ClockInv
  <1> SUFFICES ASSUME Init PROVE ClockInv
    OBVIOUS
  <1>1. LoopInv
    BY LoopInitInv DEF Init
  <1>2. now \in 0..Minute - 1
    BY ClockAssumption DEF Init
  <1>3. now \in 0..Cycle * Minute - 1
    <2>1. \A a, b \in Nat \ {0} : b <= a * b
      BY Z3
    <2>2. Minute <= Cycle * Minute
      BY <2>1, MinuteFacts, ClockAssumption
    <2> QED
      BY <1>2, <2>2, MinuteFacts
  <1>4. getUntil59(now) \in 1..2 * Minute
    BY <1>2, Until59Type, MinuteFacts
  <1>5. served = {}
    BY DEF Init, LoopInit
  <1> QED
    BY <1>1, <1>3, <1>4, <1>5, SendLoopAssumption DEF ClockInv, LoopInv, Init, TypeOK, Ticker

\* Background keeps the types.
LEMMA BackgroundType == ASSUME TypeOK, LoopTypeOK', Background PROVE TypeOK'
  <1> USE DEF TypeOK, tickerVars, counVars, bgVars, openVars
  <1>1. \A t \in Ticker : Period(t) \in 1..2 * Minute
    BY MinuteFacts DEF Period
  <1>2. CASE OnTimeTick
    BY <1>1, <1>2 DEF OnTimeTick, Reset, Ticker, loopVars
  <1>3. CASE OnWeatherTick
    BY <1>1, <1>3 DEF OnWeatherTick, Reset, Ticker, loopVars
  <1>4. CASE OnWeatherTickPrecip
    BY <1>4 DEF OnWeatherTickPrecip, loopVars
  <1>5. CASE BroadcastBegin
    BY <1>5, PacketType DEF BroadcastBegin, Registered, loopVars
  <1>6. ASSUME NEW u \in User, BroadcastSend(u) PROVE TypeOK'
    BY <1>6 DEF BroadcastSend, Receive
  <1>7. CASE BroadcastEnd
    BY <1>7, SendLoopAssumption DEF BroadcastEnd, loopVars
  <1> QED
    BY <1>2, <1>3, <1>4, <1>5, <1>6, <1>7 DEF Background

\* The users' connections keep the types.
LEMMA ConnectionType ==
    ASSUME TypeOK, LoopTypeOK', NEW u \in User, Connection(u) PROVE TypeOK'
  <1> USE DEF TypeOK, tickerVars, counVars, bgVars, openVars
  <1>1. CASE OnOpen(u)
    BY <1>1 DEF OnOpen, Serve
  <1>2. CASE InitialTime(u)
    BY <1>2 DEF InitialTime, OpenStep, loopVars
  <1>3. CASE InitialTemp(u)
    BY <1>3 DEF InitialTemp, OpenStep, loopVars
  <1>4. CASE InitialPrecip(u)
    BY <1>4 DEF InitialPrecip, OpenStep, loopVars
  <1>5. CASE SendInitial(u)
    BY <1>5, SendLoopAssumption DEF SendInitial, loopVars
  <1>6. CASE Chatter(u)
    BY <1>6 DEF Chatter, Receive
  <1>7. CASE SendBatch(u)
    BY <1>7 DEF SendBatch, Flush
  <1>8. CASE OnClose(u)
    BY <1>8 DEF OnClose, UsersFree, CloseOutbox
  <1> QED
    BY <1>1, <1>2, <1>3, <1>4, <1>5, <1>6, <1>7, <1>8 DEF Connection

\* Time passes within the types.
LEMMA TickType == ASSUME TypeOK, LoopTypeOK', Tick PROVE TypeOK'
  <1>1. now' \in 0..Cycle * Minute - 1
    BY MinuteFacts DEF Tick, TypeOK
  <1>2. left' \in [Ticker -> 1..2 * Minute]
    BY MinuteFacts DEF Tick, TypeOK, Period, Ticker
  <1>3. due' \subseteq Ticker
    BY DEF Tick, TypeOK
  <1>4. bgLate' \in 0..Lag
    BY SendLoopAssumption DEF Tick, TypeOK
  <1>5. openLate' \in [User -> 0..Lag]
    BY SendLoopAssumption DEF Tick, TypeOK
  <1> QED
    BY <1>1, <1>2, <1>3, <1>4, <1>5 DEF Tick, LoopTick, TypeOK, counVars

\* Every step keeps the invariant.
LEMMA ClockStepInv == ClockInv /\ [Next]_vars => ClockInv'
  <1> SUFFICES ASSUME ClockInv, [Next]_vars PROVE ClockInv'
    OBVIOUS
  <1>1. LoopInv' /\ LoopTypeOK'
    BY ClockLoopStep, LoopStepInv DEF ClockInv, LoopInv
  <1>2. CASE Tick
    BY <1>1, <1>2, TickType DEF ClockInv
  <1>3. CASE Background
    BY <1>1, <1>3, BackgroundType DEF ClockInv
  <1>4. ASSUME NEW u \in User, Connection(u) PROVE ClockInv'
    BY <1>1, <1>4, ConnectionType DEF ClockInv
  <1>5. CASE UNCHANGED vars
    BY <1>1, <1>5 DEF ClockInv, TypeOK, vars, loopVars, counVars, tickerVars, bgVars, openVars
  <1> QED
    BY <1>1, <1>2, <1>3, <1>4, <1>5 DEF Next

-----------------------------------------------------------------------------

\* The clock's variables keep their types, and no ticker is set to no time.
THEOREM ClockTypeCorrect == Spec => []TypeOK
  <1>1. ClockInv => TypeOK
    BY DEF ClockInv
  <1> QED
    BY ClockInitInv, ClockStepInv, <1>1, PTL DEF Spec

\* The clock and the connections use their SendLoops as SendLoop specifies.
THEOREM ClockImplementsLoop == Spec => LoopSpec
  <1>1. Init => LoopInit
    BY DEF Init
  <1>2. ClockInv => TypeOK
    BY DEF ClockInv
  <1> QED
    BY ClockInitInv, ClockStepInv, <1>1, <1>2, ClockLoopStep, PTL DEF Spec, LoopSpec

\* What holds of SendLoop holds when the clock broadcasts through it: batches
\* are sent in time and not too often.
THEOREM ClockBatches == Spec => []BatchBounded /\ []QuietEnds /\ RateLow
  BY ClockImplementsLoop, BatchesEnd, QuietBatchesEnd, PacketRateLow

-----------------------------------------------------------------------------
(* What the clients know.                                                   *)

\* Goroutines are late by less than a SendLoop waits, and by little of a minute.
Timely == Lag < SendDelay /\ 3 * Lag < Minute

Other(t) == IF t = "time" THEN "weather" ELSE "time"

\* Background is at a tick of the ticker.
Handling(t) ==
    \/ bgPc = "time" /\ t = "time"
    \/ bgPc \in {"precip", "weather"} /\ t = "weather"
    \/ bgPc = "send" /\ t = packet.kind

\* When Background comes to a tick: after the one before it at the latest.
InTime(t) ==
    /\ left[t] <= Period(t)
    /\ t \in due => /\ Fired(t) <= Lag + bgLate
                    /\ bgPc # "idle" \/ Other(t) \in due => Fired(t) <= bgLate
                    /\ Fired(t) <= bgLate \/ Fired(Other(t)) <= 2 * Lag + bgLate
    /\ Handling(t) => t \notin due /\ Fired(t) <= Lag + bgLate

TickersInTime == \A t \in Ticker : InTime(t)

\* A connection that opens has gathered its packets, and has no batch yet whose
\* time is over.
Gathers(u) ==
    /\ Opening(u) /\ InBatch(u) => endC[u] >= SendDelay - openLate[u]
    /\ ~Opening(u) => openLate[u] = 0
    /\ opening[u] = "open" => DOMAIN client[u] = Ticker
    /\ opening[u] # "open" => client[u] = <<>>
    /\ u \notin served => ~InBatch(u)
    /\ ~InBatch(u) => pending[u] = <<>>
    /\ opening[u] = "temp" => initial[u] = <<initial[u][1]>>
    /\ opening[u] \in {"precip", "send"} =>
          /\ initial[u] = <<initial[u][1], initial[u][2]>>
          /\ initial[u][2] \in Packet /\ initial[u][2].kind = "weather"
    /\ opening[u] \in {"temp", "precip", "send"} => initial[u][1].kind = "time"

Gathering ==
    /\ client = [u \in User |-> client[u]] /\ initial = [u \in User |-> initial[u]]
    /\ \A u \in User : Gathers(u)

\* An hour that has been read since the ticker fired, if it has not fired again.
HourIs(h) == h = Hour \/ (h = (Hour + Cycle - 1) % Cycle /\ now % Minute < Fired("time"))

Current(t, p) ==
    IF t = "time" THEN p[2] = randInt /\ ("time" \in due \/ HourIs(p[1])) ELSE p = <<temp, precip>>

Content(p) == <<p.first, p.second>>

\* The user is still to be sent the newest packet.
Upcoming(u, t) == Handling(t) /\ (bgPc = "send" => u \in todo)

\* The last that the user has been or is going to be told is the newest.
Knows(u, t) ==
    /\ \A i \in LastOf(pending[u], t) : Current(t, Content(pending[u][i]))
    /\ LastOf(pending[u], t) = {} =>
          /\ opening[u] = "open" => Current(t, client[u][t])
          /\ opening[u] \in {"temp", "precip", "send"} /\ t = "time" =>
                Current(t, Content(initial[u][1]))
          /\ opening[u] = "precip" /\ t = "weather" => initial[u][2].first = temp
          /\ opening[u] = "send" /\ t = "weather" => Current(t, Content(initial[u][2]))

\* Packets do not stay in a batch for long.
Fresh(u, t) == LastOf(pending[u], t) # {} => InBatch(u) /\ Fired(t) <= 2 * Lag + age[u]

Informed(u, t) == (Upcoming(u, t) \/ Knows(u, t)) /\ Fresh(u, t)

SendsCurrent == bgPc = "send" => Current(packet.kind, Content(packet))

EveryoneInformed == \A u \in served : \A t \in Ticker : Informed(u, t)

NewestInv ==
    ClockInv /\ TickersInTime /\ Gathering /\ SendsCurrent /\ EveryoneInformed

-----------------------------------------------------------------------------

\* The durations as numbers.
LEMMA Durations ==
    ASSUME ClockInv, NEW t \in Ticker
    PROVE  /\ Minute \in Nat \ {0} /\ Period(t) \in {Minute, 2 * Minute}
           /\ left[t] \in Nat \ {0} /\ Fired(t) = Period(t) - left[t]
           /\ bgLate \in 0..Lag /\ Lag \in Nat /\ Other(t) \in Ticker /\ Other(Other(t)) = t
           /\ Other(t) # t /\ Ticker = {t, Other(t)}
  <1>1. left[t] \in 1..2 * Minute /\ bgLate \in 0..Lag
    BY DEF ClockInv, TypeOK
  <1> QED
    BY <1>1, MinuteFacts, SendLoopAssumption DEF Period, Fired, Other, Ticker

\* Time passes, and the tickers count down and fire in time.
LEMMA TickInTime ==
    ASSUME Timely, ClockInv, TickersInTime, Tick
    PROVE  TickersInTime'
  <1> SUFFICES ASSUME NEW t \in Ticker PROVE InTime(t)'
    BY DEF TickersInTime
  <1> DEFINE s == Other(t)
  <1>1. /\ s \in Ticker /\ Other(s) = t /\ s # t /\ InTime(t) /\ InTime(s)
        /\ Ticker = {t, s}
    BY Durations DEF TickersInTime
  <1>2. ASSUME NEW r \in Ticker
        PROVE  /\ left'[r] = IF left[r] = 1 THEN Period(r) ELSE left[r] - 1
               /\ r \in due' <=> r \in due \/ left[r] = 1
               /\ Period(r) \in Nat \ {0} /\ Period(r) >= Minute /\ left[r] \in Nat \ {0}
               /\ Fired(r) = Period(r) - left[r] /\ Fired(r)' = Period(r) - left'[r]
    BY Durations DEF Tick, Fired, Ticker
  <1>3. /\ bgPc' = bgPc /\ packet' = packet
        /\ BackgroundBusy => bgLate < Lag /\ bgLate' = bgLate + 1
        /\ ~BackgroundBusy => bgLate' = 0
        /\ bgLate \in 0..Lag /\ Lag \in Nat
    BY Durations DEF Tick
  <1>4. Handling(t)' <=> Handling(t)
    BY <1>3 DEF Handling
  <1>5. bgPc # "idle" \/ t \in due \/ s \in due <=> BackgroundBusy
    <2>1. due \subseteq Ticker
      BY DEF ClockInv, TypeOK
    <2> QED
      BY <1>1, <2>1 DEF BackgroundBusy
  <1>6. Handling(t) => BackgroundBusy
    BY DEF Handling, BackgroundBusy
  <1>7. 3 * Lag < Minute /\ Minute \in Nat
    BY MinuteFacts DEF Timely
  <1> HIDE DEF s
  <1>8. left'[t] <= Period(t)
    BY <1>1, <1>2 DEF InTime
  <1>9. Handling(t) => t \notin due' /\ Fired(t)' <= Lag + bgLate'
    BY <1>1, <1>2, <1>3, <1>6, <1>7 DEF InTime
  <1>10. ASSUME t \in due'
         PROVE  /\ Fired(t)' <= Lag + bgLate'
                /\ bgPc # "idle" \/ s \in due' => Fired(t)' <= bgLate'
                /\ Fired(t)' <= bgLate' \/ Fired(s)' <= 2 * Lag + bgLate'
    <2>1. CASE left[t] = 1
      BY <1>1, <1>2, <1>3, <2>1
    <2>2. CASE left[t] # 1
      <3>1. t \in due /\ Fired(t)' = Fired(t) + 1 /\ bgLate' = bgLate + 1 /\ bgLate < Lag
        BY <1>1, <1>2, <1>3, <1>5, <1>10, <2>2
      <3>2. /\ Fired(t) <= Lag + bgLate
            /\ bgPc # "idle" \/ s \in due => Fired(t) <= bgLate
            /\ Fired(t) <= bgLate \/ Fired(s) <= 2 * Lag + bgLate
        BY <1>1, <3>1 DEF InTime, s
      <3>3. Fired(t) \in Int /\ Fired(s) \in Int
        BY <1>1, <1>2
      <3>4. CASE Fired(t) <= bgLate
        BY <1>3, <3>1, <3>3, <3>4
      <3>5. CASE Fired(s) <= 2 * Lag + bgLate /\ ~(Fired(t) <= bgLate)
        <4>1. left[s] # 1
          BY <1>1, <1>2, <1>3, <1>7, <3>1, <3>5
        <4>2. Fired(s)' = Fired(s) + 1 /\ (s \in due' <=> s \in due)
          BY <1>1, <1>2, <4>1
        <4> QED
          BY <1>3, <3>1, <3>2, <3>3, <3>5, <4>2
      <3> QED
        BY <3>2, <3>4, <3>5
    <2> QED
      BY <2>1, <2>2
  <1>11. t \in due' => /\ Fired(t)' <= Lag + bgLate'
                       /\ bgPc' # "idle" \/ Other(t) \in due' => Fired(t)' <= bgLate'
                       /\ Fired(t)' <= bgLate' \/ Fired(Other(t))' <= 2 * Lag + bgLate'
    BY <1>3, <1>10 DEF s
  <1> QED
    BY ONLY <1>4, <1>8, <1>9, <1>11 DEF InTime

\* Background gets to a tick after the other at the latest.
LEMMA BackgroundInTime ==
    ASSUME ClockInv, TickersInTime, Background
    PROVE  TickersInTime'
  <1>1. ASSUME NEW t \in Ticker, bgPc = "idle", t \in due, Reset(t), bgLate' = bgLate,
               bgPc' = IF t = "time" THEN "time" ELSE "precip"
        PROVE  TickersInTime'
    <2> DEFINE s == Other(t)
    <2>1. /\ s \in Ticker /\ Other(s) = t /\ s # t /\ Ticker = {t, s}
          /\ InTime(t) /\ InTime(s)
      BY Durations DEF TickersInTime
    <2>2. \A r \in Ticker : Handling(r)' <=> r = t
      BY <1>1 DEF Handling, Ticker
    <2>3. /\ left'[s] = left[s] /\ left'[t] \in {left[t], Period(t)} /\ due' = due \ {t}
      BY <1>1, <2>1 DEF Reset, ClockInv, TypeOK
    <2>4. /\ Fired(s)' = Fired(s) /\ Fired(t)' = Period(t) - left'[t]
          /\ Fired(t) = Period(t) - left[t] /\ Period(t) \in Nat /\ left[t] \in Nat
          /\ bgLate \in 0..Lag /\ Lag \in Nat
      BY <2>1, <2>3, Durations DEF Fired
    <2> HIDE DEF s
    <2>5. InTime(t)'
      <3>1. Fired(t)' <= Lag + bgLate' /\ left'[t] <= Period(t)
        BY <1>1, <2>1, <2>3, <2>4 DEF InTime
      <3> QED
        BY <2>2, <2>3, <3>1 DEF InTime
    <2>6. InTime(s)'
      <3>1. s \in due => Fired(s) <= bgLate /\ Fired(s) <= Lag + bgLate
        BY <1>1, <2>1 DEF InTime
      <3>2. left[s] <= Period(s)
        BY <2>1 DEF InTime
      <3> QED
        BY <1>1, <2>1, <2>2, <2>3, <2>4, <3>1, <3>2 DEF InTime
    <2> QED
      BY <2>1, <2>5, <2>6 DEF TickersInTime
  <1>2. CASE OnTimeTick
    BY <1>1, <1>2 DEF OnTimeTick, Ticker
  <1>3. CASE OnWeatherTick
    BY <1>1, <1>3 DEF OnWeatherTick, Ticker
  <1>4. ASSUME UNCHANGED <<left, due, bgLate>>, bgPc # "idle", bgPc' # "idle",
               \A t \in Ticker : Handling(t)' <=> Handling(t)
        PROVE  TickersInTime'
    <2> SUFFICES ASSUME NEW t \in Ticker PROVE InTime(t)'
      BY DEF TickersInTime
    <2>1. InTime(t)
      BY DEF TickersInTime
    <2>2. Fired(t)' = Fired(t) /\ Fired(Other(t))' = Fired(Other(t))
      BY <1>4 DEF Fired
    <2> QED
      BY <1>4, <2>1, <2>2 DEF InTime
  <1>5. CASE OnWeatherTickPrecip
    BY <1>4, <1>5 DEF OnWeatherTickPrecip, tickerVars, Handling
  <1>6. CASE BroadcastBegin
    <2>1. \A t \in Ticker : Handling(t)' <=> Handling(t)
      BY <1>6 DEF BroadcastBegin, Handling, GetTimePacket, GetWeatherPacket, Ticker
    <2> QED
      BY <1>4, <1>6, <2>1 DEF BroadcastBegin, tickerVars
  <1>7. ASSUME NEW u \in User, BroadcastSend(u) PROVE TickersInTime'
    BY <1>4, <1>7 DEF BroadcastSend, tickerVars, Handling
  <1>8. CASE BroadcastEnd
    <2>1. packet \in Packet /\ bgPc = "send"
      BY <1>8 DEF BroadcastEnd, ClockInv, TypeOK
    <2>2. PICK t \in Ticker : t = packet.kind /\ Handling(t)
      BY <2>1 DEF Packet, Ticker, Handling
    <2>3. PICK s \in Ticker : /\ s = Other(t) /\ Other(s) = t /\ s # t /\ Ticker = {t, s}
                              /\ InTime(t) /\ InTime(s)
      BY <2>2, Durations DEF TickersInTime
    <2>4. /\ UNCHANGED <<left, due>> /\ bgPc' = "idle" /\ bgLate' = 0
          /\ \A r \in Ticker : ~Handling(r)'
      BY <1>8 DEF BroadcastEnd, tickerVars, Handling
    <2>5. \A r \in Ticker : Fired(r)' = Fired(r) /\ Fired(r) \in Int
      <3>1. ASSUME NEW r \in Ticker PROVE Fired(r)' = Fired(r) /\ Fired(r) \in Int
        BY <2>4, Durations DEF Fired
      <3> QED
        BY <3>1
    <2>6. bgLate \in 0..Lag /\ Lag \in Nat
      BY <2>2, Durations
    <2>7. /\ left[t] <= Period(t) /\ left[s] <= Period(s) /\ t \notin due
          /\ Fired(t) <= Lag + bgLate
          /\ s \in due => Fired(s) <= bgLate
      BY <2>1, <2>2, <2>3 DEF InTime
    <2>8. Fired(t) <= 2 * Lag /\ (s \in due => Fired(s) <= Lag)
      BY <2>2, <2>3, <2>5, <2>6, <2>7
    <2>9. InTime(t)'
      BY <2>2, <2>4, <2>7 DEF InTime
    <2>10. InTime(s)'
      BY <2>2, <2>3, <2>4, <2>5, <2>6, <2>7, <2>8 DEF InTime
    <2> QED
      BY <2>3, <2>9, <2>10 DEF TickersInTime
  <1> QED
    BY <1>2, <1>3, <1>5, <1>6, <1>7, <1>8 DEF Background

\* Quotient and remainder are what they should be.
LEMMA Division ==
    ASSUME NEW b \in Nat \ {0}, NEW q \in Nat, NEW r \in 0..b - 1, NEW a \in Nat, a = b * q + r
    PROVE  a \div b = q /\ a % b = r
  <1> DEFINE d == a \div b
  <1>1. d \in Nat /\ a = b * d + (a % b) /\ a % b \in 0..b - 1
    BY Z3
  <1>2. \A x, y \in Nat : x < y => b * x + b <= b * y
    <2> SUFFICES ASSUME NEW x \in Nat, NEW y \in Nat, x < y PROVE b * x + b <= b * y
      OBVIOUS
    <2>1. b * (x + 1) = b * x + b
      BY Z3
    <2>2. b * (x + 1) <= b * y
      <3>1. \A m, n \in Nat : m <= n => b * m <= b * n
        BY Z3
      <3> QED
        BY <3>1
    <2> QED
      BY <2>1, <2>2
  <1>3. b * d \in Nat /\ b * q \in Nat
    BY <1>1
  <1> HIDE DEF d
  <1>4. ~(d < q) /\ ~(q < d)
    BY <1>1, <1>2, <1>3
  <1>5. d = q
    BY <1>1, <1>4
  <1>6. a % b = r
    BY <1>1, <1>3, <1>5
  <1> QED
    BY <1>5, <1>6 DEF d

\* A tick is one of the same hour, or the first of the next.
LEMMA HourTick ==
    ASSUME TypeOK, Tick
    PROVE  /\ Hour \in 0..Cycle - 1 /\ now % Minute \in 0..Minute - 1
           /\ \/ Hour' = Hour /\ (now % Minute)' = (now % Minute) + 1
              \/ /\ now % Minute = Minute - 1 /\ (now % Minute)' = 0
                 /\ (Hour' + Cycle - 1) % Cycle = Hour
  <1> DEFINE K == Cycle * Minute
             h == Hour
             r == now % Minute
  <1>1. Minute \in Nat \ {0} /\ Cycle \in Nat \ {0} /\ K \in Nat \ {0} /\ now \in 0..K - 1
    BY MinuteFacts, ClockAssumption DEF TypeOK
  <1>2. h \in 0..Cycle - 1
    BY HourType
  <1>3. r \in 0..Minute - 1 /\ now = Minute * h + r
    BY <1>1, Z3 DEF Hour
  <1>4. now' = (now + 1) % K
    BY DEF Tick
  <1>5. now' = IF now + 1 < K THEN now + 1 ELSE 0
    <2> HIDE DEF K
    <2> QED
      BY <1>1, <1>4
  <1>6. \A x \in 0..Cycle - 1 : Minute * x + Minute <= K
    <2> SUFFICES ASSUME NEW x \in 0..Cycle - 1 PROVE Minute * x + Minute <= Minute * Cycle
      BY <1>1, Z3
    <2>1. Minute * x + Minute = Minute * (x + 1)
      BY <1>1, Z3
    <2>2. \A m, n \in Nat : m <= n => Minute * m <= Minute * n
      BY <1>1, Z3
    <2> QED
      BY <1>1, <2>1, <2>2
  <1>7. Minute * h \in Nat /\ Minute * (h + 1) = Minute * h + Minute
    BY <1>1, <1>2, Z3
  <1>12. Hour = h /\ Hour' = now' \div Minute /\ (now % Minute)' = now' % Minute /\ now % Minute = r
    BY MinuteFacts DEF Hour, Minute
  <1> HIDE DEF K, h, r
  <1>8. \A q \in Nat : \A x \in 0..Minute - 1 :
            \A a \in Nat : a = Minute * q + x => a \div Minute = q /\ a % Minute = x
    BY <1>1, Division
  <1>9. CASE r # Minute - 1
    <2>1. now + 1 < K /\ r + 1 \in 0..Minute - 1 /\ now + 1 = Minute * h + (r + 1)
      BY <1>1, <1>2, <1>3, <1>6, <1>7, <1>9
    <2>2. now' \div Minute = h /\ now' % Minute = r + 1
      <3>1. now' = Minute * h + (r + 1) /\ now' \in Nat /\ h \in Nat
        BY <1>1, <1>2, <1>5, <2>1
      <3> DEFINE k == r + 1
      <3>2. now' = Minute * h + k /\ k \in 0..Minute - 1
        BY <2>1, <3>1
      <3> HIDE DEF k
      <3>3. now' \div Minute = h /\ now' % Minute = k
        BY <1>8, <3>1, <3>2, Zenon
      <3> QED
        BY <3>3 DEF k
    <2> QED
      BY <1>2, <1>3, <1>12, <2>2
  <1>10. CASE r = Minute - 1 /\ h + 1 < Cycle
    <2>1. now + 1 = Minute * (h + 1) + 0 /\ h + 1 \in 0..Cycle - 1
      BY <1>1, <1>2, <1>3, <1>7, <1>10
    <2>2. now + 1 < K
      <3>1. Minute * (h + 1) + Minute <= K /\ Minute * (h + 1) \in Nat
        BY <1>1, <1>6, <1>7, <2>1
      <3> QED
        BY <1>1, <2>1, <3>1
    <2>3. now' \div Minute = h + 1 /\ now' % Minute = 0
      <3>1. now' = Minute * (h + 1) + 0 /\ now' \in Nat /\ h + 1 \in Nat /\ 0 \in 0..Minute - 1
        BY <1>1, <1>2, <1>5, <2>1, <2>2
      <3> DEFINE k == h + 1
      <3> HIDE DEF k
      <3>2. now' = Minute * k + 0 /\ k \in Nat
        BY <3>1 DEF k
      <3>3. now' \div Minute = k /\ now' % Minute = 0
        BY <1>8, <3>1, <3>2, Zenon
      <3> QED
        BY <3>3 DEF k
    <2>4. (h + 1 + Cycle - 1) % Cycle = h
      BY <1>1, <1>2
    <2> QED
      BY <1>2, <1>3, <1>10, <1>12, <2>3, <2>4
  <1>11. CASE r = Minute - 1 /\ h + 1 = Cycle
    <2>1. now + 1 = Minute * Cycle
      BY <1>1, <1>2, <1>3, <1>7, <1>11
    <2>2. now' = 0
      <3>1. K = Minute * Cycle
        BY <1>1, Z3 DEF K
      <3> QED
        BY <1>1, <1>5, <2>1, <3>1
    <2>3. now' \div Minute = 0 /\ now' % Minute = 0
      BY <1>1, <2>2
    <2>4. (0 + Cycle - 1) % Cycle = h
      BY <1>1, <1>2, <1>11
    <2> QED
      BY <1>2, <1>3, <1>11, <1>12, <2>3, <2>4
  <1> QED
    BY <1>1, <1>2, <1>9, <1>10, <1>11

\* What is current stays so when time passes,
LEMMA CurrentTick ==
    ASSUME ClockInv, TickersInTime, Tick, NEW t, NEW p, Current(t, p)
    PROVE  Current(t, p)'
  <1> USE DEF Current
  <1>1. UNCHANGED <<randInt, temp, precip>>
    BY DEF Tick, counVars
  <1>2. CASE t # "time"
    BY <1>1, <1>2
  <1>3. CASE t = "time" /\ "time" \in due
    BY <1>1, <1>3 DEF Tick
  <1>4. CASE t = "time" /\ "time" \notin due /\ left["time"] = 1
    <2>1. "time" \in due'
      BY <1>4 DEF Tick, Ticker
    <2> QED
      BY <1>1, <1>4, <2>1
  <1>5. CASE t = "time" /\ "time" \notin due /\ left["time"] # 1
    <2> DEFINE T == "time"
    <2>1. /\ T \in Ticker /\ Period(T) = Minute /\ left[T] <= Period(T)
          /\ left'[T] = left[T] - 1
      BY <1>5 DEF TickersInTime, InTime, Period, Tick, Ticker
    <2>2. left[T] \in Nat \ {0} /\ Minute \in Nat \ {0}
      BY <2>1, Durations
    <2>3. Fired(T) = Minute - left[T] /\ Fired(T)' = Fired(T) + 1
      BY <2>1, <2>2 DEF Fired
    <2>4. TypeOK
      BY DEF ClockInv
    <2>5. HourIs(p[1])'
      <3>1. CASE Hour' = Hour /\ (now % Minute)' = (now % Minute) + 1
        BY <1>5, <2>2, <2>3, <2>4, <3>1, HourTick DEF HourIs
      <3>2. CASE /\ now % Minute = Minute - 1 /\ (now % Minute)' = 0
                 /\ (Hour' + Cycle - 1) % Cycle = Hour
        <4>1. p[1] = Hour
          BY <1>5, <2>2, <2>3, <3>2 DEF HourIs
        <4>2. 0 < Fired(T)'
          BY <2>1, <2>2, <2>3
        <4> QED
          BY <3>2, <4>1, <4>2 DEF HourIs
      <3> QED
        BY <2>4, <3>1, <3>2, HourTick
    <2> QED
      BY <1>1, <1>5, <2>5
  <1> QED
    BY <1>2, <1>3, <1>4, <1>5

\* ... and when nothing happens to what it depends on.
LEMMA CurrentSame ==
    ASSUME UNCHANGED <<now, counVars, left, due>>
    PROVE  \A t, p : Current(t, p) => Current(t, p)'
  BY DEF Current, HourIs, Hour, Fired, counVars

\* A packet more is the last of its kind.
LEMMA LastAdded ==
    ASSUME NEW s \in Seq(Message), NEW p \in Message
    PROVE  /\ LastOf(s \o <<p>>, p.kind) = {Len(s) + 1} /\ (s \o <<p>>)[Len(s) + 1] = p
           /\ \A t : t # p.kind => LastOf(s \o <<p>>, t) = LastOf(s, t)
           /\ \A i \in 1..Len(s) : (s \o <<p>>)[i] = s[i]
  <1> DEFINE r == s \o <<p>>
             n == Len(s)
  <1>1. /\ n \in Nat /\ Len(r) = n + 1 /\ r[n + 1] = p
        /\ \A i \in 1..n : r[i] = s[i]
    OBVIOUS
  <1> HIDE DEF r, n
  <1>2. LastOf(r, p.kind) = {n + 1}
    <2>1. \A i \in 1..n : n + 1 \in i + 1..n + 1
      BY <1>1
    <2>2. n + 1 \in 1..n + 1 /\ \A j \in n + 1 + 1..n + 1 : FALSE
      BY <1>1
    <2>3. \A i : i \in 1..n + 1 <=> i \in 1..n \/ i = n + 1
      BY <1>1
    <2> QED
      BY <1>1, <2>1, <2>2, <2>3 DEF LastOf
  <1>3. ASSUME NEW t, t # p.kind PROVE LastOf(r, t) = LastOf(s, t)
    <2>1. ASSUME NEW i PROVE i \in LastOf(r, t) <=> i \in LastOf(s, t)
      <3>1. i \in 1..n + 1 <=> i \in 1..n \/ i = n + 1
        BY <1>1
      <3>2. i \in 1..n => \A j : j \in i + 1..n + 1 <=> j \in i + 1..n \/ j = n + 1
        BY <1>1
      <3>3. i \in 1..n => \A j \in i + 1..n : j \in 1..n
        BY <1>1
      <3> QED
        BY <1>1, <1>3, <3>1, <3>2, <3>3 DEF LastOf, n
    <2> QED
      BY <2>1
  <1> QED
    BY <1>1, <1>2, <1>3 DEF r, n

\* Of none there is no last.
LEMMA LastOfNone == \A t : LastOf(<<>>, t) = {}
  BY DEF LastOf

\* What a client has been told.
LEMMA ToldIs ==
    ASSUME NEW s, NEW state, NEW t \in Ticker
    PROVE  /\ LastOf(s, t) = {} => Told(state, s)[t] = state[t]
           /\ LastOf(s, t) # {} => \E i \in LastOf(s, t) : Told(state, s)[t] = Content(s[i])
  BY DEF Told, Content

\* What a user knows does not change with what others are told.
LEMMA KnowsSame ==
    ASSUME NEW u \in User, NEW t, Knows(u, t), pending'[u] = pending[u], opening'[u] = opening[u],
           client'[u] = client[u], initial'[u] = initial[u],
           \A p : Current(t, p) => Current(t, p)',
           t = "weather" => temp' = temp
    PROVE  Knows(u, t)'
  BY DEF Knows

-----------------------------------------------------------------------------

\* What is known of a user, one by one.
LEMMA UserFacts ==
    ASSUME NewestInv, NEW u \in User
    PROVE  /\ Gathers(u) /\ (opening[u] # "out" <=> u \in served)
           /\ openLate[u] \in 0..Lag /\ Lag \in Nat /\ SendDelay \in Nat \ {0}
           /\ SendDelay <= SendMaxInterval /\ SendMaxInterval \in Nat
           /\ age[u] \in Nat /\ pending[u] \in Seq(Message)
           /\ endC[u] \in Timers \cup {Nil}
           /\ \A t \in Ticker : u \in served => Informed(u, t)
  <1>1. ClockInv /\ LoopTypeOK /\ Gathering /\ EveryoneInformed
    BY DEF NewestInv, ClockInv, LoopInv
  <1>2. openLate[u] \in 0..Lag /\ (opening[u] # "out" <=> u \in served)
    BY <1>1 DEF ClockInv, TypeOK
  <1>3. pending[u] \in Seq(Message) /\ endC[u] \in Timers \cup {Nil}
    BY <1>1 DEF LoopTypeOK
  <1>4. age[u] \in Nat
    BY <1>1, LoopRanges
  <1>5. Gathers(u)
    BY <1>1 DEF Gathering
  <1> QED
    BY <1>1, <1>2, <1>3, <1>4, <1>5, SendLoopAssumption DEF EveryoneInformed

\* The client and what is gathered of users whom nothing happens to.
LEMMA GathersSame ==
    ASSUME NewestInv, NEW u \in User, opening'[u] = opening[u], client'[u] = client[u],
           initial'[u] = initial[u], openLate'[u] = openLate[u], endC'[u] = endC[u],
           pending'[u] = pending[u], u \in served' <=> u \in served
    PROVE  Gathers(u)'
  BY UserFacts DEF Gathers, Opening, InBatch

\* A message for a user that is connecting begins its batch, or finds one.
LEMMA ReceiveKeeps ==
    ASSUME NewestInv, NEW u \in User, NEW msgs, Receive(u, msgs), UNCHANGED <<openVars, client>>
    PROVE  /\ Gathering'
           /\ u \in served /\ served' = served /\ InBatch(u)' /\ age'[u] \in Nat
           /\ pending'[u] = pending[u] \o msgs
           /\ InBatch(u) => age'[u] = age[u]
           /\ \A v \in User \ {u} : /\ pending'[v] = pending[v] /\ age'[v] = age[v]
                                   /\ (InBatch(v)' <=> InBatch(v))
  <1>1. LoopTypeOK
    BY DEF NewestInv, ClockInv, LoopInv
  <1>2. /\ UNCHANGED <<served, opening, initial, openLate, client>> /\ u \in served
        /\ pending' = [pending EXCEPT ![u] = @ \o msgs] /\ endC' = [endC EXCEPT ![u] = TimerAfter(u)]
        /\ age' = [age EXCEPT ![u] = IF InBatch(u) THEN @ ELSE 0]
    BY DEF Receive, openVars
  <1>3. /\ pending'[u] = pending[u] \o msgs /\ endC'[u] = TimerAfter(u)
        /\ age'[u] = IF InBatch(u) THEN age[u] ELSE 0
        /\ \A v \in User \ {u} : /\ pending'[v] = pending[v] /\ endC'[v] = endC[v]
                                /\ age'[v] = age[v]
    BY <1>1, <1>2 DEF LoopTypeOK
  <1>4. TimerAfter(u) \in {SendDelay, endC[u]} /\ (~InBatch(u) => TimerAfter(u) = SendDelay)
    BY UserFacts DEF TimerAfter, TimeLeft
  <1>5. InBatch(u)'
    BY <1>3, <1>4, UserFacts DEF InBatch, Nil
  <1>6. Gathers(u)'
    <2>1. (Opening(u) /\ InBatch(u) => endC[u] >= SendDelay - openLate[u])
          /\ openLate[u] \in 0..Lag /\ SendDelay \in Nat /\ Lag \in Nat
      BY UserFacts DEF Gathers
    <2>2. Opening(u) => endC'[u] >= SendDelay - openLate[u]
      BY <1>3, <1>4, <2>1
    <2> QED
      BY <1>2, <1>5, <2>2, UserFacts DEF Gathers, Opening
  <1>7. \A v \in User \ {u} : Gathers(v)'
    BY <1>2, <1>3, GathersSame
  <1>8. Gathering'
    BY <1>2, <1>6, <1>7 DEF NewestInv, Gathering
  <1> QED
    BY <1>2, <1>3, <1>5, <1>8, UserFacts DEF InBatch

\* What is told of the rest, when one user gets something.
LEMMA InformedSame ==
    ASSUME NewestInv, NEW u \in User, NEW t \in Ticker, Informed(u, t),
           pending'[u] = pending[u], opening'[u] = opening[u], client'[u] = client[u],
           initial'[u] = initial[u], LastOf(pending[u], t) # {} => age'[u] = age[u],
           InBatch(u)' \/ ~InBatch(u), UNCHANGED <<now, counVars, left, due>>,
           Upcoming(u, t)' <=> Upcoming(u, t)
    PROVE  Informed(u, t)'
  <1>1. Knows(u, t) => Knows(u, t)'
    BY CurrentSame, KnowsSame DEF counVars
  <1>2. Fresh(u, t)'
    BY DEF Informed, Fresh, Fired
  <1> QED
    BY <1>1, <1>2 DEF Informed

\* Whoever is sent the packet of the broadcast is going to be told the newest.
LEMMA BroadcastSendKeeps ==
    ASSUME NewestInv, NEW u \in User, BroadcastSend(u)
    PROVE  Gathering' /\ SendsCurrent' /\ EveryoneInformed'
  <1>1. /\ bgPc = "send" /\ u \in todo /\ Receive(u, <<packet>>) /\ todo' = todo \ {u}
        /\ UNCHANGED <<now, counVars, left, due, bgPc, packet, opening, initial, client, openLate>>
    BY DEF BroadcastSend, tickerVars, openVars
  <1>2. /\ Gathering'
        /\ u \in served /\ served' = served /\ InBatch(u)' /\ age'[u] \in Nat
        /\ pending'[u] = pending[u] \o <<packet>>
        /\ InBatch(u) => age'[u] = age[u]
        /\ \A v \in User \ {u} : /\ pending'[v] = pending[v] /\ age'[v] = age[v]
                                /\ (InBatch(v)' <=> InBatch(v))
    BY <1>1, ReceiveKeeps DEF openVars
  <1>3. PICK k \in Ticker : k = packet.kind /\ packet \in Packet /\ packet \in Message
    BY <1>1, ClockAssumption DEF NewestInv, ClockInv, TypeOK, Packet, Ticker
  <1>4. Current(k, Content(packet)) /\ \A t, p : Current(t, p) => Current(t, p)'
    BY <1>1, <1>3, CurrentSame DEF NewestInv, SendsCurrent
  <1>5. SendsCurrent'
    BY <1>1, <1>3, <1>4 DEF SendsCurrent
  <1>6. \A t \in Ticker : Handling(t) <=> t = k
    BY <1>1, <1>3 DEF Handling
  <1>7. ASSUME NEW v \in served \ {u}, NEW t \in Ticker PROVE Informed(v, t)'
    <2>1. v \in User \ {u} /\ Informed(v, t)
      BY <1>7, UserFacts DEF NewestInv, ClockInv, TypeOK, LoopTypeOK
    <2>2. Upcoming(v, t)' <=> Upcoming(v, t)
      BY <1>1, <2>1 DEF Upcoming, Handling
    <2>3. /\ pending'[v] = pending[v] /\ opening'[v] = opening[v] /\ client'[v] = client[v]
          /\ initial'[v] = initial[v] /\ age'[v] = age[v] /\ (InBatch(v)' <=> InBatch(v))
          /\ UNCHANGED <<now, counVars, left, due>>
      BY ONLY <1>1, <1>2, <2>1
    <2> QED
      BY <2>1, <2>2, <2>3, InformedSame
  <1>8. /\ LastOf(pending'[u], k) = {Len(pending[u]) + 1}
        /\ pending'[u][Len(pending[u]) + 1] = packet
        /\ \A t : t # k => LastOf(pending'[u], t) = LastOf(pending[u], t)
        /\ \A i \in 1..Len(pending[u]) : pending'[u][i] = pending[u][i]
    <2>1. pending[u] \in Seq(Message)
      BY UserFacts
    <2> DEFINE r == pending[u] \o <<packet>>
               n == Len(pending[u])
    <2>2. /\ LastOf(r, packet.kind) = {n + 1} /\ r[n + 1] = packet
          /\ \A t : t # packet.kind => LastOf(r, t) = LastOf(pending[u], t)
          /\ \A i \in 1..n : r[i] = pending[u][i]
      BY ONLY <1>3, <2>1, LastAdded
    <2>3. pending'[u] = r
      BY <1>2
    <2> HIDE DEF r
    <2> QED
      BY ONLY <1>3, <2>2, <2>3
  <1>9. Informed(u, k)'
    <2>1. Knows(u, k)'
      <3>1. Current(k, Content(packet))'
        BY <1>1, <1>4 DEF Content
      <3> QED
        BY <1>1, <1>8, <3>1 DEF Knows, Content
    <2>2. Fired(k)' <= 2 * Lag + age'[u]
      <3>1. /\ Fired(k)' = Fired(k) /\ Fired(k) \in Int /\ bgLate \in 0..Lag /\ Lag \in Nat
            /\ Fired(k) <= Lag + bgLate
        BY <1>1, <1>3, <1>6, Durations DEF Fired, NewestInv, TickersInTime, InTime
      <3> QED
        BY <1>2, <3>1
    <2> QED
      BY <1>2, <2>1, <2>2 DEF Informed, Fresh
  <1>10. ASSUME NEW t \in Ticker, t # k PROVE Informed(u, t)'
    <2>1. Knows(u, t) /\ Fresh(u, t)
      <3>1. ~Upcoming(u, t) /\ Informed(u, t)
        BY <1>2, <1>6, <1>10, UserFacts DEF Upcoming
      <3> QED
        BY <3>1 DEF Informed
    <2>2. LastOf(pending[u], t) \subseteq 1..Len(pending[u])
      BY DEF LastOf
    <2>3. Knows(u, t)'
      BY <1>1, <1>4, <1>8, <1>10, <2>1, <2>2 DEF Knows, counVars
    <2>4. Fresh(u, t)'
      BY <1>1, <1>2, <1>8, <1>10, <2>1 DEF Fresh, Fired
    <2> QED
      BY <2>3, <2>4 DEF Informed
  <1> QED
    BY <1>2, <1>5, <1>7, <1>9, <1>10 DEF EveryoneInformed

\* What a connection does concerns its user only.
LEMMA OthersKeep ==
    ASSUME NewestInv, NEW u \in User,
           UNCHANGED <<now, counVars, left, due, bgPc, packet, todo>>,
           \A v \in User \ {u} :
              /\ opening'[v] = opening[v] /\ client'[v] = client[v] /\ initial'[v] = initial[v]
              /\ openLate'[v] = openLate[v] /\ endC'[v] = endC[v] /\ pending'[v] = pending[v]
              /\ age'[v] = age[v] /\ (v \in served' <=> v \in served),
           client' = [v \in User |-> client'[v]], initial' = [v \in User |-> initial'[v]],
           served' \subseteq User,
           Gathers(u)', u \in served' => \A t \in Ticker : Informed(u, t)'
    PROVE  Gathering' /\ SendsCurrent' /\ EveryoneInformed'
  <1>1. \A v \in User \ {u} : Gathers(v)'
    BY GathersSame
  <1>2. Gathering'
    BY <1>1 DEF Gathering
  <1>3. SendsCurrent'
    BY CurrentSame DEF NewestInv, SendsCurrent, Content
  <1>4. ASSUME NEW v \in served' \ {u}, NEW t \in Ticker PROVE Informed(v, t)'
    <2>1. v \in User \ {u} /\ v \in served /\ Informed(v, t)
      BY <1>4, UserFacts
    <2>2. Upcoming(v, t)' <=> Upcoming(v, t)
      BY DEF Upcoming, Handling
    <2>3. /\ pending'[v] = pending[v] /\ opening'[v] = opening[v] /\ client'[v] = client[v]
          /\ initial'[v] = initial[v] /\ age'[v] = age[v] /\ endC'[v] = endC[v]
      BY <2>1
    <2> QED
      BY <2>1, <2>2, <2>3, InformedSame DEF InBatch
  <1> QED
    BY <1>2, <1>3, <1>4 DEF EveryoneInformed

\* Any other message leaves what is told as it is.
LEMMA ChatterKeeps ==
    ASSUME NewestInv, NEW u \in User, Chatter(u)
    PROVE  Gathering' /\ SendsCurrent' /\ EveryoneInformed'
  <1>1. /\ Receive(u, <<>>)
        /\ UNCHANGED <<now, counVars, left, due, bgPc, packet, todo, opening, initial, openLate, client>>
    BY DEF Chatter, tickerVars, bgVars, openVars
  <1>2. /\ Gathering' /\ u \in served /\ served' = served /\ InBatch(u)'
        /\ pending'[u] = pending[u] \o <<>>
        /\ InBatch(u) => age'[u] = age[u]
        /\ \A v \in User \ {u} : /\ pending'[v] = pending[v] /\ age'[v] = age[v]
                                /\ (InBatch(v)' <=> InBatch(v))
    BY <1>1, ReceiveKeeps DEF openVars
  <1>3. SendsCurrent'
    BY <1>1, CurrentSame DEF NewestInv, SendsCurrent, Content
  <1>4. pending'[u] = pending[u]
    BY <1>2, UserFacts
  <1>5. LastOf(pending[u], "time") \cup LastOf(pending[u], "weather") # {} => InBatch(u)
    BY UserFacts, LastOfNone DEF Gathers
  <1>6. ASSUME NEW v \in served', NEW t \in Ticker PROVE Informed(v, t)'
    <2>1. v \in User /\ v \in served /\ Informed(v, t)
      BY <1>2, <1>6, UserFacts DEF NewestInv, ClockInv, TypeOK, LoopTypeOK
    <2>2. Upcoming(v, t)' <=> Upcoming(v, t)
      BY <1>1 DEF Upcoming, Handling
    <2>3. /\ pending'[v] = pending[v] /\ opening'[v] = opening[v] /\ client'[v] = client[v]
          /\ initial'[v] = initial[v] /\ (InBatch(v)' \/ ~InBatch(v))
          /\ LastOf(pending[v], t) # {} => age'[v] = age[v]
          /\ UNCHANGED <<now, counVars, left, due>>
      BY <1>1, <1>2, <1>4, <1>5, <2>1 DEF Ticker
    <2> QED
      BY <2>1, <2>2, <2>3, InformedSame
  <1> QED
    BY <1>2, <1>3, <1>6 DEF EveryoneInformed

\* A user is registered before it reads what it is sent first.
LEMMA OnOpenKeeps ==
    ASSUME NewestInv, NEW u \in User, OnOpen(u)
    PROVE  Gathering' /\ SendsCurrent' /\ EveryoneInformed'
  <1>1. /\ opening[u] = "out" /\ u \notin served /\ served' = served \cup {u}
        /\ opening' = [opening EXCEPT ![u] = "time"]
        /\ UNCHANGED <<now, counVars, left, due, bgPc, packet, todo, initial, openLate, client,
                       pending, endC, age>>
    BY DEF OnOpen, Serve, tickerVars, bgVars, historyVars
  <1>2. opening'[u] = "time" /\ \A v \in User \ {u} : opening'[v] = opening[v]
    BY <1>1 DEF NewestInv, ClockInv, TypeOK
  <1>3. pending'[u] = <<>> /\ ~InBatch(u)' /\ client'[u] = <<>>
    BY <1>1, UserFacts DEF Gathers, InBatch
  <1>4. Gathers(u)'
    BY <1>1, <1>2, <1>3 DEF Gathers, Opening
  <1>5. ASSUME NEW t \in Ticker PROVE Informed(u, t)'
    BY <1>2, <1>3, LastOfNone DEF Informed, Knows, Fresh
  <1>6. Gathering /\ served \subseteq User
    BY DEF NewestInv, ClockInv, TypeOK, LoopTypeOK
  <1> QED
    BY <1>1, <1>2, <1>4, <1>5, <1>6, OthersKeep DEF Gathering

\* What is read in OnOpen is current, whatever has been read of it before.
LEMMA InitialKeeps ==
    ASSUME NewestInv, NEW u \in User, InitialTime(u) \/ InitialTemp(u) \/ InitialPrecip(u)
    PROVE  Gathering' /\ SendsCurrent' /\ EveryoneInformed'
  <1>0. PICK q : q = initial'[u]
    OBVIOUS
  <1>1. /\ UNCHANGED <<now, counVars, left, due, bgPc, packet, todo, openLate, client, served,
                       pending, endC, age>>
        /\ opening[u] \in {"time", "temp", "precip"}
        /\ \E to, packets : /\ opening' = [opening EXCEPT ![u] = to]
                            /\ initial' = [initial EXCEPT ![u] = packets]
    BY DEF InitialTime, InitialTemp, InitialPrecip, OpenStep, loopVars, historyVars, tickerVars, bgVars
  <1>2. /\ initial = [v \in User |-> initial[v]] /\ client = [v \in User |-> client[v]]
        /\ DOMAIN opening = User /\ served \subseteq User
    BY DEF NewestInv, Gathering, ClockInv, TypeOK, LoopTypeOK
  <1>3. /\ \A v \in User \ {u} : opening'[v] = opening[v] /\ initial'[v] = initial[v]
        /\ initial' = [v \in User |-> initial'[v]]
    BY <1>1, <1>2
  <1>4. \A t, p : Current(t, p) => Current(t, p)'
    BY <1>1, CurrentSame
  <1>5. Gathers(u)
    BY UserFacts
  <1>6. /\ opening[u] = "time" => opening'[u] = "temp" /\ q = <<GetTimePacket>>
        /\ opening[u] = "temp" =>
              opening'[u] = "precip" /\ q = Append(initial[u], GetWeatherPacket)
        /\ opening[u] = "precip" =>
              /\ opening'[u] = "send"
              /\ q = <<initial[u][1], [initial[u][2] EXCEPT !.second = precip]>>
    BY <1>0, <1>2 DEF InitialTime, InitialTemp, InitialPrecip, OpenStep
  <1>7. /\ opening'[u] = "temp" => q = <<q[1]>> /\ q[1] = GetTimePacket
        /\ opening'[u] \in {"precip", "send"} => q = <<q[1], q[2]>> /\ q[1] = initial[u][1]
        /\ opening'[u] = "precip" => q[2] = GetWeatherPacket
        /\ opening'[u] = "send" => q[2] = [initial[u][2] EXCEPT !.second = precip]
        /\ opening'[u] \in {"temp", "precip", "send"}
    <2>1. CASE opening[u] = "time"
      BY <1>6, <2>1
    <2>2. CASE opening[u] = "temp"
      <3>1. q = <<initial[u][1], GetWeatherPacket>>
        BY <1>5, <1>6, <2>2 DEF Gathers
      <3> QED
        BY <1>6, <2>2, <3>1
    <2>3. CASE opening[u] = "precip"
      BY <1>6, <2>3
    <2> QED
      BY <1>1, <2>1, <2>2, <2>3
  <1>8. GetTimePacket.kind = "time" /\ GetWeatherPacket.kind = "weather"
        /\ GetWeatherPacket \in Packet
    BY PacketType DEF GetTimePacket, GetWeatherPacket, NewestInv, ClockInv
  <1>9. opening'[u] = "send" => /\ opening[u] = "precip" /\ q[2] \in Packet /\ q[2].kind = "weather"
                                /\ q[2].first = initial[u][2].first /\ q[2].second = precip
    BY <1>1, <1>5, <1>6, <1>7 DEF Gathers, Packet, NewestInv, ClockInv, TypeOK
  <1>10. Gathers(u)'
    BY <1>0, <1>1, <1>5, <1>6, <1>7, <1>8, <1>9 DEF Gathers, Opening, InBatch
  <1>11. ASSUME NEW t \in Ticker, u \in served PROVE Informed(u, t)'
    <2>1. Informed(u, t)
      BY <1>11, UserFacts
    <2>2. Fresh(u, t)'
      BY <1>1, <2>1 DEF Informed, Fresh, Fired, InBatch
    <2>3. Upcoming(u, t) => Upcoming(u, t)'
      BY <1>1 DEF Upcoming, Handling
    <2>4. ASSUME Knows(u, t) PROVE Knows(u, t)'
      <3>1. \A i \in LastOf(pending[u], t) : Current(t, Content(pending[u][i]))'
        BY <1>1, <1>4, <2>4 DEF Knows, Content
      <3>2. CASE LastOf(pending[u], t) # {}
        BY <1>1, <3>1, <3>2 DEF Knows
      <3>3. CASE LastOf(pending[u], t) = {} /\ t = "time"
        <4>1. Current(t, Content(q[1]))'
          <5>1. CASE opening'[u] = "temp"
            <6>1. q[1].first = Hour' /\ q[1].second = randInt'
              BY <1>1, <1>7, <5>1 DEF GetTimePacket, Hour, counVars
            <6>2. Content(q[1]) = <<Hour', randInt'>>
              BY <6>1 DEF Content
            <6> QED
              BY <3>3, <6>2 DEF Current, HourIs
          <5>2. CASE opening'[u] # "temp"
            BY <1>1, <1>4, <1>6, <1>7, <2>4, <3>3, <5>2 DEF Knows, Content
          <5> QED
            BY <5>1, <5>2
        <4> QED
          BY <1>0, <1>1, <1>7, <3>1, <3>3, <4>1 DEF Knows
      <3>4. CASE LastOf(pending[u], t) = {} /\ t = "weather"
        <4>1. opening'[u] = "precip" => q[2].first = temp'
          BY <1>1, <1>7 DEF GetWeatherPacket, counVars
        <4>2. opening'[u] = "send" => Current(t, Content(q[2]))'
          BY <1>1, <1>9, <2>4, <3>4 DEF Knows, Current, Content, counVars
        <4> QED
          BY <1>0, <1>1, <1>7, <3>1, <3>4, <4>1, <4>2 DEF Knows
      <3> QED
        BY <3>2, <3>3, <3>4 DEF Ticker
    <2> QED
      BY <2>1, <2>2, <2>3, <2>4 DEF Informed
  <1> QED
    BY <1>1, <1>2, <1>3, <1>10, <1>11, OthersKeep

\* A client that is sent its first packets has not been sent any of a broadcast.
LEMMA SendInitialKeeps ==
    ASSUME NewestInv, NEW u \in User, SendInitial(u)
    PROVE  Gathering' /\ SendsCurrent' /\ EveryoneInformed'
  <1>1. /\ UNCHANGED <<now, counVars, left, due, bgPc, packet, todo, served, pending, endC, age>>
        /\ opening[u] = "send" /\ opening' = [opening EXCEPT ![u] = "open"]
        /\ client' = [client EXCEPT ![u] = Told(Nothing, initial[u])]
        /\ initial' = [initial EXCEPT ![u] = <<>>]
        /\ openLate' = [openLate EXCEPT ![u] = 0]
    BY DEF SendInitial, loopVars, historyVars, tickerVars, bgVars
  <1>2. /\ initial = [v \in User |-> initial[v]] /\ client = [v \in User |-> client[v]]
        /\ opening \in [User -> {"out", "time", "temp", "precip", "send", "open"}]
        /\ openLate \in [User -> 0..Lag] /\ served \subseteq User
    BY DEF NewestInv, Gathering, ClockInv, TypeOK, LoopTypeOK
  <1>3. /\ opening'[u] = "open" /\ openLate'[u] = 0 /\ client'[u] = Told(Nothing, initial[u])
        /\ \A v \in User \ {u} : /\ opening'[v] = opening[v] /\ client'[v] = client[v]
                                /\ initial'[v] = initial[v] /\ openLate'[v] = openLate[v]
        /\ client' = [v \in User |-> client'[v]] /\ initial' = [v \in User |-> initial'[v]]
    BY <1>1, <1>2
  <1>4. Gathers(u)
    BY UserFacts
  <1>5. DOMAIN client'[u] = Ticker
    BY <1>3 DEF Told
  <1>6. Gathers(u)'
    BY <1>1, <1>3, <1>4, <1>5 DEF Gathers, Opening, InBatch
  <1>7. \A t, p : Current(t, p) => Current(t, p)'
    BY <1>1, CurrentSame
  <1>8. LastOf(initial[u], "time") = {1} /\ LastOf(initial[u], "weather") = {2}
    <2>1. /\ Len(initial[u]) = 2 /\ initial[u][1].kind = "time" /\ initial[u][2].kind = "weather"
      BY <1>1, <1>4 DEF Gathers
    <2> QED
      BY <2>1 DEF LastOf
  <1>9. /\ client'[u]["time"] = Content(initial[u][1])
        /\ client'[u]["weather"] = Content(initial[u][2])
    BY <1>3, <1>8, ToldIs DEF Ticker
  <1>10. ASSUME NEW t \in Ticker, u \in served PROVE Informed(u, t)'
    <2>1. Informed(u, t)
      BY <1>10, UserFacts
    <2>2. Fresh(u, t)'
      BY <1>1, <2>1 DEF Informed, Fresh, Fired, InBatch
    <2>3. Upcoming(u, t) => Upcoming(u, t)'
      BY <1>1 DEF Upcoming, Handling
    <2>4. ASSUME Knows(u, t) PROVE Knows(u, t)'
      <3>1. \A i \in LastOf(pending[u], t) : Current(t, Content(pending[u][i]))'
        BY <1>1, <1>7, <2>4 DEF Knows, Content
      <3>2. PICK c : c = client'[u]
        OBVIOUS
      <3>3. ASSUME LastOf(pending[u], t) = {} PROVE Current(t, c[t])'
        <4>1. Current(t, c[t])
          BY <1>1, <1>9, <2>4, <3>2, <3>3 DEF Knows, Ticker
        <4> QED
          BY <1>7, <4>1
      <3> QED
        BY <1>1, <1>3, <3>1, <3>2, <3>3 DEF Knows
    <2> QED
      BY <2>1, <2>2, <2>3, <2>4 DEF Informed
  <1> QED
    BY <1>1, <1>2, <1>3, <1>6, <1>10, OthersKeep

\* A batch is sent to those only that are connected, and tells them the newest.
LEMMA SendBatchKeeps ==
    ASSUME Timely, NewestInv, NEW u \in User, SendBatch(u)
    PROVE  Gathering' /\ SendsCurrent' /\ EveryoneInformed'
  <1>1. /\ UNCHANGED <<now, counVars, left, due, bgPc, packet, todo, served, opening, initial,
                       openLate, age>>
        /\ u \in served /\ InBatch(u) /\ endC[u] <= 0
        /\ pending' = [pending EXCEPT ![u] = <<>>] /\ endC' = [endC EXCEPT ![u] = Nil]
        /\ client' = [client EXCEPT ![u] = Told(IF @ = <<>> THEN Nothing ELSE @, pending[u])]
    BY DEF SendBatch, Flush, tickerVars, bgVars, openVars
  <1>2. /\ initial = [v \in User |-> initial[v]] /\ client = [v \in User |-> client[v]]
        /\ pending \in [User -> Seq(Message)] /\ endC \in [User -> Timers \cup {Nil}]
        /\ served \subseteq User
    BY DEF NewestInv, Gathering, ClockInv, TypeOK, LoopInv, LoopTypeOK
  <1>3. /\ pending'[u] = <<>> /\ endC'[u] = Nil
        /\ client'[u] = Told(IF client[u] = <<>> THEN Nothing ELSE client[u], pending[u])
        /\ \A v \in User \ {u} : /\ pending'[v] = pending[v] /\ endC'[v] = endC[v]
                                /\ client'[v] = client[v]
        /\ client' = [v \in User |-> client'[v]]
    BY <1>1, <1>2
  <1>4. Gathers(u)
    BY UserFacts
  <1>5. opening[u] = "open"
    <2>1. ~Opening(u)
      <3>1. SendDelay \in Nat /\ Lag \in Nat /\ openLate[u] \in 0..Lag /\ Lag < SendDelay
        BY UserFacts DEF Timely
      <3>2. endC[u] \in Int
        BY UserFacts DEF Timers, Nil
      <3> QED
        BY <1>1, <1>4, <3>1, <3>2 DEF Gathers
    <2> QED
      BY <1>1, <2>1, UserFacts DEF Opening
  <1>6. DOMAIN client[u] = Ticker /\ client[u] # <<>>
    <2>1. DOMAIN client[u] = Ticker
      BY <1>4, <1>5 DEF Gathers
    <2>2. DOMAIN <<>> # Ticker
      BY DEF Ticker
    <2> QED
      BY <2>1, <2>2
  <1>7. client'[u] = Told(client[u], pending[u]) /\ DOMAIN client'[u] = Ticker
    BY <1>3, <1>6 DEF Told
  <1>8. Gathers(u)'
    BY <1>1, <1>3, <1>4, <1>5, <1>7 DEF Gathers, Opening, InBatch
  <1>9. \A t, p : Current(t, p) => Current(t, p)'
    BY <1>1, CurrentSame
  <1>10. ASSUME NEW t \in Ticker PROVE Informed(u, t)'
    <2>1. Informed(u, t)
      BY <1>1, UserFacts
    <2>2. LastOf(pending'[u], t) = {}
      BY <1>3, LastOfNone
    <2>3. Upcoming(u, t) => Upcoming(u, t)'
      BY <1>1 DEF Upcoming, Handling
    <2>4. ASSUME Knows(u, t) PROVE Knows(u, t)'
      <3>0. PICK c : c = client'[u]
        OBVIOUS
      <3>1. Current(t, c[t])
        <4>1. CASE LastOf(pending[u], t) = {}
          BY <1>5, <1>7, <2>4, <3>0, <4>1, ToldIs DEF Knows
        <4>2. CASE LastOf(pending[u], t) # {}
          <5>1. PICK i \in LastOf(pending[u], t) : client'[u][t] = Content(pending[u][i])
            BY <1>7, <4>2, ToldIs
          <5> QED
            BY <2>4, <3>0, <5>1 DEF Knows
        <4> QED
          BY <4>1, <4>2
      <3>2. Current(t, c[t])'
        BY <1>9, <3>1
      <3> QED
        BY <1>1, <1>5, <2>2, <3>0, <3>2 DEF Knows
    <2> QED
      BY <2>1, <2>2, <2>3, <2>4 DEF Informed, Fresh
  <1> QED
    BY <1>1, <1>2, <1>3, <1>8, <1>10, OthersKeep

\* Who is gone is told nothing.
LEMMA OnCloseKeeps ==
    ASSUME NewestInv, NEW u \in User, OnClose(u)
    PROVE  Gathering' /\ SendsCurrent' /\ EveryoneInformed'
  <1>1. /\ UNCHANGED <<now, counVars, left, due, bgPc, packet, todo, initial, openLate, age>>
        /\ opening[u] = "open" /\ opening' = [opening EXCEPT ![u] = "out"]
        /\ served' = served \ {u} /\ client' = [client EXCEPT ![u] = <<>>]
        /\ pending' = [pending EXCEPT ![u] = <<>>] /\ endC' = [endC EXCEPT ![u] = Nil]
    BY DEF OnClose, CloseOutbox, historyVars, tickerVars, bgVars
  <1>2. /\ initial = [v \in User |-> initial[v]] /\ client = [v \in User |-> client[v]]
        /\ opening \in [User -> {"out", "time", "temp", "precip", "send", "open"}]
        /\ pending \in [User -> Seq(Message)] /\ endC \in [User -> Timers \cup {Nil}]
        /\ served \subseteq User
    BY DEF NewestInv, Gathering, ClockInv, TypeOK, LoopInv, LoopTypeOK
  <1>3. /\ pending'[u] = <<>> /\ endC'[u] = Nil /\ opening'[u] = "out" /\ client'[u] = <<>>
        /\ \A v \in User \ {u} : /\ pending'[v] = pending[v] /\ endC'[v] = endC[v]
                                /\ client'[v] = client[v] /\ opening'[v] = opening[v]
        /\ client' = [v \in User |-> client'[v]]
    BY <1>1, <1>2
  <1>4. Gathers(u)'
    BY <1>1, <1>3, UserFacts DEF Gathers, Opening, InBatch
  <1> QED
    BY <1>1, <1>2, <1>3, <1>4, OthersKeep

\* What Background draws it is going to tell everyone.
LEMMA DrawKeeps ==
    ASSUME NewestInv, NEW k \in Ticker, Handling(k)', bgPc' # "send",
           ~Handling(Other(k)), UNCHANGED <<loopVars, openVars, client>>,
           left' \in {left, [left EXCEPT ![k] = Period(k)]},
           \A p : Current(Other(k), p) => Current(Other(k), p)',
           k = "time" => temp' = temp
    PROVE  Gathering' /\ SendsCurrent' /\ EveryoneInformed'
  <1>1. UNCHANGED <<opening, initial, openLate, client, served, pending, endC, age>>
    BY DEF loopVars, openVars, historyVars
  <1>2. Gathering'
    BY <1>1, GathersSame DEF NewestInv, Gathering
  <1>3. ASSUME NEW u \in served', NEW t \in Ticker PROVE Informed(u, t)'
    <2>1. u \in User /\ u \in served /\ Informed(u, t) /\ age[u] \in Nat /\ Lag \in Nat
      <3>1. u \in User /\ u \in served
        BY <1>1, <1>3 DEF NewestInv, ClockInv, TypeOK, LoopTypeOK
      <3> QED
        BY <3>1, UserFacts
    <2>2. Fresh(u, t)'
      <3>1. ClockInv /\ left = [r \in Ticker |-> left[r]]
        BY DEF NewestInv, ClockInv, TypeOK
      <3>2. /\ Fired(t) \in Int /\ Fired(t) = Period(t) - left[t] /\ Fired(t)' = Period(t) - left'[t]
            /\ Period(t) \in Nat
        BY <3>1, Durations DEF Fired
      <3>3. left'[t] = left[t] \/ left'[t] = Period(t)
        BY <3>1
      <3>4. Fired(t)' = Fired(t) \/ Fired(t)' = 0
        BY <3>2, <3>3
      <3> QED
        BY <1>1, <2>1, <3>2, <3>4 DEF Informed, Fresh, InBatch
    <2>3. CASE t = k
      BY <2>2, <2>3 DEF Informed, Upcoming
    <2>4. CASE t = Other(k)
      <3>1. Knows(u, t)
        BY <2>1, <2>4 DEF Informed, Upcoming
      <3>2. t = "weather" => temp' = temp
        BY <2>4 DEF Other, Ticker
      <3>3. Knows(u, t)'
        BY <1>1, <2>1, <2>4, <3>1, <3>2, KnowsSame
      <3> QED
        BY <2>2, <3>3 DEF Informed
    <2> QED
      BY <2>3, <2>4, Durations DEF NewestInv
  <1> QED
    BY <1>2, <1>3 DEF SendsCurrent, EveryoneInformed

\* A broadcast is of what is current, to everyone that is served.
LEMMA BroadcastBeginKeeps ==
    ASSUME NewestInv, BroadcastBegin
    PROVE  Gathering' /\ SendsCurrent' /\ EveryoneInformed'
  <1>1. /\ UNCHANGED <<opening, initial, openLate, client, served, pending, endC, age, now, counVars,
                       left, due>>
        /\ bgPc \in {"time", "weather"} /\ bgPc' = "send" /\ todo' = served
        /\ packet' = IF bgPc = "time" THEN GetTimePacket ELSE GetWeatherPacket
    BY DEF BroadcastBegin, Registered, loopVars, openVars, historyVars, tickerVars
  <1>2. Gathering'
    BY <1>1, GathersSame DEF NewestInv, Gathering
  <1>3. SendsCurrent'
    <2>1. CASE bgPc = "time"
      <3>1. packet'.kind = "time" /\ Content(packet') = <<Hour', randInt'>>
        BY <1>1, <2>1 DEF GetTimePacket, Content, Hour, counVars
      <3>2. Current("time", <<Hour, randInt>>)'
        BY DEF Current, HourIs
      <3> QED
        BY <3>1, <3>2 DEF SendsCurrent, Content
    <2>2. CASE bgPc = "weather"
      <3>1. packet'.kind = "weather" /\ Content(packet') = <<temp', precip'>>
        BY <1>1, <2>2 DEF GetWeatherPacket, Content, counVars
      <3>2. Current("weather", <<temp, precip>>)'
        BY DEF Current
      <3> QED
        BY <3>1, <3>2 DEF SendsCurrent, Content
    <2> QED
      BY <1>1, <2>1, <2>2
  <1>4. ASSUME NEW u \in served', NEW t \in Ticker PROVE Informed(u, t)'
    <2>1. u \in User /\ u \in served /\ Informed(u, t)
      <3>1. u \in User /\ u \in served
        BY <1>1, <1>4 DEF NewestInv, ClockInv, TypeOK, LoopTypeOK
      <3> QED
        BY <3>1, UserFacts
    <2>2. Upcoming(u, t) => Upcoming(u, t)'
      BY <1>1, <2>1 DEF Upcoming, Handling, GetTimePacket, GetWeatherPacket
    <2>3. Knows(u, t) => Knows(u, t)'
      BY <1>1, <2>1, CurrentSame, KnowsSame DEF counVars
    <2>4. Fresh(u, t)'
      BY <1>1, <2>1 DEF Informed, Fresh, Fired, InBatch
    <2> QED
      BY <2>1, <2>2, <2>3, <2>4 DEF Informed
  <1> QED
    BY <1>2, <1>3, <1>4 DEF EveryoneInformed

\* When a broadcast ends everyone has been sent it.
LEMMA BroadcastEndKeeps ==
    ASSUME NewestInv, BroadcastEnd
    PROVE  Gathering' /\ SendsCurrent' /\ EveryoneInformed'
  <1>1. /\ UNCHANGED <<opening, initial, openLate, client, served, pending, endC, age, now, counVars,
                       left, due>>
        /\ bgPc = "send" /\ todo = {} /\ bgPc' = "idle"
    BY DEF BroadcastEnd, loopVars, openVars, historyVars, tickerVars
  <1>2. Gathering'
    BY <1>1, GathersSame DEF NewestInv, Gathering
  <1>3. ASSUME NEW u \in served', NEW t \in Ticker PROVE Informed(u, t)'
    <2>1. u \in User /\ u \in served /\ Informed(u, t)
      <3>1. u \in User /\ u \in served
        BY <1>1, <1>3 DEF NewestInv, ClockInv, TypeOK, LoopTypeOK
      <3> QED
        BY <3>1, UserFacts
    <2>2. ~Upcoming(u, t)
      BY <1>1 DEF Upcoming
    <2>3. Knows(u, t)'
      BY <1>1, <2>1, <2>2, CurrentSame, KnowsSame DEF Informed, counVars
    <2>4. Fresh(u, t)'
      BY <1>1, <2>1 DEF Informed, Fresh, Fired, InBatch
    <2> QED
      BY <2>3, <2>4 DEF Informed
  <1> QED
    BY <1>1, <1>2, <1>3 DEF SendsCurrent, EveryoneInformed

\* Background tells everyone what it changes.
LEMMA BackgroundKeeps ==
    ASSUME NewestInv, Background
    PROVE  Gathering' /\ SendsCurrent' /\ EveryoneInformed'
  <1>1. CASE OnTimeTick
    <2>1. /\ bgPc = "idle" /\ bgPc' = "time" /\ UNCHANGED <<now, temp, precip, loopVars, openVars, client>>
          /\ left' \in {left, [left EXCEPT !["time"] = Period("time")]}
      BY <1>1 DEF OnTimeTick, Reset
    <2>2. \A p : Current("weather", p) => Current("weather", p)'
      BY <2>1 DEF Current
    <2> QED
      BY <2>1, <2>2, DrawKeeps DEF Handling, Other, Ticker
  <1>2. CASE OnWeatherTick
    <2>1. /\ bgPc = "idle" /\ bgPc' = "precip" /\ UNCHANGED <<now, randInt, loopVars, openVars, client>>
          /\ left' \in {left, [left EXCEPT !["weather"] = Period("weather")]}
          /\ due' = due \ {"weather"}
      BY <1>2 DEF OnWeatherTick, Reset
    <2>2. \A p : Current("time", p) => Current("time", p)'
      <3>1. left'["time"] = left["time"] /\ ("time" \in due' <=> "time" \in due)
        BY <2>1 DEF NewestInv, ClockInv, TypeOK, Ticker
      <3> QED
        BY <2>1, <3>1 DEF Current, HourIs, Hour, Fired
    <2> QED
      BY <2>1, <2>2, DrawKeeps DEF Handling, Other, Ticker
  <1>3. CASE OnWeatherTickPrecip
    <2>1. /\ bgPc = "precip" /\ bgPc' = "weather"
          /\ UNCHANGED <<now, randInt, loopVars, openVars, client, left, due>>
      BY <1>3 DEF OnWeatherTickPrecip, tickerVars
    <2>2. \A p : Current("time", p) => Current("time", p)'
      BY <2>1 DEF Current, HourIs, Hour, Fired
    <2> QED
      BY <2>1, <2>2, DrawKeeps DEF Handling, Other, Ticker
  <1> QED
    BY <1>1, <1>2, <1>3, BroadcastBeginKeeps, BroadcastSendKeeps, BroadcastEndKeeps DEF Background

\* Time passes, and packets stay in no batch for longer than it lasts.
LEMMA TickKeeps ==
    ASSUME NewestInv, Tick
    PROVE  Gathering' /\ SendsCurrent' /\ EveryoneInformed'
  <1>1. /\ UNCHANGED <<served, pending, temp, bgPc, packet, todo, opening, initial, client>>
        /\ \A u \in User : Opening(u) => openLate[u] < Lag
        /\ openLate' = [u \in User |-> IF Opening(u) THEN openLate[u] + 1 ELSE 0]
        /\ endC' = [u \in User |-> IF InBatch(u) THEN endC[u] - 1 ELSE Nil]
        /\ age' = [u \in User |-> IF InBatch(u) THEN age[u] + 1 ELSE age[u]]
        /\ \A u \in User : InBatch(u) => endC[u] > 0 - Lag
    BY DEF Tick, LoopTick, counVars
  <1>2. \A t, p : Current(t, p) => Current(t, p)'
    BY CurrentTick DEF NewestInv
  <1>3. SendsCurrent'
    BY <1>1, <1>2 DEF NewestInv, SendsCurrent, Content
  <1>4. ASSUME NEW u \in User PROVE Gathers(u)' /\ (InBatch(u)' <=> InBatch(u))
    <2>1. /\ Gathers(u) /\ openLate[u] \in Nat /\ SendDelay \in Nat /\ Lag \in Nat
          /\ SendMaxInterval \in Nat
      BY UserFacts
    <2>2. InBatch(u) => endC[u] \in Int /\ endC[u] <= SendMaxInterval
      BY <2>1, UserFacts DEF InBatch, Timers
    <2>3. InBatch(u)' <=> InBatch(u)
      BY <1>1, <2>1, <2>2 DEF InBatch, Nil
    <2>4. /\ openLate'[u] = IF Opening(u) THEN openLate[u] + 1 ELSE 0
          /\ InBatch(u) => endC'[u] = endC[u] - 1
      BY <1>1
    <2>5. Opening(u)' <=> Opening(u)
      BY <1>1 DEF Opening
    <2>6. Opening(u)' /\ InBatch(u)' => endC'[u] >= SendDelay - openLate'[u]
      BY <2>1, <2>2, <2>3, <2>4, <2>5 DEF Gathers
    <2>7. ~Opening(u)' => openLate'[u] = 0
      BY <2>4, <2>5
    <2> QED
      BY <1>1, <2>1, <2>3, <2>6, <2>7 DEF Gathers
  <1>5. Gathering'
    BY <1>1, <1>4 DEF NewestInv, Gathering
  <1>6. ASSUME NEW u \in served', NEW t \in Ticker PROVE Informed(u, t)'
    <2>1. u \in User /\ u \in served /\ Informed(u, t) /\ age[u] \in Nat /\ Lag \in Nat
      <3>1. u \in User /\ u \in served
        BY <1>1, <1>6 DEF NewestInv, ClockInv, TypeOK, LoopTypeOK
      <3> QED
        BY <3>1, UserFacts
    <2>2. Knows(u, t) => Knows(u, t)'
      BY <1>1, <1>2, <2>1, KnowsSame
    <2>3. Upcoming(u, t) => Upcoming(u, t)'
      BY <1>1 DEF Upcoming, Handling
    <2>4. Fresh(u, t)'
      <3>1. /\ left'[t] = IF left[t] = 1 THEN Period(t) ELSE left[t] - 1
            /\ Fired(t) = Period(t) - left[t] /\ Fired(t)' = Period(t) - left'[t]
            /\ Period(t) \in Nat /\ left[t] \in Nat
        BY Durations DEF Tick, Fired, NewestInv
      <3>2. Fired(t)' = Fired(t) + 1 \/ Fired(t)' = 0
        BY <3>1
      <3>3. InBatch(u) => age'[u] = age[u] + 1
        BY <1>1, <2>1
      <3>4. Fired(t) \in Int
        BY <3>1
      <3> QED
        BY <1>1, <1>4, <2>1, <3>2, <3>3, <3>4 DEF Informed, Fresh
    <2> QED
      BY <2>1, <2>2, <2>3, <2>4 DEF Informed
  <1> QED
    BY <1>3, <1>5, <1>6 DEF EveryoneInformed

-----------------------------------------------------------------------------

\* The server starts with no user that knows anything.
LEMMA NewestInit == Init => NewestInv
  <1> SUFFICES ASSUME Init PROVE NewestInv
    OBVIOUS
  <1>1. ClockInv
    BY ClockInitInv
  <1>2. /\ served = {} /\ pending = [u \in User |-> <<>>] /\ endC = [u \in User |-> Nil]
        /\ opening = [u \in User |-> "out"] /\ openLate = [u \in User |-> 0]
        /\ client = [u \in User |-> <<>>] /\ initial = [u \in User |-> <<>>]
        /\ due = {} /\ bgPc = "idle" /\ left = [t \in Ticker |-> getUntil59(now)]
    BY DEF Init, LoopInit
  <1>3. TickersInTime
    <2> SUFFICES ASSUME NEW t \in Ticker PROVE InTime(t)
      BY DEF TickersInTime
    <2>1. getUntil59(now) \in 1..Minute
      BY Until59Type, ClockAssumption DEF Init
    <2>2. left[t] <= Period(t)
      BY <1>2, <2>1, MinuteFacts DEF Period
    <2> QED
      BY <1>2, <2>2 DEF InTime, Handling
  <1>4. Gathering
    BY <1>2 DEF Gathering, Gathers, Opening, InBatch
  <1> QED
    BY <1>1, <1>2, <1>3, <1>4 DEF NewestInv, SendsCurrent, EveryoneInformed

\* Every step keeps everyone informed.
LEMMA NewestStep == Timely /\ NewestInv /\ [Next]_vars => NewestInv'
  <1> SUFFICES ASSUME Timely, NewestInv, [Next]_vars PROVE NewestInv'
    OBVIOUS
  <1>1. ClockInv /\ TickersInTime /\ ClockInv'
    BY ClockStepInv DEF NewestInv
  <1>2. ASSUME UNCHANGED <<left, due, bgPc, packet, bgLate>> PROVE TickersInTime'
    <2> SUFFICES ASSUME NEW t \in Ticker PROVE InTime(t)'
      BY DEF TickersInTime
    <2> QED
      BY <1>1, <1>2 DEF TickersInTime, InTime, Handling, Fired
  <1>3. CASE Tick
    BY <1>1, <1>3, TickInTime, TickKeeps DEF NewestInv
  <1>4. CASE Background
    BY <1>1, <1>4, BackgroundInTime, BackgroundKeeps DEF NewestInv
  <1>5. ASSUME NEW u \in User, Connection(u) PROVE NewestInv'
    <2>1. TickersInTime'
      BY <1>2, <1>5
      DEF Connection, OnOpen, InitialTime, InitialTemp, InitialPrecip, OpenStep, SendInitial,
          Chatter, SendBatch, OnClose, tickerVars, bgVars
    <2>2. Gathering' /\ SendsCurrent' /\ EveryoneInformed'
      BY <1>5, OnOpenKeeps, InitialKeeps, SendInitialKeeps, ChatterKeeps, SendBatchKeeps,
         OnCloseKeeps DEF Connection
    <2> QED
      BY <1>1, <2>1, <2>2 DEF NewestInv
  <1>6. CASE UNCHANGED vars
    <2>1. UNCHANGED <<loopVars, now, counVars, left, due, bgPc, packet, todo, bgLate, openVars, client,
                      served, pending, endC, age, opening, initial, openLate>>
      BY <1>6 DEF vars, loopVars, historyVars, tickerVars, bgVars, openVars
    <2>2. TickersInTime'
      BY <1>2, <2>1
    <2>3. Gathering'
      BY <2>1, GathersSame DEF NewestInv, Gathering
    <2>4. SendsCurrent'
      BY <2>1, CurrentSame DEF NewestInv, SendsCurrent, Content
    <2>5. ASSUME NEW u \in served', NEW t \in Ticker PROVE Informed(u, t)'
      <3>1. u \in User /\ Informed(u, t)
        BY <1>1, <2>1, <2>5 DEF ClockInv, TypeOK, LoopTypeOK, NewestInv, EveryoneInformed
      <3>2. Upcoming(u, t)' <=> Upcoming(u, t)
        BY <2>1 DEF Upcoming, Handling
      <3>3. InBatch(u)' <=> InBatch(u)
        BY <2>1 DEF InBatch
      <3> QED
        BY <2>1, <3>1, <3>2, <3>3, InformedSame
    <2> QED
      BY <1>1, <2>2, <2>3, <2>4, <2>5 DEF NewestInv, EveryoneInformed
  <1> QED
    BY <1>3, <1>4, <1>5, <1>6 DEF Next

\* Long after a ticker has fired, a client shows what was drawn at it.
LEMMA ShowsCurrent ==
    ASSUME NewestInv, NEW u \in User, opening[u] = "open", NEW t \in Ticker, Fired(t) > Deadline
    PROVE  Current(t, client[u][t]) /\ t \notin due
  <1>1. u \in served /\ Informed(u, t) /\ SendMaxInterval \in Nat /\ age[u] \in Nat
    BY UserFacts
  <1>2. InTime(t) /\ Fired(t) \in Int /\ bgLate \in 0..Lag /\ Lag \in Nat
    BY Durations DEF NewestInv, TickersInTime
  <1>3. InBatch(u) => age[u] <= SendMaxInterval + Lag
    BY LoopInvImplies DEF NewestInv, ClockInv, BatchBounded
  <1>4. Fired(t) > 2 * Lag + SendMaxInterval + Lag
    BY DEF Deadline
  <1>5. ~Handling(t) /\ t \notin due
    BY <1>1, <1>2, <1>4 DEF InTime
  <1>6. LastOf(pending[u], t) = {}
    BY <1>1, <1>2, <1>3, <1>4 DEF Informed, Fresh
  <1> QED
    BY <1>1, <1>5, <1>6 DEF Informed, Upcoming, Knows

\* What has been drawn is shown by every client before long, also by one whose
\* connection opened meanwhile.
THEOREM NewestIsShown == ASSUME Timely PROVE Spec => []NewestShown
  <1>1. NewestInv => NewestShown
    BY ShowsCurrent DEF NewestShown, Current, Ticker
  <1>2. NewestInv /\ [Next]_vars => NewestInv'
    BY NewestStep
  <1> QED
    BY NewestInit, <1>1, <1>2, PTL DEF Spec

\* The hour that a client shows is not older than the one before, however a
\* connection that opened read it.
THEOREM HoursFollow == ASSUME Timely PROVE Spec => []HourFollows
  <1>1. NewestInv => HourFollows
    BY ShowsCurrent DEF HourFollows, Current, HourIs, Ticker
  <1>2. NewestInv /\ [Next]_vars => NewestInv'
    BY NewestStep
  <1> QED
    BY NewestInit, <1>1, <1>2, PTL DEF Spec
=============================================================================
