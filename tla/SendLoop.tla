------------------------------ MODULE SendLoop ------------------------------
(***************************************************************************)
(* SendLoop (api/room/user): the goroutine that gathers the messages for   *)
(* one connection into batches.  The first message begins a batch; each    *)
(* message sets the timer endC anew, as long as that does not take the     *)
(* batch past endMax; when the timer has fired the batch is sent.          *)
(*                                                                         *)
(* Time passes in ticks, and timers are counted down: endC and endMax are  *)
(* the ticks that are left, negative when they are over.  The outbox is an *)
(* unbuffered channel, so a Send is received in one step with the send.    *)
(* A goroutine that can run may be kept waiting for up to Lag ticks.       *)
(***************************************************************************)
EXTENDS Integers, Sequences

CONSTANTS
    User,
    Message,            \* messages whose contents matter; of others only the time does
    SendDelay,          \* sendDelay, in ticks
    SendMaxInterval,    \* sendMaxInterval
    Lag                 \* bound: how late a goroutine can be

ASSUME SendLoopAssumption ==
    /\ SendDelay \in Nat \ {0} /\ SendMaxInterval \in Nat /\ Lag \in Nat
    /\ SendDelay <= SendMaxInterval

VARIABLES
    served,     \* the users whose SendLoop runs
    pending,    \* the batch, per user
    endMax,     \* when it ends at the latest
    endC,       \* when the timer fires, or Nil
    age, quiet, \* ticks since its first and since its last message: history variables
    sent        \* ticks since the last batch ended, at most SendDelay: history

historyVars == <<age, quiet, sent>>
loopVars == <<served, pending, endMax, endC, historyVars>>

Nil == SendMaxInterval + 1

Timers == (0 - Lag)..SendMaxInterval

InBatch(u) == endC[u] # Nil

LoopTypeOK ==
    /\ served \subseteq User
    /\ pending \in [User -> Seq(Message)]
    /\ endMax \in [User -> Timers]
    /\ endC \in [User -> Timers \cup {Nil}]
    /\ age \in [User -> 0..SendMaxInterval + Lag]
    /\ quiet \in [User -> 0..SendMaxInterval + Lag]
    /\ sent \in [User -> 0..SendDelay]

LoopInit ==
    /\ served = {}
    /\ pending = [u \in User |-> <<>>]
    /\ endMax = [u \in User |-> 0]
    /\ endC = [u \in User |-> Nil]
    /\ age = [u \in User |-> 0] /\ quiet = age
    /\ sent = [u \in User |-> SendDelay]

-----------------------------------------------------------------------------

\* go s.SendLoop()
Serve(u) ==
    /\ u \notin served
    /\ served' = served \cup {u}
    /\ UNCHANGED <<pending, endMax, endC, historyVars>>

\* What one call of Send may add to the batch.
Sends == {<<>>} \cup {<<m>> : m \in Message}

\* A message begins a batch when there is none.
TimeLeft_restarted(u) == SendMaxInterval
TimeLeft(u) == IF InBatch(u) THEN endMax[u] ELSE SendMaxInterval

\* Names with an underscore are faulty variants of the definition after them.
TimerAfter_kept(u) == IF InBatch(u) THEN endC[u] ELSE SendMaxInterval
TimerAfter_atOnce(u) == IF InBatch(u) THEN endC[u] ELSE 0
TimerAfter(u) == IF TimeLeft(u) >= SendDelay THEN SendDelay ELSE endC[u]

\* The select takes messages from the outbox, be the timer over or not.
Receive(u, msgs) ==
    /\ u \in served
    /\ endMax' = [endMax EXCEPT ![u] = TimeLeft(u)]
    /\ endC' = [endC EXCEPT ![u] = TimerAfter(u)]
    /\ pending' = [pending EXCEPT ![u] = @ \o msgs]
    /\ age' = [age EXCEPT ![u] = IF InBatch(u) THEN @ ELSE 0]
    /\ quiet' = [quiet EXCEPT ![u] = 0]
    /\ UNCHANGED <<served, sent>>

\* The timer has fired; the batch is empty if the messages were none.
Flush(u) ==
    /\ u \in served /\ InBatch(u) /\ endC[u] <= 0
    /\ pending' = [pending EXCEPT ![u] = <<>>]
    /\ endC' = [endC EXCEPT ![u] = Nil]
    /\ sent' = [sent EXCEPT ![u] = 0]
    /\ UNCHANGED <<served, endMax, age, quiet>>

\* OnClose closes the outbox: SendLoop returns, and its batch is lost.
CloseOutbox(u) ==
    /\ u \in served
    /\ served' = served \ {u}
    /\ pending' = [pending EXCEPT ![u] = <<>>]
    /\ endC' = [endC EXCEPT ![u] = Nil]
    /\ UNCHANGED <<endMax, historyVars>>

\* Time does not pass by a SendLoop whose timer is over by Lag ticks.
LoopTick ==
    /\ \A u \in User : InBatch(u) => endC[u] > 0 - Lag
    /\ endMax' = [u \in User |-> IF InBatch(u) THEN endMax[u] - 1 ELSE endMax[u]]
    /\ endC' = [u \in User |-> IF InBatch(u) THEN endC[u] - 1 ELSE Nil]
    /\ age' = [u \in User |-> IF InBatch(u) THEN age[u] + 1 ELSE age[u]]
    /\ quiet' = [u \in User |-> IF InBatch(u) THEN quiet[u] + 1 ELSE quiet[u]]
    /\ sent' = [u \in User |-> IF sent[u] < SendDelay THEN sent[u] + 1 ELSE SendDelay]
    /\ UNCHANGED <<served, pending>>

LoopNext ==
    \/ LoopTick
    \/ \E u \in User :
          Serve(u) \/ Flush(u) \/ CloseOutbox(u) \/ \E msgs \in Sends : Receive(u, msgs)

LoopSpec == LoopInit /\ [][LoopNext]_loopVars

-----------------------------------------------------------------------------

\* "The maximum amount of time we will wait ... before flushing": however many
\* messages keep coming, and though the select may prefer them to a timer that
\* has fired, no batch is older than sendMaxInterval, but for the lag.
BatchBounded == \A u \in User : InBatch(u) => age[u] <= SendMaxInterval + Lag

\* "We want it to be low (so that observable latency is low)": when no message
\* comes for sendDelay the batch is sent, also when the last one came so late
\* that the timer was not set again.
QuietEnds == \A u \in User : InBatch(u) => quiet[u] <= SendDelay + Lag

\* "keeping packet rate low": two batches end at least sendDelay apart.
RateLow == [][\A u \in User : InBatch(u) /\ u \in served' /\ endC'[u] = Nil
                  => sent[u] = SendDelay]_loopVars
=============================================================================
