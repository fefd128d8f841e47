-------------------------------- MODULE Clock --------------------------------
(***************************************************************************)
(* The shared clock of Collective Unconscious (api/room/background.go and  *)
(* api/room/unconscious): a background goroutine draws a new random value  *)
(* every minute and new weather every other minute, and broadcasts them;   *)
(* a connection that opens is sent the present ones.  An hour of the game  *)
(* is a minute.                                                            *)
(*                                                                         *)
(* Broadcasts go through the users' outboxes (SendLoop), the packets of a  *)
(* connection that opens past them.  The fields of Unconscious are read    *)
(* and written without a lock.  Of all the other messages that a user is   *)
(* sent, only their arrival matters here.                                  *)
(***************************************************************************)
EXTENDS SendLoop

CONSTANTS
    Seconds,        \* in a minute; the last one is second 59
    SecondTicks,    \* ticks in a second
    Cycle,          \* perCounCycle, in hours of the game
    Value,          \* random values and values of the weather
    Starts          \* ticks of the first minute at which the server may start

Minute == Seconds * SecondTicks

Packet == [kind : {"time", "weather"}, first : (0..Cycle - 1) \cup Value, second : Value]

ASSUME ClockAssumption ==
    /\ Seconds \in Nat \ {0} /\ SecondTicks \in Nat \ {0} /\ Cycle \in Nat \ {0}
    /\ Starts \subseteq 0..Minute - 1
    /\ Packet \subseteq Message

VARIABLES
    now,                    \* ticks since the epoch, modulo the cycle
    randInt, temp, precip,  \* Unconscious
    left,                   \* ticks until each of the tickers fires
    due, didReset,          \* the tickers with a tick to receive; those that were reset
    bgPc, packet, todo,     \* Background; what it broadcasts, users left to send it to
    bgLate,                 \* ticks for which Background has been late
    opening, initial,       \* where OnOpen stands, and the packets it has gathered
    openLate,               \* ticks that OnOpen has taken
    client                  \* what each client has been told

counVars == <<randInt, temp, precip>>
tickerVars == <<left, due, didReset>>
bgVars == <<bgPc, packet, todo, bgLate>>
openVars == <<opening, initial, openLate>>
vars == <<loopVars, now, counVars, tickerVars, bgVars, openVars, client>>

Ticker == {"time", "weather"}

\* Both tickers are reset when they have fired first.  (Names with an
\* underscore are faulty variants of the definition after them.)
Period_swapped(t) == IF t = "time" THEN 2 * Minute ELSE Minute
Period(t) == IF t = "time" THEN Minute ELSE 2 * Minute

NoPacket == [kind |-> "none", first |-> 0, second |-> 0]

TypeOK ==
    /\ LoopTypeOK
    /\ now \in 0..(Cycle * Minute - 1)
    /\ randInt \in Value /\ temp \in Value /\ precip \in Value
    /\ left \in [Ticker -> 1..2 * Minute]
    /\ due \subseteq Ticker /\ didReset \subseteq Ticker
    /\ bgPc \in {"idle", "time", "precip", "weather", "send"}
    /\ packet \in (IF bgPc = "send" THEN Packet ELSE {NoPacket})
    /\ todo \subseteq (IF bgPc = "send" THEN served ELSE {}) /\ bgLate \in 0..Lag
    /\ opening \in [User -> {"out", "time", "temp", "precip", "send", "open"}]
    /\ openLate \in [User -> 0..Lag]
    /\ \A u \in User : opening[u] # "out" <=> u \in served

-----------------------------------------------------------------------------
(* Time                                                                     *)

Hour == now \div Minute

\* The fraction of the second is dropped.
getUntil59_zero(t) ==
    LET until == Seconds - 1 - (t % Minute) \div SecondTicks
    IN  SecondTicks * (IF until < 0 THEN until + Seconds ELSE until)
getUntil59(t) ==
    LET until == Seconds - 1 - (t % Minute) \div SecondTicks
    IN  SecondTicks * (IF until <= 0 THEN until + Seconds ELSE until)

Init ==
    /\ LoopInit
    /\ now \in Starts
    /\ randInt \in Value /\ temp \in Value /\ precip \in Value
    /\ left = [t \in Ticker |-> getUntil59(now)]
    /\ due = {} /\ didReset = {}
    /\ bgPc = "idle" /\ packet = NoPacket /\ todo = {} /\ bgLate = 0
    /\ opening = [u \in User |-> "out"]
    /\ initial = [u \in User |-> <<>>]
    /\ openLate = [u \in User |-> 0]
    /\ client = [u \in User |-> <<>>]

BackgroundBusy == bgPc # "idle" \/ due # {}

Opening(u) == opening[u] \notin {"out", "open"}

\* A ticker whose tick was not received yet drops the next one.
Tick ==
    /\ LoopTick
    /\ BackgroundBusy => bgLate < Lag
    /\ \A u \in User : Opening(u) => openLate[u] < Lag
    /\ now' = (now + 1) % (Cycle * Minute)
    /\ left' = [t \in Ticker |-> IF left[t] = 1 THEN Period(t) ELSE left[t] - 1]
    /\ due' = due \cup {t \in Ticker : left[t] = 1}
    /\ bgLate' = IF BackgroundBusy THEN bgLate + 1 ELSE 0
    /\ openLate' = [u \in User |-> IF Opening(u) THEN openLate[u] + 1 ELSE 0]
    /\ UNCHANGED <<counVars, didReset, bgPc, packet, todo, opening, initial, client>>

-----------------------------------------------------------------------------
(* Background                                                               *)

Reset(t) ==
    /\ left' = IF t \in didReset THEN left ELSE [left EXCEPT ![t] = Period(t)]
    /\ didReset' = didReset \cup {t}
    /\ due' = due \ {t}

OnTimeTick ==
    /\ bgPc = "idle" /\ "time" \in due
    /\ Reset("time")
    /\ randInt' \in Value
    /\ bgPc' = "time"
    /\ UNCHANGED <<loopVars, now, temp, precip, packet, todo, bgLate, openVars, client>>

\* OnWeatherTick writes the one and then the other.
OnWeatherTick ==
    /\ bgPc = "idle" /\ "weather" \in due
    /\ Reset("weather")
    /\ temp' \in Value
    /\ bgPc' = "precip"
    /\ UNCHANGED <<loopVars, now, randInt, precip, packet, todo, bgLate, openVars, client>>

OnWeatherTickPrecip ==
    /\ bgPc = "precip"
    /\ precip' \in Value
    /\ bgPc' = "weather"
    /\ UNCHANGED <<loopVars, now, randInt, temp, tickerVars, packet, todo, bgLate, openVars,
                   client>>

GetTimePacket == [kind |-> "time", first |-> Hour, second |-> randInt]

GetWeatherPacket == [kind |-> "weather", first |-> temp, second |-> precip]

\* h.users
Registered_opened == {u \in served : opening[u] = "open"}
Registered == served

\* The packet is read, and broadcast takes usersMu.
BroadcastBegin ==
    /\ bgPc \in {"time", "weather"}
    /\ packet' = IF bgPc = "time" THEN GetTimePacket ELSE GetWeatherPacket
    /\ todo' = Registered
    /\ bgPc' = "send"
    /\ UNCHANGED <<loopVars, now, counVars, tickerVars, bgLate, openVars, client>>

BroadcastSend(u) ==
    /\ bgPc = "send" /\ u \in todo
    /\ Receive(u, <<packet>>)
    /\ todo' = todo \ {u}
    /\ UNCHANGED <<now, counVars, tickerVars, bgPc, packet, bgLate, openVars, client>>

BroadcastEnd ==
    /\ bgPc = "send" /\ todo = {}
    /\ bgPc' = "idle" /\ packet' = NoPacket /\ bgLate' = 0
    /\ UNCHANGED <<loopVars, now, counVars, tickerVars, todo, openVars, client>>

-----------------------------------------------------------------------------
(* The users' connections                                                   *)

\* usersMu is not held by the broadcast.
UsersFree == bgPc # "send"

\* OnOpen registers the user.
OnOpen(u) ==
    /\ opening[u] = "out" /\ UsersFree
    /\ Serve(u)
    /\ opening' = [opening EXCEPT ![u] = "time"]
    /\ UNCHANGED <<now, counVars, tickerVars, bgVars, initial, openLate, client>>

OpenStep(u, from, to, packets) ==
    /\ opening[u] = from
    /\ opening' = [opening EXCEPT ![u] = to]
    /\ initial' = [initial EXCEPT ![u] = packets]
    /\ UNCHANGED <<loopVars, now, counVars, tickerVars, bgVars, openLate, client>>

InitialTime(u) == OpenStep(u, "time", "temp", <<GetTimePacket>>)

\* GetWeatherPacket reads the one and then the other.
InitialTemp(u) == OpenStep(u, "temp", "precip", Append(initial[u], GetWeatherPacket))

InitialPrecip(u) ==
    OpenStep(u, "precip", "send", <<initial[u][1], [initial[u][2] EXCEPT !.second = precip]>>)

\* Where the last packet of a kind is among those that are told.
LastOf(packets, t) ==
    {i \in 1..Len(packets) :
        packets[i].kind = t /\ \A j \in i + 1..Len(packets) : packets[j].kind # t}

\* The client keeps the last packet of each kind.
Told(state, packets) ==
    [t \in Ticker |->
        IF LastOf(packets, t) = {} THEN state[t]
        ELSE LET i == CHOOSE i \in LastOf(packets, t) : TRUE
             IN  <<packets[i].first, packets[i].second>>]

Nothing == [t \in Ticker |-> <<0, 0>>]

SendInitial(u) ==
    /\ opening[u] = "send"
    /\ client' = [client EXCEPT ![u] = Told(Nothing, initial[u])]
    /\ opening' = [opening EXCEPT ![u] = "open"]
    /\ initial' = [initial EXCEPT ![u] = <<>>]
    /\ openLate' = [openLate EXCEPT ![u] = 0]
    /\ UNCHANGED <<loopVars, now, counVars, tickerVars, bgVars>>

\* Any other message for the user, who is registered while OnOpen still runs
\* (UpdateBlockList of another player).
Chatter(u) ==
    /\ opening[u] # "out"
    /\ Receive(u, <<>>)
    /\ UNCHANGED <<now, counVars, tickerVars, bgVars, openVars, client>>

\* A client that is sent the packets of a broadcast first is told them first.
SendBatch(u) ==
    /\ Flush(u)
    /\ client' = [client EXCEPT ![u] = Told(IF @ = <<>> THEN Nothing ELSE @, pending[u])]
    /\ UNCHANGED <<now, counVars, tickerVars, bgVars, openVars>>

OnClose(u) ==
    /\ opening[u] = "open" /\ UsersFree
    /\ CloseOutbox(u)
    /\ opening' = [opening EXCEPT ![u] = "out"]
    /\ client' = [client EXCEPT ![u] = <<>>]
    /\ UNCHANGED <<now, counVars, tickerVars, bgVars, initial, openLate>>

-----------------------------------------------------------------------------

Background ==
    \/ OnTimeTick \/ OnWeatherTick \/ OnWeatherTickPrecip
    \/ BroadcastBegin \/ (\E u \in User : BroadcastSend(u)) \/ BroadcastEnd

Connection(u) ==
    \/ OnOpen(u) \/ InitialTime(u) \/ InitialTemp(u) \/ InitialPrecip(u) \/ SendInitial(u)
    \/ Chatter(u) \/ SendBatch(u) \/ OnClose(u)

Next == Tick \/ Background \/ \E u \in User : Connection(u)

Spec == Init /\ [][Next]_vars

-----------------------------------------------------------------------------

\* When everyone must have been told, after a ticker has fired: Background is
\* late, for the other ticker too, and then the batch is.
Deadline == 2 * Lag + SendMaxInterval + Lag

Fired(t) == Period(t) - left[t]

\* "To avoid desync": a client shows the newest random value and the newest
\* weather when Deadline ticks have passed since they were drawn, also one that
\* opened meanwhile: the packets read in OnOpen and those of a broadcast
\* never overtake one another, and a torn reading of the weather is made good.
NewestShown ==
    \A u \in User : opening[u] = "open" =>
        /\ Fired("time") > Deadline => client[u]["time"][2] = randInt
        /\ Fired("weather") > Deadline => client[u]["weather"] = <<temp, precip>>

\* The hour that a client shows is the present or the previous one.
HourFollows ==
    \A u \in User : opening[u] = "open" /\ Fired("time") > Deadline =>
        client[u]["time"][1] \in {Hour, (Hour + Cycle - 1) % Cycle}

\* "Sent globally to all players at the same time to avoid desync": clients
\* show the same hour.
SameHour ==
    \A u, v \in User : opening[u] = "open" /\ opening[v] = "open" /\ Fired("time") > Deadline =>
        client[u]["time"][1] = client[v]["time"][1]

\* "Right before the minute to give update packets a moment to send": a time
\* packet is read in the last second of a minute.
ReadBeforeMinute ==
    [][bgPc = "time" /\ bgPc' = "send"
          => (now % Minute) \div SecondTicks = Seconds - 1]_vars
=============================================================================
