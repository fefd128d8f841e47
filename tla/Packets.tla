------------------------------- MODULE Packets -------------------------------
(***************************************************************************)
(* How the packets of one player are handled (OnMessage in                 *)
(* api/room/handler.go): the seal and the counter of the guard, the        *)
(* parsing of the messages, their validation, and processMessage with the  *)
(* player's data, what it shares and how the player is introduced.         *)
(*                                                                         *)
(* A message is a kind and its parts.  Numbers stand for themselves and    *)
(* for names, 0 for the empty one; a part that is no number is Junk.  Of   *)
(* the fields of a picture, a sound or a flash only those that are         *)
(* validated are kept, once each.  What pictures and flashes do is the     *)
(* subject of Appearance, and entering a room that of RoomHandler.         *)
(***************************************************************************)
EXTENDS Integers, SequencesExt

CONSTANTS
    Worker,         \* goroutines that may run OnMessage for the connection
    Part,           \* what a part of a message may be
    Packet,         \* [count, sealed, body]: packets that may be sent
    Legit,          \* messages that the game's own client may send
    MaxPackets,     \* bound: packets sent
    MaxInt,         \* the largest int32
    Rooms, SPMaps, Sprites, Systems, Pictures, BattleAnims    \* filters.Filters

ASSUME PacketsAssumption ==
    /\ MaxPackets \in Nat /\ MaxInt \in Nat /\ SPMaps \subseteq Rooms
    /\ 0 \notin Sprites \cup Systems \cup Pictures
    /\ \A p \in Packet :
          p.count \in Nat /\ p.sealed \in BOOLEAN /\ Len(p.body) \in Nat \ {0}

ASSUME BodyAssumption == \A p \in Packet : p.body \in Seq([kind : STRING, parts : Seq(Part)])

VARIABLES
    wire,           \* the packets sent so far, in order
    taken,          \* how many of them have been taken off the connection
    guardCount,     \* ClientData.GuardCount
    room, data,     \* ClientData.RoomID, and what is seen of the player
    pc, doing,      \* per goroutine: where OnMessage stands, and for which packet
    nth,            \* ... and the message it processes
    view,           \* what roommates show of the player
    shared,         \* the latest message they were sent
    effects         \* <<packet, message>> in the order of processing: history

workVars == <<pc, doing, nth>>
clientVars == <<wire, view, shared>>
vars == <<clientVars, taken, guardCount, room, data, workVars, effects>>

-----------------------------------------------------------------------------
(* The messages                                                             *)

Position == {"MainPlayerPos", "Teleport", "Jump"}
Flashes == {"Flash", "RepeatingFlash"}

\* The registry's types, by kind.
Types(kind) ==
    CASE kind \in Position -> <<"int32", "int32">>
      [] kind = "Sprite" -> <<"string", "int32">>
      [] kind = "SysName" -> <<"string">>
      [] kind = "Hidden" -> <<"bool">>
      [] kind \in Flashes \cup {"SoundEffect"} -> <<"int32", "int32", "int32">>
      [] kind = "RemoveRepeatingFlash" -> <<>>
      [] kind = "ShowPicture" -> <<"int32", "int32", "int32", "int32", "string">>
      [] kind = "MovePicture" -> <<"int32", "int32", "int32", "int32", "int32">>
      [] OTHER -> <<"int32">>

Kinds ==
    {"SwitchRoom", "Speed", "Sprite", "Facing", "Hidden", "SysName", "Transparency",
     "SoundEffect", "RemoveRepeatingFlash", "ShowPlayerBattleAnim", "ShowPicture",
     "MovePicture", "ErasePicture"} \cup Position \cup Flashes

Natural == 0..MaxInt

BasePicture == <<0..1000, Natural, 0..200, Natural>>

\* What validateMessage allows for each part.  (Names with an underscore are
\* faulty variants of the definition after them.)
LimitsOf(kind) ==
    CASE kind = "SwitchRoom" -> <<Rooms>>
      [] kind = "Facing" -> <<0..3>>
      [] kind = "Speed" -> <<0..10>>
      [] kind = "SysName" -> <<Systems>>
      [] kind = "Sprite" -> <<Sprites, Natural>>
      [] kind = "Hidden" -> <<{0, 1}>>
      [] kind \in Position -> <<0..500, 0..500>>
      [] kind = "Transparency" -> <<0..7>>
      [] kind = "SoundEffect" -> <<0..100, 10..400, 0..100>>
      [] kind \in Flashes -> <<0..255, Natural, Natural>>
      [] kind = "RemoveRepeatingFlash" -> <<>>
      [] kind = "ShowPlayerBattleAnim" -> <<BattleAnims>>
      [] kind = "ShowPicture" -> BasePicture \o <<Pictures>>
      [] kind = "MovePicture" -> BasePicture \o <<Natural>>
      [] kind = "ErasePicture" -> <<0..1000>>

Limits_index(kind) == IF kind = "Sprite" THEN <<Sprites, -1..MaxInt>> ELSE LimitsOf(kind)
Limits(kind) == LimitsOf(kind)

Parses(type, part) ==
    CASE type = "int32" -> part \in -MaxInt - 1..MaxInt
      [] type = "bool" -> part \in {0, 1}
      [] OTHER -> TRUE

\* Too few parts make it panic, and gws recovers from that: the packet is
\* dropped as it is for an error.
Deserialize(msgs) ==
    \A i \in 1..Len(msgs) :
        LET m == msgs[i] IN
        /\ m.kind \in Kinds
        /\ Len(m.parts) = Len(Types(m.kind))
        /\ \A j \in 1..Len(m.parts) : Parses(Types(m.kind)[j], m.parts[j])

validateMessage(m) == \A j \in 1..Len(m.parts) : m.parts[j] \in Limits(m.kind)[j]

\* Every message is validated before the first is processed.
Validated_first(msgs) == validateMessage(msgs[1])
Validated(msgs) == \A i \in 1..Len(msgs) : validateMessage(msgs[i])

-----------------------------------------------------------------------------
(* The player's data                                                        *)

Default ==
    [x |-> -1, y |-> -1, facing |-> 2, speed |-> 3, transparency |-> 0, hidden |-> 0,
     sprite |-> 0, index |-> -1, sysName |-> 0]

\* The fields that a message of the kind sets.
Fields(kind) ==
    CASE kind \in Position -> <<"x", "y">> [] kind = "Speed" -> <<"speed">>
      [] kind = "Sprite" -> <<"sprite", "index">> [] kind = "Facing" -> <<"facing">>
      [] kind = "Hidden" -> <<"hidden">> [] kind = "SysName" -> <<"sysName">>
      [] kind = "Transparency" -> <<"transparency">> [] OTHER -> <<>>

Written(d, m) ==
    LET fields == Fields(m.kind) IN
    [f \in DOMAIN d |-> IF \E j \in 1..Len(fields) : fields[j] = f
                          THEN m.parts[CHOOSE j \in 1..Len(fields) : fields[j] = f] ELSE d[f]]

\* What roommates are sent for a message: the data it has set, or what it says.
\* (A Teleport keeps its name here; its position is shared as MainPlayerPos.)
Share(d, m) ==
    [kind |-> m.kind,
     parts |-> IF Fields(m.kind) = <<>> THEN m.parts
               ELSE [j \in 1..Len(m.parts) |-> d[Fields(m.kind)[j]]]]

\* What clients assume is left out.
Intro(d) ==
    (IF d.x # Default.x \/ d.y # Default.y THEN {"x", "y"} ELSE {})
        \cup (IF d.index # Default.index /\ d.sprite # Default.sprite
                THEN {"sprite", "index"} ELSE {})
        \cup {f \in {"facing", "speed", "transparency", "hidden", "sysName"} :
                 d[f] # Default[f]}

\* How a client shows a player that it has just been introduced to.
Introduced(d) == [f \in DOMAIN Default |-> IF f \in Intro(d) THEN d[f] ELSE Default[f]]

-----------------------------------------------------------------------------

Nothing == [kind |-> "none", parts |-> <<>>]

PCs == {"idle", "guard", "parse", "validate", "process"}

TypeOK ==
    /\ wire \in Seq(Packet) /\ taken \in 0..Len(wire)
    /\ guardCount \in {0} \cup {p.count : p \in Packet}
    /\ room \in Rooms
    /\ pc \in [Worker -> PCs]
    /\ doing \in [Worker -> 0..MaxPackets] /\ nth \in [Worker -> Nat]
    /\ \A i \in 1..Len(effects) : effects[i][1] \in 1..taken

Init ==
    /\ wire = <<>> /\ taken = 0 /\ guardCount = 0
    /\ room \in Rooms
    /\ data = Default /\ view = Default /\ shared = Nothing
    /\ pc = [w \in Worker |-> "idle"]
    /\ doing = [w \in Worker |-> 0] /\ nth = [w \in Worker |-> 0]
    /\ effects = <<>>

\* The client sends a packet.
SendPacket(p) ==
    /\ Len(wire) < MaxPackets
    /\ wire' = Append(wire, p)
    /\ UNCHANGED <<taken, guardCount, room, data, workVars, view, shared, effects>>

ParallelEnabled_on == TRUE
ParallelEnabled == FALSE

Goto(w, l) == pc' = [pc EXCEPT ![w] = l]

\* gws takes a packet off the connection and calls OnMessage.
OnMessage(w) ==
    /\ pc[w] = "idle" /\ taken < Len(wire)
    /\ ParallelEnabled \/ \A v \in Worker : pc[v] = "idle"
    /\ taken' = taken + 1
    /\ doing' = [doing EXCEPT ![w] = taken + 1]
    /\ Goto(w, "guard")
    /\ UNCHANGED <<clientVars, guardCount, room, data, nth, effects>>

msgs(w) == wire[doing[w]].body

\* The seal is the packet's and the counter has increased.
Guarded_again(w) == wire[doing[w]].sealed /\ wire[doing[w]].count >= guardCount
Guarded(w) == wire[doing[w]].sealed /\ wire[doing[w]].count > guardCount

Accept(w) ==
    /\ pc[w] = "guard" /\ Guarded(w)
    /\ guardCount' = wire[doing[w]].count
    /\ Goto(w, "parse")
    /\ UNCHANGED <<clientVars, taken, room, data, doing, nth, effects>>

Parse(w) ==
    /\ pc[w] = "parse" /\ Deserialize(msgs(w))
    /\ Goto(w, "validate")
    /\ UNCHANGED <<clientVars, taken, guardCount, room, data, doing, nth, effects>>

Validate(w) ==
    /\ pc[w] = "validate" /\ Validated(msgs(w))
    /\ Goto(w, "process")
    /\ nth' = [nth EXCEPT ![w] = 1]
    /\ UNCHANGED <<clientVars, taken, guardCount, room, data, doing, effects>>

Drop(w) ==
    /\ \/ pc[w] = "guard" /\ ~Guarded(w)
       \/ pc[w] = "parse" /\ ~Deserialize(msgs(w))
       \/ pc[w] = "validate" /\ ~Validated(msgs(w))
    /\ Goto(w, "idle")
    /\ doing' = [doing EXCEPT ![w] = 0]
    /\ UNCHANGED <<clientVars, taken, guardCount, room, data, nth, effects>>

\* The last message ends OnMessage.
Advance(w) ==
    LET last == nth[w] = Len(msgs(w)) IN
    /\ Goto(w, IF last THEN "idle" ELSE "process")
    /\ doing' = [doing EXCEPT ![w] = IF last THEN 0 ELSE @]
    /\ nth' = [nth EXCEPT ![w] = IF last THEN 0 ELSE @ + 1]
    /\ effects' = Append(effects, <<doing[w], nth[w]>>)

\* Nothing is shared in a singleplayer map.
processMessage(w) ==
    LET m == msgs(w)[nth[w]] IN
    /\ pc[w] = "process" /\ m.kind # "SwitchRoom"
    /\ data' = Written(data, m)
    /\ shared' = IF room \in SPMaps THEN shared ELSE Share(data', m)
    /\ view' = IF room \in SPMaps THEN view ELSE Written(view, Share(data', m))
    /\ Advance(w)
    /\ UNCHANGED <<wire, taken, guardCount, room>>

\* changeRoom introduces the player to those in the new room.
SwitchRoom(w) ==
    LET m == msgs(w)[nth[w]] IN
    /\ pc[w] = "process" /\ m.kind = "SwitchRoom"
    /\ room' = m.parts[1]
    /\ view' = Introduced(data)
    /\ Advance(w)
    /\ UNCHANGED <<wire, shared, taken, guardCount, data>>

\* The client may send no more.
Rest ==
    /\ Len(wire) = MaxPackets /\ taken = MaxPackets /\ \A w \in Worker : pc[w] = "idle"
    /\ UNCHANGED vars

Next ==
    \/ \E p \in Packet : SendPacket(p)
    \/ \E w \in Worker :
          \/ OnMessage(w) \/ Accept(w) \/ Parse(w) \/ Validate(w) \/ Drop(w)
          \/ processMessage(w) \/ SwitchRoom(w)
    \/ Rest

Spec == Init /\ [][Next]_vars

-----------------------------------------------------------------------------

Settled == \A w \in Worker : pc[w] = "idle"

Took(i) == {j \in 1..Len(wire[i].body) : <<i, j>> \in ToSet(effects)}

\* "A packet is applied entirely or not at all": the packets that have an effect
\* take it one after another, in the order in which they were sent, and each
\* with all of its messages in order.
AllOrNothing ==
    /\ \A k \in 1..Len(effects) - 1 :
          \/ effects[k + 1] = <<effects[k][1], effects[k][2] + 1>>
          \/ effects[k + 1][1] > effects[k][1] /\ effects[k + 1][2] = 1
    /\ Settled => \A i \in 1..taken : Took(i) \in {{}, 1..Len(wire[i].body)}

\* The packets that the game's own client has sent.
Proper(i) ==
    /\ wire[i].sealed
    /\ \A j \in 1..Len(wire[i].body) : wire[i].body[j] \in Legit
    /\ wire[i].count > 0 /\ \A h \in 1..i - 1 : wire[h].sealed => wire[h].count < wire[i].count

\* No legitimate packet is dropped ("if we do, the guard message counter check
\* will start dropping legitimate messages"), and none that carries a counter
\* again is applied.
LegitDelivered ==
    Settled => \A i \in 1..taken :
        /\ Proper(i) => Took(i) # {}
        /\ Took(i) # {} => \A h \in 1..i - 1 : wire[h].sealed => wire[h].count < wire[i].count

\* Whatever is sent, the player's looks and what is shared of it are such as the
\* game's own client could have made them.
DataValid ==
    /\ \A f \in DOMAIN data : data[f] # Default[f] =>
          \E m \in Legit : \E j \in 1..Len(Fields(m.kind)) :
              Fields(m.kind)[j] = f /\ m.parts[j] = data[f]
    /\ shared = Nothing \/ shared \in Legit

\* "So we look how we are meant to look on their screen": those who have been
\* in the room and those who enter it see the same, what the player has set,
\* although introductions leave out what clients assume.
RoommatesAgree ==
    Settled /\ room \notin SPMaps => view = data /\ Introduced(data) = data
=============================================================================
