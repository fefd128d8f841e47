----------------------------- MODULE Appearance -----------------------------
(***************************************************************************)
(* What players look like on each other's screens (api/room/process.go,    *)
(* GetIntroMessages, and the greeting of changeRoom).                      *)
(*                                                                         *)
(* A player starts in a singleplayer map, may change its looks there       *)
(* unseen, and enters the one shared map, where every change is shared.    *)
(* A newcomer gathers the introduction of each member, under the room's    *)
(* read lock, and queues them all when it has gathered the last; sharing   *)
(* takes only the read lock as well, so that a member may change its looks *)
(* and share the change in between.  Comings and goings, and who blocks    *)
(* whom, are the subject of RoomHandler.                                   *)
(*                                                                         *)
(* A client applies the messages of a batch in order, so that of what      *)
(* waits in the batch only the effect is kept: coming is what the screen   *)
(* will show after it.                                                     *)
(*                                                                         *)
(* The n-th message of a player sets what it sets to n.  The sprite stands *)
(* for all plain fields (it is two words of ClientData, a name and an      *)
(* index), and one picture id for all of them: they do not affect each     *)
(* other.  Sounds, flashes and animations that are shared and not kept are *)
(* left out.                                                               *)
(***************************************************************************)
EXTENDS Naturals

CONSTANTS
    Conn,         \* players
    Actor,        \* those of them that change their looks
    MaxUpdates    \* bound: messages about its looks that one player sends

ASSUME AppearanceAssumption == Actor \subseteq Conn /\ MaxUpdates \in Nat

VARIABLES
    sprite, flash, active,   \* ClientData: Sprite and SpriteIndex, Flash, ActivePictures
    base,                    \* Picture.BasePicture of the player's n-th message
    flashing,                \* whether the player's own client flashes repeatedly
    members, reading,        \* the shared room, and who holds its lock for reading
    pc, doing,               \* where the read loop stands; the message it processes
    saying, todo, intro,     \* what it shares, members to visit, what it gathered
    screen,                  \* what each client shows of the others
    coming,                  \* what it will show of them after the batch
    updates,                 \* messages about looks processed so far
    crashed,                 \* the Go runtime has stopped the server
    overtaken                \* <<viewer, player, field>>: a history variable

dataVars == <<sprite, flash, active, base>>
roomVars == <<members, reading>>
localVars == <<pc, doing, saying, todo, intro>>
clientVars == <<flashing, screen, coming>>
vars == <<dataVars, roomVars, localVars, clientVars, updates, crashed, overtaken>>

-----------------------------------------------------------------------------

\* 0 is what clients assume of a value they were never told.
Unset == <<0, 0>>
Torn == MaxUpdates + 1
Fields == {"sprite", "pic", "flash"}

\* The messages that change what is kept of a player's looks.
Kinds == {"sprite", "flash", "unflash", "show", "once", "move", "erase"}

Word(kind, val) == [kind |-> kind, val |-> val]

Silence == Word("none", 0)

\* The base of a picture is looked up only when the batch is serialized.
Later == MaxUpdates + 1

Absent == [on |-> FALSE, sprite |-> Unset, flash |-> FALSE, pic |-> 0, base |-> 0]

Sprites == (0..Torn) \X (0..MaxUpdates)
Looks == [on : BOOLEAN, sprite : Sprites, flash : BOOLEAN, pic : 0..MaxUpdates, base : 0..Later]

Words ==
    {Silence} \cup [kind : {"sprite"}, val : Sprites] \cup [kind : {"flash"}, val : BOOLEAN]
        \cup [kind : {"show", "once", "move", "erase"}, val : 0..MaxUpdates]
        \cup [kind : {"intro"}, val : [sprite : Sprites, flash : BOOLEAN, pic : 0..MaxUpdates]]

TypeOK ==
    /\ sprite \in [Conn -> (0..MaxUpdates) \X (0..MaxUpdates)]
    /\ flash \in [Conn -> BOOLEAN] /\ flashing \in [Conn -> BOOLEAN]
    /\ active \in [Conn -> 0..MaxUpdates]
    /\ base \in [Conn -> [1..MaxUpdates -> 0..MaxUpdates]]
    /\ members \subseteq Conn /\ reading \subseteq Conn
    /\ pc \in [Conn -> {"away", "join", "greet", "show", "room"}]
    /\ doing \in [Conn -> Kinds \cup {"none"}]
    /\ saying \in [Conn -> Words]
    /\ todo \in [Conn -> SUBSET Conn]
    /\ intro \in [Conn -> [Conn -> Words]]
    /\ screen \in [Conn -> [Conn -> Looks]] /\ coming \in [Conn -> [Conn -> Looks]]
    /\ updates \in [Conn -> 0..MaxUpdates]
    /\ crashed \in BOOLEAN
    /\ overtaken \subseteq Conn \X Conn \X Fields

Init ==
    /\ sprite = [c \in Conn |-> Unset]
    /\ flash = [c \in Conn |-> FALSE] /\ flashing = flash
    /\ active = [c \in Conn |-> 0]
    /\ base = [c \in Conn |-> [n \in 1..MaxUpdates |-> 0]]
    /\ members = {} /\ reading = {}
    /\ pc = [c \in Conn |-> "away"] /\ doing = [c \in Conn |-> "none"]
    /\ saying = [c \in Conn |-> Silence] /\ todo = [c \in Conn |-> {}]
    /\ intro = [v \in Conn |-> [c \in Conn |-> Silence]]
    /\ screen = [v \in Conn |-> [c \in Conn |-> Absent]] /\ coming = screen
    /\ updates = [c \in Conn |-> 0]
    /\ crashed = FALSE
    /\ overtaken = {}

Saying(c) == saying[c].kind # "none"

Say(c, kind, val) == saying' = [saying EXCEPT ![c] = Word(kind, val)]

-----------------------------------------------------------------------------
(* processMessage: the fields are written first, then the change is shared. *)

Idle(c) == pc[c] \in {"away", "room"} /\ doing[c] = "none"

\* OnMessage takes up a message about the player's looks.
Receive(c, kind) ==
    /\ c \in Actor /\ Idle(c) /\ updates[c] < MaxUpdates
    /\ doing' = [doing EXCEPT ![c] = kind]
    /\ updates' = [updates EXCEPT ![c] = @ + 1]
    /\ UNCHANGED <<dataVars, roomVars, pc, saying, todo, intro, clientVars, crashed, overtaken>>

\* The message is taken up and has not had its effect yet.
Writing(c, kinds) == doing[c] \in kinds /\ ~Saying(c)

SetField(c) ==
    /\ Writing(c, {"sprite"})
    /\ sprite' = [sprite EXCEPT ![c] = <<updates[c], updates[c]>>]
    /\ Say(c, "sprite", sprite'[c])
    /\ UNCHANGED <<flash, active, base, roomVars, pc, doing, todo, intro, clientVars, updates,
                   crashed, overtaken>>

\* d.Flash is not set.
RepeatingFlash(c) ==
    /\ Writing(c, {"flash"})
    /\ flashing' = [flashing EXCEPT ![c] = TRUE]
    /\ Say(c, "flash", TRUE)
    /\ UNCHANGED <<dataVars, roomVars, pc, doing, todo, intro, screen, coming, updates, crashed,
                   overtaken>>

RemoveRepeatingFlash(c) ==
    /\ Writing(c, {"unflash"})
    /\ flash' = [flash EXCEPT ![c] = FALSE]
    /\ flashing' = [flashing EXCEPT ![c] = FALSE]
    /\ Say(c, "flash", FALSE)
    /\ UNCHANGED <<sprite, active, base, roomVars, pc, doing, todo, intro, screen, coming,
                   updates, crashed, overtaken>>

\* A picture shown in the place of another removes that one first.
removePicture(c) ==
    /\ Writing(c, {"show", "once", "erase"}) /\ active[c] # 0
    /\ active' = [active EXCEPT ![c] = 0]
    /\ Say(c, "erase", 0)
    /\ UNCHANGED <<sprite, flash, base, roomVars, pc, doing, todo, intro, clientVars, updates,
                   crashed, overtaken>>

\* A picture that is to be played once is not kept track of.
Tracked(kind) == kind = "show"

ShowPicture(c) ==
    /\ Writing(c, {"show", "once"}) /\ active[c] = 0
    /\ active' = [active EXCEPT ![c] = IF Tracked(doing[c]) THEN updates[c] ELSE 0]
    /\ base' = [base EXCEPT ![c][updates[c]] = updates[c]]
    /\ Say(c, doing[c], updates[c])
    /\ UNCHANGED <<sprite, flash, roomVars, pc, doing, todo, intro, clientVars, updates, crashed,
                   overtaken>>

\* pic.BasePicture = m.BasePicture, in the object that messages still under
\* way refer to.  (Names with an underscore are faulty variants of the
\* definition after them.)
MoveBase_forgotten(c) == base
MoveBase(c) == [base EXCEPT ![c][active[c]] = updates[c]]

MovePicture(c) ==
    /\ Writing(c, {"move"}) /\ active[c] # 0
    /\ base' = MoveBase(c)
    /\ Say(c, "move", updates[c])
    /\ UNCHANGED <<sprite, flash, active, roomVars, pc, doing, todo, intro, clientVars, updates,
                   crashed, overtaken>>

NoSuchPicture(c) ==
    /\ Writing(c, {"move", "erase"}) /\ active[c] = 0
    /\ doing' = [doing EXCEPT ![c] = "none"]
    /\ UNCHANGED <<dataVars, roomVars, pc, saying, todo, intro, clientVars, updates, crashed,
                   overtaken>>

-----------------------------------------------------------------------------
(* shareToRoom                                                              *)

\* What is left to do of a message when something of it has been shared: a
\* picture whose predecessor was removed is still to be shown.
AfterShare(c) ==
    IF saying[c].kind = "erase" /\ doing[c] # "erase" THEN doing[c] ELSE "none"

Shared(c) ==
    /\ doing' = [doing EXCEPT ![c] = AfterShare(c)]
    /\ saying' = [saying EXCEPT ![c] = Silence]

\* The player is in a singleplayer map.
ShareSkipped(c) ==
    /\ pc[c] = "away" /\ Saying(c)
    /\ Shared(c)
    /\ UNCHANGED <<dataVars, roomVars, pc, todo, intro, clientVars, updates, crashed, overtaken>>

\* arePacketsSkippedPlayer: all members but oneself.
Others(c) == members \ {c}

ShareBegin(c) ==
    /\ pc[c] \in {"show", "room"} /\ Saying(c) /\ c \notin reading
    /\ reading' = reading \cup {c}
    /\ todo' = [todo EXCEPT ![c] = Others(c)]
    /\ UNCHANGED <<dataVars, members, pc, doing, saying, intro, clientVars, updates, crashed,
                   overtaken>>

\* v is about to queue an introduction of c that it has gathered already.
HasGathered(v, c) == intro[v][c].kind = "intro"

FieldOf(kind) ==
    CASE kind = "sprite" -> "sprite" [] kind = "flash" -> "flash"
      [] kind \in {"show", "once", "erase"} -> "pic" [] OTHER -> "none"

\* A change that reaches a viewer before an introduction gathered earlier is
\* overtaken by it; the next change of the same field makes up for that.
Overtaking(c, v) ==
    LET told == {<<v, c, FieldOf(saying[c].kind)>>} \cap (Conn \X Conn \X Fields)
    IN  IF pc[c] = "room" /\ HasGathered(v, c) THEN overtaken \cup told ELSE overtaken \ told

-----------------------------------------------------------------------------
(* A message is added to a batch.                                           *)

\* What a client shows of a player when a message about it is applied.  A
\* client knows only players it was told of, and moves only what it shows.
Apply(look, w) ==
    IF w.kind = "intro" THEN
        [on |-> TRUE, flash |-> look.flash \/ w.val.flash,
         sprite |-> IF w.val.sprite = Unset THEN look.sprite ELSE w.val.sprite,
         pic |-> IF w.val.pic = 0 THEN look.pic ELSE w.val.pic,
         base |-> IF w.val.pic = 0 THEN look.base ELSE Later]
    ELSE IF ~look.on THEN look
    ELSE CASE w.kind = "sprite" -> [look EXCEPT !.sprite = w.val]
           [] w.kind = "flash" -> [look EXCEPT !.flash = w.val]
           [] w.kind = "show" -> [look EXCEPT !.pic = w.val, !.base = Later]
           [] w.kind \in {"once", "erase"} -> [look EXCEPT !.pic = 0, !.base = 0]
           [] w.kind = "move" /\ look.pic # 0 -> [look EXCEPT !.base = w.val]
           [] OTHER -> look

ShareSend(c, v) ==
    /\ pc[c] \in {"show", "room"} /\ c \in reading /\ v \in todo[c]
    /\ todo' = [todo EXCEPT ![c] = @ \ {v}]
    /\ coming' = [coming EXCEPT ![v][c] = Apply(@, saying[c])]
    /\ overtaken' = Overtaking(c, v)
    /\ UNCHANGED <<dataVars, roomVars, pc, doing, saying, intro, flashing, screen, updates,
                   crashed>>

ShareEnd(c) ==
    /\ pc[c] \in {"show", "room"} /\ c \in reading /\ todo[c] = {}
    /\ reading' = reading \ {c}
    /\ pc' = [pc EXCEPT ![c] = "room"]
    /\ Shared(c)
    /\ UNCHANGED <<dataVars, members, todo, intro, clientVars, updates, crashed, overtaken>>

-----------------------------------------------------------------------------
(* changeRoom: into the shared map                                          *)

SwitchRoom(c) ==
    /\ pc[c] = "away" /\ Idle(c)
    /\ pc' = [pc EXCEPT ![c] = "join"]
    /\ UNCHANGED <<dataVars, roomVars, doing, saying, todo, intro, clientVars, updates, crashed,
                   overtaken>>

setRoom(c) ==
    /\ pc[c] = "join" /\ reading = {}
    /\ members' = members \cup {c}
    /\ pc' = [pc EXCEPT ![c] = "greet"]
    /\ UNCHANGED <<dataVars, reading, doing, saying, todo, intro, clientVars, updates, crashed,
                   overtaken>>

GreetBegin(c) ==
    /\ pc[c] = "greet" /\ c \notin reading
    /\ reading' = reading \cup {c}
    /\ todo' = [todo EXCEPT ![c] = Others(c)]
    /\ UNCHANGED <<dataVars, members, pc, doing, saying, intro, clientVars, updates, crashed,
                   overtaken>>

\* The sprite as another goroutine may read it: while it is written, each of
\* its words may be the old or the new one, and the name neither.
SpriteReads(c) ==
    IF Writing(c, {"sprite"})
      THEN {sprite[c][1], updates[c], Torn} \X {sprite[c][2], updates[c]}
      ELSE {sprite[c]}

\* A map that is written while it is iterated over may stop the server.
MapWritten(c) ==
    \/ Writing(c, {"show"})
    \/ Writing(c, {"once", "move", "erase"}) /\ active[c] # 0

\* What the client assumes anyway is left out.
SpriteIntro(s) == IF s[1] # 0 /\ s[2] # 0 THEN s ELSE Unset

PictureIntro_none(c) == 0
PictureIntro(c) == active[c]

GetIntroMessages(c, s) ==
    Word("intro", [sprite |-> SpriteIntro(s), flash |-> flash[c], pic |-> PictureIntro(c)])

GreetVisit(c, m) ==
    /\ pc[c] = "greet" /\ c \in reading /\ m \in todo[c]
    /\ todo' = [todo EXCEPT ![c] = @ \ {m}]
    /\ \E s \in SpriteReads(m) :
          intro' = [intro EXCEPT ![c][m] = GetIntroMessages(m, s)]
    /\ crashed' \in (IF MapWritten(m) THEN BOOLEAN ELSE {FALSE})
    /\ UNCHANGED <<dataVars, roomVars, pc, doing, saying, clientVars, updates, overtaken>>

GreetEnd(c) ==
    /\ pc[c] = "greet" /\ c \in reading /\ todo[c] = {}
    /\ coming' = [coming EXCEPT ![c] = [m \in Conn |-> Apply(@[m], intro[c][m])]]
    /\ intro' = [intro EXCEPT ![c] = [m \in Conn |-> Silence]]
    /\ reading' = reading \ {c}
    /\ pc' = [pc EXCEPT ![c] = "show"]
    /\ saying' = [saying EXCEPT ![c] = GetIntroMessages(c, sprite[c])]
    /\ UNCHANGED <<dataVars, members, doing, todo, flashing, screen, updates, crashed, overtaken>>

-----------------------------------------------------------------------------
(* SendLoop's batch is serialized and sent.                                 *)

Serialized(c, look) ==
    IF look.base = Later THEN [look EXCEPT !.base = base[c][look.pic]] ELSE look

Flush(v) ==
    /\ screen[v] # coming[v]
    /\ screen' = [screen EXCEPT ![v] = [c \in Conn |-> Serialized(c, coming[v][c])]]
    /\ coming' = [coming EXCEPT ![v] = screen'[v]]
    /\ UNCHANGED <<dataVars, roomVars, localVars, flashing, updates, crashed, overtaken>>

-----------------------------------------------------------------------------

Settled == \A c \in Conn : Idle(c) /\ screen[c] = coming[c]

processMessage(c) ==
    \/ SetField(c) \/ RepeatingFlash(c) \/ RemoveRepeatingFlash(c)
    \/ removePicture(c) \/ ShowPicture(c) \/ MovePicture(c) \/ NoSuchPicture(c)

shareToRoom(c) ==
    ShareSkipped(c) \/ ShareBegin(c) \/ (\E v \in Conn : ShareSend(c, v)) \/ ShareEnd(c)

changeRoom(c) ==
    \/ SwitchRoom(c) \/ setRoom(c)
    \/ GreetBegin(c) \/ (\E m \in Conn : GreetVisit(c, m)) \/ GreetEnd(c)

\* The server is down, or waits for the players' next messages.
Rest == (crashed \/ Settled) /\ UNCHANGED vars

Next ==
    \/ /\ ~crashed
       /\ \E c \in Conn :
             \/ \E kind \in Kinds : Receive(c, kind)
             \/ processMessage(c) \/ shareToRoom(c) \/ changeRoom(c) \/ Flush(c)
    \/ Rest

Spec == Init /\ [][Next]_vars

-----------------------------------------------------------------------------

\* v should see c: both are in the shared map and their handlers are done.
Sees(v, c) == Settled /\ v # c /\ pc[v] = "room" /\ pc[c] = "room"

\* However handlers interleave, and however a sprite is torn while it is read,
\* everyone in the room comes to see a player's sprite and picture as its data
\* has them, unless a change overtook the introduction on its way to a
\* newcomer and nothing of the kind has been shared since.
LooksAgree ==
    \A v, c \in Conn : Sees(v, c) =>
        /\ screen[v][c].on
        /\ <<v, c, "sprite">> \notin overtaken => screen[v][c].sprite = sprite[c]
        /\ <<v, c, "pic">> \notin overtaken => screen[v][c].pic = active[c]

\* Even then no movement of a picture is lost: introductions under way refer to
\* the picture that MovePicture changes, so whoever shows the picture a player
\* has shows it where it is.
MovesNeverLost ==
    \A v, c \in Conn : Sees(v, c) /\ screen[v][c].pic # 0 /\ screen[v][c].pic = active[c]
        => screen[v][c].base = base[c][active[c]]

\* GetIntroMessages is sent "so we look how we are meant to look on their
\* screen" (user.go): a newcomer sees who flashes repeatedly.
FlashIntroduced ==
    \A v, c \in Conn : Sees(v, c) /\ <<v, c, "flash">> \notin overtaken
        => screen[v][c].flash = flashing[c]

\* The same words, of a newcomer that a change overtook: it sees the sprite too.
NeverOutdated == \A v, c \in Conn : Sees(v, c) => screen[v][c].sprite = sprite[c]

\* No picture map is iterated over while its owner's read loop writes it.
NeverCrashed == ~crashed
=============================================================================
