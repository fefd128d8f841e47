---------------------------- MODULE RoomHandler ----------------------------
(***************************************************************************)
(* The handler of the game websocket (api/room): who is online, who is in  *)
(* which room, and what every player's screen shows of the others.         *)
(*                                                                         *)
(* Each connection is served by one goroutine (its read loop), which runs  *)
(* Authorize, OnOpen, OnMessage... and OnClose one after the other; pc[c]  *)
(* is where it stands.  A second goroutine per connection, SendLoop, turns *)
(* queued messages into packets.  Goroutines of different connections      *)
(* interleave between any two lock regions and any two sends.              *)
(*                                                                         *)
(* A section that holds a mutex for writing is one step, taken when nobody *)
(* holds the mutex for reading; a section that holds it for reading is     *)
(* several steps.  What the readers of the other HTTP goroutines hold is   *)
(* in usersReaders and blocklistWriters: this module only waits for them,  *)
(* BlockSync takes and releases them.                                      *)
(***************************************************************************)
EXTENDS Naturals, FiniteSets

CONSTANTS
    Conn,          \* websocket connections; each stands for its cID as well
    Account,       \* accounts that may be logged in
    Room,          \* the maps the filters file lists
    SPMaps,        \* those of them that are singleplayer
    Blocks0,       \* block relations that the database may hold at the start
    MaxSwitches,   \* bound: SwitchRoom messages that one connection sends
    DBMayFail,     \* whether a blocklist lookup may fail
    None           \* no connection; also the id of a map that does not exist

ASSUME RoomAssumption ==
    /\ Conn \cap Account = {}
    /\ None \notin Conn \cup Account \cup Room
    /\ Room # {}
    /\ SPMaps \subseteq Room
    /\ Blocks0 \subseteq Account \X Account
    /\ MaxSwitches \in Nat
    /\ DBMayFail \in BOOLEAN

\* A guest gets a fresh UUID, so the guest on connection c is named c.
Uuid == Account \cup Conn

VARIABLES
    relations,         \* the block_relations table: <<who blocked, whom>>
    users,             \* Handler.users: the connection of a UUID, or None
    members,           \* room.members
    usersReaders,      \* requests that hold Handler.usersMu for reading
    blocklistWriters,  \* connections whose BlocklistMu is held for writing
    uuid, roomID, blocklist, outbox,           \* ClientData
    pc, dest, reading, todo, chosen, intro,    \* the read loop's locals
    pending,           \* SendLoop's batch: the last word it says of each player
    shown,             \* the players the client's screen shows
    switches           \* SwitchRoom messages handled so far

registryVars == <<users, members>>
lockVars == <<usersReaders, blocklistWriters>>
dataVars == <<uuid, roomID, blocklist, outbox>>
localVars == <<dest, reading, todo, chosen, intro>>
viewVars == <<pending, shown>>
vars == <<relations, users, members, usersReaders, blocklistWriters, uuid, roomID,
          blocklist, outbox, pc, dest, reading, todo, chosen, intro, pending,
          shown, switches>>

-----------------------------------------------------------------------------
(* Where a connection's goroutine stands: the section it is about to run.  *)

Arriving == {"new", "looked", "authorized"}
Entering == {"inform", "unset", "join", "setid", "greet", "show"}
Leaving == {"leave", "deregister", "close", "gone"}
PCs == Arriving \cup {"rejected", "hide", "ready", "closed"} \cup Entering \cup Leaving

\* The three calls of shareToRoom, and the message each one shares.
Sharing == {"hide", "show", "gone"}
Word(p) == IF p = "show" THEN "Connect" ELSE "Disconnect"
AfterShare(p) == CASE p = "hide" -> "inform" [] p = "show" -> "ready" [] p = "gone" -> "closed"

Silent == [p \in Conn |-> "silent"]

TypeOK ==
    /\ relations \subseteq Account \X Account
    /\ users \in [Uuid -> Conn \cup {None}]
    /\ members \in [Room -> SUBSET Conn]
    /\ blocklistWriters \subseteq Conn
    /\ uuid \in [Conn -> Uuid]
    /\ roomID \in [Conn -> Room]
    /\ blocklist \in [Conn -> SUBSET Account]
    /\ outbox \in [Conn -> {"none", "made", "served", "closed"}]
    /\ pc \in [Conn -> PCs]
    /\ dest \in [Conn -> Room]
    /\ reading \subseteq Conn
    /\ todo \in [Conn -> SUBSET Conn]
    /\ chosen \in [Conn -> Conn \cup {None}]
    /\ intro \in [Conn -> SUBSET Conn]
    /\ pending \in [Conn -> [Conn -> {"silent", "Connect", "Disconnect"}]]
    /\ shown \in [Conn -> SUBSET Conn]
    /\ switches \in [Conn -> 0..MaxSwitches]

\* Room IDs mean nothing before Authorize has stored the connection's data.
NoRoomYet == CHOOSE r \in Room : TRUE

Init ==
    /\ relations \in SUBSET Blocks0
    /\ users = [u \in Uuid |-> None]
    /\ members = [r \in Room |-> {}]
    /\ usersReaders = {} /\ blocklistWriters = {}
    /\ uuid = [c \in Conn |-> c]
    /\ roomID = [c \in Conn |-> NoRoomYet] /\ dest = roomID
    /\ blocklist = [c \in Conn |-> {}]
    /\ outbox = [c \in Conn |-> "none"]
    /\ pc = [c \in Conn |-> "new"]
    /\ reading = {}
    /\ todo = [c \in Conn |-> {}] /\ chosen = [c \in Conn |-> None]
    /\ intro = [c \in Conn |-> {}]
    /\ pending = [c \in Conn |-> Silent]
    /\ shown = [c \in Conn |-> {}]
    /\ switches = [c \in Conn |-> 0]

-----------------------------------------------------------------------------
(* Helpers that the handlers share.                                        *)

Goto(c, p) == pc' = [pc EXCEPT ![c] = p]

\* Names with an underscore are faulty variants of the definition after them:
\* no action uses them, they are there to see the properties fail.
hasRoom_unchecked(r) == TRUE
hasRoom(r) == r \in Room

\* Nobody holds the room's lock for reading, so it can be taken for writing.
RoomFree_unlocked(r) == TRUE
RoomFree(r) == \A d \in reading : roomID[d] # r

RUnlock_forgotten(c) == reading
RUnlock(c) == reading \ {c}

hasBlocked(source, subject) == uuid[subject] \in blocklist[source]

arePacketsSkippedPlayer_oneWay(us, them) == us = them \/ hasBlocked(us, them)

arePacketsSkippedPlayer(us, them) ==
    us = them \/ hasBlocked(us, them) \/ hasBlocked(them, us)

\* The check above read-locks both blocklists, unless it is about oneself.
BlocklistsFree(us, them) == us = them \/ {us, them} \cap blocklistWriters = {}

\* User.Send: SendLoop appends word w about player p to the batch of `to`.
\* Of several words about one player the screen keeps the last.
Send(to, p, w) == pending' = [pending EXCEPT ![to][p] = w]

-----------------------------------------------------------------------------
(* Authorize: the HTTP request that asks for the upgrade.                   *)

BlockedBy(u) == {a \in Account : <<u, a>> \in relations}

AuthorizeNoRoom(c, r) ==
    /\ pc[c] = "new" /\ ~hasRoom(r)
    /\ Goto(c, "rejected")
    /\ UNCHANGED <<relations, registryVars, lockVars, dataVars, localVars, viewVars, switches>>

\* The session token gives the account and the database its blocklist; when
\* that lookup fails the player is let in with an empty one.
AuthorizeLookup(c, u, r, fails) ==
    /\ pc[c] = "new" /\ hasRoom(r)
    /\ fails => DBMayFail
    /\ uuid' = [uuid EXCEPT ![c] = u]
    /\ roomID' = [roomID EXCEPT ![c] = r]
    /\ dest' = [dest EXCEPT ![c] = r]
    /\ blocklist' = [blocklist EXCEPT ![c] = IF fails THEN {} ELSE BlockedBy(u)]
    /\ Goto(c, "looked")
    /\ UNCHANGED <<relations, registryVars, lockVars, outbox, reading, todo, chosen, intro,
                   viewVars, switches>>

\* The first check that the account is not connected already, and InitData.
AuthorizeCheck(c) ==
    /\ pc[c] = "looked"
    /\ IF users[uuid[c]] = None
         THEN /\ outbox' = [outbox EXCEPT ![c] = "made"]
              /\ Goto(c, "authorized")
         ELSE /\ Goto(c, "rejected")
              /\ UNCHANGED outbox
    /\ UNCHANGED <<relations, registryVars, lockVars, uuid, roomID, blocklist, localVars,
                   viewVars, switches>>

\* The upgrade of an authorized request fails: OnOpen is never called.
UpgradeFails(c) ==
    /\ pc[c] = "authorized"
    /\ Goto(c, "rejected")
    /\ UNCHANGED <<relations, registryVars, lockVars, dataVars, localVars, viewVars, switches>>

-----------------------------------------------------------------------------
(* OnOpen: the registration; changeRoom follows at "inform".                *)

DoubleCheck_dropped(c) == TRUE
DoubleCheck(c) == users[uuid[c]] = None

\* The double-check fails: WriteClose ends the read loop, and OnClose runs.
OnOpenTwice(c) ==
    /\ pc[c] = "authorized" /\ usersReaders = {}
    /\ ~DoubleCheck(c)
    /\ Goto(c, "leave")
    /\ UNCHANGED <<relations, registryVars, lockVars, dataVars, localVars, viewVars, switches>>

OnOpenRegister(c) ==
    /\ pc[c] = "authorized" /\ usersReaders = {}
    /\ DoubleCheck(c)
    /\ users' = [users EXCEPT ![uuid[c]] = c]
    /\ outbox' = [outbox EXCEPT ![c] = "served"]
    /\ Goto(c, "inform")
    /\ UNCHANGED <<relations, members, lockVars, uuid, roomID, blocklist, localVars, viewVars,
                   switches>>

-----------------------------------------------------------------------------
(* changeRoom: from "hide", or from "inform" when the room stays the same.  *)

SwitchRoom(c, r) ==
    /\ pc[c] = "ready" /\ switches[c] < MaxSwitches /\ hasRoom(r)
    /\ switches' = [switches EXCEPT ![c] = @ + 1]
    /\ dest' = [dest EXCEPT ![c] = r]
    /\ Goto(c, IF r # roomID[c] THEN "hide" ELSE "inform")
    /\ UNCHANGED <<relations, registryVars, lockVars, dataVars, reading, todo, chosen, intro,
                   viewVars>>

\* SendImmediate(RoomInfo): not queued, and it clears the client's players.
SendRoomInfo(c) ==
    /\ pc[c] = "inform"
    /\ shown' = [shown EXCEPT ![c] = {}]
    /\ Goto(c, "unset")
    /\ UNCHANGED <<relations, registryVars, lockVars, dataVars, localVars, pending, switches>>

\* unsetRoom, called by setRoom and by OnClose.
RemoveMember_forgotten(c) == members
RemoveMember(c) == [members EXCEPT ![roomID[c]] = @ \ {c}]

AfterUnset(p) == IF p = "unset" THEN "join" ELSE "deregister"

unsetRoom(c) ==
    /\ pc[c] \in {"unset", "leave"} /\ RoomFree(roomID[c])
    /\ members' = RemoveMember(c)
    /\ Goto(c, AfterUnset(pc[c]))
    /\ UNCHANGED <<relations, users, lockVars, dataVars, localVars, viewVars, switches>>

setRoomJoin(c) ==
    /\ pc[c] = "join" /\ RoomFree(dest[c])
    /\ members' = [members EXCEPT ![dest[c]] = @ \cup {c}]
    /\ Goto(c, "setid")
    /\ UNCHANGED <<relations, users, lockVars, dataVars, localVars, viewVars, switches>>

\* The newcomer is told who is there, unless the map is singleplayer.
AfterRoomID_quiet(c) == "show"
AfterRoomID(c) == IF dest[c] \in SPMaps THEN "show" ELSE "greet"

setRoomID(c) ==
    /\ pc[c] = "setid"
    /\ roomID' = [roomID EXCEPT ![c] = dest[c]]
    /\ Goto(c, AfterRoomID(c))
    /\ UNCHANGED <<relations, registryVars, lockVars, uuid, blocklist, outbox, localVars,
                   viewVars, switches>>

\* The newcomer holds the room's lock for reading while it looks at each
\* member, and until it has queued the introductions it gathered for itself.
GreetBegin(c) ==
    /\ pc[c] = "greet" /\ c \notin reading
    /\ reading' = reading \cup {c}
    /\ todo' = [todo EXCEPT ![c] = members[dest[c]]]
    /\ UNCHANGED <<relations, registryVars, lockVars, dataVars, pc, dest, chosen, intro,
                   viewVars, switches>>

GreetVisit(c, m) ==
    /\ pc[c] = "greet" /\ c \in reading
    /\ m \in todo[c] /\ BlocklistsFree(c, m)
    /\ todo' = [todo EXCEPT ![c] = @ \ {m}]
    /\ intro' = [intro EXCEPT ![c] = IF arePacketsSkippedPlayer(c, m) THEN @ ELSE @ \cup {m}]
    /\ UNCHANGED <<relations, registryVars, lockVars, dataVars, pc, dest, reading, chosen,
                   viewVars, switches>>

GreetEnd(c) ==
    /\ pc[c] = "greet" /\ c \in reading /\ todo[c] = {}
    /\ pending' = [pending EXCEPT ![c] = [p \in Conn |-> IF p \in intro[c] THEN "Connect" ELSE @[p]]]
    /\ intro' = [intro EXCEPT ![c] = {}]
    /\ reading' = RUnlock(c)
    /\ Goto(c, "show")
    /\ UNCHANGED <<relations, registryVars, lockVars, dataVars, dest, todo, chosen, shown,
                   switches>>

-----------------------------------------------------------------------------
(* shareToRoom: a Disconnect at "hide" and "gone", the intro at "show".     *)

ShareSkipped(c) ==
    /\ pc[c] \in Sharing /\ c \notin reading /\ roomID[c] \in SPMaps
    /\ Goto(c, AfterShare(pc[c]))
    /\ UNCHANGED <<relations, registryVars, lockVars, dataVars, localVars, viewVars, switches>>

ShareBegin(c) ==
    /\ pc[c] \in Sharing /\ c \notin reading /\ roomID[c] \notin SPMaps
    /\ reading' = reading \cup {c}
    /\ todo' = [todo EXCEPT ![c] = members[roomID[c]]]
    /\ UNCHANGED <<relations, registryVars, lockVars, dataVars, pc, dest, chosen, intro,
                   viewVars, switches>>

\* Look at the next member; the blocklists are unlocked again before Send.
ShareVisit(c, m) ==
    /\ pc[c] \in Sharing /\ c \in reading /\ chosen[c] = None
    /\ m \in todo[c] /\ BlocklistsFree(c, m)
    /\ todo' = [todo EXCEPT ![c] = @ \ {m}]
    /\ chosen' = [chosen EXCEPT ![c] = IF arePacketsSkippedPlayer(c, m) THEN None ELSE m]
    /\ UNCHANGED <<relations, registryVars, lockVars, dataVars, pc, dest, reading, intro,
                   viewVars, switches>>

ShareSend(c) ==
    /\ chosen[c] # None
    /\ Send(chosen[c], c, Word(pc[c]))
    /\ chosen' = [chosen EXCEPT ![c] = None]
    /\ UNCHANGED <<relations, registryVars, lockVars, dataVars, pc, dest, reading, todo, intro,
                   shown, switches>>

ShareEnd(c) ==
    /\ pc[c] \in Sharing /\ c \in reading /\ todo[c] = {} /\ chosen[c] = None
    /\ reading' = RUnlock(c)
    /\ Goto(c, AfterShare(pc[c]))
    /\ UNCHANGED <<relations, registryVars, lockVars, dataVars, dest, todo, chosen, intro,
                   viewVars, switches>>

-----------------------------------------------------------------------------
(* OnClose: unsetRoom at "leave", deregister, close the outbox, share.      *)

\* The client is gone, and the read loop notices once no handler is running.
ConnectionLost(c) ==
    /\ pc[c] = "ready"
    /\ shown' = [shown EXCEPT ![c] = {}]
    /\ Goto(c, "leave")
    /\ UNCHANGED <<relations, registryVars, lockVars, dataVars, localVars, pending, switches>>

Deregister_anyone(c) == [users EXCEPT ![uuid[c]] = None]
Deregister(c) == IF users[uuid[c]] = c THEN [users EXCEPT ![uuid[c]] = None] ELSE users

\* Only this connection's own entry: an early closed one was never added.
OnCloseDeregister(c) ==
    /\ pc[c] = "deregister" /\ usersReaders = {}
    /\ users' = Deregister(c)
    /\ Goto(c, "close")
    /\ UNCHANGED <<relations, members, lockVars, dataVars, localVars, viewVars, switches>>

\* close(outbox) ends SendLoop, and the batch it had pending is lost.
OnCloseOutbox(c) ==
    /\ pc[c] = "close"
    /\ outbox' = [outbox EXCEPT ![c] = "closed"]
    /\ pending' = [pending EXCEPT ![c] = Silent]
    /\ Goto(c, "gone")
    /\ UNCHANGED <<relations, registryVars, lockVars, uuid, roomID, blocklist, localVars, shown,
                   switches>>

-----------------------------------------------------------------------------
(* SendLoop: the batch ends, and the client applies it.                     *)

Screen(c) ==
    {p \in Conn : \/ pending[c][p] = "Connect"
                  \/ pending[c][p] = "silent" /\ p \in shown[c]}

Flush(c) ==
    /\ outbox[c] = "served" /\ pc[c] \notin Leaving /\ pending[c] # Silent
    /\ shown' = [shown EXCEPT ![c] = Screen(c)]
    /\ pending' = [pending EXCEPT ![c] = Silent]
    /\ UNCHANGED <<relations, registryVars, lockVars, dataVars, pc, localVars, switches>>

-----------------------------------------------------------------------------

\* What the server does by itself; the rest is up to the clients.
ServerStep(c) ==
    \/ AuthorizeCheck(c)
    \/ OnOpenTwice(c) \/ OnOpenRegister(c)
    \/ SendRoomInfo(c) \/ unsetRoom(c) \/ setRoomJoin(c) \/ setRoomID(c)
    \/ GreetBegin(c) \/ (\E m \in Conn : GreetVisit(c, m)) \/ GreetEnd(c)
    \/ ShareSkipped(c) \/ ShareBegin(c) \/ (\E m \in Conn : ShareVisit(c, m))
    \/ ShareSend(c) \/ ShareEnd(c)
    \/ OnCloseDeregister(c) \/ OnCloseOutbox(c)

ClientStep(c) ==
    \/ \E r \in Room \cup {None} : AuthorizeNoRoom(c, r) \/ SwitchRoom(c, r)
    \/ \E u \in Account \cup {c}, r \in Room \cup {None}, fails \in BOOLEAN :
          AuthorizeLookup(c, u, r, fails)
    \/ UpgradeFails(c) \/ ConnectionLost(c)

\* Every connection has come and gone; the server waits for new ones.
AllGone == (\A c \in Conn : pc[c] \in {"rejected", "closed"}) /\ UNCHANGED vars

ConnNext == \E c \in Conn : ServerStep(c) \/ ClientStep(c) \/ Flush(c)

Next == ConnNext \/ AllGone

\* Goroutines that can run do run, and a batch's timer ends it; clients may
\* stay silent for ever.
Fairness == \A c \in Conn : WF_vars(ServerStep(c)) /\ WF_vars(Flush(c))

Spec == Init /\ [][Next]_vars

FairSpec == Spec /\ Fairness

-----------------------------------------------------------------------------
(* The registry and the rooms.                                              *)

\* OnOpen has added c to the registry and OnClose has not removed it yet.
Registered(c) ==
    \/ pc[c] \in Entering \cup {"hide", "ready"}
    \/ pc[c] \in {"leave", "deregister"} /\ outbox[c] = "served"

\* Handler.users names, for each UUID, exactly the connection whose OnOpen
\* added it and whose OnClose has not come to the delete: no account is in
\* the game twice, and the closing of a refused connection, which runs the
\* same OnClose, never takes the entry of the one that is in the game.
RegistryExact ==
    \A c \in Conn, u \in Uuid : users[u] = c <=> Registered(c) /\ uuid[c] = u

\* setRoom and unsetRoom keep every connection in at most one room, the one
\* its RoomID names (or is about to name), and a player whose handlers are
\* idle is in it; OnClose leaves nobody behind.
MembershipSound ==
    /\ \A r \in Room : \A c \in members[r] :
          /\ r = IF pc[c] = "setid" THEN dest[c] ELSE roomID[c]
          /\ Registered(c) /\ pc[c] \notin {"join", "deregister"}
    /\ \A c \in Conn :
          /\ pc[c] \in {"ready", "hide", "greet", "show"} => c \in members[roomID[c]]
          /\ pc[c] = "setid" => c \in members[dest[c]]

\* handler.go says OnClose closes the outbox late "so that nothing sends to a
\* closed channel": no step queues words for a connection whose outbox has
\* been closed, or has no SendLoop to take them (which would block for ever).
NothingSendsToClosedChannel ==
    [][\A c \in Conn : outbox[c] # "served" => pending'[c] = pending[c]]_vars

\* Seen from outside, the registry is the one of SessionRegistry: connections
\* are admitted, refused and ended, each once.
Registry == INSTANCE SessionRegistry WITH
    online <- users,
    past <- {c \in Conn : pc[c] \in {"rejected", "close", "gone", "closed"}}

RefinesRegistry == Registry!Spec

-----------------------------------------------------------------------------
(* The screens.                                                             *)

\* Two players that ought to see each other once the handlers are done.
Visible(c, m) ==
    /\ {pc[c], pc[m]} = {"ready"} /\ roomID[c] = roomID[m] /\ roomID[c] \notin SPMaps
    /\ ~arePacketsSkippedPlayer(c, m)

\* No handler is running and no batch is pending.
Settled ==
    \A c \in Conn : pc[c] \in {"new", "rejected", "ready", "closed"} /\ pending[c] = Silent

\* Whatever handlers of changeRoom and OnClose interleave, once they are done
\* every player sees all players in its room, save blocked ones: the newcomer
\* gathers whoever was a member, and whoever was not yet shares its own intro.
RoommatesShown ==
    Settled => \A c, m \in Conn : Visible(c, m) => m \in shown[c]

NobodySwitched == \A c \in Conn : switches[c] = 0

\* As long as nobody switches rooms, the screens are exact: each shows the
\* players in its room and no one who left the game.
ScreensExact ==
    Settled /\ NobodySwitched =>
        \A c \in Conn : pc[c] = "ready" => shown[c] = {m \in Conn : Visible(c, m)}

\* While no blocklist changes, nobody is ever shown a player who blocked them
\* or whom they blocked, not even for the length of a batch.
BlockedNeverShown ==
    \A c \in Conn : \A m \in shown[c] : ~hasBlocked(c, m) /\ ~hasBlocked(m, c)

\* unsetRoom's users are told of the leaver: once the handlers are done, no
\* player that stayed in its room sees one who has left it for another
\* (changeRoom "handles hiding the player from the map they were in").
LeaversHidden ==
    Settled => \A c, m \in Conn :
        pc[c] = "ready" /\ pc[m] = "ready" /\ switches[c] = 0 /\ m \in shown[c]
            => roomID[m] = roomID[c]

\* And a player that moved does not see those who stayed in its old room: the
\* RoomInfo that clears its screen comes after everything about that room.
OldRoomForgotten ==
    Settled => \A c, m \in Conn :
        pc[c] = "ready" /\ pc[m] = "ready" /\ switches[m] = 0 /\ m \in shown[c]
            => roomID[m] = roomID[c]

-----------------------------------------------------------------------------
(* Progress.                                                                *)

\* Every handler ends: a connection that was let in comes to rest in the game
\* or is closed again, and one that is lost is cleaned up (no lock is kept).
HandlersEnd ==
    \A c \in Conn : pc[c] \notin {"new", "looked", "rejected", "ready", "closed"}
        ~> pc[c] \in {"ready", "closed", "rejected"}

\* Two players that stay in one room come to see each other.
ArrivalsSeen ==
    \A c, m \in Conn : Visible(c, m) ~> m \in shown[c] \/ ~Visible(c, m)

\* As long as nobody switches rooms, a player who left the game disappears
\* from every screen, and stays off it.
DeparturesSeen ==
    \A c, m \in Conn : pc[m] = "closed" ~> [](NobodySwitched => m \notin shown[c])
=============================================================================
