--------------------------------- MODULE Chat ---------------------------------
(***************************************************************************)
(* The chat handler (api/chat) with what reaches it from other goroutines: *)
(* the HTTP requests that change an account's blocklist or party           *)
(* (api/users.go, api/parties.go), and the players who enter, change and   *)
(* leave rooms of the game, whose members map chat reads (GetRoommates in  *)
(* api/room/interop.go).                                                   *)
(*                                                                         *)
(* Of the transactions of the requests, which BlockSync and Parties are    *)
(* about, a request that changes nothing and ends in an error is left out. *)
(* So is a message that is refused before processMessage (rate limit,      *)
(* JSON, no content), a connection that is refused because a lookup fails, *)
(* and what the messages say.                                              *)
(***************************************************************************)
EXTENDS FiniteSets, Naturals

CONSTANTS
    Account, Conn, Req,  \* Conn: chat connections; Req: requests, each sent once
    Room, SPMaps, Party,
    Channels,            \* the channels that are used
    Blocks0,             \* block_relations at first: <<who, whom>>
    Parties0, Rooms0,    \* the parties, the rooms players are in at first may be these
    MaxMessages,         \* bounds: messages sent,
    MaxChanges,          \* ... requests sent and rooms entered or left
    None

ASSUME ChatAssumption ==
    /\ Blocks0 \subseteq Account \X Account /\ SPMaps \subseteq Room /\ Room # {}
    /\ Parties0 \subseteq [Account -> Party \cup {None}]
    /\ Rooms0 \subseteq [Account -> Room \cup {None}]
    /\ Channels \subseteq {"Global", "Map", "Party"}
    /\ MaxMessages \in Nat /\ MaxChanges \in Nat
    /\ None \notin Account \cup Conn \cup Room \cup Party /\ "party" \notin Account

VARIABLES
    relations, partyOf,             \* the database
    cpc, account,                   \* a chat connection: where it stands, whose it is
    blocklist, partyID,             \* ... and its clientData
    pc, channel,                    \* its message: where processMessage stands
    place,                          \* the room whose members are read
    audience,                       \* what shouldGet compares with
    todo, them,                     \* the loop of broadcast
    rpc, who, about,                \* a request: what it changed, and for whom
    list,                           \* the blocklist or the party that it passes on
    rtodo,                          \* connections that it has yet to update
    gpc, roomID, memberOf, dest,    \* the players in the game
    sent, moves,                    \* counted for the bounds
    heard,                          \* history: who got the connection's message
    due, met,                       \* ... who must get it; who may
    shunned,                        \* blocks that have been answered
    barred,                         \* ... those that held when the message began
    missed,                         \* opened while an update was passed along
    overlapped,                     \* requests beside which another one ran
    astray                          \* <<who, what>> whose changes overlapped or got lost

dbVars == <<relations, partyOf>>
connVars == <<cpc, account, missed>>
pastVars == <<shunned, overlapped, astray>>
dataVars == <<blocklist, partyID>>
msgVars == <<pc, channel, place, audience, todo, them, sent, heard>>
reqVars == <<rpc, who, about, list, rtodo, pastVars>>
gameVars == <<gpc, roomID, memberOf, dest, moves>>
watchVars == <<due, met, barred>>
vars == <<dbVars, connVars, dataVars, msgVars, reqVars, gameVars, watchVars>>

Open == {c \in Conn : cpc[c] = "open"}
BlockedBy(a) == {s \in Account : <<a, s>> \in relations}

Changes == moves + Cardinality({q \in Req : rpc[q] # "idle"})

Playing(a) == gpc[a] \notin {"away", "gone"}

ConnTypeOK ==
    /\ relations \subseteq Account \X Account /\ partyOf \in [Account -> Party \cup {None}]
    /\ cpc \in [Conn -> {"new", "known", "authorized", "open", "closed"}]
    /\ account \in [Conn -> Account \cup {None}] /\ missed \subseteq Conn
    /\ blocklist \in [Conn -> SUBSET Account] /\ partyID \in [Conn -> Party \cup {None}]

MessageTypeOK ==
    /\ pc \in [Conn -> {"idle", "find", "room", "members", "party", "lock", "send", "other"}]
    /\ channel \in [Conn -> Channels \cup {None}] /\ place \in [Conn -> Room \cup {None}]
    /\ audience \in [Conn -> SUBSET (Account \cup Party)]
    /\ todo \in [Conn -> SUBSET Conn] /\ them \in [Conn -> Conn \cup {None}]
    /\ sent \in 0..MaxMessages /\ heard \in [Conn -> SUBSET Conn]

RequestTypeOK ==
    /\ rpc \in [Req -> {"idle", "begun", "committed", "conns", "done"}]
    /\ who \in [Req -> Account \cup {None}] /\ about \in [Req -> Account \cup {"party", None}]
    /\ list \in [Req -> SUBSET (Account \cup Party)] /\ rtodo \in [Req -> SUBSET Conn]
    /\ shunned \subseteq relations
    /\ overlapped \subseteq Req /\ astray \subseteq Account \X {"blocks", "party"}

GameTypeOK ==
    /\ gpc \in [Account -> {"away", "joined", "playing", "left", "entered", "leaving", "gone"}]
    /\ roomID \in [Account -> Room] /\ dest \in [Account -> Room]
    /\ memberOf \in [Account -> Room \cup {None}] /\ moves \in Nat

WatchTypeOK ==
    /\ due \in [Conn -> SUBSET Conn] /\ met \in [Conn -> SUBSET Account]
    /\ barred \in [Conn -> SUBSET (Account \X Account)]

TypeOK == ConnTypeOK /\ MessageTypeOK /\ RequestTypeOK /\ GameTypeOK /\ WatchTypeOK

\* Some players are in the game already, each in a room.
Init ==
    /\ relations = Blocks0 /\ partyOf \in Parties0
    /\ cpc = [c \in Conn |-> "new"] /\ account = [c \in Conn |-> None]
    /\ blocklist = [c \in Conn |-> {}] /\ partyID = account
    /\ pc = [c \in Conn |-> "idle"] /\ channel = account /\ place = account
    /\ audience = blocklist /\ todo = blocklist /\ them = account
    /\ rpc = [q \in Req |-> "idle"] /\ who = [q \in Req |-> None] /\ about = who
    /\ list = [q \in Req |-> {}] /\ rtodo = list
    /\ memberOf \in Rooms0
    /\ gpc = [u \in Account |-> IF memberOf[u] = None THEN "away" ELSE "playing"]
    /\ roomID = [u \in Account |-> IF memberOf[u] = None THEN CHOOSE r \in Room : TRUE
                                                         ELSE memberOf[u]]
    /\ dest = roomID
    /\ sent = 0 /\ moves = 0
    /\ heard = blocklist /\ due = blocklist /\ met = blocklist
    /\ shunned = relations /\ barred = blocklist /\ missed = {}
    /\ overlapped = {} /\ astray = {}

-----------------------------------------------------------------------------
(* usersMu of the chat handler: broadcast and forEachConnOf read-hold it.   *)

Broadcasting(c) == pc[c] \in {"send", "other"}

UsersFree == (\A c \in Conn : ~Broadcasting(c)) /\ \A q \in Req : rpc[q] # "conns"

-----------------------------------------------------------------------------
(* Connections                                                              *)

\* The blocklist is looked up first, then the party.
Authorize(c, a) ==
    /\ cpc[c] = "new"
    /\ cpc' = [cpc EXCEPT ![c] = "known"]
    /\ account' = [account EXCEPT ![c] = a]
    /\ blocklist' = [blocklist EXCEPT ![c] = BlockedBy(a)]
    /\ UNCHANGED <<dbVars, missed, partyID, msgVars, reqVars, gameVars>>

LookUpParty(c) ==
    /\ cpc[c] = "known"
    /\ cpc' = [cpc EXCEPT ![c] = "authorized"]
    /\ partyID' = [partyID EXCEPT ![c] = partyOf[account[c]]]
    /\ UNCHANGED <<dbVars, account, missed, blocklist, msgVars, reqVars, gameVars>>

OnOpen(c) ==
    /\ cpc[c] = "authorized" /\ UsersFree
    /\ cpc' = [cpc EXCEPT ![c] = "open"]
    /\ UNCHANGED <<dbVars, account, missed, dataVars, msgVars, reqVars, gameVars>>

\* It comes after the last message of the connection (ParallelEnabled: false).
OnClose(c) ==
    /\ cpc[c] = "open" /\ pc[c] = "idle" /\ UsersFree
    /\ cpc' = [cpc EXCEPT ![c] = "closed"]
    /\ account' = [account EXCEPT ![c] = None]
    /\ blocklist' = [blocklist EXCEPT ![c] = {}]
    /\ partyID' = [partyID EXCEPT ![c] = None]
    /\ missed' = missed \ {c}
    /\ UNCHANGED <<dbVars, msgVars, reqVars, gameVars>>

-----------------------------------------------------------------------------
(* Requests, each a goroutine: a transaction, what it has read passed on to *)
(* the account's connections, the answer.                                   *)

Busy(q) == rpc[q] \in {"begun", "committed", "conns"}

\* What a request changes: somebody's blocklist, or somebody's party.
Change(q) == <<who[q], IF about[q] = "party" THEN "party" ELSE "blocks">>

Rivals(a, what) ==
    {q \in Req : Busy(q) /\ who[q] = a /\ (about[q] = "party") = (what = "party")}

\* The statement is executed, and what the change results in read back, or
\* known; what other transactions have not committed is not in it.  A
\* transaction waits for the one that changes the same row.
BeginTx(q, a, what, new) ==
    /\ rpc[q] = "idle" /\ Changes < MaxChanges
    /\ \A r \in Req : rpc[r] = "begun" => who[r] # a \/ about[r] # what
    /\ rpc' = [rpc EXCEPT ![q] = "begun"]
    /\ who' = [who EXCEPT ![q] = a]
    /\ about' = [about EXCEPT ![q] = what]
    /\ list' = [list EXCEPT ![q] = new]
    /\ IF Rivals(a, what) = {}
         THEN UNCHANGED <<overlapped, astray>>
         ELSE /\ overlapped' = overlapped \cup Rivals(a, what) \cup {q}
              /\ astray' = astray \cup {<<a, IF what = "party" THEN "party" ELSE "blocks">>}
    /\ UNCHANGED <<dbVars, connVars, dataVars, msgVars, rtodo, shunned, gameVars>>

\* InsertBlockRelation.
Block(q, a, s) == <<a, s>> \notin relations /\ BeginTx(q, a, s, BlockedBy(a) \cup {s})

\* DeleteBlockRelation.
Unblock(q, a, s) == <<a, s>> \in relations /\ BeginTx(q, a, s, BlockedBy(a) \ {s})

\* handleCreate, handleJoin (who is in no party) and handleLeave (who is).
ChangeParty(q, a, p) ==
    p # partyOf[a] /\ None \in {p, partyOf[a]} /\ BeginTx(q, a, "party", {p} \ {None})

PartyIn(set) == IF set = {} THEN None ELSE CHOOSE p \in set : TRUE

\* A block that is taken back counts no more.
Applied(q) ==
    /\ IF about[q] = "party"
         THEN partyOf' = [partyOf EXCEPT ![who[q]] = PartyIn(list[q])] /\ UNCHANGED relations
         ELSE /\ relations' = IF about[q] \in list[q] THEN relations \cup {<<who[q], about[q]>>}
                                                      ELSE relations \ {<<who[q], about[q]>>}
              /\ UNCHANGED partyOf
    /\ shunned' = shunned \cap relations'

\* Nothing is left of a request that ends.
Ends(q) ==
    /\ rpc' = [rpc EXCEPT ![q] = "done"]
    /\ who' = [who EXCEPT ![q] = None] /\ about' = [about EXCEPT ![q] = None]
    /\ list' = [list EXCEPT ![q] = {}]
    /\ overlapped' = overlapped \ {q}

Commit(q) ==
    /\ rpc[q] = "begun" /\ Applied(q)
    /\ rpc' = [rpc EXCEPT ![q] = "committed"]
    /\ UNCHANGED <<connVars, dataVars, msgVars, who, about, list, rtodo, overlapped, astray, gameVars>>

\* Commit returns an error: the transaction is rolled back, or it was applied
\* and only the answer is lost.  Either way nothing is passed on.
CommitFails(q) ==
    /\ rpc[q] = "begun" /\ Ends(q)
    /\ \/ UNCHANGED <<dbVars, shunned, astray>>
       \/ Applied(q) /\ astray' = astray \cup {Change(q)}
    /\ UNCHANGED <<connVars, dataVars, msgVars, rtodo, gameVars>>

\* The room handler's UpdateBlockList comes first; if it panics (SendPanics in
\* BlockSync) the request ends there.
RoomPanics(q) ==
    /\ rpc[q] = "committed" /\ about[q] # "party" /\ Ends(q)
    /\ astray' = astray \cup {Change(q)}
    /\ UNCHANGED <<dbVars, connVars, dataVars, msgVars, rtodo, shunned, gameVars>>

\* UpdateBlockList, UpdateParty: f for every connection of the account.  (Names
\* with an underscore are faulty variants of the definition after them.)
ConnsOf_one(a) == {c \in Open : account[c] = a /\ \A d \in Open \ {c} : account[d] # a}
ConnsOf(a) == {c \in Open : account[c] = a}

\* A change that ran alone makes good what went astray before.
forEachConnOf(q) ==
    /\ rpc[q] = "committed"
    /\ rpc' = [rpc EXCEPT ![q] = "conns"]
    /\ rtodo' = [rtodo EXCEPT ![q] = ConnsOf(who[q])]
    /\ missed' = missed \cup
          {c \in Conn : cpc[c] \in {"known", "authorized"} /\ account[c] = who[q]}
    /\ astray' = IF q \in overlapped THEN astray ELSE astray \ {Change(q)}
    /\ UNCHANGED <<dbVars, cpc, account, dataVars, msgVars, who, about, list, shunned, overlapped, gameVars>>

Update(q, c) ==
    /\ rpc[q] = "conns" /\ c \in rtodo[q]
    /\ rtodo' = [rtodo EXCEPT ![q] = @ \ {c}]
    /\ IF about[q] = "party"
         THEN partyID' = [partyID EXCEPT ![c] = PartyIn(list[q])] /\ UNCHANGED blocklist
         ELSE blocklist' = [blocklist EXCEPT ![c] = list[q]] /\ UNCHANGED partyID
    /\ UNCHANGED <<dbVars, connVars, msgVars, rpc, who, about, list, pastVars, gameVars>>

\* What is answered counts, if no other request could overwrite it meanwhile.
Answer(q) ==
    /\ rpc[q] = "conns" /\ rtodo[q] = {} /\ Ends(q)
    /\ shunned' = IF q \in overlapped \/ about[q] = "party" THEN shunned
                  ELSE shunned \cup {<<who[q], s>> : s \in BlockedBy(who[q])}
    /\ UNCHANGED <<dbVars, connVars, dataVars, msgVars, rtodo, astray, gameVars>>

-----------------------------------------------------------------------------
(* Players: setRoom and unsetRoom of the room handler, step by step.  Who   *)
(* has left does not come back (bound).                                     *)

Join(a, r) ==
    /\ gpc[a] = "away" /\ Changes < MaxChanges /\ moves' = moves + 1
    /\ gpc' = [gpc EXCEPT ![a] = "joined"]
    /\ roomID' = [roomID EXCEPT ![a] = r] /\ dest' = [dest EXCEPT ![a] = r]
    /\ UNCHANGED <<dbVars, connVars, dataVars, msgVars, reqVars, memberOf>>

SwitchRoom(a, r) ==
    /\ gpc[a] = "playing" /\ Changes < MaxChanges /\ moves' = moves + 1
    /\ gpc' = [gpc EXCEPT ![a] = "joined"]
    /\ dest' = [dest EXCEPT ![a] = r]
    /\ UNCHANGED <<dbVars, connVars, dataVars, msgVars, reqVars, roomID, memberOf>>

unsetRoom(a) == memberOf' = [memberOf EXCEPT ![a] = IF @ = roomID[a] THEN None ELSE @]

LeaveRoom(a) ==
    /\ gpc[a] = "joined" /\ unsetRoom(a)
    /\ gpc' = [gpc EXCEPT ![a] = "left"]
    /\ UNCHANGED <<dbVars, connVars, dataVars, msgVars, reqVars, roomID, dest, moves>>

AppendMember(a) ==
    /\ gpc[a] = "left"
    /\ gpc' = [gpc EXCEPT ![a] = "entered"]
    /\ memberOf' = [memberOf EXCEPT ![a] = dest[a]]
    /\ UNCHANGED <<dbVars, connVars, dataVars, msgVars, reqVars, roomID, dest, moves>>

SetRoomID(a) ==
    /\ gpc[a] = "entered"
    /\ gpc' = [gpc EXCEPT ![a] = "playing"]
    /\ roomID' = [roomID EXCEPT ![a] = dest[a]]
    /\ UNCHANGED <<dbVars, connVars, dataVars, msgVars, reqVars, memberOf, dest, moves>>

Quit(a) ==
    /\ gpc[a] = "playing" /\ unsetRoom(a) /\ Changes < MaxChanges /\ moves' = moves + 1
    /\ gpc' = [gpc EXCEPT ![a] = "leaving"]
    /\ UNCHANGED <<dbVars, connVars, dataVars, msgVars, reqVars, roomID, dest>>

Deregister(a) ==
    /\ gpc[a] = "leaving"
    /\ gpc' = [gpc EXCEPT ![a] = "gone"]
    /\ UNCHANGED <<dbVars, connVars, dataVars, msgVars, reqVars, roomID, memberOf, dest, moves>>

GameStep(a) ==
    \/ \E r \in Room : Join(a, r) \/ SwitchRoom(a, r)
    \/ LeaveRoom(a) \/ AppendMember(a) \/ SetRoomID(a)
    \/ Quit(a) \/ Deregister(a)

-----------------------------------------------------------------------------
(* Messages: processMessage, GetRoommates, broadcast                        *)

Goto(c, l) == pc' = [pc EXCEPT ![c] = l]
othersVars == <<dbVars, connVars, dataVars, reqVars, gameVars>>

Begin(c, ch) ==
    /\ cpc[c] = "open" /\ pc[c] = "idle" /\ sent < MaxMessages
    /\ sent' = sent + 1
    /\ channel' = [channel EXCEPT ![c] = ch]
    /\ Goto(c, CASE ch = "Global" -> "lock" [] ch = "Map" -> "find" [] ch = "Party" -> "party")
    /\ UNCHANGED <<othersVars, place, audience, todo, them, heard>>

\* A singleplayer map is left to whoever is in it.
Alone(a) == roomID[a] \in SPMaps

\* Who is not in the game gets ErrNotInMap.
FindUser(c) ==
    /\ pc[c] = "find"
    /\ LET a == account[c] IN
       IF Playing(a) THEN /\ Goto(c, IF Alone(a) THEN "lock" ELSE "room")
                          /\ audience' = [audience EXCEPT ![c] = {a}]
                     ELSE Goto(c, "idle") /\ UNCHANGED audience
    /\ UNCHANGED <<othersVars, channel, place, todo, them, sent, heard>>

\* The author gets it whether or not it is a member when the members are read.
Gathered_members(c) == {a \in Account : memberOf[a] = place[c]}
Gathered(c) == audience[c] \cup {a \in Account : memberOf[a] = place[c]}

\* RoomID is read again, and the room's members when its lock is free.
ReadRoomID(c) ==
    /\ pc[c] = "room"
    /\ place' = [place EXCEPT ![c] = roomID[account[c]]]
    /\ Goto(c, "members")
    /\ UNCHANGED <<othersVars, channel, audience, todo, them, sent, heard>>

ReadMembers(c) ==
    /\ pc[c] = "members"
    /\ audience' = [audience EXCEPT ![c] = Gathered(c)]
    /\ place' = [place EXCEPT ![c] = None]
    /\ Goto(c, "lock")
    /\ UNCHANGED <<othersVars, channel, todo, them, sent, heard>>

\* Who is in no party gets ErrNotInParty.
GetParty(c) ==
    /\ pc[c] = "party"
    /\ audience' = [audience EXCEPT ![c] = {partyID[c]} \ {None}]
    /\ Goto(c, IF partyID[c] = None THEN "idle" ELSE "lock")
    /\ UNCHANGED <<othersVars, channel, place, todo, them, sent, heard>>

Broadcast(c) ==
    /\ pc[c] = "lock"
    /\ todo' = [todo EXCEPT ![c] = Open]
    /\ Goto(c, "send")
    /\ UNCHANGED <<othersVars, channel, place, audience, them, sent, heard>>

ShouldGet(c, d) ==
    CASE channel[c] = "Global" -> TRUE
      [] channel[c] = "Map" -> account[d] \in audience[c]
      [] channel[c] = "Party" -> partyID[d] \in audience[c]

HasBlocked(c, d) == account[d] \in blocklist[c]

Visit(c, d) ==
    /\ pc[c] = "send" /\ d \in todo[c]
    /\ todo' = [todo EXCEPT ![c] = @ \ {d}]
    /\ IF ShouldGet(c, d) /\ ~HasBlocked(c, d)
         THEN Goto(c, "other") /\ them' = [them EXCEPT ![c] = d]
         ELSE UNCHANGED <<pc, them>>
    /\ UNCHANGED <<othersVars, channel, place, audience, sent, heard>>

\* isBlockedBetween asks the other one as well.
BlockedBack_unasked(c, d) == FALSE
BlockedBack(c, d) == HasBlocked(d, c)

SendRaw(c) ==
    /\ pc[c] = "other"
    /\ LET d == them[c] IN
       heard' = [heard EXCEPT ![c] = IF BlockedBack(c, d) THEN @ ELSE @ \cup {d}]
    /\ them' = [them EXCEPT ![c] = None]
    /\ Goto(c, "send")
    /\ UNCHANGED <<othersVars, channel, place, audience, todo, sent>>

EndBroadcast(c) ==
    /\ pc[c] = "send" /\ todo[c] = {}
    /\ heard' = [heard EXCEPT ![c] = {}]
    /\ audience' = [audience EXCEPT ![c] = {}]
    /\ channel' = [channel EXCEPT ![c] = None]
    /\ Goto(c, "idle")
    /\ UNCHANGED <<othersVars, place, todo, them, sent>>

MsgStep(c) ==
    \/ \E ch \in Channels : Begin(c, ch)
    \/ FindUser(c) \/ ReadRoomID(c) \/ ReadMembers(c) \/ GetParty(c)
    \/ Broadcast(c) \/ (\E d \in Conn : Visit(c, d)) \/ SendRaw(c) \/ EndBroadcast(c)

-----------------------------------------------------------------------------
(* Who is meant: history that the properties compare heard with.            *)

\* In a room, and not on the way into it.
At(a, r) == gpc[a] = "playing" /\ roomID[a] = r

\* Map chat is for the members of the author's room.
Roommates(a) == {a} \cup {b \in Account : memberOf[b] = roomID[a] /\ roomID[a] \notin SPMaps}
Beside(a) == {a} \cup {b \in Roommates(a) : At(a, roomID[a]) /\ At(b, roomID[a])}

MeantFor(c) ==
    CASE channel[c] = "Global" -> Account
      [] channel[c] = "Map" -> Roommates(account[c])
      [] channel[c] = "Party" -> {account[d] : d \in {d \in Open : partyID[d] = partyID[c]}}

\* d must get it if nothing moves.
Due(c, d) ==
    /\ ~HasBlocked(c, d) /\ ~HasBlocked(d, c)
    /\ channel[c] = "Map" => account[d] \in Beside(account[c])
    /\ channel[c] = "Party" => partyID[c] # None /\ partyID[d] = partyID[c]

\* Who changes party meanwhile does not stay; who changes room is not At one.
Stays(c, d) == channel[c] = "Party" => partyID'[d] = partyID[d]

\* The author goes elsewhere: another room, another party.
Moves(c) == roomID'[account[c]] # roomID[account[c]] \/ partyID'[c] # partyID[c]

Barred(a) == {pair \in shunned : a \in {pair[1], pair[2]}}

\* What holds throughout a message, and what held at some time.
Watch ==
    /\ due' = [c \in Conn |->
         IF pc'[c] = "idle" THEN {}
         ELSE {d \in IF pc[c] = "idle" THEN Open' ELSE {d \in due[c] \cap Open' : Stays(c, d)} :
                   Due(c, d)'}]
    /\ met' = [c \in Conn |->
         IF pc'[c] = "idle" THEN {}
         ELSE met[c] \cup IF pc[c] # "idle" /\ Moves(c) THEN Account ELSE MeantFor(c)']
    /\ barred' = [c \in Conn |->
         IF pc'[c] = "idle" THEN {}
         ELSE IF pc[c] = "idle" THEN Barred(account[c]) ELSE barred[c] \cap shunned']

AllDone ==   \* players may stay, or never come
    /\ \A q \in Req : ~Busy(q)
    /\ \A c \in Conn : cpc[c] = "closed"
    /\ \A a \in Account : gpc[a] \in {"away", "playing", "gone"}
    /\ UNCHANGED vars

Step ==
    \/ \E c \in Conn :
          \/ (\E a \in Account : Authorize(c, a)) \/ LookUpParty(c)
          \/ OnOpen(c) \/ OnClose(c) \/ MsgStep(c)
    \/ \E q \in Req :
          \/ \E a, s \in Account : Block(q, a, s) \/ Unblock(q, a, s)
          \/ \E a \in Account, p \in Party \cup {None} : ChangeParty(q, a, p)
          \/ Commit(q) \/ CommitFails(q) \/ RoomPanics(q)
          \/ forEachConnOf(q) \/ (\E c \in Conn : Update(q, c)) \/ Answer(q)
    \/ \E a \in Account : GameStep(a)

Next == (Step /\ Watch) \/ AllDone

Spec == Init /\ [][Next]_vars

-----------------------------------------------------------------------------

\* "No error, they should be blocked now" (users.go): no message that is sent
\* after a block has been answered passes between the two, either way, while
\* the block lasts, whatever requests run beside each other later, fail or get
\* lost; unless another request of the account ran beside the block's own, or
\* one of the connections was being opened when an update was passed along.
BlockedSilent ==
    \A c \in Conn : \A d \in heard[c] :
        <<account[c], account[d]>> \in barred[c] \/ <<account[d], account[c]>> \in barred[c]
            => missed \cap {c, d} # {}

\* However players move and lists change meanwhile, a message reaches every
\* connection that stays where the message goes and that no block keeps it
\* from, its author's too; and it reaches nobody else while its author stays.
HeardWhereMeant ==
    \A c \in Conn : pc[c] = "send" /\ todo[c] = {} =>
        due[c] \subseteq heard[c] /\ {account[d] : d \in heard[c]} \subseteq met[c]

PassedOn(a, what) ==
    \A q \in Req : rpc[q] \in {"committed", "conns"} => Change(q) # <<a, what>>

\* "Keyed by connection because one account can have multiple tabs open"
\* (handler.go): all tabs of an account come to have the blocklist and the party
\* that the database has.  Requests that run beside each other, a commit whose
\* answer is lost and a panic of the room handler set that back, for that list
\* or party alone, and no longer than until it is next changed by a request
\* that runs alone.
EveryTabFresh ==
    \A c \in Open \ missed : LET a == account[c] IN
        /\ <<a, "blocks">> \notin astray /\ PassedOn(a, "blocks") => blocklist[c] = BlockedBy(a)
        /\ <<a, "party">> \notin astray /\ PassedOn(a, "party") => partyID[c] = partyOf[a]

\* The same whatever has overlapped or got lost.
EveryTabFreshAlways ==
    (\A q \in Req : ~Busy(q)) => \A c \in Open \ missed :
        blocklist[c] = BlockedBy(account[c]) /\ partyID[c] = partyOf[account[c]]

\* BlockedSilent of every connection, those that were being opened included.
BlockedSilentToAll ==
    \A c \in Conn : \A d \in heard[c] :
        {<<account[c], account[d]>>, <<account[d], account[c]>>} \cap barred[c] = {}

\* "A chat message. Also sent back to whoever sent it" (messages.go).
SentBack == \A c \in Conn : pc[c] = "send" /\ todo[c] = {} => c \in heard[c]
=============================================================================
