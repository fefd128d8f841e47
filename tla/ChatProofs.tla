------------------------------ MODULE ChatProofs ------------------------------
(***************************************************************************)
(* Proofs about Chat, for any accounts, connections, requests, rooms,      *)
(* parties and channels, and any bounds.                                   *)
(*                                                                         *)
(* ShapeInv says what a connection, a message and a request look like.     *)
(* FreshInv says of every tab that it has what the database has, or that a *)
(* request is about to pass it on, unless the account's changes went       *)
(* astray; and of a request that no other one runs beside, that what it    *)
(* passes on is what the database has.  SilentInv says that no request,    *)
(* whatever runs beside it, passes on a list without the blocks that have  *)
(* been answered, which are therefore on every tab, so that one of the two *)
(* that are asked before a message is sent keeps it back.  MeantInv        *)
(* follows a message through processMessage: who must get it is in the     *)
(* audience, and in what broadcast has yet to visit or has sent, and the   *)
(* audience are those who may, unless the author has moved.                *)
(***************************************************************************)
EXTENDS Chat, TLAPS

(* What holds of each connection and of each request.                       *)

\* A connection that is open, or about to be, is somebody's; a message is on an
\* open one, its place in processMessage fits its channel, and only while it is
\* broadcast are there connections to visit, to ask, and that heard it.
ConnOK(c) ==
    /\ cpc[c] \in {"known", "authorized", "open"} => account[c] \in Account
    /\ pc[c] # "idle" => cpc[c] = "open" /\ channel[c] \in Channels
    /\ pc[c] \in {"find", "room", "members"} => channel[c] = "Map"
    /\ pc[c] = "party" => channel[c] = "Party"
    /\ todo[c] \cup heard[c] \subseteq IF Broadcasting(c) THEN Open ELSE {}
    /\ IF pc[c] = "other" THEN them[c] \in Open ELSE them[c] = None

\* A request that runs passes on one party or none, or a blocklist, to
\* connections that are open and its account's.
RequestOK(q) ==
    /\ Busy(q) => /\ who[q] \in Account
                  /\ \/ about[q] = "party" /\ \E p \in Party \cup {None} : list[q] = {p} \ {None}
                     \/ about[q] \in Account /\ list[q] \subseteq Account
    /\ rtodo[q] \subseteq IF rpc[q] = "conns" THEN ConnsOf(who[q]) ELSE {}
    /\ q \in overlapped => Busy(q)

ShapeInv ==
    /\ ConnTypeOK /\ MessageTypeOK /\ RequestTypeOK /\ GameTypeOK
    /\ \A c \in Conn : ConnOK(c)
    /\ \A q \in Req : RequestOK(q)

-----------------------------------------------------------------------------
(* What reaches the tabs of an account.                                     *)

\* What the request passes on is what the database has, or will have.
Current(q) ==
    IF about[q] = "party"
      THEN rpc[q] # "begun" => list[q] = {partyOf[who[q]]} \ {None}
      ELSE list[q] = IF rpc[q] # "begun" THEN BlockedBy(who[q])
                     ELSE IF about[q] \in list[q] THEN BlockedBy(who[q]) \cup {about[q]}
                     ELSE BlockedBy(who[q]) \ {about[q]}

\* Nothing runs beside the request, and what it passes on ends what went astray.
Unrivalled(q) ==
    /\ \A r \in Req \ {q} : Busy(r) => Change(r) # Change(q)
    /\ Current(q)
    /\ rpc[q] = "conns" => Change(q) \notin astray

\* Only what went astray is changed by requests that run beside each other.
Sound(q) == IF q \in overlapped THEN Change(q) \in astray ELSE Unrivalled(q)

\* The request has yet to update the connection.
Coming(q, c) ==
    /\ who[q] = account[c]
    /\ rpc[q] = "committed" \/ (rpc[q] = "conns" /\ c \in rtodo[q])

\* The connection has the blocklist that the database has, or is about to get it,
BlocksOK(c) ==
    \/ <<account[c], "blocks">> \in astray
    \/ blocklist[c] = BlockedBy(account[c])
    \/ \E q \in Req : Coming(q, c) /\ about[q] # "party"

\* ... and so has it the party.
PartyOK(c) ==
    \/ <<account[c], "party">> \in astray
    \/ partyID[c] = partyOf[account[c]]
    \/ \E q \in Req : Coming(q, c) /\ about[q] = "party"

Tab(c) == cpc[c] \in {"known", "authorized", "open"} /\ c \notin missed

FreshInv ==
    /\ ShapeInv
    /\ \A q \in Req : Busy(q) => Sound(q)
    /\ \A c \in Conn : Tab(c) => BlocksOK(c) /\ (cpc[c] # "known" => PartyOK(c))

\* Blocks that were answered are in what every request passes on, the one that
\* is about to take it back aside, and on every tab; a message that one keeps
\* from the other is neither asked about nor heard.
Brings(q) ==
    \A s \in Account :
        <<who[q], s>> \in shunned => s \in list[q] \/ (rpc[q] = "begun" /\ s = about[q])

Keeps(c) == \A s \in Account : <<account[c], s>> \in shunned => s \in blocklist[c]

Shuns(c) ==
    /\ barred[c] \subseteq IF pc[c] = "idle" THEN {} ELSE shunned
    /\ pc[c] = "other" /\ <<account[c], account[them[c]]>> \in barred[c] => c \in missed
    /\ \A d \in heard[c] :
          <<account[c], account[d]>> \in barred[c] \/ <<account[d], account[c]>> \in barred[c]
             => missed \cap {c, d} # {}

SilentInv ==
    /\ FreshInv
    /\ \A q \in Req : Busy(q) /\ about[q] # "party" => Brings(q)
    /\ \A c \in Conn : Tab(c) => Keeps(c)
    /\ \A c \in Conn : Shuns(c)

-----------------------------------------------------------------------------
(* Where a message goes.                                                    *)

Sending(c) == pc[c] \in {"lock", "send", "other"}

\* Who must get it is in the audience, and is visited or has heard it.
Reached(c) ==
    /\ due[c] \subseteq Open /\ (pc[c] = "idle" => due[c] = {})
    /\ \A d \in due[c] : Due(c, d)
    /\ pc[c] \in {"room", "members"} => account[c] \in audience[c]
    /\ pc[c] = "members" => \A d \in due[c] : account[d] = account[c] \/ place[c] = roomID[account[c]]
    /\ Sending(c) /\ channel[c] = "Map" => \A d \in due[c] : account[d] \in audience[c]
    /\ Sending(c) /\ channel[c] = "Party" => \A d \in due[c] : partyID[d] \in audience[c]
    /\ Broadcasting(c) => due[c] \subseteq todo[c] \cup heard[c] \cup {them[c]}

\* The audience is of those who may get it, unless the author has moved.
Meant(c) ==
    /\ pc[c] # "idle" /\ channel[c] = "Global" => Account \subseteq met[c]
    /\ pc[c] # "idle" /\ channel[c] = "Map" => account[c] \in met[c]
    /\ pc[c] = "room" => Account \subseteq met[c] \/ roomID[account[c]] \notin SPMaps
    /\ pc[c] \in {"room", "members"} => audience[c] \subseteq {account[c]}
    /\ pc[c] = "members" =>
          \/ Account \subseteq met[c]
          \/ place[c] = roomID[account[c]] /\ roomID[account[c]] \notin SPMaps
    /\ Sending(c) /\ channel[c] = "Map" => Account \subseteq met[c] \/ audience[c] \subseteq met[c]
    /\ Sending(c) /\ channel[c] = "Party" =>
          Account \subseteq met[c] \/ audience[c] \subseteq {partyID[c]}
    /\ pc[c] = "other" => account[them[c]] \in met[c]
    /\ \A d \in heard[c] : account[d] \in met[c]

MeantInv == ShapeInv /\ \A c \in Conn : Reached(c) /\ Meant(c)

-----------------------------------------------------------------------------
(* The steps, and what they leave alone.                                    *)

ConnStep(c) == (\E a \in Account : Authorize(c, a)) \/ LookUpParty(c) \/ OnOpen(c) \/ OnClose(c)

BeginStep(q) ==
    \/ \E a, s \in Account : Block(q, a, s) \/ Unblock(q, a, s)
    \/ \E a \in Account, p \in Party \cup {None} : ChangeParty(q, a, p)

RequestStep(q) ==
    \/ BeginStep(q) \/ Commit(q) \/ CommitFails(q) \/ RoomPanics(q)
    \/ forEachConnOf(q) \/ (\E c \in Conn : Update(q, c)) \/ Answer(q)

\* The steps, by whose they are.
LEMMA StepCases ==
    ASSUME Step
    PROVE  \/ \E c \in Conn : ConnStep(c)
           \/ \E c \in Conn : MsgStep(c)
           \/ \E q \in Req : RequestStep(q)
           \/ \E a \in Account : GameStep(a)
  BY Zenon DEF Step, ConnStep, RequestStep, BeginStep

\* What the steps of a player leave alone.
LEMMA GameFrame ==
    ASSUME NEW a \in Account, GameStep(a)
    PROVE  UNCHANGED <<relations, partyOf, cpc, account, missed, blocklist, partyID,
                       msgVars, reqVars>>
  <1> USE DEF dbVars, connVars, dataVars
  <1>1. ASSUME NEW r \in Room, Join(a, r) \/ SwitchRoom(a, r)
        PROVE  UNCHANGED <<relations, partyOf, cpc, account, missed, blocklist, partyID,
                           msgVars, reqVars>>
    BY <1>1 DEF Join, SwitchRoom
  <1> QED
    BY <1>1 DEF GameStep, LeaveRoom, AppendMember, SetRoomID, Quit, Deregister

\* What those of a connection leave alone.
LEMMA ConnFrame ==
    ASSUME ConnTypeOK, NEW c \in Conn, ConnStep(c)
    PROVE  /\ UNCHANGED <<relations, partyOf, msgVars, reqVars, gameVars>>
           /\ \A d \in Conn \ {c} : /\ cpc'[d] = cpc[d] /\ account'[d] = account[d]
                                    /\ blocklist'[d] = blocklist[d] /\ partyID'[d] = partyID[d]
                                    /\ d \in missed' <=> d \in missed
  <1> USE DEF ConnTypeOK, dbVars, dataVars
  <1>1. ASSUME NEW a \in Account, Authorize(c, a)
        PROVE  /\ UNCHANGED <<relations, partyOf, missed, msgVars, reqVars, gameVars>>
               /\ \A d \in Conn \ {c} : /\ cpc'[d] = cpc[d] /\ account'[d] = account[d]
                                        /\ blocklist'[d] = blocklist[d] /\ partyID'[d] = partyID[d]
    BY <1>1 DEF Authorize
  <1>2. CASE LookUpParty(c)
    BY <1>2 DEF LookUpParty
  <1>3. CASE OnOpen(c)
    BY <1>3 DEF OnOpen
  <1>4. CASE OnClose(c)
    BY <1>4 DEF OnClose
  <1> QED
    BY <1>1, <1>2, <1>3, <1>4 DEF ConnStep

\* A request that begins: its transaction has executed its statement.
LEMMA Begins ==
    ASSUME RequestTypeOK, NEW q \in Req, BeginStep(q)
    PROVE  \E a \in Account, what \in Account \cup {"party"}, new \in SUBSET (Account \cup Party) :
              /\ BeginTx(q, a, what, new)
              /\ what = "party" => \E p \in Party \cup {None} : new = {p} \ {None}
              /\ what # "party" => new = BlockedBy(a) \cup {what} \/ new = BlockedBy(a) \ {what}
  <1> DEFINE Begun(a, what, new) ==
              /\ BeginTx(q, a, what, new)
              /\ what = "party" => \E p \in Party \cup {None} : new = {p} \ {None}
              /\ what # "party" => new = BlockedBy(a) \cup {what} \/ new = BlockedBy(a) \ {what}
  <1>0. SUBSET Account \subseteq SUBSET (Account \cup Party) /\ \A s \in Account : s # "party"
    BY ChatAssumption
  <1>1. ASSUME NEW a \in Account, NEW s \in Account, Block(q, a, s)
        PROVE  Begun(a, s, BlockedBy(a) \cup {s}) /\ BlockedBy(a) \cup {s} \in SUBSET (Account \cup Party)
    BY <1>0, <1>1 DEF Block, BlockedBy
  <1>2. ASSUME NEW a \in Account, NEW s \in Account, Unblock(q, a, s)
        PROVE  Begun(a, s, BlockedBy(a) \ {s}) /\ BlockedBy(a) \ {s} \in SUBSET (Account \cup Party)
    BY <1>0, <1>2 DEF Unblock, BlockedBy
  <1>3. ASSUME NEW a \in Account, NEW p \in Party \cup {None}, ChangeParty(q, a, p)
        PROVE  Begun(a, "party", {p} \ {None}) /\ {p} \ {None} \in SUBSET (Account \cup Party)
    BY <1>3 DEF ChangeParty
  <1>4. \E a \in Account, what \in Account \cup {"party"}, new \in SUBSET (Account \cup Party) :
           Begun(a, what, new)
    <2> HIDE DEF Begun
    <2>1. ASSUME NEW a \in Account, NEW s \in Account, Block(q, a, s) \/ Unblock(q, a, s)
          PROVE  \E new \in SUBSET (Account \cup Party) : Begun(a, s, new)
      BY <2>1, <1>1, <1>2
    <2>2. ASSUME NEW a \in Account, NEW p \in Party \cup {None}, ChangeParty(q, a, p)
          PROVE  \E new \in SUBSET (Account \cup Party) : Begun(a, "party", new)
      BY <2>2, <1>3
    <2> QED
      BY <2>1, <2>2 DEF BeginStep
  <1> QED
    BY <1>4

\* What those of a request leave alone.
LEMMA RequestFrame ==
    ASSUME NEW q \in Req, RequestStep(q)
    PROVE  UNCHANGED <<cpc, account, msgVars, gameVars>> /\ missed \subseteq missed'
  <1> USE DEF connVars
  <1>1. ASSUME NEW a, NEW what, NEW new, BeginTx(q, a, what, new)
        PROVE  UNCHANGED <<cpc, account, msgVars, gameVars, missed>>
    BY <1>1 DEF BeginTx
  <1>2. ASSUME BeginStep(q) PROVE UNCHANGED <<cpc, account, msgVars, gameVars, missed>>
    BY <1>1, <1>2 DEF BeginStep, Block, Unblock, ChangeParty
  <1>3. ASSUME NEW c \in Conn, Update(q, c) PROVE UNCHANGED <<cpc, account, msgVars, gameVars, missed>>
    BY <1>3 DEF Update
  <1>4. CASE forEachConnOf(q)
    BY <1>4 DEF forEachConnOf
  <1>5. CASE Commit(q) \/ CommitFails(q) \/ RoomPanics(q) \/ Answer(q)
    BY <1>5 DEF Commit, CommitFails, RoomPanics, Answer
  <1> QED
    BY <1>2, <1>3, <1>4, <1>5 DEF RequestStep

\* What stays of the requests when one of them takes a step.
Others(q) ==
    \A r \in Req \ {q} : /\ rpc'[r] = rpc[r] /\ who'[r] = who[r] /\ about'[r] = about[r]
                         /\ list'[r] = list[r] /\ rtodo'[r] = rtodo[r]

\* The steps of a request leave the others alone.
LEMMA OtherRequests ==
    ASSUME RequestTypeOK, NEW q \in Req, RequestStep(q)
    PROVE  Others(q)
  <1> USE DEF Others, RequestTypeOK
  <1>1. ASSUME NEW a, NEW what, NEW new, BeginTx(q, a, what, new) PROVE Others(q)
    BY <1>1 DEF BeginTx
  <1>2. ASSUME BeginStep(q) PROVE Others(q)
    BY <1>1, <1>2 DEF BeginStep, Block, Unblock, ChangeParty
  <1>3. CASE Commit(q)
    BY <1>3 DEF Commit
  <1>4. CASE CommitFails(q) \/ RoomPanics(q) \/ Answer(q)
    BY <1>4 DEF CommitFails, RoomPanics, Answer, Ends
  <1>5. CASE forEachConnOf(q)
    BY <1>5 DEF forEachConnOf
  <1>6. ASSUME NEW c \in Conn, Update(q, c) PROVE Others(q)
    BY <1>6 DEF Update
  <1> QED
    BY <1>2, <1>3, <1>4, <1>5, <1>6 DEF RequestStep

\* What those of a message leave alone.
LEMMA MsgFrame ==
    ASSUME NEW c \in Conn, MsgStep(c)
    PROVE  UNCHANGED <<relations, partyOf, cpc, account, missed, blocklist, partyID,
                       reqVars, gameVars>>
  <1> USE DEF othersVars, dbVars, connVars, dataVars
  <1>1. ASSUME NEW ch \in Channels, Begin(c, ch)
        PROVE  UNCHANGED <<relations, partyOf, cpc, account, missed, blocklist, partyID,
                           reqVars, gameVars>>
    BY <1>1 DEF Begin
  <1>2. ASSUME NEW d \in Conn, Visit(c, d)
        PROVE  UNCHANGED <<relations, partyOf, cpc, account, missed, blocklist, partyID,
                           reqVars, gameVars>>
    BY <1>2 DEF Visit
  <1> QED
    BY <1>1, <1>2
    DEF MsgStep, FindUser, ReadRoomID, ReadMembers, Gathered, GetParty, Broadcast, SendRaw, EndBroadcast

\* A message stays where it is.
Still(c) ==
    /\ pc'[c] = pc[c] /\ channel'[c] = channel[c] /\ place'[c] = place[c]
    /\ audience'[c] = audience[c] /\ todo'[c] = todo[c] /\ them'[c] = them[c]
    /\ heard'[c] = heard[c]

\* The messages of other connections stay where they are.
LEMMA OthersStill ==
    ASSUME MessageTypeOK, NEW c \in Conn, MsgStep(c), NEW d \in Conn \ {c}
    PROVE  Still(d)
  <1> USE DEF MessageTypeOK, Still, Goto
  <1>1. ASSUME NEW ch \in Channels, Begin(c, ch) PROVE Still(d)
    BY <1>1 DEF Begin
  <1>2. ASSUME NEW e \in Conn, Visit(c, e) PROVE Still(d)
    BY <1>2 DEF Visit
  <1>3. CASE FindUser(c)
    BY <1>3 DEF FindUser
  <1>4. CASE ReadRoomID(c) \/ ReadMembers(c) \/ GetParty(c)
    BY <1>4 DEF ReadRoomID, ReadMembers, Gathered, GetParty
  <1>5. CASE Broadcast(c) \/ SendRaw(c) \/ EndBroadcast(c)
    BY <1>5 DEF Broadcast, SendRaw, EndBroadcast
  <1> QED
    BY <1>1, <1>2, <1>3, <1>4, <1>5 DEF MsgStep

-----------------------------------------------------------------------------
(* The shapes                                                               *)

\* At first no message is on its way, and no request runs.
LEMMA InitShape == Init => ShapeInv /\ WatchTypeOK
  <1> SUFFICES ASSUME Init PROVE ShapeInv /\ WatchTypeOK
    OBVIOUS
  <1> USE ChatAssumption
  <1>1. (CHOOSE r \in Room : TRUE) \in Room
    OBVIOUS
  <1>2. ConnTypeOK /\ MessageTypeOK
    BY DEF Init, ConnTypeOK, MessageTypeOK
  <1>3. RequestTypeOK
    BY DEF Init, RequestTypeOK
  <1>4. GameTypeOK
    BY <1>1 DEF Init, GameTypeOK
  <1>5. WatchTypeOK
    BY DEF Init, WatchTypeOK
  <1>6. \A c \in Conn : ConnOK(c)
    BY DEF Init, ConnOK, Broadcasting
  <1>7. \A q \in Req : RequestOK(q)
    BY DEF Init, RequestOK, Busy
  <1> QED
    BY <1>2, <1>3, <1>4, <1>5, <1>6, <1>7 DEF ShapeInv

\* Players in the game concern neither connections nor requests.
LEMMA GameShape == ASSUME ShapeInv, NEW a \in Account, GameStep(a) PROVE ShapeInv'
  <1>1. UNCHANGED <<relations, partyOf, cpc, account, missed, blocklist, partyID,
                    msgVars, reqVars>>
    BY GameFrame
  <1>2. ConnTypeOK' /\ MessageTypeOK' /\ RequestTypeOK'
    BY <1>1 DEF ShapeInv, ConnTypeOK, MessageTypeOK, RequestTypeOK, msgVars, reqVars, pastVars
  <1>3. \A c \in Conn : ConnOK(c)'
    BY <1>1 DEF ShapeInv, ConnOK, Broadcasting, Open, msgVars
  <1>4. \A q \in Req : RequestOK(q)'
    BY <1>1 DEF ShapeInv, RequestOK, Busy, ConnsOf, Open, reqVars, pastVars
  <1>5. GameTypeOK'
    <2> USE ChatAssumption DEF ShapeInv, GameTypeOK
    <2>1. ASSUME NEW r \in Room, Join(a, r) PROVE GameTypeOK'
      BY <2>1 DEF Join
    <2>2. ASSUME NEW r \in Room, SwitchRoom(a, r) PROVE GameTypeOK'
      BY <2>2 DEF SwitchRoom
    <2>3. CASE LeaveRoom(a)
      BY <2>3 DEF LeaveRoom, unsetRoom
    <2>4. CASE AppendMember(a)
      BY <2>4 DEF AppendMember
    <2>5. CASE SetRoomID(a)
      BY <2>5 DEF SetRoomID
    <2>6. CASE Quit(a)
      BY <2>6 DEF Quit, unsetRoom
    <2>7. CASE Deregister(a)
      BY <2>7 DEF Deregister
    <2> QED
      BY <2>1, <2>2, <2>3, <2>4, <2>5, <2>6, <2>7 DEF GameStep
  <1> QED
    BY <1>2, <1>3, <1>4, <1>5 DEF ShapeInv

\* Who closes a connection broadcasts nothing, and nothing is being updated.
LEMMA ConnShape == ASSUME ShapeInv, NEW c \in Conn, ConnStep(c) PROVE ShapeInv'
  <1>t. /\ ConnTypeOK /\ MessageTypeOK /\ RequestTypeOK /\ GameTypeOK
        /\ (\A d \in Conn : ConnOK(d)) /\ \A q \in Req : RequestOK(q)
    BY DEF ShapeInv
  <1>1. /\ UNCHANGED <<relations, partyOf, msgVars, reqVars, gameVars>>
        /\ \A d \in Conn \ {c} : cpc'[d] = cpc[d] /\ account'[d] = account[d]
    BY <1>t, ConnFrame
  <1>2. MessageTypeOK' /\ RequestTypeOK' /\ GameTypeOK'
    BY <1>t, <1>1 DEF MessageTypeOK, RequestTypeOK, GameTypeOK, msgVars, reqVars, pastVars, gameVars
  <1>3. ASSUME ConnTypeOK', pc[c] = "idle",
               cpc'[c] \in {"known", "authorized", "open"} => account'[c] \in Account,
               \/ Open \subseteq Open' /\ \A d \in Open : account'[d] = account[d]
               \/ UsersFree
        PROVE  ShapeInv'
    <2>1. ASSUME NEW d \in Conn PROVE ConnOK(d)'
      <3>1. CASE d = c
        BY <1>t, <1>1, <1>3, <3>1 DEF ConnOK, Broadcasting, msgVars
      <3>2. CASE d # c /\ Open \subseteq Open'
        BY <1>t, <1>1, <1>3, <3>2 DEF ConnOK, Broadcasting, msgVars
      <3>3. CASE d # c /\ UsersFree
        BY <1>t, <1>1, <1>3, <3>3 DEF ConnOK, Broadcasting, UsersFree, msgVars
      <3> QED
        BY <1>3, <3>1, <3>2, <3>3
    <2>2. ASSUME NEW q \in Req PROVE RequestOK(q)'
      <3>1. CASE UsersFree
        BY <1>t, <1>1, <3>1 DEF RequestOK, Busy, UsersFree, reqVars, pastVars
      <3>2. CASE Open \subseteq Open' /\ \A d \in Open : account'[d] = account[d]
        <4>1. ConnsOf(who[q]) \subseteq ConnsOf(who[q])'
          BY <1>1, <3>2 DEF ConnsOf, reqVars
        <4> QED
          BY <1>t, <1>1, <4>1 DEF RequestOK, Busy, reqVars, pastVars
      <3> QED
        BY <1>3, <3>1, <3>2
    <2> QED
      BY <1>2, <1>3, <2>1, <2>2 DEF ShapeInv
  <1>4. ASSUME NEW a \in Account, Authorize(c, a) PROVE ShapeInv'
    <2>1. ConnTypeOK'
      BY <1>t, <1>4 DEF Authorize, ConnTypeOK, BlockedBy, dbVars
    <2>2. cpc[c] = "new" /\ cpc'[c] = "known" /\ account'[c] = a
      BY <1>t, <1>4 DEF Authorize, ConnTypeOK
    <2>3. pc[c] = "idle" /\ Open \subseteq Open' /\ \A d \in Open : account'[d] = account[d]
      BY <1>t, <1>1, <2>2 DEF ConnOK, Open
    <2> QED
      BY <1>3, <2>1, <2>2, <2>3
  <1>5. CASE LookUpParty(c)
    <2>1. cpc[c] = "known" /\ cpc'[c] = "authorized" /\ account' = account
      BY <1>t, <1>5 DEF LookUpParty, ConnTypeOK
    <2>2. ConnTypeOK'
      BY <1>t, <1>5, <2>1 DEF LookUpParty, ConnTypeOK, ConnOK, dbVars
    <2>3. pc[c] = "idle" /\ Open \subseteq Open' /\ \A d \in Open : account'[d] = account[d]
      BY <1>t, <1>1, <2>1 DEF ConnOK, Open
    <2> QED
      BY <1>t, <1>3, <2>1, <2>2, <2>3 DEF ConnOK
  <1>6. CASE OnOpen(c)
    <2>1. cpc[c] = "authorized" /\ cpc'[c] = "open" /\ account' = account /\ ConnTypeOK'
      BY <1>t, <1>6 DEF OnOpen, ConnTypeOK, dbVars, dataVars
    <2>2. pc[c] = "idle" /\ Open \subseteq Open' /\ \A d \in Open : account'[d] = account[d]
      BY <1>t, <1>1, <2>1 DEF ConnOK, Open
    <2> QED
      BY <1>t, <1>3, <2>1, <2>2 DEF ConnOK
  <1>7. CASE OnClose(c)
    <2>1. pc[c] = "idle" /\ cpc'[c] = "closed" /\ UsersFree
      BY <1>t, <1>7 DEF OnClose, ConnTypeOK
    <2>2. ConnTypeOK'
      BY <1>t, <1>7 DEF OnClose, ConnTypeOK, dbVars
    <2> QED
      BY <1>3, <2>1, <2>2
  <1> QED
    BY <1>4, <1>5, <1>6, <1>7 DEF ConnStep

\* What a transaction does to the database keeps its types.
LEMMA AppliedTypes ==
    ASSUME ConnTypeOK, NEW q \in Req, RequestOK(q), Busy(q), Applied(q)
    PROVE  /\ relations' \subseteq Account \X Account /\ partyOf' \in [Account -> Party \cup {None}]
           /\ shunned' = shunned \cap relations'
           /\ about[q] = "party" => relations' = relations /\ partyOf'[who[q]] = PartyIn(list[q])
           /\ about[q] # "party" => partyOf' = partyOf
           /\ \A a \in Account \ {who[q]} :
                  partyOf'[a] = partyOf[a] /\ \A s \in Account : <<a, s>> \in relations' <=> <<a, s>> \in relations
  <1>1. PartyIn({}) = None /\ \A p \in Party : PartyIn({p}) = p
    BY DEF PartyIn
  <1>2. CASE about[q] = "party"
    <2>1. PICK p \in Party \cup {None} : list[q] = {p} \ {None}
      BY <1>2, ChatAssumption DEF RequestOK
    <2>2. PartyIn(list[q]) = p
      <3>1. CASE p = None
        BY <1>1, <2>1, <3>1
      <3>2. CASE p # None
        BY <1>1, <2>1, <3>2
      <3> QED
        BY <3>1, <3>2
    <2> QED
      BY <1>2, <2>2 DEF Applied, ConnTypeOK, RequestOK
  <1>3. CASE about[q] # "party"
    BY <1>3 DEF Applied, ConnTypeOK, RequestOK
  <1> QED
    BY <1>2, <1>3

\* A request that runs is its account's, and passes on what it has read.
LEMMA RequestShape == ASSUME ShapeInv, NEW q \in Req, RequestStep(q) PROVE ShapeInv'
  <1>1. UNCHANGED <<cpc, account, msgVars, gameVars>> /\ missed \subseteq missed'
    BY RequestFrame
  <1>2. MessageTypeOK' /\ GameTypeOK' /\ \A c \in Conn : ConnOK(c)'
    BY <1>1 DEF ShapeInv, MessageTypeOK, GameTypeOK, ConnOK, Broadcasting, Open, msgVars, gameVars
  <1>3. \A a : ConnsOf(a)' = ConnsOf(a)
    BY <1>1 DEF ConnsOf, Open
  <1> USE ChatAssumption DEF connVars, dataVars, dbVars, pastVars
  <1>t. ConnTypeOK /\ RequestTypeOK /\ \A r \in Req : RequestOK(r)
    BY DEF ShapeInv
  <1>o. Others(q)
    BY <1>t, OtherRequests
  <1>4. ASSUME ConnTypeOK', RequestTypeOK', RequestOK(q)',
               \A r \in Req \ {q} : r \in overlapped' => r \in overlapped \/ Busy(r)
        PROVE  ShapeInv'
    <2>1. \A r \in Req \ {q} : RequestOK(r)'
      BY <1>t, <1>3, <1>o, <1>4 DEF RequestOK, Busy, Others
    <2> QED
      BY <1>2, <1>4, <2>1 DEF ShapeInv
  <1>5. CASE BeginStep(q)
    <2>1. PICK a \in Account, what \in Account \cup {"party"}, new \in SUBSET (Account \cup Party) :
              /\ BeginTx(q, a, what, new)
              /\ what = "party" => \E p \in Party \cup {None} : new = {p} \ {None}
              /\ what # "party" => new = BlockedBy(a) \cup {what} \/ new = BlockedBy(a) \ {what}
      BY <1>t, <1>5, Begins
    <2>2. /\ rpc[q] = "idle" /\ rpc'[q] = "begun" /\ who'[q] = a /\ about'[q] = what
          /\ list'[q] = new /\ rtodo'[q] = {}
      BY <1>t, <2>1 DEF BeginTx, RequestTypeOK, RequestOK
    <2>3. /\ overlapped' \subseteq overlapped \cup {r \in Req : Busy(r)} \cup {q}
          /\ overlapped' \subseteq Req /\ astray' \subseteq Account \X {"blocks", "party"}
      BY <1>t, <2>1 DEF BeginTx, RequestTypeOK, Rivals
    <2>4. RequestOK(q)'
      BY <2>1, <2>2 DEF RequestOK, Busy, BlockedBy
    <2>5. ConnTypeOK'
      BY <1>t, <2>1 DEF BeginTx, ConnTypeOK
    <2>6. RequestTypeOK'
      BY <1>t, <2>1, <2>3 DEF BeginTx, RequestTypeOK
    <2> QED
      BY <1>4, <2>3, <2>4, <2>5, <2>6
  <1>d. Busy(q) => /\ Change(q) \in Account \X {"blocks", "party"}
                   /\ overlapped \ {q} \subseteq Req
    BY <1>t DEF RequestOK, Change, RequestTypeOK
  <1>e. ASSUME Ends(q), ConnTypeOK', UNCHANGED rtodo, rtodo[q] = {},
               shunned' \subseteq relations', astray' \subseteq Account \X {"blocks", "party"}
        PROVE  ShapeInv'
    <2>1. RequestTypeOK'
      BY <1>t, <1>e DEF Ends, RequestTypeOK
    <2>2. RequestOK(q)'
      BY <1>t, <1>e DEF Ends, RequestOK, Busy, RequestTypeOK
    <2> QED
      BY <1>4, <1>e, <2>1, <2>2 DEF Ends
  <1>6. CASE Commit(q)
    <2>1. Busy(q) /\ rpc[q] = "begun" /\ rtodo[q] = {}
      BY <1>t, <1>6 DEF Commit, Busy, RequestOK
    <2>2. /\ relations' \subseteq Account \X Account /\ partyOf' \in [Account -> Party \cup {None}]
          /\ shunned' = shunned \cap relations'
      BY <1>t, <1>6, <2>1, AppliedTypes DEF Commit
    <2>3. ConnTypeOK'
      BY <1>t, <1>6, <2>2 DEF Commit, ConnTypeOK
    <2>4. RequestTypeOK'
      BY <1>t, <1>6, <2>2 DEF Commit, RequestTypeOK
    <2>5. RequestOK(q)'
      BY <1>t, <1>6, <2>1 DEF Commit, RequestOK, Busy, RequestTypeOK
    <2> QED
      BY <1>4, <1>6, <2>3, <2>4, <2>5 DEF Commit
  <1>7. CASE CommitFails(q)
    <2>1. Busy(q) /\ rtodo[q] = {} /\ Ends(q) /\ UNCHANGED <<connVars, dataVars, rtodo>>
      BY <1>t, <1>7 DEF CommitFails, Busy, RequestOK
    <2>2. CASE UNCHANGED <<dbVars, shunned, astray>>
      <3>1. ConnTypeOK'
        BY <1>t, <2>1, <2>2 DEF ConnTypeOK
      <3> QED
        BY <1>e, <1>t, <2>1, <2>2, <3>1 DEF RequestTypeOK
    <2>3. CASE Applied(q) /\ astray' = astray \cup {Change(q)}
      <3>1. /\ relations' \subseteq Account \X Account /\ partyOf' \in [Account -> Party \cup {None}]
            /\ shunned' = shunned \cap relations'
        BY <1>t, <2>1, <2>3, AppliedTypes
      <3>2. ConnTypeOK'
        BY <1>t, <2>1, <3>1 DEF ConnTypeOK
      <3>3. astray' \subseteq Account \X {"blocks", "party"}
        BY <1>d, <1>t, <2>1, <2>3 DEF RequestTypeOK
      <3> QED
        BY <1>e, <2>1, <3>1, <3>2, <3>3
    <2> QED
      BY <1>7, <2>2, <2>3 DEF CommitFails
  <1>8. CASE RoomPanics(q)
    <2>1. Busy(q) /\ rtodo[q] = {} /\ Ends(q) /\ UNCHANGED <<dbVars, connVars, dataVars, rtodo, shunned>>
      BY <1>t, <1>8 DEF RoomPanics, Busy, RequestOK
    <2>2. ConnTypeOK'
      BY <1>t, <2>1 DEF ConnTypeOK
    <2>3. astray' \subseteq Account \X {"blocks", "party"}
      BY <1>d, <1>t, <1>8, <2>1 DEF RequestTypeOK, RoomPanics
    <2> QED
      BY <1>e, <1>t, <2>1, <2>2, <2>3 DEF RequestTypeOK
  <1>9. CASE forEachConnOf(q)
    <2>1. ConnTypeOK'
      BY <1>t, <1>9 DEF forEachConnOf, ConnTypeOK
    <2>2. RequestTypeOK'
      BY <1>t, <1>9 DEF forEachConnOf, RequestTypeOK, ConnsOf, Open
    <2>3. RequestOK(q)'
      BY <1>t, <1>3, <1>9 DEF forEachConnOf, RequestOK, Busy, RequestTypeOK
    <2> QED
      BY <1>4, <1>9, <2>1, <2>2, <2>3 DEF forEachConnOf
  <1>10. ASSUME NEW c \in Conn, Update(q, c) PROVE ShapeInv'
    <2>1. rpc[q] = "conns" /\ Busy(q)
      BY <1>10 DEF Update, Busy
    <2>2. ConnTypeOK'
      <3>1. CASE about[q] = "party"
        <4>1. PICK p \in Party \cup {None} : list[q] = {p} \ {None}
          BY <1>t, <2>1, <3>1 DEF RequestOK
        <4>2. PartyIn(list[q]) \in Party \cup {None}
          BY <4>1 DEF PartyIn
        <4> QED
          BY <1>t, <1>10, <3>1, <4>2 DEF Update, ConnTypeOK
      <3>2. CASE about[q] # "party"
        <4>1. list[q] \subseteq Account
          BY <1>t, <2>1, <3>2 DEF RequestOK
        <4> QED
          BY <1>t, <1>10, <3>2, <4>1 DEF Update, ConnTypeOK
      <3> QED
        BY <3>1, <3>2
    <2>3. RequestTypeOK'
      BY <1>t, <1>10 DEF Update, RequestTypeOK
    <2>4. RequestOK(q)'
      BY <1>t, <1>3, <1>10 DEF Update, RequestOK, Busy, RequestTypeOK
    <2> QED
      BY <1>4, <1>10, <2>2, <2>3, <2>4 DEF Update
  <1>11. CASE Answer(q)
    <2>1. Busy(q) /\ rtodo[q] = {} /\ Ends(q) /\ UNCHANGED <<dbVars, connVars, dataVars, rtodo, astray>>
      BY <1>11 DEF Answer, Busy
    <2>2. ConnTypeOK'
      BY <1>t, <2>1 DEF ConnTypeOK
    <2>3. shunned' \subseteq relations
      <3>1. \A s \in BlockedBy(who[q]) : <<who[q], s>> \in relations
        BY DEF BlockedBy
      <3> QED
        BY <1>t, <1>11, <3>1 DEF Answer, RequestTypeOK
    <2> QED
      BY <1>e, <1>t, <2>1, <2>2, <2>3 DEF RequestTypeOK
  <1> QED
    BY <1>5, <1>6, <1>7, <1>8, <1>9, <1>10, <1>11 DEF RequestStep

\* A message goes through processMessage as its channel says.
LEMMA MsgShape == ASSUME ShapeInv, NEW c \in Conn, MsgStep(c) PROVE ShapeInv'
  <1>1. UNCHANGED <<relations, partyOf, cpc, account, missed, blocklist, partyID,
                    reqVars, gameVars>>
    BY MsgFrame
  <1>2. Open' = Open /\ \A a : ConnsOf(a)' = ConnsOf(a)
    BY <1>1 DEF Open, ConnsOf
  <1>3. ConnTypeOK' /\ RequestTypeOK' /\ GameTypeOK' /\ \A q \in Req : RequestOK(q)'
    BY <1>1, <1>2
    DEF ShapeInv, ConnTypeOK, RequestTypeOK, GameTypeOK, RequestOK, Busy, reqVars, pastVars, gameVars
  <1>t. MessageTypeOK /\ \A d \in Conn : ConnOK(d)
    BY DEF ShapeInv
  <1>4. \A d \in Conn \ {c} : ConnOK(d)'
    BY <1>1, <1>2, <1>t, OthersStill DEF Still, ConnOK, Broadcasting
  <1> SUFFICES MessageTypeOK' /\ ConnOK(c)'
    BY <1>3, <1>4 DEF ShapeInv
  <1>a. account[c] \in Account /\ roomID \in [Account -> Room] /\ partyID \in [Conn -> Party \cup {None}]
    <2>1. pc[c] # "idle" => account[c] \in Account
      BY <1>t DEF ConnOK
    <2>2. ASSUME NEW ch \in Channels, Begin(c, ch) PROVE account[c] \in Account
      BY <2>2, <1>t DEF ConnOK, Begin
    <2>3. ASSUME NEW d \in Conn, Visit(c, d) PROVE account[c] \in Account
      BY <2>1, <2>3 DEF Visit
    <2>4. account[c] \in Account
      BY <2>1, <2>2, <2>3
      DEF MsgStep, FindUser, ReadRoomID, ReadMembers, Gathered, GetParty, Broadcast, SendRaw, EndBroadcast
    <2> QED
      BY <2>4 DEF ShapeInv, GameTypeOK, ConnTypeOK
  <1> USE ChatAssumption DEF MessageTypeOK, Goto
  <1>5. ASSUME NEW ch \in Channels, Begin(c, ch) PROVE MessageTypeOK' /\ ConnOK(c)'
    <2>1. ch \in {"Global", "Map", "Party"}
      OBVIOUS
    <2>2. CASE ch = "Global"
      BY <1>1, <1>2, <1>t, <1>5, <2>2 DEF Begin, ConnOK, Broadcasting
    <2>3. CASE ch = "Map"
      BY <1>1, <1>2, <1>t, <1>5, <2>3 DEF Begin, ConnOK, Broadcasting
    <2>4. CASE ch = "Party"
      BY <1>1, <1>2, <1>t, <1>5, <2>4 DEF Begin, ConnOK, Broadcasting
    <2> QED
      BY <2>1, <2>2, <2>3, <2>4
  <1>6. CASE FindUser(c)
    BY <1>1, <1>2, <1>t, <1>a, <1>6 DEF FindUser, ConnOK, Broadcasting
  <1>7. CASE ReadRoomID(c)
    BY <1>1, <1>2, <1>t, <1>a, <1>7 DEF ReadRoomID, ConnOK, Broadcasting
  <1>8. CASE ReadMembers(c)
    BY <1>1, <1>2, <1>t, <1>a, <1>8 DEF ReadMembers, Gathered, ConnOK, Broadcasting
  <1>9. CASE GetParty(c)
    BY <1>1, <1>2, <1>t, <1>a, <1>9 DEF GetParty, ConnOK, Broadcasting
  <1>10. CASE Broadcast(c)
    <2>1. Open \subseteq Conn
      BY DEF Open
    <2> QED
      BY <1>1, <1>2, <1>t, <1>10, <2>1 DEF Broadcast, ConnOK, Broadcasting
  <1>11. ASSUME NEW d \in Conn, Visit(c, d) PROVE MessageTypeOK' /\ ConnOK(c)'
    <2>1. pc[c] = "send" /\ d \in Open
      BY <1>t, <1>11 DEF Visit, ConnOK, Broadcasting
    <2>2. CASE ShouldGet(c, d) /\ ~HasBlocked(c, d)
      BY <1>1, <1>2, <1>t, <1>11, <2>1, <2>2 DEF Visit, ConnOK, Broadcasting
    <2>3. CASE ~(ShouldGet(c, d) /\ ~HasBlocked(c, d))
      BY <1>1, <1>2, <1>t, <1>11, <2>1, <2>3 DEF Visit, ConnOK, Broadcasting
    <2> QED
      BY <2>2, <2>3
  <1>12. CASE SendRaw(c)
    <2>1. pc[c] = "other" /\ them[c] \in Open /\ Open \subseteq Conn
      BY <1>t, <1>12 DEF SendRaw, ConnOK, Open
    <2>2. heard'[c] \subseteq heard[c] \cup {them[c]} /\ heard' \in [Conn -> SUBSET Conn]
      BY <1>t, <1>12, <2>1 DEF SendRaw
    <2> QED
      BY <1>1, <1>2, <1>t, <1>12, <2>1, <2>2 DEF SendRaw, ConnOK, Broadcasting
  <1>13. CASE EndBroadcast(c)
    BY <1>1, <1>2, <1>t, <1>13 DEF EndBroadcast, ConnOK, Broadcasting
  <1> QED
    BY <1>5, <1>6, <1>7, <1>8, <1>9, <1>10, <1>11, <1>12, <1>13 DEF MsgStep

\* Every step keeps the shapes.
LEMMA ShapeStep == ASSUME ShapeInv, Step PROVE ShapeInv'
  BY StepCases, GameShape, ConnShape, RequestShape, MsgShape

\* What is watched is of connections and accounts.
LEMMA WatchTypes == ASSUME ShapeInv, ShapeInv', WatchTypeOK, Watch PROVE WatchTypeOK'
  <1> USE DEF WatchTypeOK, ShapeInv
  <1>1. due' \in [Conn -> SUBSET Conn]
    BY DEF Watch, Open
  <1>2. ASSUME NEW c \in Conn, pc'[c] # "idle" PROVE MeantFor(c)' \subseteq Account
    <2>1. account'[c] \in Account /\ channel'[c] \in {"Global", "Map", "Party"}
      BY <1>2, ChatAssumption DEF ConnOK
    <2>2. \A d \in Open' : account'[d] \in Account
      BY DEF Open, ConnOK
    <2>3. CASE channel'[c] = "Global"
      BY <2>3 DEF MeantFor
    <2>4. CASE channel'[c] = "Map"
      BY <2>1, <2>4 DEF MeantFor, Roommates
    <2>5. CASE channel'[c] = "Party"
      BY <2>2, <2>5 DEF MeantFor
    <2> QED
      BY <2>1, <2>3, <2>4, <2>5
  <1>3. met' \in [Conn -> SUBSET Account]
    BY <1>2 DEF Watch
  <1>4. barred' \in [Conn -> SUBSET (Account \X Account)]
    <2>1. shunned' \subseteq Account \X Account
      BY DEF RequestTypeOK, ConnTypeOK
    <2>2. ASSUME NEW c \in Conn, pc[c] # "idle"
          PROVE  barred[c] \cap shunned' \subseteq Account \X Account
      BY <2>1
    <2>3. ASSUME NEW c \in Conn PROVE Barred(account[c]) \subseteq Account \X Account
      BY DEF Barred, RequestTypeOK, ConnTypeOK
    <2> QED
      BY <2>2, <2>3 DEF Watch
  <1> QED
    BY <1>1, <1>3, <1>4

TypeInv == ShapeInv /\ WatchTypeOK

\* A stutter keeps the shapes.
LEMMA ShapeStutter == ASSUME ShapeInv, UNCHANGED vars PROVE ShapeInv'
  <1> USE DEF vars, dbVars, connVars, dataVars, msgVars, reqVars, pastVars, gameVars
  <1>1. ConnTypeOK' /\ MessageTypeOK' /\ RequestTypeOK' /\ GameTypeOK'
    BY DEF ShapeInv, ConnTypeOK, MessageTypeOK, RequestTypeOK, GameTypeOK
  <1>2. \A c \in Conn : ConnOK(c)'
    BY DEF ShapeInv, ConnOK, Broadcasting, Open
  <1>3. \A q \in Req : RequestOK(q)'
    BY DEF ShapeInv, RequestOK, Busy, ConnsOf, Open
  <1> QED
    BY <1>1, <1>2, <1>3 DEF ShapeInv

\* Every step keeps the types and the shapes.
LEMMA TypeInvariance == TypeInv /\ [Next]_vars => TypeInv'
  <1> SUFFICES ASSUME TypeInv, [Next]_vars PROVE TypeInv'
    OBVIOUS
  <1>1. CASE Step /\ Watch
    BY <1>1, ShapeStep, WatchTypes DEF TypeInv
  <1>2. CASE UNCHANGED vars
    <2>1. ShapeInv'
      BY <1>2, ShapeStutter DEF TypeInv
    <2> QED
      BY <1>2, <2>1 DEF TypeInv, WatchTypeOK, vars, watchVars
  <1> QED
    BY <1>1, <1>2 DEF Next, AllDone

\* The variables keep their types.
THEOREM ChatTypeCorrect == Spec => []TypeOK
  <1>1. Init => TypeInv
    BY InitShape DEF TypeInv
  <1>2. TypeInv => TypeOK
    BY DEF TypeInv, ShapeInv, TypeOK
  <1> QED
    BY <1>1, <1>2, TypeInvariance, PTL DEF Spec

-----------------------------------------------------------------------------
(* Every tab                                                                *)

\* At first there are no tabs.
LEMMA InitFresh == Init => FreshInv
  <1> SUFFICES ASSUME Init PROVE FreshInv
    OBVIOUS
  <1>1. ShapeInv
    BY InitShape
  <1>2. \A c \in Conn : ~Tab(c)
    BY DEF Init, Tab
  <1>3. \A q \in Req : ~Busy(q)
    BY DEF Init, Busy
  <1> QED
    BY <1>1, <1>2, <1>3 DEF FreshInv

\* Requests concern a connection no more than they did, if its lists stay.
LEMMA TabFrame ==
    ASSUME UNCHANGED <<relations, partyOf, reqVars>>, NEW c \in Conn,
           account'[c] = account[c], blocklist'[c] = blocklist[c]
    PROVE  /\ BlocksOK(c) => BlocksOK(c)'
           /\ PartyOK(c) /\ partyID'[c] = partyID[c] => PartyOK(c)'
  BY DEF BlocksOK, PartyOK, Coming, BlockedBy, reqVars, pastVars

\* Steps that leave the requests alone.
LEMMA RequestsStay ==
    ASSUME FreshInv, UNCHANGED <<relations, partyOf, reqVars>>, NEW q \in Req, Busy(q)'
    PROVE  Sound(q)'
  <1>1. Busy(q) /\ Sound(q)
    BY DEF FreshInv, Busy, reqVars
  <1>2. Current(q) => Current(q)'
    BY DEF Current, BlockedBy, reqVars
  <1> QED
    BY <1>1, <1>2 DEF Sound, Unrivalled, Change, Busy, reqVars, pastVars

\* Steps that leave the requests and the lists of the tabs alone.
LEMMA FreshFrame ==
    ASSUME FreshInv, ShapeInv', UNCHANGED <<relations, partyOf, reqVars>>,
           UNCHANGED <<cpc, account, missed, blocklist, partyID>>
    PROVE  FreshInv'
  <1>1. \A q \in Req : Busy(q)' => Sound(q)'
    BY RequestsStay
  <1>2. \A c \in Conn : Tab(c)' => Tab(c) /\ cpc'[c] = cpc[c]
    BY DEF Tab
  <1>3. \A c \in Conn : (BlocksOK(c) => BlocksOK(c)') /\ (PartyOK(c) => PartyOK(c)')
    BY TabFrame
  <1> QED
    BY <1>1, <1>2, <1>3 DEF FreshInv

\* Players in the game have no part in the lists,
LEMMA GameFresh == ASSUME FreshInv, NEW a \in Account, GameStep(a) PROVE FreshInv'
  BY GameFrame, GameShape, FreshFrame DEF FreshInv

\* ... nor have messages.
LEMMA MsgFresh == ASSUME FreshInv, NEW c \in Conn, MsgStep(c) PROVE FreshInv'
  BY MsgFrame, MsgShape, FreshFrame DEF FreshInv

\* A connection that is being opened reads what the database has.
LEMMA ConnFresh == ASSUME FreshInv, NEW c \in Conn, ConnStep(c) PROVE FreshInv'
  <1>t. ConnTypeOK
    BY DEF FreshInv, ShapeInv
  <1>1. /\ UNCHANGED <<relations, partyOf, reqVars>>
        /\ \A d \in Conn \ {c} : /\ cpc'[d] = cpc[d] /\ account'[d] = account[d]
                                 /\ blocklist'[d] = blocklist[d] /\ partyID'[d] = partyID[d]
                                 /\ d \in missed' <=> d \in missed
    BY <1>t, ConnFrame
  <1>2. ShapeInv' /\ \A q \in Req : Busy(q)' => Sound(q)'
    BY <1>1, ConnShape, RequestsStay DEF FreshInv
  <1>3. ASSUME NEW d \in Conn \ {c}, Tab(d)' PROVE BlocksOK(d)' /\ (cpc'[d] # "known" => PartyOK(d)')
    <2>1. Tab(d) /\ BlocksOK(d) /\ (cpc[d] # "known" => PartyOK(d))
      BY <1>1, <1>3 DEF Tab, FreshInv
    <2> QED
      BY <1>1, <2>1, TabFrame
  <1>4. ASSUME Tab(c)' PROVE BlocksOK(c)' /\ (cpc'[c] # "known" => PartyOK(c)')
    <2>1. ASSUME NEW a \in Account, Authorize(c, a)
          PROVE  BlocksOK(c)' /\ (cpc'[c] # "known" => PartyOK(c)')
      <3>1. cpc'[c] = "known" /\ account'[c] = a /\ blocklist'[c] = BlockedBy(a)
        BY <1>t, <2>1 DEF Authorize, ConnTypeOK
      <3> QED
        BY <1>1, <3>1 DEF BlocksOK, BlockedBy
    <2>2. CASE LookUpParty(c)
      <3>1. /\ cpc[c] = "known" /\ account' = account /\ blocklist' = blocklist /\ missed' = missed
            /\ partyID'[c] = partyOf[account[c]]
        BY <1>t, <2>2 DEF LookUpParty, ConnTypeOK
      <3>2. BlocksOK(c)
        BY <1>4, <3>1 DEF FreshInv, Tab
      <3> QED
        BY <1>1, <3>1, <3>2, TabFrame DEF PartyOK
    <2>3. CASE OnOpen(c)
      <3>1. /\ cpc[c] = "authorized" /\ UNCHANGED <<account, blocklist, partyID, missed>>
        BY <1>t, <2>3 DEF OnOpen, dataVars
      <3>2. BlocksOK(c) /\ PartyOK(c)
        BY <1>4, <3>1 DEF FreshInv, Tab
      <3> QED
        BY <1>1, <3>1, <3>2, TabFrame
    <2>4. CASE OnClose(c)
      BY <1>t, <1>4, <2>4 DEF OnClose, Tab, ConnTypeOK
    <2> QED
      BY <2>1, <2>2, <2>3, <2>4 DEF ConnStep
  <1> QED
    BY <1>2, <1>3, <1>4 DEF FreshInv

\* A request that begins beside others sends what they change astray.
LEMMA BeginFresh == ASSUME FreshInv, NEW q \in Req, BeginStep(q) PROVE FreshInv'
  <1>t. ShapeInv /\ ConnTypeOK /\ RequestTypeOK /\ \A r \in Req : RequestOK(r)
    BY DEF FreshInv, ShapeInv
  <1>s. RequestStep(q)
    BY DEF RequestStep
  <1>f. ShapeInv' /\ UNCHANGED <<cpc, account>> /\ Others(q)
    BY <1>s, <1>t, RequestShape, RequestFrame, OtherRequests
  <1>1. PICK a \in Account, what \in Account \cup {"party"}, new \in SUBSET (Account \cup Party) :
            /\ BeginTx(q, a, what, new)
            /\ what = "party" => \E p \in Party \cup {None} : new = {p} \ {None}
            /\ what # "party" => new = BlockedBy(a) \cup {what} \/ new = BlockedBy(a) \ {what}
    BY <1>t, Begins
  <1>2. /\ rpc[q] = "idle" /\ rpc'[q] = "begun" /\ who'[q] = a /\ about'[q] = what /\ list'[q] = new
        /\ UNCHANGED <<relations, partyOf, missed, blocklist, partyID, rtodo>>
        /\ overlapped' = IF Rivals(a, what) = {} THEN overlapped
                         ELSE overlapped \cup Rivals(a, what) \cup {q}
        /\ astray' = IF Rivals(a, what) = {} THEN astray ELSE astray \cup {Change(q)'}
    BY <1>t, <1>1 DEF BeginTx, RequestTypeOK, Change, dbVars, connVars, dataVars
  <1>3. ~Busy(q) /\ Busy(q)' /\ q \notin overlapped
    BY <1>2, <1>t DEF Busy, RequestOK
  <1>4. ASSUME NEW r \in Req \ {q}
        PROVE  /\ (Busy(r)' <=> Busy(r)) /\ Change(r)' = Change(r)
               /\ r \in Rivals(a, what) <=> (Busy(r) /\ Change(r) = Change(q)')
    BY <1>2, <1>f DEF Others, Busy, Change, Rivals
  <1>5. ASSUME NEW r \in Req \ {q}, Busy(r)' PROVE Sound(r)'
    <2>1. Busy(r) /\ Sound(r) /\ (Current(r) => Current(r)')
      BY <1>2, <1>4, <1>5, <1>f DEF FreshInv, Current, BlockedBy, Others
    <2>2. CASE r \in Rivals(a, what)
      BY <1>2, <1>4, <2>2 DEF Sound
    <2>3. CASE r \notin Rivals(a, what)
      <3>1. Change(r)' # Change(q)' /\ (r \in overlapped' <=> r \in overlapped)
        BY <1>2, <1>4, <2>1, <2>3
      <3>2. Change(r)' \in astray' <=> Change(r) \in astray
        BY <1>2, <1>4, <3>1
      <3>3. Unrivalled(r) => Unrivalled(r)'
        BY <1>4, <1>f, <2>1, <3>1, <3>2 DEF Unrivalled, Others
      <3> QED
        BY <2>1, <3>1, <3>2, <3>3 DEF Sound
    <2> QED
      BY <2>2, <2>3
  <1>6. Sound(q)'
    <2>1. CASE Rivals(a, what) # {}
      BY <1>2, <2>1 DEF Sound
    <2>2. CASE Rivals(a, what) = {}
      <3>1. \A r \in Req \ {q} : Busy(r)' => Change(r)' # Change(q)'
        BY <1>4, <2>2
      <3>2. BlockedBy(a)' = BlockedBy(a)
        BY <1>2 DEF BlockedBy
      <3>3. Current(q)'
        BY <1>1, <1>2, <3>2 DEF Current
      <3> QED
        BY <1>2, <1>3, <2>2, <3>1, <3>3 DEF Sound, Unrivalled
    <2> QED
      BY <2>1, <2>2
  <1>7. ASSUME NEW c \in Conn, Tab(c)' PROVE BlocksOK(c)' /\ (cpc'[c] # "known" => PartyOK(c)')
    <2>1. BlocksOK(c) /\ (cpc'[c] # "known" => PartyOK(c))
      BY <1>2, <1>7, <1>f DEF Tab, FreshInv
    <2>2. \A r \in Req : Coming(r, c) => Coming(r, c)' /\ about'[r] = about[r]
      BY <1>2, <1>f DEF Coming, Others
    <2>3. astray \subseteq astray' /\ BlockedBy(account[c])' = BlockedBy(account[c])
      BY <1>2, <1>f DEF BlockedBy
    <2> QED
      BY <1>2, <1>f, <2>1, <2>2, <2>3 DEF BlocksOK, PartyOK
  <1> QED
    BY <1>5, <1>6, <1>7, <1>f DEF FreshInv

\* What a request that runs may do: only to its account's list or party, of
\* which a tab has then what the database has, or will get it, or it is astray.
Proper(q) ==
    /\ Busy(q) /\ Others(q) /\ UNCHANGED <<cpc, account>> /\ missed \subseteq missed'
    /\ Busy(q)' => Change(q)' = Change(q) /\ Sound(q)'
    /\ \A r \in Req \ {q} : r \in overlapped' <=> r \in overlapped
    /\ astray' \subseteq astray \cup {Change(q)} /\ astray \ {Change(q)} \subseteq astray'
    /\ q \in overlapped => astray \subseteq astray'
    /\ about[q] = "party" =>
          relations' = relations /\ blocklist' = blocklist
    /\ about[q] # "party" =>
          partyOf' = partyOf /\ partyID' = partyID
    /\ \A a \in Account \ {who[q]} : partyOf'[a] = partyOf[a] /\ BlockedBy(a)' = BlockedBy(a)
    /\ \A c \in Conn : account[c] # who[q] => blocklist'[c] = blocklist[c] /\ partyID'[c] = partyID[c]
    /\ \A c \in Conn : Tab(c)' /\ account[c] = who[q] =>
          \/ Change(q) \in astray'
          \/ Coming(q, c)' /\ about'[q] = about[q]
          \/ about[q] = "party" /\ partyID'[c] = partyOf'[who[q]]
          \/ about[q] # "party" /\ blocklist'[c] = BlockedBy(account[c])'
          \/ about[q] = "party" /\ cpc[c] = "known"

\* Two requests change the same.
LEMMA SameChange ==
    \A q, r \in Req : Change(q) = Change(r) <=>
        who[q] = who[r] /\ (about[q] = "party" <=> about[r] = "party")
  BY DEF Change

\* It leaves the other requests sound,
LEMMA OthersSound ==
    ASSUME FreshInv, NEW q \in Req, Proper(q), NEW r \in Req \ {q}, Busy(r)'
    PROVE  Sound(r)'
  <1>1. /\ Busy(q) /\ Others(q) /\ (Busy(q)' => Change(q)' = Change(q))
        /\ (r \in overlapped' <=> r \in overlapped)
        /\ astray' \subseteq astray \cup {Change(q)} /\ astray \ {Change(q)} \subseteq astray'
        /\ q \in overlapped => astray \subseteq astray'
    BY DEF Proper
  <1>2. /\ Busy(r) /\ Sound(r) /\ Sound(q) /\ Change(r)' = Change(r)
        /\ \A x \in Req \ {q} : (Busy(x)' <=> Busy(x)) /\ Change(x)' = Change(x)
    BY <1>1 DEF FreshInv, Busy, Change, Others
  <1>3. CASE Change(r) = Change(q)
    <2>1. r \in overlapped /\ q \in overlapped
      BY <1>1, <1>2, <1>3 DEF Sound, Unrivalled
    <2> QED
      BY <1>1, <1>2, <2>1 DEF Sound
  <1>4. CASE Change(r) # Change(q)
    <2>1. Change(r)' \in astray' <=> Change(r) \in astray
      BY <1>1, <1>2, <1>4
    <2>2. \A x \in Req \ {r} : Unrivalled(r) /\ Busy(x)' => Change(x)' # Change(r)'
      BY <1>1, <1>2, <1>4 DEF Unrivalled
    <2>3. Current(r) => Current(r)'
      <3>1. who[r] \in Account /\ who'[r] = who[r]
        BY <1>1, <1>2 DEF FreshInv, ShapeInv, RequestOK, Others
      <3>2. /\ about[r] = "party" => partyOf'[who[r]] = partyOf[who[r]]
            /\ about[r] # "party" => BlockedBy(who[r])' = BlockedBy(who[r])
        <4>1. CASE who[r] # who[q]
          <5>1. \A a \in Account \ {who[q]} : partyOf'[a] = partyOf[a] /\ BlockedBy(a)' = BlockedBy(a)
            BY DEF Proper
          <5> QED
            BY <3>1, <4>1, <5>1 DEF BlockedBy
        <4>2. CASE who[r] = who[q]
          <5>1. about[r] = "party" => about[q] # "party" /\ partyOf' = partyOf
            BY <1>4, <4>2, SameChange DEF Proper
          <5>2. about[r] # "party" => about[q] = "party" /\ relations' = relations
            BY <1>4, <4>2, SameChange DEF Proper
          <5> QED
            BY <3>1, <5>1, <5>2 DEF BlockedBy
        <4> QED
          BY <4>1, <4>2
      <3> QED
        BY <1>1, <3>2 DEF Current, Others
    <2> QED
      BY <1>1, <1>2, <2>1, <2>2, <2>3 DEF Sound, Unrivalled, Others
  <1> QED
    BY <1>3, <1>4

\* ... and every tab fresh.
LEMMA TabsStayFresh ==
    ASSUME FreshInv, NEW q \in Req, Proper(q), NEW c \in Conn, Tab(c)'
    PROVE  BlocksOK(c)' /\ (cpc'[c] # "known" => PartyOK(c)')
  <1>1. /\ Others(q) /\ UNCHANGED <<cpc, account>>
        /\ astray \ {Change(q)} \subseteq astray'
        /\ account[c] \in Account /\ BlocksOK(c) /\ (cpc'[c] # "known" => PartyOK(c))
    BY DEF Proper, Tab, FreshInv, ShapeInv, ConnOK
  <1>2. \A r \in Req \ {q} : Coming(r, c) => Coming(r, c)' /\ about'[r] = about[r]
    BY <1>1 DEF Coming, Others
  <1>3. CASE account[c] # who[q]
    <2>1. /\ ~Coming(q, c) /\ blocklist'[c] = blocklist[c] /\ partyID'[c] = partyID[c]
          /\ partyOf'[account[c]] = partyOf[account[c]] /\ BlockedBy(account[c])' = BlockedBy(account[c])
      BY <1>1, <1>3 DEF Proper, Coming
    <2>2. <<account[c], "blocks">> # Change(q) /\ <<account[c], "party">> # Change(q)
      BY <1>3 DEF Change
    <2> QED
      BY <1>1, <1>2, <2>1, <2>2 DEF BlocksOK, PartyOK
  <1>4. CASE account[c] = who[q] /\ about[q] = "party"
    <2>1. /\ <<account[c], "blocks">> # Change(q) /\ <<account[c], "party">> = Change(q)
          /\ blocklist' = blocklist /\ BlockedBy(account[c])' = BlockedBy(account[c])
      BY <1>4 DEF Change, Proper, BlockedBy
    <2>2. BlocksOK(c)'
      BY <1>1, <1>2, <1>4, <2>1 DEF BlocksOK
    <2>3. cpc'[c] # "known" => PartyOK(c)'
      BY <1>1, <1>4, <2>1 DEF PartyOK, Proper
    <2> QED
      BY <2>2, <2>3
  <1>5. CASE account[c] = who[q] /\ about[q] # "party"
    <2>1. /\ <<account[c], "party">> # Change(q) /\ <<account[c], "blocks">> = Change(q)
          /\ partyOf' = partyOf /\ partyID' = partyID
      BY <1>5 DEF Change, Proper
    <2>2. cpc'[c] # "known" => PartyOK(c)'
      BY <1>1, <1>2, <1>5, <2>1 DEF PartyOK
    <2>3. \/ Change(q) \in astray'
          \/ Coming(q, c)' /\ about'[q] = about[q]
          \/ blocklist'[c] = BlockedBy(account[c])'
      BY <1>1, <1>5, <2>1 DEF Proper
    <2>4. BlocksOK(c)'
      BY <1>1, <1>5, <2>1, <2>3 DEF BlocksOK
    <2> QED
      BY <2>2, <2>4
  <1> QED
    BY <1>3, <1>4, <1>5

\* What each step of a request that runs does is proper.
LEMMA RequestProper ==
    ASSUME FreshInv, NEW q \in Req, RequestStep(q), ~BeginStep(q)
    PROVE  Proper(q)
  <1>t. /\ ConnTypeOK /\ RequestTypeOK /\ RequestOK(q) /\ (\A c \in Conn : ConnOK(c))
        /\ (Busy(q) => Sound(q)) /\ \A c \in Conn : Tab(c) => BlocksOK(c) /\ (cpc[c] # "known" => PartyOK(c))
    BY DEF FreshInv, ShapeInv
  <1>f. UNCHANGED <<cpc, account>> /\ missed \subseteq missed' /\ Others(q)
    BY <1>t, RequestFrame, OtherRequests
  <1>b. /\ Busy(q) /\ (Busy(q)' => who'[q] = who[q] /\ about'[q] = about[q])
        /\ \A r \in Req \ {q} : r \in overlapped' <=> r \in overlapped
        /\ astray' \subseteq astray \cup {Change(q)} /\ astray \ {Change(q)} \subseteq astray'
        /\ q \in overlapped => astray \subseteq astray'
    <2>1. CASE Commit(q)
      BY <2>1 DEF Commit, Busy
    <2>2. CASE CommitFails(q)
      BY <1>t, <2>2 DEF CommitFails, Ends, Busy, RequestTypeOK
    <2>3. CASE RoomPanics(q)
      BY <1>t, <2>3 DEF RoomPanics, Ends, Busy, RequestTypeOK
    <2>4. CASE forEachConnOf(q)
      BY <2>4 DEF forEachConnOf, Busy
    <2>5. ASSUME NEW c \in Conn, Update(q, c)
          PROVE  /\ Busy(q) /\ who'[q] = who[q] /\ about'[q] = about[q]
                 /\ overlapped' = overlapped /\ astray' = astray
      BY <2>5 DEF Update, pastVars, Busy
    <2>6. CASE Answer(q)
      BY <1>t, <2>6 DEF Answer, Ends, Busy, RequestTypeOK
    <2> QED
      BY <2>1, <2>2, <2>3, <2>4, <2>5, <2>6 DEF RequestStep
  <1>d. /\ about[q] = "party" => relations' = relations /\ blocklist' = blocklist
        /\ about[q] # "party" => partyOf' = partyOf /\ partyID' = partyID
        /\ \A a \in Account \ {who[q]} : partyOf'[a] = partyOf[a] /\ BlockedBy(a)' = BlockedBy(a)
        /\ \A c \in Conn : account[c] # who[q] => blocklist'[c] = blocklist[c] /\ partyID'[c] = partyID[c]
    <2> USE DEF dbVars, dataVars, BlockedBy
    <2>1. CASE Applied(q) /\ UNCHANGED dataVars
      BY <1>b, <1>t, <2>1, AppliedTypes
    <2>2. CASE UNCHANGED <<dbVars, dataVars>>
      BY <2>2
    <2>3. ASSUME NEW c \in Conn, Update(q, c)
          PROVE  /\ about[q] = "party" => blocklist' = blocklist
                 /\ about[q] # "party" => partyID' = partyID
                 /\ UNCHANGED dbVars
                 /\ \A e \in Conn : account[e] # who[q] => blocklist'[e] = blocklist[e] /\ partyID'[e] = partyID[e]
      <3>1. account[c] = who[q]
        BY <1>t, <2>3 DEF Update, RequestOK, ConnsOf
      <3> QED
        BY <1>t, <2>3, <3>1 DEF Update, ConnTypeOK
    <2> QED
      BY <2>1, <2>2, <2>3 DEF RequestStep, Commit, CommitFails, RoomPanics, forEachConnOf, Answer
  <1>n. q \notin overlapped => Unrivalled(q) /\ \A r \in Req : Busy(r) /\ Change(r) = Change(q) => r = q
    BY <1>b, <1>t DEF Sound, Unrivalled
  <1>c. ASSUME NEW c \in Conn, Tab(c)', account[c] = who[q], q \notin overlapped, Change(q) \notin astray,
               ~Coming(q, c), about[q] # "party" \/ cpc[c] # "known"
        PROVE  /\ about[q] = "party" => partyID[c] = partyOf[who[q]]
               /\ about[q] # "party" => blocklist[c] = BlockedBy(who[q])
    <2>1. Tab(c)
      BY <1>c, <1>f DEF Tab
    <2>2. \A r \in Req : Coming(r, c) => Busy(r) /\ who[r] = who[q]
      BY <1>c DEF Coming, Busy
    <2>3. \A r \in Req : Coming(r, c) => ~(about[r] = "party" <=> about[q] = "party")
      <3>1. ASSUME NEW r \in Req, Coming(r, c), about[r] = "party" <=> about[q] = "party" PROVE FALSE
        <4>1. Change(r) = Change(q)
          BY <2>2, <3>1, SameChange
        <4> QED
          BY <1>c, <1>n, <2>2, <3>1, <4>1
      <3> QED
        BY <3>1
    <2>4. CASE about[q] = "party"
      BY <1>c, <1>t, <2>1, <2>3, <2>4 DEF PartyOK, Change
    <2>5. CASE about[q] # "party"
      BY <1>c, <1>t, <2>1, <2>3, <2>5 DEF BlocksOK, Change
    <2> QED
      BY <2>4, <2>5
  <1> DEFINE Now(c) == \/ Change(q) \in astray'
                       \/ Coming(q, c)' /\ about'[q] = about[q]
                       \/ about[q] = "party" /\ partyID'[c] = partyOf'[who[q]]
                       \/ about[q] # "party" /\ blocklist'[c] = BlockedBy(account[c])'
                       \/ about[q] = "party" /\ cpc[c] = "known"
  <1>s. ASSUME Busy(q)' PROVE Sound(q)'
    <2>1. Change(q)' = Change(q)
      BY <1>b, <1>s DEF Change
    <2>2. CASE q \in overlapped
      <3>1. Change(q) \in astray
        BY <1>b, <1>t, <2>2 DEF Sound
      <3>2. q \in overlapped'
        <4>1. ~Ends(q)
          BY <1>s, <1>t DEF Ends, Busy, RequestTypeOK
        <4> QED
          BY <2>2, <4>1 DEF RequestStep, Commit, CommitFails, RoomPanics, forEachConnOf, Update, Answer, pastVars
      <3> QED
        BY <1>b, <2>1, <2>2, <3>1, <3>2 DEF Sound
    <2>3. CASE q \notin overlapped
      <3>1. /\ q \notin overlapped' /\ (rpc'[q] = "conns" => Change(q) \notin astray')
            /\ list'[q] = list[q]
        <4>0. ~Ends(q)
          BY <1>s, <1>t DEF Ends, Busy, RequestTypeOK
        <4>1. CASE Commit(q)
          BY <1>t, <2>3, <4>1 DEF Commit, RequestTypeOK
        <4>2. CASE forEachConnOf(q)
          BY <2>3, <4>2 DEF forEachConnOf
        <4>3. ASSUME NEW c \in Conn, Update(q, c) PROVE rpc[q] = "conns" /\ UNCHANGED <<overlapped, astray, list>>
          BY <4>3 DEF Update, pastVars
        <4> QED
          BY <1>n, <2>3, <4>0, <4>1, <4>2, <4>3
          DEF RequestStep, CommitFails, RoomPanics, Answer, Unrivalled
      <3>2. \A r \in Req \ {q} : Busy(r)' => Change(r)' # Change(q)'
        <4>1. \A r \in Req \ {q} : (Busy(r)' <=> Busy(r)) /\ Change(r)' = Change(r)
          BY <1>f DEF Others, Busy, Change
        <4> QED
          BY <1>n, <2>1, <2>3, <4>1
      <3>3. Current(q)'
        <4>1. Current(q)
          BY <1>n, <2>3 DEF Unrivalled
        <4>2. CASE Commit(q)
          <5>1. rpc[q] = "begun" /\ rpc'[q] = "committed" /\ UNCHANGED <<who, about, list>> /\ Applied(q)
            BY <1>t, <4>2 DEF Commit, RequestTypeOK
          <5>2. CASE about[q] = "party"
            <6>1. PICK p \in Party \cup {None} : list[q] = {p} \ {None}
              BY <1>b, <1>t, <5>2, ChatAssumption DEF RequestOK
            <6>2. PartyIn(list[q]) = p
              <7>1. CASE p = None
                BY <6>1, <7>1 DEF PartyIn
              <7>2. CASE p # None
                <8>1. list[q] = {p}
                  BY <6>1, <7>2
                <8> QED
                  BY <8>1 DEF PartyIn
              <7> QED
                BY <7>1, <7>2
            <6>3. partyOf'[who[q]] = p
              BY <1>b, <1>t, <5>1, <5>2, <6>2, AppliedTypes
            <6> QED
              BY <5>1, <5>2, <6>1, <6>3 DEF Current
          <5>3. CASE about[q] # "party"
            <6>1. relations' = IF about[q] \in list[q] THEN relations \cup {<<who[q], about[q]>>}
                                                      ELSE relations \ {<<who[q], about[q]>>}
              BY <5>1, <5>3 DEF Applied
            <6>2. about[q] \in Account
              BY <1>b, <1>t, <5>3 DEF RequestOK
            <6>3. CASE about[q] \in list[q]
              <7>1. list[q] = BlockedBy(who[q]) \cup {about[q]}
                BY <4>1, <5>1, <5>3, <6>3 DEF Current
              <7>2. {s \in Account : <<who[q], s>> \in relations'} = BlockedBy(who[q]) \cup {about[q]}
                BY <6>1, <6>2, <6>3 DEF BlockedBy
              <7> QED
                BY <5>1, <5>3, <7>1, <7>2 DEF Current, BlockedBy
            <6>4. CASE about[q] \notin list[q]
              <7>1. list[q] = BlockedBy(who[q]) \ {about[q]}
                BY <4>1, <5>1, <5>3, <6>4 DEF Current
              <7>2. {s \in Account : <<who[q], s>> \in relations'} = BlockedBy(who[q]) \ {about[q]}
                BY <6>1, <6>2, <6>4 DEF BlockedBy
              <7> QED
                BY <5>1, <5>3, <7>1, <7>2 DEF Current, BlockedBy
            <6> QED
              BY <6>3, <6>4
          <5> QED
            BY <5>2, <5>3
        <4>3. ASSUME UNCHANGED dbVars, rpc[q] # "begun" PROVE Current(q)'
          BY <1>b, <1>s, <3>1, <4>1, <4>3 DEF dbVars, Current, BlockedBy
        <4>4. CASE forEachConnOf(q)
          BY <4>3, <4>4 DEF forEachConnOf
        <4>5. ASSUME NEW c \in Conn, Update(q, c) PROVE Current(q)'
          BY <4>3, <4>5 DEF Update
        <4>6. ~Ends(q)
          BY <1>s, <1>t DEF Ends, Busy, RequestTypeOK
        <4> QED
          BY <4>2, <4>4, <4>5, <4>6 DEF RequestStep, CommitFails, RoomPanics, Answer
      <3> QED
        BY <2>1, <3>1, <3>2, <3>3 DEF Sound, Unrivalled
    <2> QED
      BY <2>2, <2>3
  <1>h. ASSUME NEW c \in Conn, Tab(c)', account[c] = who[q] PROVE Now(c)
    <2>0. Tab(c) /\ account'[c] = account[c] /\ cpc'[c] = cpc[c]
      BY <1>f, <1>h DEF Tab
    <2>1. CASE Commit(q)
      <3>1. rpc'[q] = "committed" /\ who'[q] = account'[c] /\ about'[q] = about[q]
        BY <1>t, <1>h, <2>0, <2>1 DEF Commit, RequestTypeOK
      <3> QED
        BY <3>1 DEF Coming
    <2>2. CASE q \in overlapped
      BY <1>b, <1>t, <2>2 DEF Sound
    <2>3. CASE CommitFails(q) /\ q \notin overlapped
      <3>1. CASE UNCHANGED <<dbVars, shunned, astray>>
        <4>1. ~Coming(q, c) /\ UNCHANGED <<relations, partyOf, blocklist, partyID>>
          BY <2>3, <3>1 DEF CommitFails, Coming, dbVars, dataVars
        <4> QED
          BY <1>c, <1>h, <2>0, <2>3, <3>1, <4>1 DEF BlockedBy
      <3>2. CASE astray' = astray \cup {Change(q)}
        BY <3>2
      <3> QED
        BY <2>3, <3>1, <3>2 DEF CommitFails
    <2>4. CASE RoomPanics(q)
      BY <2>4 DEF RoomPanics
    <2>5. CASE forEachConnOf(q)
      <3>1. cpc[c] = "open"
        BY <1>h, <2>0, <2>5 DEF forEachConnOf, Tab
      <3>2. rpc'[q] = "conns" /\ c \in rtodo'[q] /\ who'[q] = account'[c] /\ about'[q] = about[q]
        BY <1>h, <1>t, <2>0, <2>5, <3>1 DEF forEachConnOf, ConnsOf, Open, RequestTypeOK
      <3> QED
        BY <3>2 DEF Coming
    <2>6. ASSUME NEW e \in Conn, Update(q, e), q \notin overlapped PROVE Now(c)
      <3>1. /\ rpc[q] = "conns" /\ Change(q) \notin astray /\ Current(q)
            /\ UNCHANGED <<rpc, who, about, relations, partyOf>> /\ rtodo'[q] = rtodo[q] \ {e}
        BY <1>n, <1>t, <2>6 DEF Update, Unrivalled, dbVars, RequestTypeOK
      <3>2. CASE c = e /\ about[q] = "party"
        <4>1. list[q] = {partyOf[who[q]]} \ {None} /\ partyOf[who[q]] \in Party \cup {None}
          BY <1>b, <1>t, <3>1, <3>2 DEF Current, RequestOK, ConnTypeOK
        <4>2. PartyIn(list[q]) = partyOf[who[q]]
          BY <4>1 DEF PartyIn
        <4> QED
          BY <1>t, <2>6, <3>1, <3>2, <4>2 DEF Update, ConnTypeOK
      <3>3. CASE c = e /\ about[q] # "party"
        <4>1. blocklist'[c] = BlockedBy(account[c])
          BY <1>h, <1>t, <2>6, <3>1, <3>3 DEF Update, ConnTypeOK, Current
        <4> QED
          BY <2>0, <3>1, <3>3, <4>1 DEF BlockedBy
      <3>4. CASE c # e /\ Coming(q, c)
        BY <2>0, <3>1, <3>4 DEF Coming
      <3>5. CASE c # e /\ ~Coming(q, c)
        <4>1. blocklist'[c] = blocklist[c] /\ partyID'[c] = partyID[c]
          BY <1>t, <2>6, <3>5 DEF Update, ConnTypeOK
        <4> QED
          BY <1>c, <1>h, <2>0, <2>6, <3>1, <3>5, <4>1 DEF BlockedBy
      <3> QED
        BY <3>2, <3>3, <3>4, <3>5
    <2>7. CASE Answer(q) /\ q \notin overlapped
      <3>1. /\ ~Coming(q, c) /\ UNCHANGED <<relations, partyOf, blocklist, partyID>>
            /\ Change(q) \notin astray
        BY <1>n, <2>7 DEF Answer, Coming, dbVars, dataVars, Unrivalled
      <3> QED
        BY <1>c, <1>h, <2>0, <2>7, <3>1 DEF BlockedBy
    <2> QED
      BY <2>1, <2>2, <2>3, <2>4, <2>5, <2>6, <2>7 DEF RequestStep
  <1>x. Busy(q)' => Change(q)' = Change(q)
    BY <1>b DEF Change
  <1> QED
    BY <1>b, <1>d, <1>f, <1>h, <1>s, <1>x DEF Proper

\* The steps of requests keep the tabs fresh,
LEMMA RequestFresh == ASSUME FreshInv, NEW q \in Req, RequestStep(q) PROVE FreshInv'
  <1>1. CASE BeginStep(q)
    BY <1>1, BeginFresh
  <1>2. CASE ~BeginStep(q)
    <2>1. Proper(q)
      BY <1>2, RequestProper
    <2>2. \A r \in Req : Busy(r)' => Sound(r)'
      BY <2>1, OthersSound DEF Proper
    <2>3. \A c \in Conn : Tab(c)' => BlocksOK(c)' /\ (cpc'[c] # "known" => PartyOK(c)')
      BY <2>1, TabsStayFresh
    <2>4. ShapeInv'
      BY RequestShape DEF FreshInv
    <2> QED
      BY <2>2, <2>3, <2>4 DEF FreshInv
  <1> QED
    BY <1>1, <1>2

\* ... as do all the others.
LEMMA FreshStep == ASSUME FreshInv, Step PROVE FreshInv'
  BY StepCases, GameFresh, ConnFresh, RequestFresh, MsgFresh

-----------------------------------------------------------------------------
(* Who is blocked                                                           *)

\* At first nobody is shunned by an open connection.
LEMMA InitSilent == Init => SilentInv
  <1> SUFFICES ASSUME Init PROVE SilentInv
    OBVIOUS
  <1>1. FreshInv
    BY InitFresh
  <1>2. \A c \in Conn : ~Tab(c)
    BY DEF Init, Tab
  <1>3. \A c \in Conn : Shuns(c)
    BY DEF Init, Shuns
  <1>4. \A q \in Req : ~Busy(q)
    BY DEF Init, Busy
  <1> QED
    BY <1>1, <1>2, <1>3, <1>4 DEF SilentInv

\* A request that begins reads the blocks that have been answered, and one that
\* commits, which alone takes blocks back, takes back its own.
LEMMA BringsStep ==
    ASSUME SilentInv, Step, NEW q \in Req, Busy(q)', about'[q] # "party"
    PROVE  Brings(q)'
  <1>t. /\ ShapeInv /\ RequestTypeOK /\ ConnTypeOK /\ FreshInv
        /\ (\A r \in Req : RequestOK(r)) /\ \A r \in Req : Busy(r) /\ about[r] # "party" => Brings(r)
    BY DEF SilentInv, FreshInv, ShapeInv
  <1>1. ASSUME UNCHANGED reqVars PROVE Brings(q)'
    BY <1>1, <1>t DEF Brings, Busy, reqVars, pastVars
  <1>2. ASSUME NEW r \in Req, RequestStep(r) PROVE Brings(q)'
    <2>o. Others(r)
      BY <1>2, <1>t, OtherRequests
    <2>1. CASE BeginStep(r) /\ r = q
      <3>1. PICK a \in Account, what \in Account \cup {"party"}, new \in SUBSET (Account \cup Party) :
                /\ BeginTx(q, a, what, new)
                /\ what # "party" => new = BlockedBy(a) \cup {what} \/ new = BlockedBy(a) \ {what}
        BY <1>t, <2>1, Begins
      <3>2. rpc'[q] = "begun" /\ who'[q] = a /\ about'[q] = what /\ list'[q] = new /\ shunned' = shunned
        BY <1>t, <3>1 DEF BeginTx, RequestTypeOK
      <3>3. \A s \in Account : <<a, s>> \in shunned => s \in BlockedBy(a)
        BY <1>t DEF RequestTypeOK, BlockedBy
      <3> QED
        BY <3>1, <3>2, <3>3 DEF Brings
    <2>2. ASSUME shunned' \subseteq shunned, r # q PROVE Brings(q)'
      <3>1. Busy(q) /\ about[q] # "party" /\ Brings(q)
        BY <1>t, <2>o, <2>2 DEF Others, Busy
      <3> QED
        BY <2>o, <2>2, <3>1 DEF Others, Brings
    <2>3. CASE BeginStep(r) /\ r # q
      <3>1. shunned' = shunned
        BY <2>3 DEF BeginStep, Block, Unblock, ChangeParty, BeginTx
      <3> QED
        BY <2>2, <2>3, <3>1
    <2>4. ~Ends(q)
      BY <1>t DEF Ends, Busy, RequestTypeOK
    <2>5. CASE Commit(r)
      <3>1. CASE r # q
        BY <2>2, <2>5, <3>1 DEF Commit, Applied
      <3>2. CASE r = q
        <4>1. /\ Busy(q) /\ UNCHANGED <<who, about, list>> /\ Applied(q) /\ shunned' = shunned \cap relations'
          BY <2>5, <3>2 DEF Commit, Applied, Busy
        <4>2. about[q] \notin list[q] => <<who[q], about[q]>> \notin relations'
          BY <4>1 DEF Applied
        <4> QED
          BY <1>t, <4>1, <4>2 DEF Brings
      <3> QED
        BY <3>1, <3>2
    <2>6. CASE CommitFails(r) \/ RoomPanics(r)
      <3>1. shunned' \subseteq shunned /\ Ends(r)
        BY <2>6 DEF CommitFails, RoomPanics, Applied
      <3> QED
        BY <2>2, <2>4, <3>1
    <2>7. CASE forEachConnOf(r) \/ \E c \in Conn : Update(r, c)
      <3>1. /\ UNCHANGED <<who, about, list, shunned>> /\ rpc[r] \in {"committed", "conns"}
        BY <2>7 DEF forEachConnOf, Update, pastVars
      <3>2. CASE r # q
        BY <2>2, <3>1, <3>2
      <3>3. CASE r = q
        BY <1>t, <3>1, <3>3 DEF Brings, Busy
      <3> QED
        BY <3>2, <3>3
    <2>8. CASE Answer(r)
      <3>1. r # q /\ Ends(r) /\ Busy(r)
        BY <2>4, <2>8 DEF Answer, Busy
      <3>2. CASE shunned' = shunned
        BY <2>2, <3>1, <3>2
      <3>3. CASE r \notin overlapped /\ about[r] # "party"
        <4>1. shunned' = shunned \cup {<<who[r], s>> : s \in BlockedBy(who[r])}
          BY <2>8, <3>3 DEF Answer
        <4>2. Busy(q) /\ about[q] # "party" /\ Brings(q) /\ who'[q] = who[q] /\ about'[q] = about[q]
              /\ list'[q] = list[q] /\ rpc'[q] = rpc[q]
          BY <1>t, <2>o, <3>1 DEF Others, Busy
        <4>3. who[r] # who[q]
          <5>1. Change(q) # Change(r)
            BY <1>t, <3>1, <3>3, <4>2 DEF FreshInv, Sound, Unrivalled
          <5> QED
            BY <3>3, <4>2, <5>1, SameChange
        <4> QED
          BY <4>1, <4>2, <4>3 DEF Brings
      <3> QED
        BY <2>8, <3>2, <3>3 DEF Answer
    <2> QED
      BY <1>2, <2>1, <2>3, <2>5, <2>6, <2>7, <2>8 DEF RequestStep
  <1> QED
    BY <1>1, <1>2, StepCases, GameFrame, ConnFrame, MsgFrame, <1>t

\* A block that was answered is in every list that a tab gets.
LEMMA KeepsStep ==
    ASSUME SilentInv, Step, NEW c \in Conn, Tab(c)'
    PROVE  Keeps(c)'
  <1>t. /\ ShapeInv /\ RequestTypeOK /\ ConnTypeOK /\ (\A d \in Conn : ConnOK(d)) /\ FreshInv
        /\ (\A r \in Req : RequestOK(r)) /\ (\A d \in Conn : Tab(d) => Keeps(d))
        /\ \A q \in Req : Busy(q) /\ about[q] # "party" => Brings(q)
    BY DEF SilentInv, FreshInv, ShapeInv
  <1>1. ASSUME account'[c] = account[c], blocklist'[c] = blocklist[c], Tab(c), shunned' \subseteq shunned
        PROVE  Keeps(c)'
    BY <1>t, <1>1 DEF Keeps
  <1>2. ASSUME NEW a \in Account, GameStep(a) PROVE Keeps(c)'
    BY <1>1, <1>2, GameFrame DEF reqVars, pastVars, Tab
  <1>3. ASSUME NEW d \in Conn, MsgStep(d) PROVE Keeps(c)'
    BY <1>1, <1>3, MsgFrame DEF reqVars, pastVars, Tab
  <1>4. ASSUME NEW d \in Conn, ConnStep(d) PROVE Keeps(c)'
    <2>1. /\ shunned' = shunned
          /\ \A e \in Conn \ {d} : /\ cpc'[e] = cpc[e] /\ account'[e] = account[e]
                                   /\ blocklist'[e] = blocklist[e] /\ (e \in missed' <=> e \in missed)
      BY <1>4, <1>t, ConnFrame DEF reqVars, pastVars
    <2>2. CASE c # d
      BY <1>1, <2>1, <2>2 DEF Tab
    <2>3. ASSUME NEW a \in Account, Authorize(c, a) PROVE Keeps(c)'
      <3>1. account'[c] = a /\ blocklist'[c] = BlockedBy(a)
        BY <1>t, <2>3 DEF Authorize, ConnTypeOK
      <3> QED
        BY <1>t, <2>1, <3>1 DEF Keeps, BlockedBy, RequestTypeOK
    <2>4. CASE LookUpParty(c) \/ OnOpen(c)
      <3>1. UNCHANGED <<account, blocklist, missed>> /\ cpc[c] \in {"known", "authorized"}
        BY <2>4 DEF LookUpParty, OnOpen, dataVars
      <3> QED
        BY <1>1, <2>1, <3>1 DEF Tab
    <2>5. CASE OnClose(c)
      BY <1>t, <2>5 DEF OnClose, Tab, ConnTypeOK
    <2> QED
      BY <1>4, <2>2, <2>3, <2>4, <2>5 DEF ConnStep
  <1>5. ASSUME NEW q \in Req, RequestStep(q) PROVE Keeps(c)'
    <2>1. UNCHANGED <<cpc, account>> /\ Tab(c)
      BY <1>5, RequestFrame DEF Tab
    <2>2. CASE BeginStep(q)
      <3>1. shunned' = shunned /\ blocklist' = blocklist
        BY <2>2 DEF BeginStep, Block, Unblock, ChangeParty, BeginTx, dataVars
      <3> QED
        BY <1>1, <2>1, <3>1
    <2>3. CASE Commit(q) \/ CommitFails(q) \/ RoomPanics(q) \/ forEachConnOf(q)
      <3>1. shunned' \subseteq shunned /\ blocklist' = blocklist
        BY <2>3 DEF Commit, CommitFails, RoomPanics, forEachConnOf, Applied, dataVars
      <3> QED
        BY <1>1, <2>1, <3>1
    <2>4. ASSUME NEW d \in Conn, Update(q, d) PROVE Keeps(c)'
      <3>1. shunned' = shunned /\ Busy(q) /\ rpc[q] = "conns" /\ account[d] = who[q]
        BY <1>t, <2>4 DEF Update, pastVars, Busy, RequestOK, ConnsOf
      <3>2. CASE blocklist'[c] = blocklist[c]
        BY <1>1, <2>1, <3>1, <3>2
      <3>3. CASE blocklist'[c] # blocklist[c]
        <4>1. d = c /\ about[q] # "party" /\ blocklist'[c] = list[q]
          BY <1>t, <2>4, <3>3 DEF Update, ConnTypeOK
        <4> QED
          BY <1>t, <2>1, <3>1, <4>1 DEF Keeps, Brings
      <3> QED
        BY <3>2, <3>3
    <2>5. CASE Answer(q)
      <3>1. /\ blocklist' = blocklist /\ relations' = relations /\ Busy(q) /\ rtodo[q] = {} /\ rpc[q] = "conns"
        BY <2>5 DEF Answer, dataVars, dbVars, Busy
      <3>2. CASE shunned' = shunned
        BY <1>1, <2>1, <3>1, <3>2
      <3>3. CASE q \notin overlapped /\ about[q] # "party"
        <4>1. shunned' = shunned \cup {<<who[q], s>> : s \in BlockedBy(who[q])}
          BY <2>5, <3>3 DEF Answer
        <4>2. CASE account[c] # who[q]
          BY <1>t, <2>1, <3>1, <4>1, <4>2 DEF Keeps
        <4>3. CASE account[c] = who[q]
          <5>1. Unrivalled(q) /\ Change(q) = <<account[c], "blocks">> /\ Change(q) \notin astray
            BY <1>t, <3>1, <3>3, <4>3 DEF FreshInv, Sound, Unrivalled, Change
          <5>2. ASSUME NEW r \in Req, Coming(r, c), about[r] # "party" PROVE FALSE
            <6>1. Busy(r) /\ Change(r) = Change(q)
              BY <3>3, <4>3, <5>2 DEF Coming, Busy, Change
            <6>2. r = q
              BY <5>1, <6>1 DEF Unrivalled
            <6> QED
              BY <3>1, <5>2, <6>2 DEF Coming
          <5>3. blocklist[c] = BlockedBy(account[c])
            BY <1>t, <2>1, <5>1, <5>2 DEF FreshInv, BlocksOK
          <5>4. \A s \in Account : <<account[c], s>> \in shunned' => s \in BlockedBy(account[c])
            BY <1>t, <4>1 DEF BlockedBy, RequestTypeOK
          <5> QED
            BY <2>1, <3>1, <5>3, <5>4 DEF Keeps
        <4> QED
          BY <4>2, <4>3
      <3> QED
        BY <2>5, <3>2, <3>3 DEF Answer
    <2> QED
      BY <1>5, <2>2, <2>3, <2>4, <2>5 DEF RequestStep
  <1> QED
    BY <1>2, <1>3, <1>4, <1>5, StepCases

\* What Watch does to the blocks that hold throughout a message.
LEMMA BarredStep ==
    ASSUME SilentInv, Watch, Step, NEW c \in Conn
    PROVE  /\ barred'[c] \subseteq IF pc'[c] = "idle" THEN {} ELSE shunned'
           /\ pc[c] # "idle" => barred'[c] \subseteq barred[c]
  <1>1. /\ pc'[c] = "idle" => barred'[c] = {}
        /\ pc[c] # "idle" /\ pc'[c] # "idle" => barred'[c] = barred[c] \cap shunned'
        /\ pc[c] = "idle" /\ pc'[c] # "idle" => barred'[c] = Barred(account[c])
    BY DEF Watch
  <1>2. ASSUME pc[c] = "idle", pc'[c] # "idle" PROVE shunned' = shunned
    <2>1. ASSUME NEW d \in Conn, MsgStep(d) PROVE shunned' = shunned
      BY <2>1, MsgFrame DEF reqVars, pastVars
    <2>2. ConnTypeOK
      BY DEF SilentInv, FreshInv, ShapeInv
    <2> QED
      BY <1>2, <2>1, <2>2, StepCases, GameFrame, ConnFrame, RequestFrame DEF msgVars
  <1> QED
    BY <1>1, <1>2 DEF Barred

\* Both are asked before a message is sent.
LEMMA ShunsStep ==
    ASSUME SilentInv, Step, Watch, NEW c \in Conn
    PROVE  Shuns(c)'
  <1>t. /\ ShapeInv /\ MessageTypeOK /\ ConnTypeOK /\ ConnOK(c) /\ Shuns(c)
        /\ \A d \in Conn : Tab(d) => Keeps(d)
    BY DEF SilentInv, FreshInv, ShapeInv
  <1>1. /\ barred'[c] \subseteq IF pc'[c] = "idle" THEN {} ELSE shunned'
        /\ pc[c] # "idle" => barred'[c] \subseteq barred[c]
    BY BarredStep
  <1>3. ASSUME Still(c), missed \subseteq missed', \A d \in Open : account'[d] = account[d]
        PROVE  Shuns(c)'
    <2>1. /\ pc[c] = "other" => c \in Open /\ them[c] \in Open /\ pc[c] # "idle"
          /\ \A d \in heard[c] : c \in Open /\ d \in Open /\ pc[c] # "idle"
      BY <1>t DEF ConnOK, Open, Broadcasting
    <2> QED
      BY <1>t, <1>1, <1>3, <2>1 DEF Still, Shuns
  <1>4. ASSUME UNCHANGED msgVars PROVE Still(c)
    BY <1>4 DEF Still, msgVars
  <1>5. ASSUME NEW a \in Account, GameStep(a) PROVE Shuns(c)'
    BY <1>3, <1>4, <1>5, GameFrame
  <1>6. ASSUME NEW q \in Req, RequestStep(q) PROVE Shuns(c)'
    BY <1>3, <1>4, <1>6, RequestFrame
  <1>7. ASSUME NEW d \in Conn, ConnStep(d) PROVE Shuns(c)'
    <2>f. UNCHANGED msgVars
      BY <1>7, <1>t, ConnFrame
    <2>1. CASE OnClose(d)
      <3>1. pc'[c] # "other" /\ heard'[c] = {}
        BY <1>t, <2>f, <2>1 DEF OnClose, UsersFree, Broadcasting, ConnOK, msgVars
      <3> QED
        BY <1>1, <3>1 DEF Shuns
    <2>2. CASE ~OnClose(d)
      <3>1. missed' = missed /\ \A e \in Open : account'[e] = account[e]
        BY <1>7, <1>t, <2>2 DEF ConnStep, LookUpParty, OnOpen, Authorize, Open, ConnTypeOK
      <3> QED
        BY <1>3, <1>4, <2>f, <3>1
    <2> QED
      BY <2>1, <2>2
  <1>8. ASSUME NEW d \in Conn, MsgStep(d) PROVE Shuns(c)'
    <2>1. UNCHANGED <<cpc, account, missed, blocklist, shunned>>
      BY <1>8, MsgFrame DEF reqVars, pastVars
    <2>2. CASE d # c
      BY <1>3, <1>8, <1>t, <2>1, <2>2, OthersStill
    <2>3. CASE d = c
      <3> USE DEF MessageTypeOK, Goto
      <3>1. CASE heard'[c] \subseteq heard[c] /\ pc'[c] # "other"
        <4>1. heard[c] # {} => pc[c] # "idle"
          BY <1>t DEF ConnOK, Broadcasting
        <4> QED
          BY <1>t, <1>1, <2>1, <3>1, <4>1 DEF Shuns
      <3>2. ASSUME NEW ch \in Channels, Begin(c, ch) PROVE heard' = heard /\ pc'[c] # "other"
        BY <1>t, <3>2, ChatAssumption DEF Begin
      <3>3. CASE FindUser(c) \/ ReadRoomID(c) \/ ReadMembers(c) \/ GetParty(c) \/ Broadcast(c)
        <4>1. heard' = heard /\ pc'[c] # "other"
          BY <1>t, <3>3 DEF FindUser, ReadRoomID, ReadMembers, Gathered, GetParty, Broadcast
        <4> QED
          BY <3>1, <4>1
      <3>4. CASE EndBroadcast(c)
        <4>1. heard'[c] = {} /\ pc'[c] # "other"
          BY <1>t, <3>4 DEF EndBroadcast
        <4> QED
          BY <3>1, <4>1
      <3>5. ASSUME NEW e \in Conn, Visit(c, e) PROVE Shuns(c)'
        <4>1. pc[c] = "send" /\ heard' = heard /\ c \in Open /\ e \in Open
          BY <1>t, <3>5 DEF Visit, ConnOK, Open, Broadcasting
        <4>2. CASE ShouldGet(c, e) /\ ~HasBlocked(c, e)
          <5>1. pc'[c] = "other" /\ them'[c] = e /\ account[e] \notin blocklist[c]
            BY <1>t, <3>5, <4>2 DEF Visit, HasBlocked
          <5>2. ASSUME <<account[c], account[e]>> \in barred'[c] PROVE c \in missed
            <6>1. <<account[c], account[e]>> \in shunned
              BY <1>t, <1>1, <4>1, <5>2 DEF Shuns
            <6>2. account[e] \in Account
              BY <4>1 DEF SilentInv, FreshInv, ShapeInv, ConnOK, Open
            <6> QED
              BY <1>t, <4>1, <5>1, <6>1, <6>2 DEF Keeps, Tab, Open
          <5> QED
            BY <1>t, <1>1, <2>1, <4>1, <5>1, <5>2 DEF Shuns
        <4>3. CASE ~(ShouldGet(c, e) /\ ~HasBlocked(c, e))
          BY <3>1, <3>5, <4>1, <4>3 DEF Visit
        <4> QED
          BY <4>2, <4>3
      <3>6. CASE SendRaw(c)
        <4> DEFINE e == them[c]
        <4>1. /\ pc[c] = "other" /\ c \in Open /\ e \in Open /\ pc'[c] = "send"
              /\ heard'[c] = IF BlockedBack(c, e) THEN heard[c] ELSE heard[c] \cup {e}
          BY <1>t, <3>6 DEF SendRaw, ConnOK, Open
        <4>2. ASSUME ~BlockedBack(c, e),
                     \/ <<account[c], account[e]>> \in barred[c]
                     \/ <<account[e], account[c]>> \in barred[c]
              PROVE  missed \cap {c, e} # {}
          <5>1. CASE <<account[c], account[e]>> \in barred[c]
            BY <1>t, <4>1, <5>1 DEF Shuns
          <5>2. CASE <<account[e], account[c]>> \in barred[c]
            <6>1. <<account[e], account[c]>> \in shunned
              BY <1>t, <4>1, <5>2 DEF Shuns
            <6>2. account[c] \in Account /\ e \in Conn
              BY <1>t, <4>1 DEF ConnOK, Open
            <6> QED
              BY <1>t, <4>1, <4>2, <6>1, <6>2 DEF Keeps, Tab, Open, BlockedBack, HasBlocked
          <5> QED
            BY <4>2, <5>1, <5>2
        <4> HIDE DEF e
        <4> QED
          BY <1>t, <1>1, <2>1, <4>1, <4>2 DEF Shuns
      <3> QED
        BY <1>8, <2>3, <3>1, <3>2, <3>3, <3>4, <3>5, <3>6 DEF MsgStep
    <2> QED
      BY <2>2, <2>3
  <1> QED
    BY <1>5, <1>6, <1>7, <1>8, StepCases

\* Every step keeps who is blocked from being heard.
LEMMA SilentInvariance == SilentInv /\ [Next]_vars => SilentInv'
  <1> SUFFICES ASSUME SilentInv, [Next]_vars PROVE SilentInv'
    OBVIOUS
  <1>1. CASE Step /\ Watch
    <2>1. FreshInv'
      BY <1>1, FreshStep DEF SilentInv
    <2>2. \A q \in Req : Busy(q)' /\ about'[q] # "party" => Brings(q)'
      BY <1>1, BringsStep
    <2>3. \A c \in Conn : (Tab(c)' => Keeps(c)') /\ Shuns(c)'
      BY <1>1, KeepsStep, ShunsStep
    <2> QED
      BY <2>1, <2>2, <2>3 DEF SilentInv
  <1>2. CASE UNCHANGED vars
    <2> USE <1>2 DEF vars, dbVars, connVars, dataVars, msgVars, reqVars, pastVars, gameVars, watchVars
    <2>1. ShapeInv'
      BY ShapeStutter DEF SilentInv, FreshInv
    <2>2. FreshInv'
      BY <2>1, FreshFrame DEF SilentInv
    <2> QED
      BY <2>2 DEF SilentInv, Tab, Keeps, Shuns, Brings, Busy
  <1> QED
    BY <1>1, <1>2 DEF Next, AllDone

\* All tabs of an account come to have the blocklist and the party that the
\* database has, and what requests beside each other set back, the next one
\* that runs alone makes good.
THEOREM TabsFresh == Spec => []EveryTabFresh
  <1>1. SilentInv => EveryTabFresh
    <2> SUFFICES ASSUME SilentInv, NEW c \in Open \ missed
                 PROVE  /\ <<account[c], "blocks">> \notin astray /\ PassedOn(account[c], "blocks")
                              => blocklist[c] = BlockedBy(account[c])
                        /\ <<account[c], "party">> \notin astray /\ PassedOn(account[c], "party")
                              => partyID[c] = partyOf[account[c]]
      BY DEF EveryTabFresh
    <2>1. BlocksOK(c) /\ PartyOK(c)
      BY DEF SilentInv, FreshInv, Tab, Open
    <2>2. \A q \in Req : Coming(q, c) => rpc[q] \in {"committed", "conns"} /\ who[q] = account[c]
      BY DEF Coming
    <2> QED
      BY <2>1, <2>2 DEF BlocksOK, PartyOK, PassedOn, Change
  <1> QED
    BY <1>1, InitSilent, SilentInvariance, PTL DEF Spec

\* No message passes between two of whom one has blocked the other.
THEOREM BlockedAreSilent == Spec => []BlockedSilent
  <1>1. SilentInv => BlockedSilent
    BY DEF SilentInv, Shuns, BlockedSilent
  <1> QED
    BY <1>1, InitSilent, SilentInvariance, PTL DEF Spec

-----------------------------------------------------------------------------
(* Whom a message reaches                                                   *)

\* At first no message is on its way to anybody.
LEMMA InitMeant == Init => MeantInv
  <1> SUFFICES ASSUME Init PROVE MeantInv
    OBVIOUS
  <1>1. ShapeInv
    BY InitShape
  <1>2. \A c \in Conn : Reached(c) /\ Meant(c)
    BY DEF Init, Reached, Meant, Sending, Broadcasting
  <1> QED
    BY <1>1, <1>2 DEF MeantInv

\* What Watch does to those who must get a message.
LEMMA DueStep ==
    ASSUME Watch, NEW c \in Conn
    PROVE  /\ due'[c] \subseteq Open' /\ (pc'[c] = "idle" => due'[c] = {})
           /\ \A d \in due'[c] : Due(c, d)'
           /\ pc[c] # "idle" => \A d \in due'[c] : d \in due[c] /\ Stays(c, d)
  <1>1. due'[c] = IF pc'[c] = "idle" THEN {}
                  ELSE {d \in IF pc[c] = "idle" THEN Open'
                              ELSE {d \in due[c] \cap Open' : Stays(c, d)} : Due(c, d)'}
    BY DEF Watch
  <1> QED
    BY <1>1

\* ... and to those who may.
LEMMA MetStep ==
    ASSUME Watch, NEW c \in Conn, pc'[c] # "idle"
    PROVE  /\ pc[c] # "idle" => met[c] \subseteq met'[c]
           /\ pc[c] # "idle" /\ Moves(c) => Account \subseteq met'[c]
           /\ pc[c] = "idle" \/ ~Moves(c) => MeantFor(c)' \subseteq met'[c]
  <1>1. met'[c] = met[c] \cup IF pc[c] # "idle" /\ Moves(c) THEN Account ELSE MeantFor(c)'
    BY DEF Watch
  <1> QED
    BY <1>1

\* A player who is in a room leaves it before being in another.
LEMMA RoomChange ==
    ASSUME ConnTypeOK, GameTypeOK, Step, NEW a \in Account, roomID'[a] # roomID[a]
    PROVE  gpc[a] # "playing"
  <1>1. ASSUME NEW b \in Account, GameStep(b) PROVE gpc[a] # "playing"
    <2> USE <1>1 DEF GameTypeOK
    <2>1. ASSUME NEW r \in Room, Join(b, r) PROVE gpc[a] # "playing"
      BY <2>1 DEF Join
    <2>2. ASSUME NEW r \in Room, SwitchRoom(b, r) PROVE FALSE
      BY <2>2 DEF SwitchRoom
    <2>3. CASE SetRoomID(b)
      BY <2>3 DEF SetRoomID
    <2>4. CASE LeaveRoom(b) \/ AppendMember(b) \/ Quit(b) \/ Deregister(b)
      BY <2>4 DEF LeaveRoom, AppendMember, Quit, Deregister
    <2> QED
      BY <1>1, <2>1, <2>2, <2>3, <2>4 DEF GameStep
  <1> QED
    BY <1>1, StepCases, ConnFrame, RequestFrame, MsgFrame DEF gameVars

\* What others do while a message is where it is.
LEMMA MeantStill ==
    ASSUME MeantInv, Step, Watch, NEW c \in Conn, Still(c),
           \A d \in Open \cap Open' : account'[d] = account[d],
           UsersFree \/ Open \subseteq Open', pc[c] # "idle" => c \in Open'
    PROVE  Reached(c)' /\ Meant(c)'
  <1>t. Reached(c) /\ Meant(c) /\ ConnOK(c) /\ ConnTypeOK /\ GameTypeOK
    BY DEF MeantInv, ShapeInv
  <1>a. /\ pc[c] # "idle" => account'[c] = account[c] /\ account[c] \in Account
        /\ pc[c] = "other" => account'[them[c]] = account[them[c]]
        /\ \A d \in heard[c] : account'[d] = account[d] /\ pc[c] # "idle"
        /\ \A d \in due[c] \cap Open' : account'[d] = account[d]
    <2>1. Broadcasting(c) => \A d \in Open : account'[d] = account[d]
      BY DEF UsersFree
    <2>2. c \in Open <=> cpc[c] = "open"
      BY DEF Open
    <2> QED
      BY <1>t, <2>1, <2>2 DEF ConnOK, Broadcasting, Reached
  <1>s. /\ pc'[c] = pc[c] /\ channel'[c] = channel[c] /\ place'[c] = place[c]
        /\ audience'[c] = audience[c] /\ todo'[c] = todo[c] /\ them'[c] = them[c]
        /\ heard'[c] = heard[c]
    BY DEF Still
  <1>1. Reached(c)'
    <2>d. /\ due'[c] \subseteq Open' /\ (pc'[c] = "idle" => due'[c] = {})
          /\ \A d \in due'[c] : Due(c, d)'
          /\ pc[c] # "idle" => \A d \in due'[c] : d \in due[c] /\ Stays(c, d)
      BY DueStep
    <2>1. pc'[c] \in {"room", "members"} => account'[c] \in audience'[c]
      BY <1>t, <1>a, <1>s DEF Reached
    <2>2. ASSUME pc'[c] = "members", NEW d \in due'[c]
          PROVE  account'[d] = account'[c] \/ place'[c] = roomID'[account'[c]]
      <3>1. /\ d \in due[c] /\ account'[d] = account[d] /\ account'[c] = account[c]
            /\ account[c] \in Account /\ channel[c] = "Map"
        BY <1>a, <1>s, <1>t, <2>d, <2>2 DEF ConnOK
      <3>2. account[d] = account[c] \/ place[c] = roomID[account[c]]
        BY <1>s, <1>t, <2>2, <3>1 DEF Reached
      <3>3. CASE roomID'[account[c]] = roomID[account[c]]
        BY <1>s, <3>1, <3>2, <3>3
      <3>4. CASE roomID'[account[c]] # roomID[account[c]]
        <4>1. gpc[account[c]] # "playing"
          BY <1>t, <3>1, <3>4, RoomChange
        <4>2. Due(c, d)
          BY <1>t, <3>1 DEF Reached
        <4>3. account[d] = account[c]
          BY <3>1, <4>1, <4>2 DEF Due, Beside, At
        <4> QED
          BY <3>1, <4>3
      <3> QED
        BY <3>3, <3>4
    <2>3. ASSUME Sending(c)', channel'[c] = "Map", NEW d \in due'[c] PROVE account'[d] \in audience'[c]
      BY <1>t, <1>a, <1>s, <2>d, <2>3 DEF Reached, Sending
    <2>4. ASSUME Sending(c)', channel'[c] = "Party", NEW d \in due'[c] PROVE partyID'[d] \in audience'[c]
      BY <1>t, <1>s, <2>d, <2>4 DEF Reached, Sending, Stays
    <2>5. ASSUME Broadcasting(c)' PROVE due'[c] \subseteq todo'[c] \cup heard'[c] \cup {them'[c]}
      BY <1>t, <1>s, <2>d, <2>5 DEF Reached, Broadcasting
    <2> QED
      BY <2>d, <2>1, <2>2, <2>3, <2>4, <2>5 DEF Reached
  <1>2. Meant(c)'
    <2>1. CASE pc[c] = "idle"
      BY <1>t, <1>a, <1>s, <2>1 DEF Meant, Sending
    <2>2. CASE pc[c] # "idle"
      <3>m. /\ met[c] \subseteq met'[c]
            /\ roomID'[account[c]] # roomID[account[c]] \/ partyID'[c] # partyID[c] => Account \subseteq met'[c]
        BY <1>s, <2>2, MetStep DEF Moves
      <3> QED
        BY <1>t, <1>a, <1>s, <2>2, <3>m DEF Meant, Sending
    <2> QED
      BY <2>1, <2>2
  <1> QED
    BY <1>1, <1>2

\* What a message's own step does to whom it reaches.
LEMMA MeantMsg ==
    ASSUME MeantInv, Watch, NEW c \in Conn, MsgStep(c)
    PROVE  Reached(c)' /\ Meant(c)'
  <1> DEFINE a == account[c]
  <1>t. /\ Reached(c) /\ Meant(c) /\ ConnOK(c) /\ MessageTypeOK /\ ConnTypeOK /\ GameTypeOK
        /\ MessageTypeOK' /\ ConnOK(c)' /\ \A d \in Conn : ConnOK(d)
    BY MsgShape DEF MeantInv, ShapeInv
  <1>u. UNCHANGED <<relations, cpc, account, blocklist, partyID, gpc, roomID, memberOf>> /\ Open' = Open
    BY MsgFrame DEF gameVars, Open
  <1>o. /\ \A d \in Open : d \in Conn /\ account[d] \in Account
        /\ pc'[c] # "idle" => account[c] \in Account /\ c \in Conn
    BY <1>t, <1>u DEF ConnOK, Open
  <1>d. /\ due'[c] \subseteq Open /\ Open' = Open /\ (pc'[c] = "idle" => due'[c] = {})
        /\ \A d \in due'[c] : Due(c, d)'
        /\ pc[c] # "idle" => due'[c] \subseteq due[c]
    BY <1>u, DueStep
  <1>m. /\ pc'[c] # "idle" => MeantFor(c)' \subseteq met'[c]
        /\ pc[c] # "idle" /\ pc'[c] # "idle" => met[c] \subseteq met'[c]
    BY <1>u, MetStep DEF Moves
  <1>g. /\ pc'[c] # "idle" /\ channel'[c] = "Global" => Account \subseteq met'[c]
        /\ pc'[c] # "idle" /\ channel'[c] = "Map" =>
              /\ a \in met'[c]
              /\ roomID[a] \notin SPMaps => {b \in Account : memberOf[b] = roomID[a]} \subseteq met'[c]
        /\ pc'[c] # "idle" /\ channel'[c] = "Party" =>
              \A d \in Open : partyID[d] = partyID[c] => account[d] \in met'[c]
    <2>1. CASE channel'[c] = "Global"
      BY <1>m, <2>1 DEF MeantFor
    <2>2. CASE channel'[c] = "Map"
      <3>1. MeantFor(c)' = {a} \cup {b \in Account : memberOf[b] = roomID[a] /\ roomID[a] \notin SPMaps}
        BY <1>u, <2>2 DEF MeantFor, Roommates
      <3> HIDE DEF a
      <3> QED
        BY <1>m, <2>2, <3>1
    <2>3. CASE channel'[c] = "Party"
      <3>1. MeantFor(c)' = {account[d] : d \in {d \in Open : partyID[d] = partyID[c]}}
        BY <1>u, <2>3 DEF MeantFor
      <3> QED
        BY <1>m, <2>3, <3>1
    <2> QED
      BY <2>1, <2>2, <2>3
  <1>e. \A d \in due'[c] :
          /\ account[d] \notin blocklist[c] /\ account[c] \notin blocklist[d]
          /\ channel'[c] = "Map" => \/ account[d] = a
                                    \/ memberOf[account[d]] = roomID[a] /\ roomID[a] \notin SPMaps
          /\ channel'[c] = "Party" => partyID[c] # None /\ partyID[d] = partyID[c]
    <2>1. ASSUME NEW d \in due'[c]
          PROVE  /\ account[d] \notin blocklist[c] /\ account[c] \notin blocklist[d]
                 /\ channel'[c] = "Map" => account[d] \in Beside(a)'
                 /\ channel'[c] = "Party" => partyID[c] # None /\ partyID[d] = partyID[c]
      BY <1>d, <1>u DEF Due, HasBlocked
    <2>2. \A b \in Beside(a)' : b = a \/ (memberOf[b] = roomID[a] /\ roomID[a] \notin SPMaps)
      BY <1>u DEF Beside, Roommates
    <2> HIDE DEF a
    <2> QED
      BY <2>1, <2>2
  <1>h. (todo[c] \cup heard[c] # {} => Broadcasting(c)) /\ \A d \in heard[c] : account[d] \in met[c]
    BY <1>t DEF ConnOK, Meant
  <1> HIDE DEF a
  <1>x. \A d \in Open : account'[d] = account[d] /\ partyID'[d] = partyID[d]
    BY <1>u
  <1>y. account'[c] = a /\ partyID'[c] = partyID[c] /\ roomID' = roomID
    BY <1>u DEF a
  <1> USE DEF Reached, Meant, Sending, Broadcasting
  <1>1. ASSUME NEW ch \in Channels, Begin(c, ch) PROVE Reached(c)' /\ Meant(c)'
    <2>1. /\ pc[c] = "idle" /\ channel'[c] = ch /\ heard'[c] = {}
          /\ pc'[c] = CASE ch = "Global" -> "lock" [] ch = "Map" -> "find" [] ch = "Party" -> "party"
      <3>1. pc[c] = "idle" /\ heard'[c] = {}
        BY <1>1, <1>h DEF Begin
      <3>2. pc \in [Conn -> {"idle", "find", "room", "members", "party", "lock", "send", "other"}]
            /\ channel \in [Conn -> Channels \cup {None}]
        BY <1>t DEF MessageTypeOK
      <3> QED
        BY <1>1, <3>1, <3>2 DEF Begin, Goto
    <2>2. ch \in {"Global", "Map", "Party"}
      BY ChatAssumption
    <2> QED
      BY <1>d, <1>g, <1>u, <1>x, <1>y, <2>1, <2>2
  <1>2. CASE FindUser(c)
    <2>1. /\ channel'[c] = "Map" /\ heard'[c] = {} /\ pc[c] = "find"
          /\ \/ pc'[c] = "idle"
             \/ pc'[c] = "lock" /\ roomID[a] \in SPMaps /\ audience'[c] = {a}
             \/ pc'[c] = "room" /\ roomID[a] \notin SPMaps /\ audience'[c] = {a}
      BY <1>t, <1>2, <1>h DEF FindUser, Alone, Goto, MessageTypeOK, ConnOK, a
    <2> QED
      BY <1>d, <1>e, <1>g, <1>u, <1>x, <1>y, <2>1
  <1>3. CASE ReadRoomID(c)
    <2>1. /\ channel'[c] = "Map" /\ heard'[c] = {} /\ pc[c] = "room" /\ pc'[c] = "members"
          /\ place'[c] = roomID[a] /\ audience'[c] = audience[c]
      BY <1>t, <1>3, <1>h DEF ReadRoomID, Goto, MessageTypeOK, ConnOK, a
    <2>2. a \in audience[c] /\ audience[c] \subseteq {a} /\ (Account \subseteq met[c] \/ roomID[a] \notin SPMaps)
      BY <1>t, <2>1 DEF a
    <2> QED
      BY <1>d, <1>g, <1>m, <1>x, <1>y, <2>1, <2>2
  <1>4. CASE ReadMembers(c)
    <2>1. /\ channel'[c] = "Map" /\ heard'[c] = {} /\ pc[c] = "members" /\ pc'[c] = "lock"
          /\ audience'[c] = audience[c] \cup {b \in Account : memberOf[b] = place[c]}
          /\ channel[c] = "Map"
      BY <1>t, <1>4, <1>h DEF ReadMembers, Gathered, Goto, MessageTypeOK, ConnOK
    <2>2. /\ a \in audience[c] /\ audience[c] \subseteq {a}
          /\ Account \subseteq met[c] \/ (place[c] = roomID[a] /\ roomID[a] \notin SPMaps)
          /\ \A d \in due[c] : account[d] = a \/ place[c] = roomID[a]
      BY <1>t, <2>1 DEF a
    <2>3. \A d \in due'[c] : account[d] \in audience'[c]
      BY <1>d, <1>e, <1>o, <2>1, <2>2
    <2>4. Account \subseteq met'[c] \/ audience'[c] \subseteq met'[c]
      BY <1>m, <1>g, <2>1, <2>2
    <2> QED
      BY <1>d, <1>g, <1>x, <1>y, <2>1, <2>3, <2>4
  <1>5. CASE GetParty(c)
    <2>1. /\ channel'[c] = "Party" /\ heard'[c] = {} /\ pc'[c] \in {"idle", "lock"}
          /\ audience'[c] = {partyID[c]} \ {None}
      BY <1>t, <1>5, <1>h DEF GetParty, Goto, MessageTypeOK, ConnOK
    <2> QED
      BY <1>d, <1>e, <1>x, <1>y, <2>1
  <1>6. CASE Broadcast(c)
    <2>1. /\ channel'[c] = channel[c] /\ heard'[c] = {} /\ pc[c] = "lock" /\ pc'[c] = "send"
          /\ audience'[c] = audience[c] /\ todo'[c] = Open
      BY <1>t, <1>6, <1>h DEF Broadcast, Goto, MessageTypeOK
    <2>2. due'[c] \subseteq due[c] /\ met[c] \subseteq met'[c]
      BY <1>d, <1>m, <2>1
    <2> QED
      BY <1>d, <1>g, <1>t, <1>x, <1>y, <2>1, <2>2
  <1>7. ASSUME NEW d \in Conn, Visit(c, d) PROVE Reached(c)' /\ Meant(c)'
    <2>1. /\ pc[c] = "send" /\ d \in todo[c] /\ d \in Open
          /\ channel'[c] = channel[c] /\ audience'[c] = audience[c]
          /\ heard'[c] = heard[c] /\ todo'[c] = todo[c] \ {d}
          /\ channel[c] \in {"Global", "Map", "Party"}
      <3>1. /\ pc[c] = "send" /\ d \in todo[c] /\ channel' = channel /\ audience' = audience
            /\ heard' = heard /\ todo'[c] = todo[c] \ {d}
        BY <1>t, <1>7 DEF Visit, MessageTypeOK
      <3>2. d \in Open /\ channel[c] \in Channels
        BY <1>t, <3>1 DEF ConnOK
      <3> QED
        BY <3>1, <3>2, ChatAssumption
    <2>2. IF ShouldGet(c, d) /\ ~HasBlocked(c, d) THEN pc'[c] = "other" /\ them'[c] = d
                                                  ELSE pc'[c] = "send"
      BY <1>t, <1>7, <2>1 DEF Visit, Goto, MessageTypeOK
    <2>3. due'[c] \subseteq due[c] /\ met[c] \subseteq met'[c] /\ pc'[c] \in {"send", "other"}
      BY <1>d, <1>m, <2>1, <2>2
    <2>4. d \in due'[c] => ShouldGet(c, d) /\ ~HasBlocked(c, d)
      BY <1>e, <1>t, <2>1, <2>3 DEF ShouldGet, HasBlocked
    <2>5. due'[c] \subseteq todo'[c] \cup heard'[c] \cup {them'[c]}
      <3>1. due'[c] \subseteq todo[c] \cup heard[c]
        <4>1. them[c] \notin due'[c]
          BY <1>d, <1>o, <1>t, <2>1, ChatAssumption DEF ConnOK
        <4> QED
          BY <1>d, <1>o, <1>t, <2>1, <2>3, <4>1
      <3> QED
        BY <2>1, <2>2, <2>4, <3>1
    <2>6. ShouldGet(c, d) => account[d] \in met'[c]
      BY <1>g, <1>o, <1>t, <2>1, <2>3 DEF ShouldGet
    <2>7. pc'[c] = "other" => them'[c] = d /\ account[d] \in met'[c]
      BY <2>2, <2>6
    <2> QED
      BY <1>d, <1>g, <1>h, <1>o, <1>t, <1>u, <1>x, <1>y, <2>1, <2>3, <2>5, <2>7
  <1>8. CASE SendRaw(c)
    <2> DEFINE e == them[c]
    <2>1. /\ pc[c] = "other" /\ pc'[c] = "send" /\ e \in Open
          /\ channel'[c] = channel[c] /\ audience'[c] = audience[c] /\ todo'[c] = todo[c]
          /\ heard'[c] = IF BlockedBack(c, e) THEN heard[c] ELSE heard[c] \cup {e}
      BY <1>t, <1>8 DEF SendRaw, Goto, MessageTypeOK, ConnOK
    <2>2. due'[c] \subseteq due[c] /\ met[c] \subseteq met'[c]
      BY <1>d, <1>m, <2>1
    <2>3. e \in due'[c] => ~BlockedBack(c, e)
      BY <1>e DEF BlockedBack, HasBlocked
    <2>4. due'[c] \subseteq todo'[c] \cup heard'[c] \cup {them'[c]}
      BY <1>t, <2>1, <2>2, <2>3
    <2>5. account[e] \in met[c]
      BY <1>t, <2>1
    <2> HIDE DEF e
    <2>6. \A d \in heard'[c] : d \in Open /\ account'[d] \in met'[c]
      BY <1>h, <1>t, <1>x, <2>1, <2>2, <2>5 DEF ConnOK
    <2> QED
      BY <1>d, <1>g, <1>t, <1>x, <1>y, <2>1, <2>2, <2>4, <2>6
  <1>9. CASE EndBroadcast(c)
    <2>1. pc'[c] = "idle" /\ heard'[c] = {}
      BY <1>t, <1>9 DEF EndBroadcast, Goto, MessageTypeOK
    <2> QED
      BY <1>d, <2>1
  <1> QED
    BY <1>1, <1>2, <1>3, <1>4, <1>5, <1>6, <1>7, <1>8, <1>9 DEF MsgStep

\* Every step keeps messages on their way to whom they are meant for.
LEMMA MeantInvariance == MeantInv /\ [Next]_vars => MeantInv'
  <1> SUFFICES ASSUME MeantInv, [Next]_vars PROVE MeantInv'
    OBVIOUS
  <1>1. CASE Step /\ Watch
    <2>1. ShapeInv'
      BY <1>1, ShapeStep DEF MeantInv
    <2>t. ConnTypeOK /\ MessageTypeOK /\ \A c \in Conn : ConnOK(c)
      BY DEF MeantInv, ShapeInv
    <2>2. ASSUME NEW c \in Conn, UNCHANGED <<msgVars, cpc, account>>
          PROVE  Reached(c)' /\ Meant(c)'
      <3>1. Open' = Open /\ Still(c) /\ (pc[c] # "idle" => c \in Open)
        BY <2>2, <2>t DEF Open, Still, msgVars, ConnOK
      <3> QED
        BY <1>1, <2>2, <3>1, MeantStill
    <2>3. ASSUME NEW c \in Conn, NEW d \in Conn, ConnStep(d) PROVE Reached(c)' /\ Meant(c)'
      <3>1. /\ UNCHANGED msgVars
            /\ \A e \in Conn \ {d} : cpc'[e] = cpc[e] /\ account'[e] = account[e]
        BY <2>3, <2>t, ConnFrame
      <3>2. CASE OnClose(d)
        <4>1. cpc[d] = "open" /\ cpc'[d] = "closed" /\ pc[d] = "idle" /\ UsersFree
          BY <2>t, <3>2 DEF OnClose, ConnTypeOK
        <4>2. Still(c) /\ \A e \in Open \cap Open' : account'[e] = account[e]
          BY <3>1, <4>1 DEF Still, msgVars, Open
        <4>3. pc[c] # "idle" => c \in Open'
          BY <2>t, <3>1, <4>1 DEF ConnOK, Open
        <4> QED
          BY <1>1, <4>1, <4>2, <4>3, MeantStill
      <3>3. CASE ~OnClose(d)
        <4>1. cpc[d] # "open"
          BY <2>3, <3>3 DEF ConnStep, Authorize, LookUpParty, OnOpen
        <4>2. Open \subseteq Open' /\ Still(c) /\ \A e \in Open : account'[e] = account[e]
          BY <3>1, <4>1 DEF Still, msgVars, Open
        <4>3. pc[c] # "idle" => c \in Open'
          BY <2>t, <4>2 DEF ConnOK, Open
        <4> QED
          BY <1>1, <4>2, <4>3, MeantStill
      <3> QED
        BY <3>2, <3>3
    <2>4. ASSUME NEW d \in Conn, MsgStep(d), NEW c \in Conn PROVE Reached(c)' /\ Meant(c)'
      <3>1. CASE d = c
        BY <1>1, <2>4, <3>1, MeantMsg
      <3>2. CASE d # c
        <4>1. Open' = Open /\ account' = account /\ Still(c) /\ (pc[c] # "idle" => c \in Open)
          BY <2>4, <2>t, <3>2, OthersStill, MsgFrame DEF Open, ConnOK
        <4> QED
          BY <1>1, <4>1, MeantStill
      <3> QED
        BY <3>1, <3>2
    <2>5. ASSUME NEW c \in Conn PROVE Reached(c)' /\ Meant(c)'
      <3>1. ASSUME NEW a \in Account, GameStep(a) PROVE Reached(c)' /\ Meant(c)'
        BY <2>2, <3>1, GameFrame
      <3>2. ASSUME NEW q \in Req, RequestStep(q) PROVE Reached(c)' /\ Meant(c)'
        BY <2>2, <3>2, RequestFrame
      <3> QED
        BY <1>1, <2>3, <2>4, <3>1, <3>2, StepCases
    <2> QED
      BY <2>1, <2>5 DEF MeantInv
  <1>2. CASE UNCHANGED vars
    <2> USE <1>2 DEF vars, dbVars, connVars, dataVars, msgVars, reqVars, gameVars, watchVars
    <2>1. ShapeInv'
      BY ShapeStutter DEF MeantInv
    <2>2. ASSUME NEW c \in Conn PROVE Reached(c)' /\ Meant(c)'
      <3>1. Reached(c)'
        BY DEF MeantInv, Reached, Due, HasBlocked, Beside, Roommates, At, Sending, Broadcasting, Open
      <3>2. Meant(c)'
        BY DEF MeantInv, Meant, Sending
      <3> QED
        BY <3>1, <3>2
    <2> QED
      BY <2>1, <2>2 DEF MeantInv
  <1> QED
    BY <1>1, <1>2 DEF Next, AllDone

\* However players move and lists change meanwhile, a message reaches every
\* connection that stays where it goes and that no block keeps it from, and
\* while its author stays nobody else.
THEOREM MessagesReachTheMeant == Spec => []HeardWhereMeant
  <1>1. MeantInv => HeardWhereMeant
    <2> SUFFICES ASSUME MeantInv, NEW c \in Conn, pc[c] = "send", todo[c] = {}
                 PROVE  /\ due[c] \subseteq heard[c]
                        /\ {account[d] : d \in heard[c]} \subseteq met[c]
      BY DEF HeardWhereMeant
    <2>1. Reached(c) /\ Meant(c) /\ ConnOK(c)
      BY DEF MeantInv, ShapeInv
    <2>2. due[c] \subseteq heard[c]
      <3>1. them[c] = None /\ None \notin Conn /\ Open \subseteq Conn
        BY <2>1, ChatAssumption DEF ConnOK, Open
      <3> QED
        BY <2>1, <3>1 DEF Reached, Broadcasting
    <2>3. \A d \in heard[c] : account[d] \in met[c]
      BY <2>1 DEF Meant
    <2> QED
      BY <2>2, <2>3
  <1> QED
    BY <1>1, InitMeant, MeantInvariance, PTL DEF Spec
=============================================================================
