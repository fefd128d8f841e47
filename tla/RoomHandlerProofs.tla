------------------------- MODULE RoomHandlerProofs -------------------------
(***************************************************************************)
(* Proofs about RoomHandler, for any number of connections, accounts,      *)
(* rooms and room switches, about BlockSync, for any number of requests    *)
(* besides, and about BlocklistLocks, for any number of players and        *)
(* updates (its own definitions and variables have names apart).           *)
(*                                                                         *)
(* IInv makes RegistryExact and MembershipSound inductive: where a         *)
(* connection stands decides what its outbox is (OutboxFollows), nothing   *)
(* waits in a batch without a SendLoop to send it (BatchServed), and a     *)
(* goroutine that read-locks a room holds on to members of that room       *)
(* (ReadersHold).  On top of IInv, BlockedInv, MeetInv and ExactInv         *)
(* are the invariants about what the screens show and will show; BlockIInv *)
(* and MeetMeanwhileInv are those that hold while requests change the      *)
(* blocklists the screens depend on.  LocksInv is about the locks alone:   *)
(* however nested read locks and write locks interleave, they exclude one  *)
(* another.                                                                *)
(***************************************************************************)
EXTENDS BlockSync, BlocklistLocks, TLAPS

\* The outbox is made by Authorize, served from the registration in OnOpen on
\* and closed by OnClose, also when OnOpen refused the connection.
OutboxFollows ==
    \A c \in Conn :
        /\ pc[c] \in {"new", "looked"} => outbox[c] = "none"
        /\ pc[c] = "authorized" => outbox[c] = "made"
        /\ pc[c] \in Entering \cup {"hide", "ready"} => outbox[c] = "served"
        /\ pc[c] \in {"leave", "deregister", "close"} => outbox[c] \in {"made", "served"}
        /\ pc[c] \in {"gone", "closed"} => outbox[c] = "closed"
        /\ pc[c] = "rejected" => outbox[c] # "served"

\* A batch is only ever pending where SendLoop runs.
BatchServed == \A c \in Conn : outbox[c] # "served" => pending[c] = Silent

\* While c shares to its room, the members it still has to visit and the one
\* it is about to send to cannot leave: unsetRoom waits for the lock.
ReadersHold ==
    /\ \A c \in reading : pc[c] \in Sharing \cup {"greet"}
    /\ \A c \in reading : pc[c] \in Sharing => todo[c] \subseteq members[roomID[c]]
    /\ \A c \in Conn : chosen[c] # None =>
          c \in reading /\ pc[c] \in Sharing /\ chosen[c] \in members[roomID[c]]
    /\ \A c \in Conn : pc[c] = "greet" => dest[c] = roomID[c]

Placed == OutboxFollows /\ BatchServed /\ RegistryExact /\ MembershipSound /\ ReadersHold

IInv == TypeOK /\ Placed

-----------------------------------------------------------------------------

\* NewHandler's state and that of connections before Authorize have the types.
LEMMA InitTypeOK == Init => TypeOK
  BY RoomAssumption DEF Init, TypeOK, Uuid, PCs, Arriving, NoRoomYet, Silent

\* The two outcomes of AuthorizeCheck.
LEMMA AuthorizeChecked ==
    ASSUME NEW c \in Conn, AuthorizeCheck(c)
    PROVE  /\ pc[c] = "looked"
           /\ \/ /\ pc' = [pc EXCEPT ![c] = "authorized"]
                 /\ outbox' = [outbox EXCEPT ![c] = "made"]
              \/ pc' = [pc EXCEPT ![c] = "rejected"] /\ outbox' = outbox
           /\ UNCHANGED <<relations, users, members, usersReaders, blocklistWriters, uuid,
                          roomID, blocklist, dest, reading, todo, chosen, intro, pending,
                          shown, switches>>
  BY DEF AuthorizeCheck, Goto, registryVars, lockVars, localVars, viewVars

\* Every step keeps the types.
LEMMA TypeStep == TypeOK /\ [Next]_vars => TypeOK'
  <1> SUFFICES ASSUME TypeOK, [Next]_vars PROVE TypeOK'
    OBVIOUS
  <1>a. ASSUME NEW c \in Conn, AuthorizeCheck(c) PROVE TypeOK'
    <2>1. outbox' \in [Conn -> {"none", "made", "served", "closed"}]
      BY <1>a, AuthorizeChecked DEF TypeOK
    <2>2. pc' \in [Conn -> PCs]
      <3>1. "authorized" \in PCs /\ "rejected" \in PCs
        BY DEF PCs, Arriving
      <3> QED
        BY <1>a, <3>1, AuthorizeChecked DEF TypeOK
    <2> QED
      BY <1>a, <2>1, <2>2, AuthorizeChecked DEF TypeOK
  <1> USE RoomAssumption DEF TypeOK, Goto, registryVars, lockVars, dataVars, localVars, viewVars,
                             PCs, Arriving, Entering, Leaving
  <1>1. CASE UNCHANGED vars
    BY <1>1 DEF vars
  <1>2. ASSUME NEW c \in Conn, ServerStep(c) PROVE TypeOK'
    <2>1. CASE AuthorizeCheck(c)
      BY ONLY <1>a, <2>1, c \in Conn
    <2>2. CASE OnOpenTwice(c)
      BY <2>2 DEF OnOpenTwice, DoubleCheck
    <2>3. CASE OnOpenRegister(c)
      BY <2>3 DEF OnOpenRegister, DoubleCheck
    <2>4. CASE SendRoomInfo(c)
      BY <2>4 DEF SendRoomInfo
    <2>5. CASE unsetRoom(c)
      BY <2>5 DEF unsetRoom, RemoveMember, AfterUnset
    <2>6. CASE setRoomJoin(c)
      BY <2>6 DEF setRoomJoin
    <2>7. CASE setRoomID(c)
      BY <2>7 DEF setRoomID, AfterRoomID
    <2>8. CASE GreetBegin(c)
      BY <2>8 DEF GreetBegin
    <2>9. ASSUME NEW m \in Conn, GreetVisit(c, m) PROVE TypeOK'
      BY <2>9 DEF GreetVisit
    <2>10. CASE GreetEnd(c)
      BY <2>10 DEF GreetEnd, RUnlock
    <2>11. CASE ShareSkipped(c)
      BY <2>11 DEF ShareSkipped, Sharing, AfterShare
    <2>12. CASE ShareBegin(c)
      BY <2>12 DEF ShareBegin
    <2>13. ASSUME NEW m \in Conn, ShareVisit(c, m) PROVE TypeOK'
      BY <2>13 DEF ShareVisit
    <2>14. CASE ShareSend(c)
      BY <2>14 DEF ShareSend, Send, Word
    <2>15. CASE ShareEnd(c)
      BY <2>15 DEF ShareEnd, RUnlock, Sharing, AfterShare
    <2>16. CASE OnCloseDeregister(c)
      BY <2>16 DEF OnCloseDeregister, Deregister, Uuid
    <2>17. CASE OnCloseOutbox(c)
      BY <2>17 DEF OnCloseOutbox, Silent
    <2> QED
      BY <1>2, <2>1, <2>2, <2>3, <2>4, <2>5, <2>6, <2>7, <2>8, <2>9, <2>10, <2>11, <2>12,
         <2>13, <2>14, <2>15, <2>16, <2>17 DEF ServerStep
  <1>3. ASSUME NEW c \in Conn, ClientStep(c) PROVE TypeOK'
    <2>1. ASSUME NEW r \in Room \cup {None}, AuthorizeNoRoom(c, r) PROVE TypeOK'
      BY <2>1 DEF AuthorizeNoRoom
    <2>2. ASSUME NEW r \in Room \cup {None}, SwitchRoom(c, r) PROVE TypeOK'
      BY <2>2 DEF SwitchRoom, hasRoom
    <2>3. ASSUME NEW u \in Account \cup {c}, NEW r \in Room \cup {None}, NEW fails \in BOOLEAN,
                 AuthorizeLookup(c, u, r, fails)
          PROVE  TypeOK'
      BY <2>3 DEF AuthorizeLookup, hasRoom, BlockedBy, Uuid
    <2>4. CASE UpgradeFails(c)
      BY <2>4 DEF UpgradeFails
    <2>5. CASE ConnectionLost(c)
      BY <2>5 DEF ConnectionLost
    <2> QED
      BY <1>3, <2>1, <2>2, <2>3, <2>4, <2>5 DEF ClientStep
  <1>4. ASSUME NEW c \in Conn, Flush(c) PROVE TypeOK'
    BY <1>4 DEF Flush, Screen, Silent
  <1> QED
    BY <1>1, <1>2, <1>3, <1>4 DEF Next, ConnNext, AllGone

-----------------------------------------------------------------------------

\* Before the first connection nobody is registered, in a room or reading.
LEMMA InitPlaced == Init => Placed
  BY RoomAssumption DEF Init, Placed, OutboxFollows, BatchServed, RegistryExact, Registered,
     MembershipSound, ReadersHold, Uuid, Entering

\* Every step keeps the registry, the rooms and what the readers hold.
LEMMA PlacedStep == IInv /\ [Next]_vars => Placed'
  <1> SUFFICES ASSUME IInv, [Next]_vars PROVE Placed'
    OBVIOUS
  <1>a. ASSUME NEW c \in Conn, AuthorizeCheck(c) PROVE Placed'
    <2>1. /\ UNCHANGED <<users, members, uuid, roomID, dest, reading, todo, chosen, pending>>
          /\ pc[c] = "looked" /\ pc'[c] \in {"authorized", "rejected"}
          /\ pc'[c] = "authorized" => outbox'[c] = "made"
          /\ pc'[c] = "rejected" => outbox'[c] = outbox[c]
          /\ \A d \in Conn : d # c => pc'[d] = pc[d] /\ outbox'[d] = outbox[d]
      BY <1>a, AuthorizeChecked DEF IInv, TypeOK
    <2>2. OutboxFollows'
      BY <2>1 DEF IInv, Placed, OutboxFollows, Entering
    <2>3. outbox[c] # "served"
      BY <2>1 DEF IInv, Placed, OutboxFollows
    <2>4. BatchServed'
      BY <2>1, <2>3 DEF IInv, Placed, BatchServed
    <2>5. RegistryExact'
      <3>1. \A d \in Conn : Registered(d)' <=> Registered(d)
        BY <2>1 DEF Registered, Entering
      <3> QED
        BY <2>1, <3>1 DEF IInv, Placed, RegistryExact
    <2>6. MembershipSound'
      <3>1. \A d \in Conn : Registered(d)' <=> Registered(d)
        BY <2>1 DEF Registered, Entering
      <3>2. \A r \in Room : members[r] \subseteq Conn
        BY DEF IInv, TypeOK
      <3>3. c \notin UNION {members[r] : r \in Room}
        BY <2>1 DEF IInv, Placed, MembershipSound, Registered, Entering
      <3> QED
        BY <2>1, <3>1, <3>2, <3>3 DEF IInv, Placed, MembershipSound
    <2>7. ReadersHold'
      <3>1. reading \subseteq Conn
        BY DEF IInv, TypeOK
      <3> QED
        BY <2>1, <3>1 DEF IInv, Placed, ReadersHold, Sharing
    <2> QED
      BY <2>2, <2>4, <2>5, <2>6, <2>7 DEF Placed
  <1> USE RoomAssumption DEF IInv, TypeOK, Goto, registryVars, lockVars, dataVars, localVars,
        viewVars, PCs, Arriving, Entering, Leaving, Sharing,
        Placed, OutboxFollows, BatchServed, RegistryExact, Registered, MembershipSound, ReadersHold
  <1>1. CASE UNCHANGED vars
    BY <1>1 DEF vars
  <1>2. ASSUME NEW c \in Conn, ServerStep(c) PROVE Placed'
    <2>1. CASE AuthorizeCheck(c)
      BY ONLY <1>a, <2>1, c \in Conn
    <2>2. CASE OnOpenTwice(c)
      BY <2>2 DEF OnOpenTwice, DoubleCheck
    <2>3. CASE OnOpenRegister(c)
      BY <2>3 DEF OnOpenRegister, DoubleCheck
    <2>4. CASE SendRoomInfo(c)
      BY <2>4 DEF SendRoomInfo
    <2>5. CASE unsetRoom(c)
      BY <2>5 DEF unsetRoom, RemoveMember, AfterUnset, RoomFree
    <2>6. CASE setRoomJoin(c)
      BY <2>6 DEF setRoomJoin, RoomFree
    <2>7. CASE setRoomID(c)
      BY <2>7 DEF setRoomID, AfterRoomID
    <2>8. CASE GreetBegin(c)
      BY <2>8 DEF GreetBegin
    <2>9. ASSUME NEW m \in Conn, GreetVisit(c, m) PROVE Placed'
      BY <2>9 DEF GreetVisit
    <2>10. CASE GreetEnd(c)
      BY <2>10 DEF GreetEnd, RUnlock
    <2>11. CASE ShareSkipped(c)
      BY <2>11 DEF ShareSkipped, AfterShare
    <2>12. CASE ShareBegin(c)
      BY <2>12 DEF ShareBegin
    <2>13. ASSUME NEW m \in Conn, ShareVisit(c, m) PROVE Placed'
      BY <2>13 DEF ShareVisit
    <2>14. CASE ShareSend(c)
      BY <2>14 DEF ShareSend, Send
    <2>15. CASE ShareEnd(c)
      BY <2>15 DEF ShareEnd, RUnlock, AfterShare
    <2>16. CASE OnCloseDeregister(c)
      BY <2>16 DEF OnCloseDeregister, Deregister
    <2>17. CASE OnCloseOutbox(c)
      BY <2>17 DEF OnCloseOutbox
    <2> QED
      BY <1>2, <2>1, <2>2, <2>3, <2>4, <2>5, <2>6, <2>7, <2>8, <2>9, <2>10, <2>11, <2>12,
         <2>13, <2>14, <2>15, <2>16, <2>17 DEF ServerStep
  <1>3. ASSUME NEW c \in Conn, ClientStep(c) PROVE Placed'
    <2>1. ASSUME NEW r \in Room \cup {None}, AuthorizeNoRoom(c, r) PROVE Placed'
      BY <2>1 DEF AuthorizeNoRoom
    <2>2. ASSUME NEW r \in Room \cup {None}, SwitchRoom(c, r) PROVE Placed'
      BY <2>2 DEF SwitchRoom
    <2>3. ASSUME NEW u \in Account \cup {c}, NEW r \in Room \cup {None}, NEW fails \in BOOLEAN,
                 AuthorizeLookup(c, u, r, fails)
          PROVE  Placed'
      BY <2>3 DEF AuthorizeLookup
    <2>4. CASE UpgradeFails(c)
      BY <2>4 DEF UpgradeFails
    <2>5. CASE ConnectionLost(c)
      BY <2>5 DEF ConnectionLost
    <2> QED
      BY <1>3, <2>1, <2>2, <2>3, <2>4, <2>5 DEF ClientStep
  <1>4. ASSUME NEW c \in Conn, Flush(c) PROVE Placed'
    BY <1>4 DEF Flush
  <1> QED
    BY <1>1, <1>2, <1>3, <1>4 DEF Next, ConnNext, AllGone

\* The strengthened invariant holds whatever the handlers interleave.
LEMMA Invariance == Spec => []IInv
  <1>1. Init => IInv
    BY InitTypeOK, InitPlaced DEF IInv
  <1>2. IInv /\ [Next]_vars => IInv'
    BY TypeStep, PlacedStep DEF IInv
  <1> QED
    BY <1>1, <1>2, PTL DEF Spec

\* Every variable keeps its type in every reachable state.
THEOREM TypeCorrect == Spec => []TypeOK
  BY Invariance, PTL DEF IInv

\* The registry names exactly the connections that are in the game, one per
\* account, whatever Authorize, OnOpen and OnClose calls interleave.
THEOREM RegistryCorrect == Spec => []RegistryExact
  BY Invariance, PTL DEF IInv, Placed

\* Every connection is in at most one room, the one its RoomID names, and
\* leaves it before OnClose removes it from the registry.
THEOREM MembershipCorrect == Spec => []MembershipSound
  BY Invariance, PTL DEF IInv, Placed

-----------------------------------------------------------------------------

\* User.Send is only called for a connection whose SendLoop is running.
LEMMA SendStep ==
    IInv /\ [Next]_vars => [\A c \in Conn : outbox[c] # "served" => pending'[c] = pending[c]]_vars
  <1> DEFINE Kept == \A c \in Conn : outbox[c] # "served" => pending'[c] = pending[c]
  <1> SUFFICES ASSUME IInv, Next PROVE Kept
    BY DEF vars
  <1> USE DEF IInv, TypeOK, Placed, viewVars
  <1>1. ASSUME NEW d \in Conn, GreetEnd(d) PROVE Kept
    BY <1>1 DEF GreetEnd, OutboxFollows, Entering
  <1>2. ASSUME NEW d \in Conn, ShareSend(d) PROVE Kept
    <2>1. outbox[chosen[d]] = "served"
      BY <1>2 DEF ShareSend, ReadersHold, MembershipSound, Registered, OutboxFollows
    <2> QED
      BY <1>2, <2>1 DEF ShareSend, Send
  <1>3. ASSUME NEW d \in Conn, OnCloseOutbox(d) PROVE Kept
    BY <1>3 DEF OnCloseOutbox, BatchServed
  <1>4. ASSUME NEW d \in Conn, Flush(d) PROVE Kept
    BY <1>4 DEF Flush
  <1>5. ASSUME NEW d \in Conn, ServerStep(d), ~GreetEnd(d), ~ShareSend(d), ~OnCloseOutbox(d)
        PROVE  pending' = pending
    BY <1>5 DEF ServerStep, AuthorizeCheck, OnOpenTwice, OnOpenRegister, SendRoomInfo, unsetRoom,
       setRoomJoin, setRoomID, GreetBegin, GreetVisit, ShareSkipped, ShareBegin, ShareVisit,
       ShareEnd, OnCloseDeregister
  <1>6. ASSUME NEW d \in Conn, ClientStep(d) PROVE pending' = pending
    BY <1>6 DEF ClientStep, AuthorizeNoRoom, SwitchRoom, AuthorizeLookup, UpgradeFails,
       ConnectionLost
  <1>7. AllGone => pending' = pending
    BY DEF AllGone, vars
  <1> QED
    BY <1>1, <1>2, <1>3, <1>4, <1>5, <1>6, <1>7 DEF Next, ConnNext

\* No step of the handler itself sends to an outbox that is closed, or that
\* has no SendLoop: the order of OnClose is right as far as rooms go.
THEOREM ClosedChannelSafe == Spec => NothingSendsToClosedChannel
  BY Invariance, SendStep, PTL DEF Spec, NothingSendsToClosedChannel

-----------------------------------------------------------------------------
(* The handler implements SessionRegistry.                                  *)

Over == {c \in Conn : pc[c] \in {"rejected", "close", "gone", "closed"}}

\* Who is over is not in the registry, and who is in it is not over.
LEMMA NotPlaying ==
    ASSUME IInv, NEW c \in Conn, ~Registered(c)
    PROVE  c \notin Registry!Playing
  BY DEF IInv, TypeOK, Placed, RegistryExact, Registry!Playing

\* Every handler step is a step of SessionRegistry, or none.
LEMMA RefinementStep == IInv /\ [Next]_vars => [Registry!Next]_<<users, Over>>
  <1> SUFFICES ASSUME IInv, Next PROVE Registry!Next \/ UNCHANGED <<users, Over>>
    BY DEF vars, Over
  <1> USE RoomAssumption DEF IInv, TypeOK, Goto, registryVars
  <1>1. ASSUME NEW c \in Conn, pc[c] \in Arriving, pc' = [pc EXCEPT ![c] = "rejected"],
               UNCHANGED users
        PROVE  Registry!Next
    <2>1. c \notin Registry!Playing
      BY <1>1, NotPlaying DEF Registered, Arriving, Entering
    <2>2. c \notin Over /\ Over' = Over \cup {c}
      BY <1>1 DEF Over, Arriving
    <2> QED
      BY <1>1, <2>1, <2>2 DEF Registry!Next, Registry!Refuse, Over
  <1>2. ASSUME NEW c \in Conn, OnOpenRegister(c) PROVE Registry!Next
    <2>1. c \notin Registry!Playing
      BY <1>2, NotPlaying DEF OnOpenRegister, Registered, Entering
    <2>2. c \notin Over /\ Over' = Over
      BY <1>2 DEF OnOpenRegister, Over
    <2>3. Registry!Admit(c, uuid[c])
      BY <1>2, <2>1, <2>2 DEF OnOpenRegister, DoubleCheck, Registry!Admit, Over
    <2> QED
      BY <2>3 DEF Registry!Next
  <1>3. ASSUME NEW c \in Conn, OnCloseDeregister(c) PROVE Registry!Next
    <2>1. c \notin Over /\ Over' = Over \cup {c}
      BY <1>3 DEF OnCloseDeregister, Over
    <2>2. CASE users[uuid[c]] = c
      <3>1. PICK u \in Uuid : u = uuid[c]
        OBVIOUS
      <3>2. Registry!End(u)
        BY <1>3, <2>1, <2>2, <3>1 DEF OnCloseDeregister, Deregister, Registry!End, Over
      <3> QED
        BY <3>2 DEF Registry!Next
    <2>3. CASE users[uuid[c]] # c
      <3>1. c \notin Registry!Playing
        BY <2>3, NotPlaying DEF Placed, RegistryExact
      <3>2. Registry!Refuse(c)
        BY <1>3, <2>1, <2>3, <3>1 DEF OnCloseDeregister, Deregister, Registry!Refuse, Over
      <3> QED
        BY <3>2 DEF Registry!Next
    <2> QED
      BY <2>2, <2>3
  <1>4. ASSUME NEW c \in Conn, ServerStep(c), ~OnOpenRegister(c), ~OnCloseDeregister(c)
        PROVE  Registry!Next \/ UNCHANGED <<users, Over>>
    <2>1. CASE AuthorizeCheck(c) /\ users[uuid[c]] # None
      BY <2>1, <1>1 DEF AuthorizeCheck, Arriving
    <2>2. CASE AuthorizeCheck(c) /\ users[uuid[c]] = None
      BY <2>2 DEF AuthorizeCheck, Over
    <2>3. CASE OnOpenTwice(c) \/ SendRoomInfo(c) \/ unsetRoom(c) \/ setRoomJoin(c) \/ setRoomID(c)
      BY <2>3 DEF OnOpenTwice, SendRoomInfo, unsetRoom, AfterUnset, setRoomJoin, setRoomID,
         AfterRoomID,
         Over
    <2>4. CASE GreetBegin(c) \/ (\E m \in Conn : GreetVisit(c, m)) \/ GreetEnd(c)
      BY <2>4 DEF GreetBegin, GreetVisit, GreetEnd, Over
    <2>5. CASE ShareBegin(c) \/ (\E m \in Conn : ShareVisit(c, m)) \/ ShareSend(c)
      BY <2>5 DEF ShareBegin, ShareVisit, ShareSend, Over
    <2>6. CASE ShareSkipped(c) \/ ShareEnd(c)
      BY <2>6 DEF ShareSkipped, ShareEnd, Sharing, AfterShare, Over
    <2>7. CASE OnCloseOutbox(c)
      BY <2>7 DEF OnCloseOutbox, Over
    <2> QED
      BY <1>4, <2>1, <2>2, <2>3, <2>4, <2>5, <2>6, <2>7 DEF ServerStep
  <1>5. ASSUME NEW c \in Conn, ClientStep(c) PROVE Registry!Next \/ UNCHANGED <<users, Over>>
    <2>1. CASE UpgradeFails(c) \/ \E r \in Room \cup {None} : AuthorizeNoRoom(c, r)
      BY <2>1, <1>1 DEF UpgradeFails, AuthorizeNoRoom, Arriving
    <2>2. ASSUME NEW r \in Room \cup {None}, SwitchRoom(c, r) PROVE UNCHANGED <<users, Over>>
      BY <2>2 DEF SwitchRoom, Over
    <2>3. ASSUME NEW u \in Account \cup {c}, NEW r \in Room \cup {None}, NEW fails \in BOOLEAN,
                 AuthorizeLookup(c, u, r, fails)
          PROVE  UNCHANGED <<users, Over>>
      BY <2>3 DEF AuthorizeLookup, Over
    <2>4. CASE ConnectionLost(c)
      BY <2>4 DEF ConnectionLost, Over
    <2> QED
      BY <1>5, <2>1, <2>2, <2>3, <2>4 DEF ClientStep
  <1>6. ASSUME NEW c \in Conn, Flush(c) PROVE UNCHANGED <<users, Over>>
    BY <1>6 DEF Flush, Over
  <1>7. AllGone => UNCHANGED <<users, Over>>
    BY DEF AllGone, vars, Over
  <1> QED
    BY <1>2, <1>3, <1>4, <1>5, <1>6, <1>7 DEF Next, ConnNext

\* What OnOpen, OnClose and the refusals do to the registry is what
\* SessionRegistry allows: admit, refuse or end a connection, each once.
THEOREM ImplementsRegistry == Spec => RefinesRegistry
  <1>1. Init => Registry!Init
    BY DEF Init, Registry!Init
  <1>2. [Registry!Next]_<<users, Over>> => [Registry!Next]_Registry!vars
    BY DEF Registry!vars, Over
  <1> QED
    BY <1>1, <1>2, Invariance, RefinementStep, PTL DEF Spec, RefinesRegistry, Registry!Spec

\* Where the members of a room stand.
At(m, r) ==
    /\ m \in Conn
    /\ pc[m] \in {"hide", "inform", "unset", "setid", "greet", "show", "ready", "leave"}
    /\ r = IF pc[m] = "setid" THEN dest[m] ELSE roomID[m]

\* Every member of a room stands at one of those places, with that room ID.
LEMMA MemberAt ==
    ASSUME IInv, NEW r \in Room, NEW m \in members[r]
    PROVE  At(m, r)
  BY DEF At, IInv, TypeOK, Placed, MembershipSound, Registered, Entering

-----------------------------------------------------------------------------
(* The screens: nobody is shown a player of whom packets are skipped.       *)

\* m's intro is on c's screen, in its batch, or on its way there.
OnTheWay(c, m) ==
    m \in shown[c] \/ pending[c][m] = "Connect" \/ m \in intro[c] \/ chosen[m] = c

\* Whoever visits members of a room, or has been visited, has an identity.
Known(c) == pc[c] \notin {"new", "looked", "authorized", "rejected"}

BlockedInv ==
    /\ \A c, m \in Conn : OnTheWay(c, m) =>
          Known(c) /\ Known(m) /\ ~hasBlocked(c, m) /\ ~hasBlocked(m, c)
    /\ \A c \in reading : \A m \in todo[c] : Known(m)

\* At the start no screen, batch or read loop has anybody to show.
LEMMA InitBlocked == Init => BlockedInv
  BY RoomAssumption DEF Init, BlockedInv, OnTheWay, Silent

\* No step of a handler lets a blocked player any closer to a screen.
LEMMA BlockedStep == IInv /\ BlockedInv /\ [Next]_vars => BlockedInv'
  <1> SUFFICES ASSUME IInv, BlockedInv, [Next]_vars PROVE BlockedInv'
    OBVIOUS
  <1>a. \A r \in Room : \A m \in members[r] : m \in Conn /\ Known(m)
    BY MemberAt DEF At, Known
  <1> USE RoomAssumption DEF IInv, TypeOK, Goto, registryVars, lockVars, dataVars, localVars,
        viewVars, BlockedInv, OnTheWay, Known, hasBlocked
  <1>1. CASE UNCHANGED vars
    BY <1>1 DEF vars
  <1>2. ASSUME NEW c \in Conn, ServerStep(c) PROVE BlockedInv'
    <2>1. CASE AuthorizeCheck(c)
      BY <2>1 DEF AuthorizeCheck
    <2>2. CASE OnOpenTwice(c)
      BY <2>2 DEF OnOpenTwice, DoubleCheck
    <2>3. CASE OnOpenRegister(c)
      BY <2>3 DEF OnOpenRegister, DoubleCheck
    <2>4. CASE SendRoomInfo(c)
      BY <2>4 DEF SendRoomInfo
    <2>5. CASE unsetRoom(c)
      BY <2>5 DEF unsetRoom, RemoveMember, AfterUnset
    <2>6. CASE setRoomJoin(c)
      BY <2>6 DEF setRoomJoin
    <2>7. CASE setRoomID(c)
      BY <2>7 DEF setRoomID, AfterRoomID
    <2>8. CASE GreetBegin(c)
      <3>1. \A m \in members[dest[c]] : m \in Conn /\ Known(m)
        BY <1>a
      <3> QED
        BY <2>8, <3>1 DEF GreetBegin
    <2>9. ASSUME NEW m \in Conn, GreetVisit(c, m) PROVE BlockedInv'
      BY <2>9 DEF GreetVisit, arePacketsSkippedPlayer, Placed, ReadersHold
    <2>10. CASE GreetEnd(c)
      BY <2>10 DEF GreetEnd, RUnlock
    <2>11. CASE ShareSkipped(c)
      BY <2>11 DEF ShareSkipped, AfterShare, Sharing
    <2>12. CASE ShareBegin(c)
      <3>1. \A m \in members[roomID[c]] : m \in Conn /\ Known(m)
        BY <1>a
      <3> QED
        BY <2>12, <3>1 DEF ShareBegin
    <2>13. ASSUME NEW m \in Conn, ShareVisit(c, m) PROVE BlockedInv'
      BY <2>13 DEF ShareVisit, arePacketsSkippedPlayer, Sharing
    <2>14. CASE ShareSend(c)
      BY <2>14 DEF ShareSend, Send
    <2>15. CASE ShareEnd(c)
      BY <2>15 DEF ShareEnd, RUnlock, AfterShare, Sharing
    <2>16. CASE OnCloseDeregister(c)
      BY <2>16 DEF OnCloseDeregister, Deregister
    <2>17. CASE OnCloseOutbox(c)
      BY <2>17 DEF OnCloseOutbox, Silent
    <2> QED
      BY <1>2, <2>1, <2>2, <2>3, <2>4, <2>5, <2>6, <2>7, <2>8, <2>9, <2>10, <2>11, <2>12,
         <2>13, <2>14, <2>15, <2>16, <2>17 DEF ServerStep
  <1>3. ASSUME NEW c \in Conn, ClientStep(c) PROVE BlockedInv'
    <2>1. ASSUME NEW r \in Room \cup {None}, AuthorizeNoRoom(c, r) PROVE BlockedInv'
      BY <2>1 DEF AuthorizeNoRoom
    <2>2. ASSUME NEW r \in Room \cup {None}, SwitchRoom(c, r) PROVE BlockedInv'
      BY <2>2 DEF SwitchRoom
    <2>3. ASSUME NEW u \in Account \cup {c}, NEW r \in Room \cup {None}, NEW fails \in BOOLEAN,
                 AuthorizeLookup(c, u, r, fails)
          PROVE  BlockedInv'
      BY <2>3 DEF AuthorizeLookup
    <2>4. CASE UpgradeFails(c)
      BY <2>4 DEF UpgradeFails
    <2>5. CASE ConnectionLost(c)
      BY <2>5 DEF ConnectionLost
    <2> QED
      BY <1>3, <2>1, <2>2, <2>3, <2>4, <2>5 DEF ClientStep
  <1>4. ASSUME NEW c \in Conn, Flush(c) PROVE BlockedInv'
    BY <1>4 DEF Flush, Screen, Silent
  <1> QED
    BY <1>1, <1>2, <1>3, <1>4 DEF Next, ConnNext, AllGone

\* As long as no blocklist changes, nobody is ever shown a player it blocked
\* or that blocked it.
THEOREM BlockedHidden == Spec => []BlockedNeverShown
  <1>1. Init /\ [][Next]_vars => []BlockedInv
    BY Invariance, InitBlocked, BlockedStep, PTL DEF Spec
  <1>2. IInv /\ BlockedInv => BlockedNeverShown
    BY DEF IInv, TypeOK, BlockedInv, OnTheWay, BlockedNeverShown
  <1> QED
    BY <1>1, <1>2, Invariance, PTL DEF Spec

-----------------------------------------------------------------------------
(* The screens: two players who settle in one room see each other.          *)

\* c has yet to gather m's intro, or to queue what it gathered.
ToGreet(c, m) ==
    \/ pc[c] = "setid"
    \/ pc[c] = "greet" /\ (c \notin reading \/ m \in todo[c] \/ m \in intro[c])

\* m has yet to share its own intro with c.
ToShow(m, c) ==
    \/ pc[m] \in {"setid", "greet"}
    \/ pc[m] = "show" /\ (m \notin reading \/ c \in todo[m] \/ chosen[m] = c)

\* m is about to leave the room (or to enter it again), or has a cleared
\* screen: either way its handler comes to setRoom or OnClose.
Departing(c) == pc[c] \in {"hide", "inform", "unset", "leave"}

\* c is shown m, or will be before the handlers that run are done.
Told(c, m) == Departing(c) \/ Departing(m) \/ ToGreet(c, m) \/ ToShow(m, c) \/ m \in Screen(c)

Meets(c, m) == ~arePacketsSkippedPlayer(c, m) => Told(c, m)

MeetInv == \A r \in Room \ SPMaps : \A c, m \in members[r] : Meets(c, m)

\* At the start nobody is in a room, so nobody has to meet.
LEMMA InitMeet == Init => MeetInv
  BY DEF Init, MeetInv

\* No step of a handler loses an introduction, save when it looks at blocklists
\* that nobody is changing and finds that packets are skipped.
LEMMA ToldStep ==
    ASSUME IInv, [Next]_vars,
           NEW r \in Room \ SPMaps, NEW x \in members'[r], NEW y \in members'[r]
    PROVE  \/ Told(x, y)'
           \/ /\ x \in members[r] /\ y \in members[r]
              /\ Told(x, y) => arePacketsSkippedPlayer(x, y) /\ BlocklistsFree(x, y)
  <1> DEFINE Kept == \/ Told(x, y)'
                     \/ /\ x \in members[r] /\ y \in members[r]
                        /\ Told(x, y) => arePacketsSkippedPlayer(x, y) /\ BlocklistsFree(x, y)
  <1> SUFFICES Kept
    OBVIOUS
  <1>a. x \in Conn /\ y \in Conn
    BY TypeStep DEF IInv, TypeOK
  <1>b. x \in members[r] => At(x, r)
    BY MemberAt
  <1>c. y \in members[r] => At(y, r)
    BY MemberAt
  <1> USE RoomAssumption DEF IInv, TypeOK, Goto, registryVars, lockVars, dataVars, localVars,
        viewVars, Told, ToGreet, ToShow, Departing, Screen, At,
        arePacketsSkippedPlayer, hasBlocked, BlocklistsFree
  <1>1. CASE UNCHANGED vars
    BY <1>a, <1>b, <1>c, <1>1 DEF vars
  <1>2. ASSUME NEW c \in Conn, ServerStep(c) PROVE Kept
    <2>1. CASE AuthorizeCheck(c)
      BY <1>a, <1>b, <1>c, <2>1 DEF AuthorizeCheck
    <2>2. CASE OnOpenTwice(c)
      BY <1>a, <1>b, <1>c, <2>2 DEF OnOpenTwice, DoubleCheck
    <2>3. CASE OnOpenRegister(c)
      BY <1>a, <1>b, <1>c, <2>3 DEF OnOpenRegister, DoubleCheck
    <2>4. CASE SendRoomInfo(c)
      BY <1>a, <1>b, <1>c, <2>4 DEF SendRoomInfo
    <2>5. CASE unsetRoom(c)
      BY <1>a, <1>b, <1>c, <2>5 DEF unsetRoom, RemoveMember, AfterUnset, RoomFree
    <2>6. CASE setRoomJoin(c)
      BY <1>a, <1>b, <1>c, <2>6 DEF setRoomJoin, RoomFree
    <2>7. CASE setRoomID(c)
      BY <1>a, <1>b, <1>c, <2>7 DEF setRoomID, AfterRoomID, Sharing, Placed, ReadersHold
    <2>8. CASE GreetBegin(c)
      BY <1>a, <1>b, <1>c, <2>8 DEF GreetBegin, Placed, ReadersHold
    <2>9. ASSUME NEW m \in Conn, GreetVisit(c, m) PROVE Kept
      BY <1>a, <1>b, <1>c, <2>9 DEF GreetVisit
    <2>10. CASE GreetEnd(c)
      BY <1>a, <1>b, <1>c, <2>10 DEF GreetEnd, RUnlock
    <2>11. CASE ShareSkipped(c)
      BY <1>a, <1>b, <1>c, <2>11 DEF ShareSkipped, AfterShare, Sharing
    <2>12. CASE ShareBegin(c)
      BY <1>a, <1>b, <1>c, <2>12 DEF ShareBegin, Sharing
    <2>13. ASSUME NEW m \in Conn, ShareVisit(c, m) PROVE Kept
      BY <1>a, <1>b, <1>c, <2>13 DEF ShareVisit, Sharing
    <2>14. CASE ShareSend(c)
      BY <1>a, <1>b, <1>c, <2>14 DEF ShareSend, Send, Word, Sharing, Placed, ReadersHold
    <2>15. CASE ShareEnd(c)
      BY <1>a, <1>b, <1>c, <2>15 DEF ShareEnd, RUnlock, AfterShare, Sharing
    <2>16. CASE OnCloseDeregister(c)
      BY <1>a, <1>b, <1>c, <2>16 DEF OnCloseDeregister, Deregister
    <2>17. CASE OnCloseOutbox(c)
      BY <1>a, <1>b, <1>c, <2>17 DEF OnCloseOutbox, Silent
    <2> QED
      BY <1>2, <2>1, <2>2, <2>3, <2>4, <2>5, <2>6, <2>7, <2>8, <2>9, <2>10, <2>11, <2>12,
         <2>13, <2>14, <2>15, <2>16, <2>17 DEF ServerStep
  <1>3. ASSUME NEW c \in Conn, ClientStep(c) PROVE Kept
    <2>1. ASSUME NEW q \in Room \cup {None}, AuthorizeNoRoom(c, q) PROVE Kept
      BY <1>a, <1>b, <1>c, <2>1 DEF AuthorizeNoRoom
    <2>2. ASSUME NEW q \in Room \cup {None}, SwitchRoom(c, q) PROVE Kept
      BY <1>a, <1>b, <1>c, <2>2 DEF SwitchRoom
    <2>3. ASSUME NEW u \in Account \cup {c}, NEW q \in Room \cup {None}, NEW fails \in BOOLEAN,
                 AuthorizeLookup(c, u, q, fails)
          PROVE  Kept
      BY <1>a, <1>b, <1>c, <2>3 DEF AuthorizeLookup
    <2>4. CASE UpgradeFails(c)
      BY <1>a, <1>b, <1>c, <2>4 DEF UpgradeFails
    <2>5. CASE ConnectionLost(c)
      BY <1>a, <1>b, <1>c, <2>5 DEF ConnectionLost
    <2> HIDE DEF Told
    <2> QED
      BY <1>3, <2>1, <2>2, <2>3, <2>4, <2>5 DEF ClientStep
  <1>4. ASSUME NEW c \in Conn, Flush(c) PROVE Kept
    BY <1>a, <1>b, <1>c, <1>4 DEF Flush, Silent
  <1> QED
    BY <1>1, <1>2, <1>3, <1>4 DEF Next, ConnNext, AllGone

\* Who is past Authorize keeps its identity and its blocklist, and who is past
\* the double-check remains known.
LEMMA KnownStep ==
    ASSUME [Next]_vars, TypeOK, NEW x \in Conn, pc[x] # "new"
    PROVE  /\ uuid'[x] = uuid[x] /\ blocklist'[x] = blocklist[x]
           /\ Known(x) => Known(x)'
  <1> DEFINE Kept == /\ uuid'[x] = uuid[x] /\ blocklist'[x] = blocklist[x]
                     /\ Known(x) => Known(x)'
  <1> SUFFICES Kept
    OBVIOUS
  <1> USE RoomAssumption DEF TypeOK, Goto, registryVars, lockVars, dataVars, localVars, viewVars, Known
  <1>1. CASE UNCHANGED vars
    BY <1>1 DEF vars
  <1>2. ASSUME NEW c \in Conn, ServerStep(c) PROVE Kept
    <2>1. CASE AuthorizeCheck(c)
      BY <2>1 DEF AuthorizeCheck
    <2>2. CASE OnOpenTwice(c)
      BY <2>2 DEF OnOpenTwice, DoubleCheck
    <2>3. CASE OnOpenRegister(c)
      BY <2>3 DEF OnOpenRegister, DoubleCheck
    <2>4. CASE SendRoomInfo(c)
      BY <2>4 DEF SendRoomInfo
    <2>5. CASE unsetRoom(c)
      BY <2>5 DEF unsetRoom, RemoveMember, AfterUnset, RoomFree
    <2>6. CASE setRoomJoin(c)
      BY <2>6 DEF setRoomJoin, RoomFree
    <2>7. CASE setRoomID(c)
      BY <2>7 DEF setRoomID, AfterRoomID, Sharing
    <2>8. CASE GreetBegin(c)
      BY <2>8 DEF GreetBegin
    <2>9. ASSUME NEW m \in Conn, GreetVisit(c, m) PROVE Kept
      BY <2>9 DEF GreetVisit
    <2>10. CASE GreetEnd(c)
      BY <2>10 DEF GreetEnd, RUnlock
    <2>11. CASE ShareSkipped(c)
      BY <2>11 DEF ShareSkipped, AfterShare, Sharing
    <2>12. CASE ShareBegin(c)
      BY <2>12 DEF ShareBegin, Sharing
    <2>13. ASSUME NEW m \in Conn, ShareVisit(c, m) PROVE Kept
      BY <2>13 DEF ShareVisit, Sharing
    <2>14. CASE ShareSend(c)
      BY <2>14 DEF ShareSend, Send, Word, Sharing
    <2>15. CASE ShareEnd(c)
      BY <2>15 DEF ShareEnd, RUnlock, AfterShare, Sharing
    <2>16. CASE OnCloseDeregister(c)
      BY <2>16 DEF OnCloseDeregister, Deregister
    <2>17. CASE OnCloseOutbox(c)
      BY <2>17 DEF OnCloseOutbox, Silent
    <2> QED
      BY <1>2, <2>1, <2>2, <2>3, <2>4, <2>5, <2>6, <2>7, <2>8, <2>9, <2>10, <2>11, <2>12,
         <2>13, <2>14, <2>15, <2>16, <2>17 DEF ServerStep
  <1>3. ASSUME NEW c \in Conn, ClientStep(c) PROVE Kept
    <2>1. ASSUME NEW q \in Room \cup {None}, AuthorizeNoRoom(c, q) PROVE Kept
      BY <2>1 DEF AuthorizeNoRoom
    <2>2. ASSUME NEW q \in Room \cup {None}, SwitchRoom(c, q) PROVE Kept
      BY <2>2 DEF SwitchRoom
    <2>3. ASSUME NEW u \in Account \cup {c}, NEW q \in Room \cup {None}, NEW fails \in BOOLEAN,
                 AuthorizeLookup(c, u, q, fails)
          PROVE  Kept
      BY <2>3 DEF AuthorizeLookup
    <2>4. CASE UpgradeFails(c)
      BY <2>4 DEF UpgradeFails
    <2>5. CASE ConnectionLost(c)
      BY <2>5 DEF ConnectionLost
    <2> HIDE DEF Known
    <2> QED
      BY <1>3, <2>1, <2>2, <2>3, <2>4, <2>5 DEF ClientStep
  <1>4. ASSUME NEW c \in Conn, Flush(c) PROVE Kept
    BY <1>4 DEF Flush, Silent
  <1> QED
    BY <1>1, <1>2, <1>3, <1>4 DEF Next, ConnNext, AllGone

\* No step of a handler loses the introduction two roommates still need.
LEMMA MeetStep == IInv /\ MeetInv /\ [Next]_vars => MeetInv'
  <1> SUFFICES ASSUME IInv, MeetInv, [Next]_vars,
                      NEW r \in Room \ SPMaps, NEW x \in members'[r], NEW y \in members'[r],
                      ~Told(x, y)'
               PROVE  arePacketsSkippedPlayer(x, y)'
    BY DEF MeetInv, Meets
  <1>1. x \in members[r] /\ y \in members[r]
    BY ToldStep
  <1>2. arePacketsSkippedPlayer(x, y)
    BY <1>1, ToldStep DEF MeetInv, Meets
  <1>3. At(x, r) /\ At(y, r)
    BY <1>1, MemberAt
  <1> QED
    BY <1>2, <1>3, KnownStep DEF At, IInv, arePacketsSkippedPlayer, hasBlocked

\* Once the handlers are done, every player sees everyone in its room, save
\* those it blocked or that blocked it.
THEOREM RoommatesMeet == Spec => []RoommatesShown
  <1>1. Init /\ [][Next]_vars => []MeetInv
    BY Invariance, InitMeet, MeetStep, PTL DEF Spec
  <1>2. ASSUME IInv, MeetInv, Settled, NEW c \in Conn, NEW m \in Conn, Visible(c, m)
        PROVE  m \in shown[c]
    <2>1. pc[c] = "ready" /\ pc[m] = "ready" /\ ~arePacketsSkippedPlayer(c, m)
      BY <1>2 DEF Visible
    <2>2. roomID[c] \in Room \ SPMaps /\ roomID[m] = roomID[c]
      BY <1>2 DEF Visible, IInv, TypeOK
    <2>3. c \in members[roomID[c]] /\ m \in members[roomID[c]]
      BY <1>2, <2>1, <2>2 DEF IInv, Placed, MembershipSound
    <2>4. m \in Screen(c)
      BY <1>2, <2>1, <2>2, <2>3 DEF MeetInv, Meets, Told, Departing, ToGreet, ToShow
    <2> QED
      BY <1>2, <2>4 DEF Screen, Settled, Silent
  <1>3. IInv /\ MeetInv => RoommatesShown
    BY <1>2 DEF RoommatesShown
  <1> QED
    BY <1>1, <1>3, Invariance, PTL DEF Spec
-----------------------------------------------------------------------------
(* The screens: who leaves the game disappears from them.                   *)

\* m's intro is on c's screen, or will be once what is under way has reached it.
WillShow(c, m) ==
    m \in Screen(c) \/ m \in intro[c] \/ (pc[m] = "show" /\ chosen[m] = c)

\* m has yet to tell c that it leaves.
ToHide(m, c) ==
    \/ pc[m] \in {"setid", "greet", "show", "ready", "leave", "deregister", "close"}
    \/ pc[m] = "gone" /\ (m \notin reading \/ c \in todo[m] \/ chosen[m] = c)

\* A newcomer looks at members of its room only, and holds on to them.
GreeterHolds(c) ==
    /\ pc[c] = "greet" \/ c \in reading => roomID[c] \notin SPMaps
    /\ pc[c] = "greet" /\ c \in reading => todo[c] \subseteq members[roomID[c]]
    /\ intro[c] # {} => c \in reading /\ pc[c] = "greet" /\ intro[c] \subseteq members[roomID[c]]

GreetersHold == \A c \in Conn : GreeterHolds(c)

\* Nobody is on the way to another room, or enters the one it is in again.
Stays(c) ==
    /\ pc[c] # "hide" /\ dest[c] = roomID[c]
    /\ pc[c] \in {"inform", "unset"} => \A r \in Room : c \notin members[r]

Staying == \A c \in Conn : Stays(c)

Exact(c, m) ==
    WillShow(c, m) /\ pc[c] \notin Leaving \cup {"closed"} =>
        /\ m # c /\ roomID[m] = roomID[c] /\ roomID[c] \notin SPMaps
        /\ pc[c] \in {"setid", "greet", "show", "ready"}
        /\ ToHide(m, c)

\* While nobody switches rooms, whoever is or will be on the screen of a player
\* is in the same room and has yet to tell that it leaves.
ExactInv ==
    /\ GreetersHold
    /\ NobodySwitched => Staying
    /\ NobodySwitched => \A c, m \in Conn : Exact(c, m)

\* At the start nobody greets and no screen will show anybody.
LEMMA InitExact == Init => ExactInv
  BY RoomAssumption
  DEF Init, ExactInv, GreetersHold, GreeterHolds, Staying, Stays, Exact, WillShow, Screen, Silent, Leaving

\* No step lets a member go that a newcomer looks at.
LEMMA GreetersStep == IInv /\ GreetersHold /\ [Next]_vars => GreetersHold'
  <1> SUFFICES ASSUME IInv, GreetersHold, [Next]_vars, NEW x \in Conn PROVE GreeterHolds(x)'
    BY DEF GreetersHold
  <1>a. GreeterHolds(x)
    BY DEF GreetersHold
  <1>b. x \in reading => pc[x] \in Sharing \cup {"greet"}
    BY DEF IInv, Placed, ReadersHold
  <1>c. pc[x] = "greet" => dest[x] = roomID[x]
    BY DEF IInv, Placed, ReadersHold
  <1> USE RoomAssumption DEF IInv, TypeOK, Goto, registryVars, lockVars,
        dataVars, localVars, viewVars, GreeterHolds
  <1>1. CASE UNCHANGED vars
    BY <1>a, <1>1 DEF vars
  <1>2. ASSUME NEW c \in Conn, ServerStep(c) PROVE GreeterHolds(x)'
    <2>1. CASE AuthorizeCheck(c)
      BY <1>a, <2>1 DEF AuthorizeCheck
    <2>2. CASE OnOpenTwice(c)
      BY <1>a, <2>2 DEF OnOpenTwice, DoubleCheck
    <2>3. CASE OnOpenRegister(c)
      BY <1>a, <2>3 DEF OnOpenRegister, DoubleCheck
    <2>4. CASE SendRoomInfo(c)
      BY <1>a, <2>4 DEF SendRoomInfo
    <2>5. CASE unsetRoom(c)
      BY <1>a, <2>5 DEF unsetRoom, RemoveMember, AfterUnset, RoomFree
    <2>6. CASE setRoomJoin(c)
      BY <1>a, <2>6 DEF setRoomJoin, RoomFree
    <2>7. CASE setRoomID(c)
      BY <1>a, <1>b, <2>7 DEF setRoomID, AfterRoomID, Sharing
    <2>8. CASE GreetBegin(c)
      BY <1>a, <1>c, <2>8 DEF GreetBegin
    <2>9. ASSUME NEW m \in Conn, GreetVisit(c, m) PROVE GreeterHolds(x)'
      BY <1>a, <2>9 DEF GreetVisit
    <2>10. CASE GreetEnd(c)
      BY <1>a, <2>10 DEF GreetEnd, RUnlock
    <2>11. CASE ShareSkipped(c)
      BY <1>a, <2>11 DEF ShareSkipped, AfterShare, Sharing
    <2>12. CASE ShareBegin(c)
      BY <1>a, <2>12 DEF ShareBegin, Sharing
    <2>13. ASSUME NEW m \in Conn, ShareVisit(c, m) PROVE GreeterHolds(x)'
      BY <1>a, <2>13 DEF ShareVisit, Sharing
    <2>14. CASE ShareSend(c)
      BY <1>a, <2>14 DEF ShareSend, Send, Word, Sharing
    <2>15. CASE ShareEnd(c)
      BY <1>a, <2>15 DEF ShareEnd, RUnlock, AfterShare, Sharing
    <2>16. CASE OnCloseDeregister(c)
      BY <1>a, <2>16 DEF OnCloseDeregister, Deregister
    <2>17. CASE OnCloseOutbox(c)
      BY <1>a, <2>17 DEF OnCloseOutbox, Silent
    <2> QED
      BY <1>2, <2>1, <2>2, <2>3, <2>4, <2>5, <2>6, <2>7, <2>8, <2>9, <2>10, <2>11, <2>12,
         <2>13, <2>14, <2>15, <2>16, <2>17 DEF ServerStep
  <1>3. ASSUME NEW c \in Conn, ClientStep(c) PROVE GreeterHolds(x)'
    <2>1. ASSUME NEW q \in Room \cup {None}, AuthorizeNoRoom(c, q) PROVE GreeterHolds(x)'
      BY <1>a, <2>1 DEF AuthorizeNoRoom
    <2>2. ASSUME NEW q \in Room \cup {None}, SwitchRoom(c, q) PROVE GreeterHolds(x)'
      BY <1>a, <2>2 DEF SwitchRoom
    <2>3. ASSUME NEW u \in Account \cup {c}, NEW q \in Room \cup {None}, NEW fails \in BOOLEAN,
                 AuthorizeLookup(c, u, q, fails)
          PROVE  GreeterHolds(x)'
      BY <1>a, <1>b, <2>3 DEF AuthorizeLookup, Sharing
    <2>4. CASE UpgradeFails(c)
      BY <1>a, <2>4 DEF UpgradeFails
    <2>5. CASE ConnectionLost(c)
      BY <1>a, <2>5 DEF ConnectionLost
    <2> HIDE DEF GreeterHolds
    <2> QED
      BY <1>3, <2>1, <2>2, <2>3, <2>4, <2>5 DEF ClientStep
  <1>4. ASSUME NEW c \in Conn, Flush(c) PROVE GreeterHolds(x)'
    BY <1>a, <1>4 DEF Flush, Silent
  <1> QED
    BY <1>1, <1>2, <1>3, <1>4 DEF Next, ConnNext, AllGone

\* Who has not switched has not done so before, and stays where it is.
LEMMA StayingStep ==
    IInv /\ (NobodySwitched => Staying) /\ [Next]_vars /\ NobodySwitched' =>
        NobodySwitched /\ Staying'
  <1> SUFFICES ASSUME IInv, NobodySwitched => Staying, [Next]_vars, NobodySwitched', NEW x \in Conn
               PROVE  switches[x] = 0 /\ (Stays(x) => Stays(x)')
    BY DEF NobodySwitched, Staying
  <1> DEFINE Goal == switches[x] = 0 /\ (Stays(x) => Stays(x)')
  <1>a. switches'[x] = 0
    BY DEF NobodySwitched
  <1>b. \A r \in Room : x \in members[r] => At(x, r)
    BY MemberAt
  <1> USE RoomAssumption DEF IInv, TypeOK, Goto, registryVars, lockVars, dataVars, localVars,
        viewVars, Stays, At
  <1>1. CASE UNCHANGED vars
    BY <1>a, <1>1 DEF vars
  <1>2. ASSUME NEW c \in Conn, ServerStep(c) PROVE Goal
    <2>1. CASE AuthorizeCheck(c)
      BY <1>a, <2>1 DEF AuthorizeCheck
    <2>2. CASE OnOpenTwice(c)
      BY <1>a, <2>2 DEF OnOpenTwice, DoubleCheck
    <2>3. CASE OnOpenRegister(c)
      BY <1>a, <1>b, <2>3 DEF OnOpenRegister, DoubleCheck
    <2>4. CASE SendRoomInfo(c)
      BY <1>a, <2>4 DEF SendRoomInfo
    <2>5. CASE unsetRoom(c)
      BY <1>a, <2>5 DEF unsetRoom, RemoveMember, AfterUnset, RoomFree
    <2>6. CASE setRoomJoin(c)
      BY <1>a, <2>6 DEF setRoomJoin, RoomFree
    <2>7. CASE setRoomID(c)
      BY <1>a, <2>7 DEF setRoomID, AfterRoomID, Sharing
    <2>8. CASE GreetBegin(c)
      BY <1>a, <2>8 DEF GreetBegin
    <2>9. ASSUME NEW m \in Conn, GreetVisit(c, m) PROVE Goal
      BY <1>a, <2>9 DEF GreetVisit
    <2>10. CASE GreetEnd(c)
      BY <1>a, <2>10 DEF GreetEnd, RUnlock
    <2>11. CASE ShareSkipped(c)
      BY <1>a, <2>11 DEF ShareSkipped, AfterShare, Sharing
    <2>12. CASE ShareBegin(c)
      BY <1>a, <2>12 DEF ShareBegin, Sharing
    <2>13. ASSUME NEW m \in Conn, ShareVisit(c, m) PROVE Goal
      BY <1>a, <2>13 DEF ShareVisit, Sharing
    <2>14. CASE ShareSend(c)
      BY <1>a, <2>14 DEF ShareSend, Send, Word, Sharing
    <2>15. CASE ShareEnd(c)
      BY <1>a, <2>15 DEF ShareEnd, RUnlock, AfterShare, Sharing
    <2>16. CASE OnCloseDeregister(c)
      BY <1>a, <2>16 DEF OnCloseDeregister, Deregister
    <2>17. CASE OnCloseOutbox(c)
      BY <1>a, <2>17 DEF OnCloseOutbox, Silent
    <2> QED
      BY <1>2, <2>1, <2>2, <2>3, <2>4, <2>5, <2>6, <2>7, <2>8, <2>9, <2>10, <2>11, <2>12,
         <2>13, <2>14, <2>15, <2>16, <2>17 DEF ServerStep
  <1>3. ASSUME NEW c \in Conn, ClientStep(c) PROVE Goal
    <2>1. ASSUME NEW q \in Room \cup {None}, AuthorizeNoRoom(c, q) PROVE Goal
      BY <1>a, <2>1 DEF AuthorizeNoRoom
    <2>2. ASSUME NEW q \in Room \cup {None}, SwitchRoom(c, q) PROVE Goal
      BY <1>a, <2>2 DEF SwitchRoom
    <2>3. ASSUME NEW u \in Account \cup {c}, NEW q \in Room \cup {None}, NEW fails \in BOOLEAN,
                 AuthorizeLookup(c, u, q, fails)
          PROVE  Goal
      BY <1>a, <2>3 DEF AuthorizeLookup
    <2>4. CASE UpgradeFails(c)
      BY <1>a, <2>4 DEF UpgradeFails
    <2>5. CASE ConnectionLost(c)
      BY <1>a, <2>5 DEF ConnectionLost
    <2> HIDE DEF Stays
    <2> QED
      BY <1>3, <2>1, <2>2, <2>3, <2>4, <2>5 DEF ClientStep
  <1>4. ASSUME NEW c \in Conn, Flush(c) PROVE Goal
    BY <1>a, <1>4 DEF Flush, Silent
  <1> QED
    BY <1>1, <1>2, <1>3, <1>4 DEF Next, ConnNext, AllGone

\* No step shows a player that has no word to come of its leaving.
LEMMA ExactStep ==
    IInv /\ BlockedInv /\ GreetersHold /\ [Next]_vars /\ NobodySwitched'
        /\ Staying /\ Staying' /\ (\A c, m \in Conn : Exact(c, m))
        => \A c, m \in Conn : Exact(c, m)'
  <1> SUFFICES ASSUME IInv, BlockedInv, GreetersHold, [Next]_vars, NobodySwitched',
                      Staying, Staying', NEW x \in Conn, NEW y \in Conn, Exact(x, y)
               PROVE  Exact(x, y)'
    OBVIOUS
  <1>a. Stays(x) /\ Stays(y) /\ Stays(x)' /\ Stays(y)'
    BY DEF Staying
  <1>b. switches'[x] = 0 /\ switches'[y] = 0 /\ \A c \in Conn : switches'[c] = 0
    BY DEF NobodySwitched
  <1>c. GreeterHolds(x)
    BY DEF GreetersHold
  <1>d. GreeterHolds(y)
    BY DEF GreetersHold
  <1>f. /\ y \in reading => pc[y] \in Sharing \cup {"greet"}
        /\ y \in reading /\ pc[y] \in Sharing => todo[y] \subseteq members[roomID[y]]
        /\ chosen[y] # None => y \in reading /\ pc[y] \in Sharing /\ chosen[y] \in members[roomID[y]]
    BY DEF IInv, Placed, ReadersHold
  <1>g. \A r \in Room : x \in members[r] => At(x, r)
    BY MemberAt
  <1>h. \A r \in Room : y \in members[r] => At(y, r)
    BY MemberAt
  <1>i. pc[x] \in {"setid", "greet", "show", "ready"} => x \in members[roomID[x]]
    BY <1>a DEF IInv, Placed, MembershipSound, Stays
  <1>j. WillShow(x, y) => ~hasBlocked(x, y) /\ ~hasBlocked(y, x)
    BY DEF WillShow, BlockedInv, OnTheWay, Screen, IInv, TypeOK
  <1> USE RoomAssumption DEF IInv, TypeOK, Goto, registryVars, lockVars, dataVars, localVars,
        viewVars, Exact, WillShow, ToHide, Screen, Leaving
  <1>1. CASE UNCHANGED vars
    BY <1>1 DEF vars
  <1>2. ASSUME NEW c \in Conn, ServerStep(c) PROVE Exact(x, y)'
    <2>1. CASE AuthorizeCheck(c)
      BY <2>1 DEF AuthorizeCheck
    <2>2. CASE OnOpenTwice(c)
      BY <2>2 DEF OnOpenTwice, DoubleCheck
    <2>3. CASE OnOpenRegister(c)
      BY <2>3 DEF OnOpenRegister, DoubleCheck
    <2>4. CASE SendRoomInfo(c)
      BY <2>4 DEF SendRoomInfo
    <2>5. CASE unsetRoom(c)
      BY <2>5 DEF unsetRoom, RemoveMember, AfterUnset, RoomFree
    <2>6. CASE setRoomJoin(c)
      BY <2>6 DEF setRoomJoin, RoomFree
    <2>7. CASE setRoomID(c)
      <3>1. roomID'[x] = roomID[x] /\ roomID'[y] = roomID[y]
        BY <1>a, <2>7 DEF setRoomID, Stays
      <3>2. WillShow(x, y)' => WillShow(x, y)
        BY <1>f, <2>7 DEF setRoomID, AfterRoomID, Sharing
      <3> QED
        BY <3>1, <3>2, <2>7 DEF setRoomID, AfterRoomID, Sharing
    <2>8. CASE GreetBegin(c)
      BY <2>8 DEF GreetBegin
    <2>9. ASSUME NEW m \in Conn, GreetVisit(c, m) PROVE Exact(x, y)'
      <3>1. CASE c = x /\ m = y /\ ~arePacketsSkippedPlayer(x, y)
        <4>1. y \in members[roomID[x]] /\ roomID[x] \notin SPMaps
          BY <1>c, <2>9, <3>1 DEF GreetVisit, GreeterHolds
        <4>2. At(y, roomID[x])
          BY <1>h, <4>1
        <4>3. roomID[y] = roomID[x] /\ pc[y] \in {"setid", "greet", "show", "ready", "leave"}
          BY <1>a, <4>1, <4>2 DEF At, Stays
        <4> QED
          BY <2>9, <3>1, <4>1, <4>3 DEF GreetVisit, arePacketsSkippedPlayer
      <3>2. CASE ~(c = x /\ m = y /\ ~arePacketsSkippedPlayer(x, y))
        <4>1. WillShow(x, y)' => WillShow(x, y)
          BY <2>9, <3>2 DEF GreetVisit
        <4> QED
          BY <2>9, <4>1 DEF GreetVisit
      <3> QED
        BY <3>1, <3>2
    <2>10. CASE GreetEnd(c)
      <3>1. pending'[x][y] \in {pending[x][y], "Connect"} /\ (pending'[x][y] # pending[x][y] => y \in intro[x])
        BY <2>10 DEF GreetEnd
      <3>2. WillShow(x, y)' => WillShow(x, y)
        BY <1>f, <2>10, <3>1 DEF GreetEnd, RUnlock, Sharing
      <3> QED
        BY <2>10, <3>2 DEF GreetEnd, RUnlock, Sharing
    <2>11. CASE ShareSkipped(c)
      BY <2>11 DEF ShareSkipped, AfterShare, Sharing
    <2>12. CASE ShareBegin(c)
      BY <1>i, <2>12 DEF ShareBegin, Sharing
    <2>13. ASSUME NEW m \in Conn, ShareVisit(c, m) PROVE Exact(x, y)'
      <3>1. CASE c = y /\ m = x /\ ~arePacketsSkippedPlayer(y, x) /\ pc[y] = "show"
        <4>1. x \in members[roomID[y]] /\ roomID[y] \notin SPMaps
          BY <1>d, <1>f, <2>13, <3>1 DEF ShareVisit, GreeterHolds
        <4>2. At(x, roomID[y])
          BY <1>g, <4>1
        <4>3. roomID[y] = roomID[x] /\ pc[x] \in {"setid", "greet", "show", "ready", "leave"}
          BY <1>a, <4>1, <4>2 DEF At, Stays
        <4> QED
          BY <2>13, <3>1, <4>1, <4>3 DEF ShareVisit, arePacketsSkippedPlayer
      <3>2. CASE ~(c = y /\ m = x /\ ~arePacketsSkippedPlayer(y, x) /\ pc[y] = "show")
        <4>1. WillShow(x, y)' => WillShow(x, y)
          BY <2>13, <3>2 DEF ShareVisit
        <4>2. WillShow(x, y) /\ ToHide(y, x) /\ y # x => ToHide(y, x)'
          BY <1>j, <2>13 DEF ShareVisit, arePacketsSkippedPlayer
        <4> QED
          BY <2>13, <4>1, <4>2 DEF ShareVisit
      <3> QED
        BY <3>1, <3>2
    <2>14. CASE ShareSend(c)
      <3>1. c # y => WillShow(x, y)' = WillShow(x, y) /\ ToHide(y, x)' = ToHide(y, x)
        BY <2>14 DEF ShareSend, Send
      <3>2. c = y /\ chosen[y] # x => WillShow(x, y)' = WillShow(x, y) /\ ToHide(y, x)' = ToHide(y, x)
        BY <2>14 DEF ShareSend, Send
      <3>3. CASE c = y /\ chosen[y] = x /\ pc[y] = "show"
        BY <2>14, <3>3 DEF ShareSend, Send
      <3>4. CASE c = y /\ chosen[y] = x /\ pc[y] = "gone"
        <4>1. y \notin intro[x]
          BY <1>c, <1>h, <3>4 DEF At, GreeterHolds
        <4>2. pending'[x][y] = "Disconnect"
          BY <2>14, <3>4 DEF ShareSend, Send, Word
        <4> QED
          BY <2>14, <3>4, <4>1, <4>2 DEF ShareSend
      <3>5. chosen[y] = x => pc[y] \in {"show", "gone"}
        BY <1>a, <1>f DEF Stays, Sharing
      <3> QED
        BY <2>14, <3>1, <3>2, <3>3, <3>4, <3>5 DEF ShareSend
    <2>15. CASE ShareEnd(c)
      BY <2>15 DEF ShareEnd, RUnlock, AfterShare, Sharing
    <2>16. CASE OnCloseDeregister(c)
      BY <2>16 DEF OnCloseDeregister, Deregister
    <2>17. CASE OnCloseOutbox(c)
      <3>1. c # x => pending'[x] = pending[x]
        BY <2>17 DEF OnCloseOutbox
      <3>2. c = x => pc'[x] = "gone"
        BY <2>17 DEF OnCloseOutbox
      <3>3. c # x => WillShow(x, y)' = WillShow(x, y)
        BY <2>17, <3>1 DEF OnCloseOutbox, Sharing
      <3>4. c # x /\ ToHide(y, x) => ToHide(y, x)'
        BY <1>f, <2>17 DEF OnCloseOutbox, Sharing
      <3> QED
        BY <2>17, <3>2, <3>3, <3>4 DEF OnCloseOutbox
    <2> QED
      BY <1>2, <2>1, <2>2, <2>3, <2>4, <2>5, <2>6, <2>7, <2>8, <2>9, <2>10, <2>11, <2>12,
         <2>13, <2>14, <2>15, <2>16, <2>17 DEF ServerStep
  <1>3. ASSUME NEW c \in Conn, ClientStep(c) PROVE Exact(x, y)'
    <2>1. ASSUME NEW q \in Room \cup {None}, AuthorizeNoRoom(c, q) PROVE Exact(x, y)'
      BY <2>1 DEF AuthorizeNoRoom
    <2>2. ASSUME NEW q \in Room \cup {None}, SwitchRoom(c, q) PROVE Exact(x, y)'
      BY <1>b, <2>2 DEF SwitchRoom
    <2>3. ASSUME NEW u \in Account \cup {c}, NEW q \in Room \cup {None}, NEW fails \in BOOLEAN,
                 AuthorizeLookup(c, u, q, fails)
          PROVE  Exact(x, y)'
      BY <2>3 DEF AuthorizeLookup
    <2>4. CASE UpgradeFails(c)
      BY <2>4 DEF UpgradeFails
    <2>5. CASE ConnectionLost(c)
      BY <2>5 DEF ConnectionLost
    <2> QED
      BY <1>3, <2>1, <2>2, <2>3, <2>4, <2>5 DEF ClientStep
  <1>4. ASSUME NEW c \in Conn, Flush(c) PROVE Exact(x, y)'
    BY <1>4 DEF Flush, Silent
  <1> QED
    BY <1>1, <1>2, <1>3, <1>4 DEF Next, ConnNext, AllGone


\* As long as nobody switches rooms, each screen shows, once the handlers are
\* done, the players in the same room that neither blocked the other, and no
\* one who left the game.
THEOREM ScreensCorrect == Spec => []ScreensExact
  <1>1. Init /\ [][Next]_vars => [](IInv /\ BlockedInv /\ ExactInv)
    <2>1. IInv /\ BlockedInv /\ ExactInv /\ [Next]_vars => ExactInv'
      BY GreetersStep, StayingStep, ExactStep DEF ExactInv
    <2> QED
      BY <2>1, Invariance, InitBlocked, BlockedStep, InitExact, PTL DEF Spec
  <1>2. ASSUME IInv, BlockedInv, ExactInv, Settled, NobodySwitched, NEW c \in Conn, NEW m \in shown[c],
               pc[c] = "ready"
        PROVE  Visible(c, m)
    <2>1. m \in Conn /\ OnTheWay(c, m) /\ WillShow(c, m)
      BY <1>2 DEF IInv, TypeOK, OnTheWay, WillShow, Screen, Settled, Silent
    <2>2. Exact(c, m)
      BY <1>2, <2>1 DEF ExactInv
    <2>3. m # c /\ roomID[m] = roomID[c] /\ roomID[c] \notin SPMaps /\ ToHide(m, c)
      BY <1>2, <2>1, <2>2 DEF Exact, Leaving
    <2>4. pc[m] = "ready"
      BY <1>2, <2>1, <2>3 DEF ToHide, Settled
    <2>5. ~hasBlocked(c, m) /\ ~hasBlocked(m, c)
      BY <1>2, <2>1 DEF BlockedInv
    <2> QED
      BY <1>2, <2>3, <2>4, <2>5 DEF Visible, arePacketsSkippedPlayer
  <1>3. IInv /\ BlockedInv /\ ExactInv /\ RoommatesShown => ScreensExact
    <2> SUFFICES ASSUME IInv, BlockedInv, ExactInv, RoommatesShown, Settled, NobodySwitched,
                        NEW c \in Conn, pc[c] = "ready"
                 PROVE  shown[c] = {m \in Conn : Visible(c, m)}
      BY DEF ScreensExact
    <2>1. shown[c] \subseteq Conn
      BY DEF IInv, TypeOK
    <2>2. \A m \in shown[c] : Visible(c, m)
      BY <1>2
    <2>3. \A m \in Conn : Visible(c, m) => m \in shown[c]
      BY DEF RoommatesShown
    <2> QED
      BY <2>1, <2>2, <2>3
  <1> QED
    BY <1>1, <1>3, RoommatesMeet, PTL DEF Spec
-----------------------------------------------------------------------------
(* BlockSync: the requests that change blocklists.                          *)

\* A request that has found its player's connection, and one that has found
\* the next player to tell, in the room's registry.
RequestsHold ==
    /\ \A q \in Req : rpc[q] = "lock" \/ Dispatching(q) => us[q] \in Conn /\ Known(us[q])
    /\ \A q \in Req : rpc[q] \in {"us", "them"} =>
          /\ them[q] \in Conn /\ Known(them[q])
          /\ word[q] = "Disconnect" => uuid[them[q]] \in list[q]
    /\ \A q \in Req : Dispatching(q) /\ word[q] = "Disconnect" => rtodo[q] \subseteq list[q]

\* Only one request at a time dispatches for a connection.
OneDispatches ==
    \A p, q \in Req : Dispatching(p) /\ Dispatching(q) /\ us[p] = us[q] => p = q

BlockIInv == BlockTypeOK /\ Placed /\ RequestsHold /\ OneDispatches

\* A request is about to store that c blocks m.
AboutToBlock(c, m) == \E q \in Req : Dispatching(q) /\ us[q] = c /\ uuid[m] \in list[q]

\* A request is about to store that x does not block y any more, and has been
\* to y in its second loop.
Passed(q, x, y) ==
    /\ Dispatching(q) /\ us[q] = x /\ word[q] = "Connect"
    /\ uuid[y] \notin list[q] \cup rtodo[q]

\* x blocks y, and no request has made up for what that keeps from c's screen.
Silenced(x, y, c) ==
    /\ hasBlocked(x, y)
    /\ \A q \in Req : Passed(q, x, y) =>
          them[q] = y /\ (rpc[q] = "us" \/ (rpc[q] = "them" /\ c = y))

MeetsMeanwhile(c, m) ==
    \/ c = m
    \/ Silenced(c, m, c) \/ Silenced(m, c, c)
    \/ AboutToBlock(c, m) \/ AboutToBlock(m, c)
    \/ Told(c, m)

MeetMeanwhileInv == \A r \in Room \ SPMaps : \A c, m \in members[r] : MeetsMeanwhile(c, m)

\* Before the first request nobody dispatches.
LEMMA InitRequests == BlockInit => BlockIInv
  <1> SUFFICES ASSUME BlockInit PROVE BlockIInv
    OBVIOUS
  <1>1. TypeOK /\ Placed
    BY InitTypeOK, InitPlaced DEF BlockInit
  <1>2. \A q \in Req : ~Dispatching(q) /\ rpc[q] = "idle"
    BY DEF BlockInit, Dispatching
  <1>3. BlockTypeOK
    BY <1>1, <1>2, ReqAssumption DEF BlockInit, BlockTypeOK, Init, RPCs
  <1> QED
    BY <1>1, <1>2, <1>3 DEF BlockIInv, RequestsHold, OneDispatches

\* The handlers leave the requests' locks alone.
LEMMA LocksStep == [Next]_vars => UNCHANGED lockVars
  BY DEF Next, ConnNext, AllGone, vars, ServerStep, ClientStep, AuthorizeCheck, OnOpenTwice,
     OnOpenRegister, SendRoomInfo, unsetRoom,
       setRoomJoin, setRoomID, GreetBegin, GreetVisit, GreetEnd, ShareSkipped, ShareBegin,
       ShareVisit, ShareSend, ShareEnd, OnCloseDeregister, OnCloseOutbox, AuthorizeNoRoom, SwitchRoom, AuthorizeLookup, UpgradeFails,
       ConnectionLost, Flush, lockVars

\* A request changes nothing of the registry and the rooms.
LEMMA RequestPlaced ==
    ASSUME IInv, UNCHANGED handlerVars,
           \A c \in Conn : outbox[c] # "served" => pending'[c] = pending[c]
    PROVE  Placed'
  <1>1. OutboxFollows' /\ BatchServed'
    BY DEF handlerVars, IInv, Placed, OutboxFollows, BatchServed
  <1>2. RegistryExact' /\ MembershipSound'
    BY DEF handlerVars, registryVars, localVars, IInv, Placed, RegistryExact, MembershipSound,
       Registered
  <1>3. ReadersHold'
    BY DEF handlerVars, registryVars, localVars, IInv, Placed, ReadersHold
  <1> QED
    BY <1>1, <1>2, <1>3 DEF Placed

\* No step of a handler disturbs a request.
LEMMA HandlerRequests == BlockIInv /\ [Next]_vars /\ UNCHANGED reqVars => BlockIInv'
  <1> SUFFICES ASSUME BlockIInv, [Next]_vars, UNCHANGED reqVars PROVE BlockIInv'
    OBVIOUS
  <1>1. IInv /\ TypeOK' /\ Placed'
    BY TypeStep, PlacedStep DEF IInv, BlockIInv, BlockTypeOK
  <1>2. \A q \in Req : Dispatching(q)' = Dispatching(q)
    BY DEF reqVars, Dispatching
  <1>3. BlockTypeOK'
    BY <1>1, <1>2, LocksStep DEF BlockIInv, BlockTypeOK, reqVars, askVars, lockVars
  <1>4. \A x \in Conn : Known(x) => Known(x)' /\ uuid'[x] = uuid[x]
    BY <1>1, KnownStep DEF IInv, Known
  <1>5. RequestsHold'
    BY <1>2, <1>4 DEF BlockIInv, RequestsHold, reqVars, askVars
  <1>6. OneDispatches'
    BY <1>2 DEF BlockIInv, OneDispatches, reqVars
  <1> QED
    BY <1>1, <1>3, <1>5, <1>6 DEF BlockIInv

\* A request changes nothing of the handlers' state but batches and blocklists,
\* and nothing of other requests.
LEMMA RequestFrame ==
    ASSUME BlockTypeOK, NEW q \in Req, ReqStep(q)
    PROVE  /\ UNCHANGED handlerVars
           /\ \A c \in Conn : outbox[c] # "served" => pending'[c] = pending[c]
           /\ \A p \in Req \ {q} :
                 /\ rpc'[p] = rpc[p] /\ us'[p] = us[p] /\ them'[p] = them[p]
                 /\ word'[p] = word[p] /\ list'[p] = list[p] /\ rtodo'[p] = rtodo[p]
  <1> DEFINE Frame ==
        /\ UNCHANGED handlerVars
        /\ \A c \in Conn : outbox[c] # "served" => pending'[c] = pending[c]
        /\ \A p \in Req \ {q} :
              /\ rpc'[p] = rpc[p] /\ us'[p] = us[p] /\ them'[p] = them[p]
              /\ word'[p] = word[p] /\ list'[p] = list[p] /\ rtodo'[p] = rtodo[p]
  <1> SUFFICES Frame
    OBVIOUS
  <1>t. /\ rpc \in [Req -> RPCs] /\ us \in [Req -> Conn \cup {None}]
        /\ them \in [Req -> Conn \cup {None}] /\ rtodo \in [Req -> SUBSET Account]
        /\ word \in [Req -> {"Disconnect", "Connect"}] /\ list \in [Req -> SUBSET Account]
        /\ pending \in [Conn -> [Conn -> {"silent", "Connect", "Disconnect"}]]
    BY DEF BlockTypeOK, TypeOK
  <1> USE <1>t DEF GotoReq, handlerVars, registryVars, localVars
  <1>1. ASSUME NEW v \in Verbs, NEW o \in Account, NEW s \in Account, BeginTx(q, v, o, s) PROVE Frame
    BY <1>1 DEF BeginTx, BlockedBy, vars
  <1>2. ASSUME NEW t \in Account, VisitThem(q, t) PROVE Frame
    BY <1>2 DEF VisitThem, Concerned, vars, askVars
  <1>3. CASE Commit(q)
    BY <1>3 DEF Commit, Applied, Insert, Row, handlerVars, askVars, lockVars
  <1>4. CASE CommitFails(q)
    BY <1>4 DEF CommitFails, Applied, Insert, Row, handlerVars, askVars, lockVars
  <1>5. CASE FindUser(q)
    BY <1>5 DEF FindUser, vars, askVars
  <1>6. CASE LockBlocklist(q)
    BY <1>6 DEF LockBlocklist, Differences, handlerVars, askVars
  <1>7. CASE SendUs(q)
    BY <1>7 DEF SendUs, Send, handlerVars, askVars, lockVars
  <1>8. CASE SendThem(q)
    BY <1>8 DEF SendThem, Send, handlerVars, askVars, lockVars
  <1>9. CASE SendPanics(q)
    BY <1>9 DEF SendPanics, Recover, Unlock, handlerVars, askVars
  <1>10. CASE SecondLoop(q)
    BY <1>10 DEF SecondLoop, Differences, vars, askVars
  <1>11. CASE StoreBlocklist(q)
    BY <1>11 DEF StoreBlocklist, Unlock, handlerVars, askVars
  <1> HIDE DEF Frame
  <1> QED
    BY <1>1, <1>2, <1>3, <1>4, <1>5, <1>6, <1>7, <1>8, <1>9, <1>10, <1>11 DEF ReqStep

\* What a request writes has the types.
LEMMA RequestTypes ==
    ASSUME BlockTypeOK, RequestsHold, NEW q \in Req, ReqStep(q)
    PROVE  /\ relations' \subseteq Account \X Account
           /\ blocklist' \in [Conn -> SUBSET Account]
           /\ pending' \in [Conn -> [Conn -> {"silent", "Connect", "Disconnect"}]]
           /\ rpc' \in [Req -> RPCs] /\ word' \in [Req -> {"Disconnect", "Connect"}]
           /\ verb' \in [Req -> {"add", "remove"}]
           /\ origin' \in [Req -> Account] /\ subject' \in [Req -> Account]
           /\ list' \in [Req -> SUBSET Account] /\ rtodo' \in [Req -> SUBSET Account]
           /\ us' \in [Req -> Conn \cup {None}] /\ them' \in [Req -> Conn \cup {None}]
  <1> DEFINE Types ==
        /\ relations' \subseteq Account \X Account
        /\ blocklist' \in [Conn -> SUBSET Account]
        /\ pending' \in [Conn -> [Conn -> {"silent", "Connect", "Disconnect"}]]
        /\ rpc' \in [Req -> RPCs] /\ word' \in [Req -> {"Disconnect", "Connect"}]
        /\ verb' \in [Req -> {"add", "remove"}]
        /\ origin' \in [Req -> Account] /\ subject' \in [Req -> Account]
        /\ list' \in [Req -> SUBSET Account] /\ rtodo' \in [Req -> SUBSET Account]
        /\ us' \in [Req -> Conn \cup {None}] /\ them' \in [Req -> Conn \cup {None}]
  <1> SUFFICES Types
    OBVIOUS
  <1>a. rpc[q] \in {"lock", "diff"} => us[q] \in Conn
    BY DEF RequestsHold, Dispatching
  <1>b. \A u \in Account : users[u] \in Conn \cup {None}
    BY DEF BlockTypeOK, TypeOK, Uuid
  <1>t. /\ relations \subseteq Account \X Account
        /\ blocklist \in [Conn -> SUBSET Account]
        /\ pending \in [Conn -> [Conn -> {"silent", "Connect", "Disconnect"}]]
        /\ rpc \in [Req -> RPCs] /\ word \in [Req -> {"Disconnect", "Connect"}]
        /\ verb \in [Req -> {"add", "remove"}]
        /\ origin \in [Req -> Account] /\ subject \in [Req -> Account]
        /\ list \in [Req -> SUBSET Account] /\ rtodo \in [Req -> SUBSET Account]
        /\ us \in [Req -> Conn \cup {None}] /\ them \in [Req -> Conn \cup {None}]
    BY DEF BlockTypeOK, TypeOK
  <1> USE <1>t, ReqAssumption DEF GotoReq, RPCs
  <1>1. ASSUME NEW v \in Verbs, NEW o \in Account, NEW s \in Account, BeginTx(q, v, o, s) PROVE Types
    <2>1. BlockedBy(o) \subseteq Account
      BY DEF BlockedBy
    <2>2. \/ rpc' = [rpc EXCEPT ![q] = "failed"] /\ list' = list
          \/ /\ rpc' = [rpc EXCEPT ![q] = "commit"]
             /\ list' = [list EXCEPT ![q] = IF v = "add" THEN BlockedBy(o) \cup {s}
                                                        ELSE BlockedBy(o) \ {s}]
      BY <1>1, Zenon DEF BeginTx
    <2>3. list' \in [Req -> SUBSET Account] /\ rpc' \in [Req -> RPCs]
      <3>1. rpc' \in [Req -> RPCs]
        BY <2>2
      <3>2. BlockedBy(o) \cup {s} \in SUBSET Account /\ BlockedBy(o) \ {s} \in SUBSET Account
        BY <2>1
      <3>3. list' \in [Req -> SUBSET Account]
        BY <2>2, <3>2
      <3> QED
        BY <3>1, <3>3
    <2>4. /\ verb' = [verb EXCEPT ![q] = v] /\ origin' = [origin EXCEPT ![q] = o]
          /\ subject' = [subject EXCEPT ![q] = s]
          /\ UNCHANGED <<vars, us, them, rtodo, word>>
      BY <1>1, Zenon DEF BeginTx
    <2> QED
      BY <2>3, <2>4 DEF vars
  <1>2. ASSUME NEW t \in Account, VisitThem(q, t) PROVE Types
    <2>1. \/ /\ Concerned(q, t)
             /\ them' = [them EXCEPT ![q] = users[t]] /\ rpc' = [rpc EXCEPT ![q] = "us"]
          \/ them' = them /\ rpc' = rpc
      BY <1>2 DEF VisitThem
    <2>2. them' \in [Req -> Conn \cup {None}] /\ rpc' \in [Req -> RPCs]
      BY <1>b, <2>1
    <2>3. /\ rtodo' = [rtodo EXCEPT ![q] = @ \ {t}]
          /\ UNCHANGED <<vars, askVars, list, us, word>>
      BY <1>2 DEF VisitThem
    <2> QED
      BY <2>2, <2>3 DEF vars, askVars
  <1>3. CASE Commit(q)
    BY <1>a, <1>b, <1>3 DEF Commit, Applied, Insert, Row, handlerVars, askVars, lockVars
  <1>4. CASE CommitFails(q)
    BY <1>a, <1>b, <1>4 DEF CommitFails, Applied, Insert, Row, handlerVars, askVars, lockVars
  <1>5. CASE FindUser(q)
    BY <1>a, <1>b, <1>5 DEF FindUser, vars, askVars
  <1>6. CASE LockBlocklist(q)
    BY <1>a, <1>b, <1>6 DEF LockBlocklist, Differences, handlerVars, askVars
  <1>7. CASE SendUs(q)
    BY <1>a, <1>b, <1>7 DEF SendUs, Send, handlerVars, askVars, lockVars
  <1>8. CASE SendThem(q)
    BY <1>a, <1>b, <1>8 DEF SendThem, Send, handlerVars, askVars, lockVars
  <1>9. CASE SendPanics(q)
    BY <1>a, <1>b, <1>9 DEF SendPanics, Recover, Unlock, handlerVars, askVars
  <1>10. CASE SecondLoop(q)
    BY <1>a, <1>b, <1>10 DEF SecondLoop, Differences, vars, askVars
  <1>11. CASE StoreBlocklist(q)
    BY <1>a, <1>b, <1>11 DEF StoreBlocklist, Unlock, handlerVars, askVars
  <1> HIDE DEF Types
  <1> QED
    BY <1>1, <1>2, <1>3, <1>4, <1>5, <1>6, <1>7, <1>8, <1>9, <1>10, <1>11 DEF ReqStep


\* A request locks and unlocks its player's blocklist and the registry at once.
LEMMA RequestLocks ==
    ASSUME BlockTypeOK, RequestsHold, OneDispatches, NEW q \in Req, ReqStep(q)
    PROVE  /\ OneDispatches'
           /\ usersReaders' = {p \in Req : Dispatching(p)'}
           /\ blocklistWriters' = {us'[p] : p \in usersReaders'}
  <1> DEFINE Kept == /\ UNCHANGED lockVars
                     /\ Dispatching(q)' = Dispatching(q)
                     /\ Dispatching(q) => us'[q] = us[q]
             Taken == /\ us[q] \notin blocklistWriters /\ us' = us
                      /\ blocklistWriters' = blocklistWriters \cup {us[q]}
                      /\ usersReaders' = usersReaders \cup {q}
                      /\ ~Dispatching(q) /\ Dispatching(q)'
             Freed == /\ blocklistWriters' = blocklistWriters \ {us[q]} /\ us' = us
                      /\ usersReaders' = usersReaders \ {q}
                      /\ Dispatching(q) /\ ~Dispatching(q)'
  <1>t. rpc \in [Req -> RPCs]
    BY DEF BlockTypeOK
  <1>1. Kept \/ Taken \/ Freed
    <2> USE <1>t DEF GotoReq, Dispatching, lockVars
    <2>1. ASSUME NEW v \in Verbs, NEW o \in Account, NEW s \in Account, BeginTx(q, v, o, s) PROVE Kept \/ Taken \/ Freed
      BY <2>1 DEF BeginTx, BlockedBy, vars
    <2>2. ASSUME NEW t \in Account, VisitThem(q, t) PROVE Kept \/ Taken \/ Freed
      BY <2>2 DEF VisitThem, Concerned, vars, askVars
    <2>3. CASE Commit(q)
      BY <2>3 DEF Commit, Applied, Insert, Row, handlerVars, askVars, lockVars
    <2>4. CASE CommitFails(q)
      BY <2>4 DEF CommitFails, Applied, Insert, Row, handlerVars, askVars, lockVars
    <2>5. CASE FindUser(q)
      BY <2>5 DEF FindUser, vars, askVars
    <2>6. CASE LockBlocklist(q)
      BY <2>6 DEF LockBlocklist, Differences, handlerVars, askVars
    <2>7. CASE SendUs(q)
      BY <2>7 DEF SendUs, Send, handlerVars, askVars, lockVars
    <2>8. CASE SendThem(q)
      BY <2>8 DEF SendThem, Send, handlerVars, askVars, lockVars
    <2>9. CASE SendPanics(q)
      BY <2>9 DEF SendPanics, Recover, Unlock, handlerVars, askVars
    <2>10. CASE SecondLoop(q)
      BY <2>10 DEF SecondLoop, Differences, vars, askVars
    <2>11. CASE StoreBlocklist(q)
      BY <2>11 DEF StoreBlocklist, Unlock, handlerVars, askVars
    <2> HIDE DEF Kept, Taken, Freed
    <2> QED
      BY <2>1, <2>2, <2>3, <2>4, <2>5, <2>6, <2>7, <2>8, <2>9, <2>10, <2>11 DEF ReqStep

  <1>2. \A p \in Req \ {q} : Dispatching(p)' = Dispatching(p) /\ us'[p] = us[p]
    BY RequestFrame DEF Dispatching
  <1>3. /\ usersReaders = {p \in Req : Dispatching(p)}
        /\ blocklistWriters = {us[p] : p \in usersReaders}
    BY DEF BlockTypeOK
  <1> HIDE DEF Dispatching
  <1>4. CASE Kept
    <2>1. \A p \in Req : Dispatching(p)' = Dispatching(p) /\ (Dispatching(p) => us'[p] = us[p])
      BY <1>2, <1>4
    <2> QED
      BY <1>3, <1>4, <2>1 DEF OneDispatches, lockVars
  <1>5. CASE Taken
    <2>1. \A p \in Req : Dispatching(p) => us[p] \in blocklistWriters
      BY <1>3
    <2>2. OneDispatches'
      BY <1>2, <1>5, <2>1 DEF OneDispatches
    <2>3. usersReaders' = {p \in Req : Dispatching(p)'}
      BY <1>2, <1>3, <1>5
    <2>4. blocklistWriters' = {us'[p] : p \in usersReaders'}
      BY <1>3, <1>5
    <2> QED
      BY <2>2, <2>3, <2>4
  <1>6. CASE Freed
    <2>1. OneDispatches'
      BY <1>2, <1>6 DEF OneDispatches
    <2>2. usersReaders' = {p \in Req : Dispatching(p)'}
      BY <1>2, <1>3, <1>6
    <2>3. \A p \in usersReaders : us[p] = us[q] <=> p = q
      BY <1>3, <1>6 DEF OneDispatches
    <2>4. blocklistWriters' = {us'[p] : p \in usersReaders'}
      BY <1>3, <1>6, <2>3
    <2> QED
      BY <2>1, <2>2, <2>4
  <1> QED
    BY <1>1, <1>4, <1>5, <1>6

\* The connections and accounts that a request is about stay as it found them.
LEMMA RequestHolds ==
    ASSUME BlockIInv, NEW q \in Req, ReqStep(q)
    PROVE  RequestsHold'
  <1> DEFINE Holds(p) ==
        /\ rpc[p] = "lock" \/ Dispatching(p) => us[p] \in Conn /\ Known(us[p])
        /\ rpc[p] \in {"us", "them"} =>
              /\ them[p] \in Conn /\ Known(them[p])
              /\ word[p] = "Disconnect" => uuid[them[p]] \in list[p]
        /\ Dispatching(p) /\ word[p] = "Disconnect" => rtodo[p] \subseteq list[p]
  <1>1. \A p \in Req : Holds(p)
    BY DEF BlockIInv, RequestsHold
  <1>2. uuid' = uuid /\ \A c : Known(c)' = Known(c)
    BY RequestFrame DEF handlerVars, Known, BlockIInv
  <1>3. \A p \in Req \ {q} : Holds(p)'
    BY <1>1, <1>2, RequestFrame DEF Dispatching, BlockIInv
  <1>4. Holds(q)'
    <2>a. ASSUME NEW u \in Account, users[u] # None
          PROVE  users[u] \in Conn /\ Known(users[u]) /\ uuid[users[u]] = u
      <3>1. u \in Uuid /\ users[u] \in Conn
        BY <2>a DEF BlockIInv, BlockTypeOK, TypeOK, Uuid
      <3>2. Registered(users[u]) /\ uuid[users[u]] = u
        BY <3>1 DEF BlockIInv, Placed, RegistryExact
      <3> QED
        BY <3>1, <3>2 DEF Registered, Known, Entering
    <2>b. /\ rpc \in [Req -> RPCs] /\ us \in [Req -> Conn \cup {None}]
          /\ them \in [Req -> Conn \cup {None}] /\ rtodo \in [Req -> SUBSET Account]
          /\ word \in [Req -> {"Disconnect", "Connect"}] /\ origin \in [Req -> Account]
          /\ list \in [Req -> SUBSET Account]
      BY DEF BlockIInv, BlockTypeOK
    <2>c. Holds(q)
      BY <1>1
    <2> HIDE DEF Known
    <2> USE <1>2, <2>a, <2>b, <2>c DEF GotoReq, Dispatching, RPCs
    <2>1. ASSUME NEW v \in Verbs, NEW o \in Account, NEW s \in Account, BeginTx(q, v, o, s) PROVE Holds(q)'
      BY <2>1 DEF BeginTx, BlockedBy, vars
    <2>2. ASSUME NEW t \in Account, VisitThem(q, t) PROVE Holds(q)'
      BY <2>2 DEF VisitThem, Concerned, vars, askVars
    <2>3. CASE Commit(q)
      BY <2>3 DEF Commit, Applied, Insert, Row, handlerVars, askVars, lockVars
    <2>4. CASE CommitFails(q)
      BY <2>4 DEF CommitFails, Applied, Insert, Row, handlerVars, askVars, lockVars
    <2>5. CASE FindUser(q)
      BY <2>5 DEF FindUser, vars, askVars
    <2>6. CASE LockBlocklist(q)
      BY <2>6 DEF LockBlocklist, Differences, handlerVars, askVars
    <2>7. CASE SendUs(q)
      BY <2>7 DEF SendUs, Send, handlerVars, askVars, lockVars
    <2>8. CASE SendThem(q)
      BY <2>8 DEF SendThem, Send, handlerVars, askVars, lockVars
    <2>9. CASE SendPanics(q)
      BY <2>9 DEF SendPanics, Recover, Unlock, handlerVars, askVars
    <2>10. CASE SecondLoop(q)
      BY <2>10 DEF SecondLoop, Differences, vars, askVars
    <2>11. CASE StoreBlocklist(q)
      BY <2>11 DEF StoreBlocklist, Unlock, handlerVars, askVars
    <2> HIDE DEF Holds
    <2> QED
      BY <2>1, <2>2, <2>3, <2>4, <2>5, <2>6, <2>7, <2>8, <2>9, <2>10, <2>11 DEF ReqStep

  <1> QED
    BY <1>3, <1>4 DEF RequestsHold

\* Every step keeps the requests' invariant, handlers' and requests'.
LEMMA RequestsStep == BlockIInv /\ [BlockNext]_allVars => BlockIInv'
  <1>1. ASSUME BlockIInv, NEW q \in Req, ReqStep(q) PROVE BlockIInv'
    <2> USE <1>1 DEF BlockIInv
    <2>1. TypeOK'
      <3>1. UNCHANGED handlerVars
        BY RequestFrame
      <3>2. blocklistWriters' \subseteq Conn
        <4>1. /\ usersReaders' = {p \in Req : Dispatching(p)'}
              /\ blocklistWriters' = {us'[p] : p \in usersReaders'}
          BY RequestLocks
        <4> QED
          BY <4>1, RequestHolds DEF RequestsHold
      <3> QED
        BY <3>1, <3>2, RequestTypes DEF handlerVars, registryVars, localVars, BlockTypeOK, TypeOK
    <2>2. BlockTypeOK'
      BY <2>1, RequestTypes, RequestLocks DEF BlockTypeOK
    <2>3. IInv /\ UNCHANGED handlerVars
      BY RequestFrame DEF IInv, BlockTypeOK
    <2> QED
      BY <2>2, <2>3, RequestFrame, RequestPlaced, RequestHolds, RequestLocks
  <1> QED
    BY <1>1, HandlerRequests DEF BlockNext, Next, allVars, vars
\* What keeps m from c's screen keeps on doing so, until m is shown.
LEMMA SilencedStep ==
    ASSUME BlockIInv, NEW q \in Req, ReqStep(q),
           NEW r \in Room, NEW a \in members[r], NEW b \in members[r], NEW c, NEW d,
           (c = a /\ d = b) \/ (c = b /\ d = a), Silenced(a, b, c)
    PROVE  Silenced(a, b, c)' \/ Told(c, d)'
  <1> DEFINE Fine(p) == Passed(p, a, b) => them[p] = b /\ (rpc[p] = "us" \/ (rpc[p] = "them" /\ c = b))
             Goal == (hasBlocked(a, b)' /\ Fine(q)') \/ Told(c, d)'
  <1>a. a \in Conn /\ b \in Conn /\ IInv
    BY DEF BlockIInv, BlockTypeOK, TypeOK, IInv
  <1>b. At(a, r) /\ At(b, r)
    BY <1>a, MemberAt
  <1>c. (c = a /\ d = b) \/ (c = b /\ d = a)
    OBVIOUS
  <1>d. hasBlocked(a, b) /\ \A p \in Req : Fine(p)
    BY DEF Silenced
  <1>e. users[uuid[b]] = b /\ b # None
    BY <1>a, RoomAssumption DEF IInv, TypeOK, Placed, RegistryExact, MembershipSound
  <1>t. /\ rpc \in [Req -> RPCs] /\ us \in [Req -> Conn \cup {None}]
        /\ them \in [Req -> Conn \cup {None}] /\ rtodo \in [Req -> SUBSET Account]
        /\ word \in [Req -> {"Disconnect", "Connect"}] /\ list \in [Req -> SUBSET Account]
        /\ pending \in [Conn -> [Conn -> {"silent", "Connect", "Disconnect"}]]
        /\ blocklist \in [Conn -> SUBSET Account]
    BY DEF BlockIInv, BlockTypeOK, TypeOK
  <1> HIDE DEF Goal
  <1>s. Goal
    <2> USE <1>a, <1>d, <1>t DEF GotoReq, Dispatching, hasBlocked, Goal
    <2>1. ASSUME NEW v \in Verbs, NEW o \in Account, NEW s \in Account, BeginTx(q, v, o, s) PROVE Goal
      BY <2>1 DEF BeginTx, BlockedBy, vars, Passed
    <2>2. ASSUME NEW t \in Account, VisitThem(q, t) PROVE Goal
      <3>1. Passed(q, a, b)' /\ ~Passed(q, a, b) => uuid[b] = t /\ us[q] = a
        BY <2>2 DEF VisitThem, Passed, vars, Dispatching, GotoReq
      <3>2. CASE uuid[b] = t /\ us[q] = a /\ Concerned(q, t)
        BY <2>2, <3>2, <1>e DEF VisitThem, Concerned, vars, Passed
      <3>3. CASE uuid[b] = t /\ us[q] = a /\ ~Concerned(q, t)
        <4>1. pc[a] = "setid" \/ pc[b] = "setid"
          BY <3>3, <1>b, <1>e, RoomAssumption DEF Concerned, At
        <4> QED
          BY <4>1, <1>c, <2>2 DEF Told, ToGreet, ToShow, VisitThem, vars
      <3> QED
        BY <2>2, <3>1, <3>2, <3>3 DEF VisitThem, vars
    <2>3. CASE Commit(q)
      BY <2>3 DEF Commit, Applied, Insert, Row, handlerVars, askVars, lockVars, Passed
    <2>4. CASE CommitFails(q)
      BY <2>4 DEF CommitFails, Applied, Insert, Row, handlerVars, askVars, lockVars, Passed
    <2>5. CASE FindUser(q)
      BY <2>5 DEF FindUser, vars, askVars, Passed
    <2>6. CASE LockBlocklist(q)
      BY <2>6 DEF LockBlocklist, Differences, handlerVars, askVars, Passed
    <2>7. CASE SendUs(q)
      <3>1. Passed(q, a, b)' => Passed(q, a, b) /\ them'[q] = b
        BY <2>7 DEF SendUs, Passed, handlerVars, askVars
      <3>2. CASE Passed(q, a, b) /\ c = a /\ them[q] = b
        BY <2>7, <3>2, <1>c DEF SendUs, Send, Passed, Told, Screen
      <3> QED
        BY <2>7, <1>c, <3>1, <3>2 DEF SendUs, handlerVars
    <2>8. CASE SendThem(q)
      <3>1. Passed(q, a, b)' => Passed(q, a, b) /\ them[q] = b /\ c = b
        BY <2>8 DEF SendThem, Passed, handlerVars, askVars
      <3>2. CASE Passed(q, a, b) /\ c = b /\ them[q] = b
        BY <2>8, <3>2, <1>c DEF SendThem, Send, Passed, Told, Screen
      <3> QED
        BY <2>8, <1>c, <3>1, <3>2 DEF SendThem, handlerVars
    <2>9. CASE SendPanics(q)
      BY <2>9 DEF SendPanics, Recover, Unlock, handlerVars, askVars, Passed
    <2>10. CASE SecondLoop(q)
      BY <2>10 DEF SecondLoop, Differences, vars, askVars, Passed
    <2>11. CASE StoreBlocklist(q)
      BY <2>11 DEF StoreBlocklist, Unlock, handlerVars, askVars, Passed
    <2> HIDE DEF Goal
    <2> QED
      BY <2>1, <2>2, <2>3, <2>4, <2>5, <2>6, <2>7, <2>8, <2>9, <2>10, <2>11 DEF ReqStep

  <1> QED
    <2>1. \A p \in Req \ {q} : Fine(p)'
      BY <1>d, RequestFrame DEF BlockIInv, Passed, Dispatching, handlerVars
    <2> QED
      BY <1>s, <2>1 DEF Silenced, Goal

\* A block that is about to be stored is, at the end, stored.
LEMMA AboutStep ==
    ASSUME BlockIInv, NEW q \in Req, ReqStep(q), BlockIInv',
           NEW r \in Room, NEW a \in members[r], NEW b \in members[r], NEW c,
           AboutToBlock(a, b)
    PROVE  AboutToBlock(a, b)' \/ Silenced(a, b, c)'
  <1>1. PICK p \in Req : Dispatching(p) /\ us[p] = a /\ uuid[b] \in list[p]
    BY DEF AboutToBlock
  <1>2. UNCHANGED handlerVars
    BY RequestFrame DEF BlockIInv
  <1>3. CASE p # q
    BY <1>1, <1>2, <1>3, RequestFrame DEF BlockIInv, AboutToBlock, Dispatching, handlerVars
  <1>4. CASE p = q /\ StoreBlocklist(q)
    <2>1. a \in Conn /\ hasBlocked(a, b)'
      BY <1>1, <1>4 DEF StoreBlocklist, hasBlocked, handlerVars, BlockIInv, BlockTypeOK, TypeOK
    <2>2. us' = us /\ ~Dispatching(q)'
      BY <1>4 DEF StoreBlocklist, Dispatching, GotoReq, BlockIInv, BlockTypeOK
    <2>3. \A o \in Req : Dispatching(o)' => us'[o] # a
      BY <1>1, <1>4, <2>2, RequestFrame DEF BlockIInv, OneDispatches, Dispatching
    <2> QED
      BY <2>1, <2>3 DEF Silenced, Passed
  <1>5. CASE p = q /\ ~StoreBlocklist(q)
    <2>1. outbox[a] # "closed"
      BY MemberAt DEF At, BlockIInv, BlockTypeOK, IInv, Placed, OutboxFollows, Entering
    <2>2. ~SendPanics(q)
      BY <1>1, <1>5, <2>1 DEF SendPanics
    <2>3. rpc[q] \in {"diff", "us", "them"} /\ rpc \in [Req -> RPCs]
      BY <1>1, <1>5 DEF Dispatching, BlockIInv, BlockTypeOK
    <2>4. SendUs(q) \/ SendThem(q) \/ SecondLoop(q) \/ \E t \in Account : VisitThem(q, t)
      BY <1>5, <2>2, <2>3 DEF ReqStep, BeginTx, Commit, CommitFails, FindUser, LockBlocklist
    <2>5. Dispatching(q)' /\ us'[q] = us[q] /\ list' = list
      BY <2>3, <2>4 DEF VisitThem, SendUs, SendThem, SecondLoop, GotoReq, Dispatching
    <2> QED
      BY <1>1, <1>2, <1>5, <2>5 DEF AboutToBlock, handlerVars
  <1> QED
    BY <1>3, <1>4, <1>5

\* A request takes a player off a screen only when it is about to store a block.
LEMMA ToldRequest ==
    ASSUME BlockIInv, NEW q \in Req, ReqStep(q), NEW x \in Conn, NEW y \in Conn, Told(x, y)
    PROVE  Told(x, y)' \/ AboutToBlock(x, y)' \/ AboutToBlock(y, x)'
  <1> DEFINE Goal == (y \in Screen(x) => y \in Screen(x)') \/ AboutToBlock(x, y)' \/ AboutToBlock(y, x)'
  <1>1. UNCHANGED handlerVars
    BY RequestFrame DEF BlockIInv
  <1>2. Goal
    <2>1. CASE pending' = pending
      BY <1>1, <2>1 DEF Screen, handlerVars
    <2>2. CASE SendUs(q)
      <3>1. CASE us[q] = x /\ them[q] = y /\ word[q] = "Disconnect"
        <4>1. uuid[y] \in list[q]
          BY <2>2, <3>1 DEF SendUs, BlockIInv, RequestsHold
        <4>2. Dispatching(q)' /\ us' = us /\ list' = list
          BY <2>2 DEF SendUs, Dispatching, GotoReq, BlockIInv, BlockTypeOK
        <4> QED
          BY <1>1, <3>1, <4>1, <4>2 DEF AboutToBlock, handlerVars
      <3>2. CASE ~(us[q] = x /\ them[q] = y /\ word[q] = "Disconnect")
        <4>1. pending'[x][y] \in {pending[x][y], "Connect"}
          BY <2>2, <3>2 DEF SendUs, Send, BlockIInv, BlockTypeOK, TypeOK
        <4> QED
          BY <1>1, <4>1 DEF Screen, handlerVars
      <3> QED
        BY <3>1, <3>2
    <2>3. CASE SendThem(q)
      <3>1. CASE them[q] = x /\ us[q] = y /\ word[q] = "Disconnect"
        <4>1. uuid[x] \in list[q]
          BY <2>3, <3>1 DEF SendThem, BlockIInv, RequestsHold
        <4>2. Dispatching(q)' /\ us' = us /\ list' = list
          BY <2>3 DEF SendThem, Dispatching, GotoReq, BlockIInv, BlockTypeOK
        <4> QED
          BY <1>1, <3>1, <4>1, <4>2 DEF AboutToBlock, handlerVars
      <3>2. CASE ~(them[q] = x /\ us[q] = y /\ word[q] = "Disconnect")
        <4>1. pending'[x][y] \in {pending[x][y], "Connect"}
          BY <2>3, <3>2 DEF SendThem, Send, BlockIInv, BlockTypeOK, TypeOK
        <4> QED
          BY <1>1, <4>1 DEF Screen, handlerVars
      <3> QED
        BY <3>1, <3>2
    <2> QED
      BY <2>1, <2>2, <2>3 DEF ReqStep, BeginTx, Commit, CommitFails, FindUser, LockBlocklist,
         VisitThem, SendPanics, SecondLoop, StoreBlocklist, vars
  <1> QED
    BY <1>1, <1>2 DEF Told, Departing, ToGreet, ToShow, handlerVars, localVars

\* No step loses the introduction two roommates need who do not, or will not,
\* block each other.
LEMMA MeanwhileStep ==
    BlockIInv /\ BlockIInv' /\ MeetMeanwhileInv /\ [BlockNext]_allVars => MeetMeanwhileInv'
  <1> SUFFICES ASSUME BlockIInv, BlockIInv', MeetMeanwhileInv, [BlockNext]_allVars,
                      NEW r \in Room \ SPMaps, NEW x \in members'[r], NEW y \in members'[r]
               PROVE  MeetsMeanwhile(x, y)'
    BY DEF MeetMeanwhileInv
  <1>a. IInv /\ TypeOK
    BY DEF BlockIInv, BlockTypeOK, IInv
  <1>b. x \in Conn /\ y \in Conn
    BY DEF BlockIInv, BlockTypeOK, TypeOK
  <1>c. \A q \in Req : Dispatching(q) => us[q] \in blocklistWriters
    <2>1. /\ usersReaders = {q \in Req : Dispatching(q)}
          /\ blocklistWriters = {us[q] : q \in usersReaders}
      BY DEF BlockIInv, BlockTypeOK
    <2> QED
      BY <2>1
  <1>1. CASE [Next]_vars /\ UNCHANGED reqVars
    <2> SUFFICES ASSUME ~Told(x, y)' PROVE MeetsMeanwhile(x, y)'
      BY DEF MeetsMeanwhile
    <2>1. /\ x \in members[r] /\ y \in members[r]
          /\ Told(x, y) => arePacketsSkippedPlayer(x, y) /\ BlocklistsFree(x, y)
      BY <1>1, <1>a, ToldStep
    <2>2. At(x, r) /\ At(y, r) /\ MeetsMeanwhile(x, y)
      BY <1>a, <2>1, MemberAt DEF MeetMeanwhileInv
    <2>3. /\ uuid'[x] = uuid[x] /\ uuid'[y] = uuid[y]
          /\ blocklist'[x] = blocklist[x] /\ blocklist'[y] = blocklist[y]
      BY <1>1, <1>a, <2>2, KnownStep DEF At
    <2>4. /\ AboutToBlock(x, y)' = AboutToBlock(x, y)
          /\ AboutToBlock(y, x)' = AboutToBlock(y, x)
      BY <1>1, <2>3 DEF AboutToBlock, Dispatching, reqVars
    <2>5. Silenced(x, y, x) => Silenced(x, y, x)'
      BY <1>1, <2>3 DEF Silenced, hasBlocked, Passed, Dispatching, reqVars
    <2>6. Silenced(y, x, x) => Silenced(y, x, x)'
      BY <1>1, <2>3 DEF Silenced, hasBlocked, Passed, Dispatching, reqVars
    <2>7. ASSUME BlocklistsFree(x, y), x # y, NEW q \in Req, Dispatching(q)
          PROVE  us[q] # x /\ us[q] # y
      BY <1>c, <2>7 DEF BlocklistsFree
    <2>8. Told(x, y) => x = y \/ Silenced(x, y, x) \/ Silenced(y, x, x)
      <3>1. CASE x # y /\ BlocklistsFree(x, y)
        <4>1. \A q \in Req : ~Passed(q, x, y) /\ ~Passed(q, y, x)
          BY <2>7, <3>1 DEF Passed
        <4> QED
          BY <2>1, <4>1 DEF arePacketsSkippedPlayer, Silenced
      <3> QED
        BY <2>1, <3>1
    <2> QED
      BY <2>2, <2>4, <2>5, <2>6, <2>8 DEF MeetsMeanwhile
  <1>2. ASSUME NEW q \in Req, ReqStep(q) PROVE MeetsMeanwhile(x, y)'
    <2>1. x \in members[r] /\ y \in members[r]
      BY <1>2, RequestFrame DEF BlockIInv, handlerVars, registryVars
    <2>2. MeetsMeanwhile(x, y)
      BY <2>1 DEF MeetMeanwhileInv
    <2>3. CASE Silenced(x, y, x)
      BY <1>2, <2>1, <2>3, SilencedStep DEF MeetsMeanwhile
    <2>4. CASE Silenced(y, x, x)
      BY <1>2, <2>1, <2>4, SilencedStep DEF MeetsMeanwhile
    <2>5. CASE AboutToBlock(x, y)
      BY <1>2, <2>1, <2>5, AboutStep DEF MeetsMeanwhile
    <2>6. CASE AboutToBlock(y, x)
      BY <1>2, <2>1, <2>6, AboutStep DEF MeetsMeanwhile
    <2>7. CASE Told(x, y)
      BY <1>2, <1>b, <2>7, ToldRequest DEF MeetsMeanwhile
    <2> QED
      BY <2>2, <2>3, <2>4, <2>5, <2>6, <2>7 DEF MeetsMeanwhile
  <1> QED
    BY <1>1, <1>2 DEF BlockNext, Next, allVars, vars

\* The types and the locks that requests hold, whatever they interleave with.
LEMMA RequestsInvariance == BlockSpec => []BlockIInv
  BY InitRequests, RequestsStep, PTL DEF BlockSpec

\* Every request's state keeps its type, and the registry and one blocklist
\* are locked for exactly as long as a request dispatches.
THEOREM BlockTypeCorrect == BlockSpec => []BlockTypeOK
  BY RequestsInvariance, PTL DEF BlockIInv

\* However blocking, unblocking and moving about interleave, once everything
\* is quiet players of one room who do not block each other see each other.
THEOREM UnblockedMeet == BlockSpec => []UnblockedShown
  <1>1. BlockInit => MeetMeanwhileInv
    BY DEF BlockInit, Init, MeetMeanwhileInv
  <1>2. BlockIInv /\ MeetMeanwhileInv => UnblockedShown
    <2> SUFFICES ASSUME BlockIInv, MeetMeanwhileInv, Quiet, NEW c \in Conn, NEW m \in Conn, Visible(c, m)
                 PROVE  m \in shown[c]
      BY DEF UnblockedShown
    <2>1. /\ pc[c] = "ready" /\ pc[m] = "ready" /\ ~arePacketsSkippedPlayer(c, m)
          /\ roomID[c] \in Room \ SPMaps /\ roomID[m] = roomID[c]
      BY DEF Visible, BlockIInv, BlockTypeOK, TypeOK
    <2>2. c \in members[roomID[c]] /\ m \in members[roomID[c]]
      BY <2>1 DEF BlockIInv, Placed, MembershipSound
    <2>3. MeetsMeanwhile(c, m)
      BY <2>1, <2>2 DEF MeetMeanwhileInv
    <2>4. \A q \in Req : ~Dispatching(q)
      BY DEF Quiet, Dispatching
    <2>5. m \in Screen(c)
      BY <2>1, <2>3, <2>4 DEF MeetsMeanwhile, Silenced, arePacketsSkippedPlayer, AboutToBlock,
         Told, Departing, ToGreet, ToShow
    <2> QED
      BY <2>5 DEF Screen, Quiet, Settled, Silent
  <1> QED
    BY <1>1, <1>2, RequestsInvariance, MeanwhileStep, PTL DEF BlockSpec

\* Requests leave the registry and the rooms as exact as they find them: what is
\* proved of the handlers alone holds while blocklists change, too.
THEOREM RoomsWhileBlocking == BlockSpec => [](RegistryExact /\ MembershipSound)
  BY RequestsInvariance, PTL DEF BlockIInv, Placed

-----------------------------------------------------------------------------
(* BlocklistLocks.                                                          *)

PlayerPCs == {"pick", "us", "them", "done"}
UpdatePCs == {"lock", "wait", "held", "done"}

\* A player's place in the code says which locks it may have, or wait for.
PlayerAt(p) ==
    /\ at[p] \in PlayerPCs
    /\ at[p] \in {"us", "them"} => peer[p] # p
    /\ at[p] = "us" => p \in readers[p] \cup queued[p]
    /\ at[p] = "them" => p \in readers[p] /\ p \in readers[peer[p]] \cup queued[peer[p]]
    /\ \A l \in Player : p \in readers[l] \cup queued[l] =>
          \/ at[p] \in {"us", "them"} /\ l = p
          \/ at[p] = "them" /\ l = peer[p]

\* An update that has called Lock is its list's writer, and alone once it holds it.
UpdateAt(u) ==
    /\ at[u] \in UpdatePCs
    /\ at[u] \in {"wait", "held"} => writer[target[u]] = u
    /\ at[u] = "held" => readers[target[u]] = {}

\* Who queues, queues behind the list's writer.
ListAt(l) ==
    /\ queued[l] # {} => writer[l] \in Update
    /\ writer[l] \in Update => target[writer[l]] = l /\ at[writer[l]] \in {"wait", "held"}

LocksInv ==
    /\ LocksTypeOK
    /\ \A p \in Player : PlayerAt(p)
    /\ \A u \in Update : UpdateAt(u)
    /\ \A l \in Player : ListAt(l)

-----------------------------------------------------------------------------

\* No lock is held.
LEMMA InitLocks == LocksInit => LocksInv
  BY LocksAssumption
  DEF LocksInit, LocksInv, LocksTypeOK, Proc, PlayerAt, UpdateAt, ListAt, PlayerPCs, UpdatePCs

\* A reader comes in when there is no writer, and waits in the queue otherwise.
LEMMA RLockInv ==
    ASSUME LocksInv, NEW p \in Player, RLockThem(p) \/ \E m \in Player : RLockUs(p, m)
    PROVE  LocksInv'
  <1> USE LocksAssumption DEF LocksInv, LocksTypeOK, Proc, PlayerAt, UpdateAt, ListAt, PlayerPCs, UpdatePCs,
                              Go, RLock
  <1>1. CASE RLockThem(p)
    <2> USE <1>1 DEF RLockThem
    <2>1. /\ peer[p] \in Player /\ p \notin readers[peer[p]] \cup queued[peer[p]]
          /\ at' = [at EXCEPT ![p] = "them"] /\ UNCHANGED <<left, peer, target, writer>>
          /\ \/ readers' = [readers EXCEPT ![peer[p]] = @ \cup {p}] /\ queued' = queued
             \/ queued' = [queued EXCEPT ![peer[p]] = @ \cup {p}] /\ readers' = readers
      OBVIOUS
    <2>2. LocksTypeOK'
      <3> HIDE DEF RLockThem, RLock, Go
      <3>1. CASE readers' = [readers EXCEPT ![peer[p]] = @ \cup {p}] /\ queued' = queued
        BY <2>1, <3>1
      <3>2. CASE queued' = [queued EXCEPT ![peer[p]] = @ \cup {p}] /\ readers' = readers
        BY <2>1, <3>2
      <3> QED
        BY <2>1, <3>1, <3>2
    <2>3. ASSUME NEW q \in Player PROVE PlayerAt(q)'
      OBVIOUS
    <2>4. ASSUME NEW u \in Update PROVE UpdateAt(u)'
      OBVIOUS
    <2> QED
      BY <2>2, <2>3, <2>4
  <1>2. ASSUME NEW m \in Player, RLockUs(p, m) PROVE LocksInv'
    <2> USE <1>2 DEF RLockUs
    <2>1. \A l \in Player : p \notin readers[l] /\ p \notin queued[l]
      OBVIOUS
    <2>2. /\ at' = [at EXCEPT ![p] = "us"] /\ peer' = [peer EXCEPT ![p] = m] /\ m # p
          /\ UNCHANGED <<left, target, writer>>
          /\ \/ readers' = [readers EXCEPT ![p] = @ \cup {p}] /\ queued' = queued
             \/ queued' = [queued EXCEPT ![p] = @ \cup {p}] /\ readers' = readers
      OBVIOUS
    <2>3. ASSUME NEW u \in Update PROVE UpdateAt(u)'
      OBVIOUS
    <2>6. ASSUME NEW l \in Player PROVE ListAt(l)'
      OBVIOUS
    <2> HIDE DEF RLockUs, RLock, Go
    <2>4. LocksTypeOK'
      <3>1. /\ readers' \in [Player -> SUBSET Player] /\ queued' \in [Player -> SUBSET Player]
            /\ \A l \in Player : readers'[l] \cap queued'[l] = {}
        <4>1. CASE readers' = [readers EXCEPT ![p] = @ \cup {p}] /\ queued' = queued
          BY <2>1, <4>1
        <4>2. CASE queued' = [queued EXCEPT ![p] = @ \cup {p}] /\ readers' = readers
          BY <2>1, <4>2
        <4> QED
          BY <2>2, <4>1, <4>2
      <3> QED
        BY <2>2, <3>1
    <2>5. ASSUME NEW q \in Player PROVE PlayerAt(q)'
      <3>1. ASSUME NEW l \in Player, p \in readers'[l] \cup queued'[l] PROVE l = p
        BY <2>1, <2>2, <3>1
      <3>2. CASE q = p
        <4>1. at'[p] = "us" /\ peer'[p] # p /\ p \in readers'[p] \cup queued'[p]
          BY <2>2
        <4> QED
          BY ONLY <3>1, <3>2, <4>1 DEF PlayerAt, PlayerPCs
      <3>3. ASSUME NEW l \in Player, q # p
            PROVE  /\ q \in readers'[l] <=> q \in readers[l]
                   /\ q \in queued'[l] <=> q \in queued[l]
        BY <2>2, <3>3
      <3>4. CASE q # p
        BY <2>2, <3>3, <3>4
      <3> QED
        BY <3>2, <3>4
    <2> QED
      BY <2>3, <2>4, <2>5, <2>6
  <1> QED
    BY <1>1, <1>2

\* Readers leave.
LEMMA ShareInv ==
    ASSUME LocksInv, NEW p \in Player, SkipSelf(p) \/ Compare(p) \/ ShareDone(p)
    PROVE  LocksInv'
  <1> USE LocksAssumption DEF LocksInv, LocksTypeOK, Proc, PlayerAt, UpdateAt, ListAt, PlayerPCs, UpdatePCs,
                              Go
  <1>1. CASE SkipSelf(p)
    BY <1>1 DEF SkipSelf
  <1>2. CASE Compare(p)
    <2> USE <1>2 DEF Compare, Comparing, RUnlockBoth
    <2>1. LocksTypeOK'
      <3>1. /\ at' = [at EXCEPT ![p] = "pick"] /\ left' = [left EXCEPT ![p] = @ \ {peer[p]}]
            /\ readers' = [readers EXCEPT ![peer[p]] = @ \ {p}, ![p] = @ \ {p}]
            /\ UNCHANGED <<peer, target, writer, queued>>
        OBVIOUS
      <3>2. LocksTypeOK
        OBVIOUS
      <3> QED
        BY ONLY <3>1, <3>2 DEF LocksTypeOK, Proc
    <2>2. ASSUME NEW q \in Player PROVE PlayerAt(q)'
      <3>1. /\ at' = [at EXCEPT ![p] = "pick"] /\ peer' = peer /\ queued' = queued
            /\ readers' = [readers EXCEPT ![peer[p]] = @ \ {p}, ![p] = @ \ {p}]
            /\ peer[p] \in Player /\ peer[p] # p
        <4>1. at[p] = "them" /\ peer[p] \in Player
          OBVIOUS
        <4> QED
          BY <4>1
      <3>2. \A l \in Player : readers'[l] = IF l \in {p, peer[p]} THEN readers[l] \ {p} ELSE readers[l]
        <4>1. readers \in [Player -> SUBSET Player]
          OBVIOUS
        <4> QED
          BY ONLY <3>1, <4>1
      <3>3. CASE q = p
        <4>1. \A l \in Player : p \notin readers'[l] \cup queued[l]
          BY <3>2
        <4> QED
          BY <3>1, <3>3, <4>1
      <3>4. CASE q # p
        <4>1. \A l \in Player : q \in readers'[l] <=> q \in readers[l]
          BY <3>2, <3>4
        <4>2. PlayerAt(q) /\ at'[q] = at[q] /\ peer'[q] = peer[q] /\ peer[q] \in Player
          BY <3>1, <3>4
        <4> QED
          BY ONLY <3>1, <4>1, <4>2 DEF PlayerAt, PlayerPCs
      <3> QED
        BY <3>3, <3>4
    <2>3. ASSUME NEW u \in Update PROVE UpdateAt(u)'
      OBVIOUS
    <2> QED
      BY <2>1, <2>2, <2>3
  <1>3. CASE ShareDone(p)
    BY <1>3 DEF ShareDone
  <1> QED
    BY <1>1, <1>2, <1>3

\* A writer waits for the readers to leave, and lets in those that queued.
LEMMA ReplaceInv ==
    ASSUME LocksInv, NEW u \in Update, Replace(u)
    PROVE  LocksInv'
  <1> USE LocksAssumption DEF LocksInv, LocksTypeOK, Proc, PlayerAt, UpdateAt, ListAt, PlayerPCs, UpdatePCs,
                              Go
  <1>1. CASE Lock(u)
    BY <1>1 DEF Lock, LockCalled
  <1>2. CASE Locked(u)
    BY <1>2 DEF Locked, LockGranted
  <1>3. CASE UnlockList(u)
    <2> USE <1>3 DEF UnlockList
    <2>1. readers[target[u]] = {} /\ target[u] \in Player
      OBVIOUS
    <2>2. LocksTypeOK'
      BY <2>1
    <2>3. ASSUME NEW q \in Player PROVE PlayerAt(q)'
      BY <2>1
    <2>4. ASSUME NEW v \in Update PROVE UpdateAt(v)'
      BY <2>1
    <2> QED
      BY <2>2, <2>3, <2>4
  <1> QED
    BY <1>1, <1>2, <1>3 DEF Replace

\* Every step keeps the invariant.
LEMMA ListsStep == LocksInv /\ [LocksNext]_locksVars => LocksInv'
  <1> SUFFICES ASSUME LocksInv, [LocksNext]_locksVars PROVE LocksInv'
    OBVIOUS
  <1>1. CASE UNCHANGED locksVars
    BY <1>1 DEF locksVars, LocksInv, LocksTypeOK, PlayerAt, UpdateAt, ListAt
  <1> QED
    BY <1>1, RLockInv, ShareInv, ReplaceInv DEF LocksNext, Share, AllDone

-----------------------------------------------------------------------------

\* The locks and those who wait for them keep their types.
THEOREM LocksTypeCorrect == LocksSpec => []LocksTypeOK
  <1>1. LocksInv => LocksTypeOK
    BY DEF LocksInv
  <1> QED
    BY <1>1, InitLocks, ListsStep, PTL DEF LocksSpec

\* For any number of players and updates, no list is replaced while a player
\* compares it with another.
THEOREM ListsStay == LocksSpec => []ComparedListsStay
  <1>1. LocksInv => ComparedListsStay
    BY DEF LocksInv, ComparedListsStay, Comparing, PlayerAt, UpdateAt, ListAt
  <1> QED
    BY <1>1, InitLocks, ListsStep, PTL DEF LocksSpec

\* For any number of players and updates, they wait for each other for ever only
\* in a ring of players: an update that waits does so for a player that has
\* read-locked its own list and queues for another's, as all others go on.
THEOREM RingsOnly == LocksSpec => []OnlyRingsWait
  <1>1. LocksInv => OnlyRingsWait
    <2> SUFFICES ASSUME LocksInv, \A p \in Proc : at[p] = "done" \/ Waits(p),
                        NEW w \in Proc, at[w] # "done"
                 PROVE  \E S \in SUBSET Player : S # {} /\ Ring(S)
      BY DEF OnlyRingsWait
    <2> DEFINE S == {p \in Player : at[p] = "them"}
    <2>t. /\ at \in [Proc -> {"pick", "us", "them", "lock", "wait", "held", "done"}]
          /\ peer \in [Player -> Player] /\ target \in [Update -> Player]
          /\ writer \in [Player -> Update \cup {NoWriter}]
          /\ readers \in [Player -> SUBSET Player] /\ queued \in [Player -> SUBSET Player]
          /\ \A l \in Player : readers[l] \cap queued[l] = {}
          /\ Player \subseteq Proc /\ Update \subseteq Proc /\ NoWriter \notin Update
          /\ Player \cap Update = {}
      BY LocksAssumption DEF LocksInv, LocksTypeOK, Proc
    <2>1. ASSUME NEW l \in Player, writer[l] \in Update
          PROVE  /\ at[writer[l]] = "wait" /\ target[writer[l]] = l
                 /\ l \in readers[l] /\ at[l] = "them"
      <3>1. at[writer[l]] = "wait" /\ target[writer[l]] = l
        BY <2>t, <2>1 DEF LocksInv, ListAt, Waits
      <3>2. PICK r \in Player : r \in readers[l]
        <4>1. writer[l] \in Proc /\ at[writer[l]] = "wait" /\ target[writer[l]] = l
          BY <2>t, <2>1, <3>1
        <4>2. readers[target[writer[l]]] # {}
          BY <2>t, <4>1 DEF Waits, LockGranted
        <4> QED
          BY <2>t, <4>1, <4>2
      <3>3. PlayerAt(r) /\ (at[r] = "done" \/ Waits(r))
        BY <2>t DEF LocksInv
      <3>4. ~(at[r] = "them" /\ l = peer[r])
        BY <3>2, <3>3 DEF Waits, Comparing
      <3>5. r = l /\ at[r] \in {"us", "them"}
        BY <3>2, <3>3, <3>4 DEF PlayerAt
      <3>6. at[r] # "us"
        BY <3>2, <3>3, <3>5 DEF Waits
      <3> QED
        BY <3>1, <3>2, <3>5, <3>6
    <2>2. S # {}
      <3>1. CASE w \in Player
        <4>1. PlayerAt(w) /\ Waits(w) /\ ListAt(w)
          BY <3>1 DEF LocksInv
        <4>2. at[w] = "us" => writer[w] \in Update
          BY <4>1 DEF PlayerAt, ListAt, Waits
        <4>3. at[w] \in {"us", "them"}
          BY <4>1 DEF PlayerAt, PlayerPCs, Waits
        <4>4. at[w] = "them"
          BY <2>1, <3>1, <4>2, <4>3
        <4> QED
          BY <3>1, <4>4
      <3>2. CASE w \in Update
        <4>1. UpdateAt(w) /\ Waits(w)
          BY <3>2 DEF LocksInv
        <4>2. writer[target[w]] \in Update
          BY <2>t, <3>2, <4>1 DEF UpdateAt, UpdatePCs, Waits
        <4> QED
          BY <2>1, <2>t, <3>2, <4>2
      <3> QED
        BY <3>1, <3>2 DEF Proc
    <2>3. ASSUME NEW p \in S
          PROVE  /\ at[p] = "them" /\ p \in readers[p] /\ p \in queued[peer[p]] /\ peer[p] \in S
                 /\ \E u \in Update : at[u] = "wait" /\ target[u] = peer[p]
      <3>1. p \in Player /\ at[p] = "them" /\ PlayerAt(p) /\ Waits(p) /\ ListAt(peer[p])
            /\ peer[p] \in Player
        BY <2>t DEF LocksInv
      <3>2. p \in readers[p] /\ p \in queued[peer[p]]
        BY <3>1 DEF PlayerAt, Waits, Comparing
      <3>3. writer[peer[p]] \in Update
        BY <3>1, <3>2 DEF ListAt
      <3> QED
        BY <2>1, <3>1, <3>2, <3>3
    <2> QED
      BY <2>2, <2>3 DEF Ring
  <1> QED
    BY <1>1, InitLocks, ListsStep, PTL DEF LocksSpec
=============================================================================
