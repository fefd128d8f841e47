----------------------------- MODULE BlockSync -----------------------------
(***************************************************************************)
(* The room handler together with the HTTP requests that change a player's *)
(* blocklist: handleBlockListAdd and handleBlockListRemove (api/users.go)  *)
(* change the block_relations table in a transaction and then, with the    *)
(* list that transaction read, call Handler.UpdateBlockList                *)
(* (api/room/interop.go), which hides and shows players and replaces the   *)
(* copy of the list that the game connection keeps.                        *)
(*                                                                         *)
(* Every request is a goroutine of its own; rpc[q] is where it stands.     *)
(***************************************************************************)
EXTENDS RoomHandler

CONSTANTS
    Req,     \* the requests; each is sent once
    Verbs    \* what they may ask for: "add", "remove"

ASSUME ReqAssumption ==
    None \notin Req /\ Account # {} /\ Verbs \subseteq {"add", "remove"}

VARIABLES
    rpc,                    \* where the request stands
    verb, origin, subject,  \* what it asks for: who (un)blocks whom
    list,                   \* the blocklist its transaction read
    us, them,               \* the connections that are being told of each other
    rtodo,                  \* accounts in the difference that are still to visit
    word                    \* "Disconnect" in the first loop, "Connect" in the second

askVars == <<verb, origin, subject>>
reqVars == <<rpc, verb, origin, subject, list, us, them, rtodo, word>>
handlerVars == <<registryVars, uuid, roomID, outbox, pc, localVars, shown, switches>>
allVars == <<vars, reqVars>>

RPCs == {"idle", "commit", "find", "lock", "diff", "us", "them", "done", "failed", "panicked"}

\* UpdateBlockList holds us.BlocklistMu for writing and usersMu for reading.
Dispatching(q) == rpc[q] \in {"diff", "us", "them"}

BlockTypeOK ==
    /\ TypeOK
    /\ rpc \in [Req -> RPCs]
    /\ verb \in [Req -> {"add", "remove"}]
    /\ origin \in [Req -> Account] /\ subject \in [Req -> Account]
    /\ list \in [Req -> SUBSET Account] /\ rtodo \in [Req -> SUBSET Account]
    /\ us \in [Req -> Conn \cup {None}] /\ them \in [Req -> Conn \cup {None}]
    /\ word \in [Req -> {"Disconnect", "Connect"}]
    /\ usersReaders = {q \in Req : Dispatching(q)}
    /\ blocklistWriters = {us[q] : q \in usersReaders}

\* What a request asks for means nothing before it has been sent.
BlockInit ==
    /\ Init
    /\ rpc = [q \in Req |-> "idle"]
    /\ verb = [q \in Req |-> "add"]
    /\ origin = [q \in Req |-> CHOOSE u \in Account : TRUE] /\ subject = origin
    /\ list = [q \in Req |-> {}] /\ rtodo = list
    /\ us = [q \in Req |-> None] /\ them = us
    /\ word = [q \in Req |-> "Disconnect"]

GotoReq(q, p) == rpc' = [rpc EXCEPT ![q] = p]

-----------------------------------------------------------------------------
(* InsertBlockRelation and DeleteBlockRelation, at READ COMMITTED.          *)

Row(q) == <<origin[q], subject[q]>>
Insert(q) == verb[q] = "add"

\* The row is inserted or deleted and the list is read back.  A transaction
\* that touches the same row waits for the other to end; of the rows of other
\* transactions it sees those that are committed.  A row that is there already
\* (ErrNotUnique), or is not (ErrNotFound), ends the request.
BeginTx(q, v, o, s) ==
    /\ rpc[q] = "idle"
    /\ \A p \in Req : rpc[p] = "commit" => Row(p) # <<o, s>>
    /\ verb' = [verb EXCEPT ![q] = v]
    /\ origin' = [origin EXCEPT ![q] = o]
    /\ subject' = [subject EXCEPT ![q] = s]
    /\ IF (v = "add") = (<<o, s>> \in relations)
         THEN GotoReq(q, "failed") /\ UNCHANGED list
         ELSE /\ GotoReq(q, "commit")
              /\ list' = [list EXCEPT ![q] = IF v = "add" THEN BlockedBy(o) \cup {s}
                                                          ELSE BlockedBy(o) \ {s}]
    /\ UNCHANGED <<vars, us, them, rtodo, word>>

Applied(q) == IF Insert(q) THEN relations \cup {Row(q)} ELSE relations \ {Row(q)}

Commit(q) ==
    /\ rpc[q] = "commit"
    /\ relations' = Applied(q)
    /\ GotoReq(q, "find")
    /\ UNCHANGED <<handlerVars, blocklist, lockVars, pending, askVars, list, us, them, rtodo, word>>

\* Commit returns an error: the transaction is rolled back, or it was applied
\* and only the answer is lost.  Either way the request ends here.
CommitFails(q) ==
    /\ rpc[q] = "commit" /\ DBMayFail
    /\ relations' \in {relations, Applied(q)}
    /\ GotoReq(q, "failed")
    /\ UNCHANGED <<handlerVars, blocklist, lockVars, pending, askVars, list, us, them, rtodo, word>>

-----------------------------------------------------------------------------
(* UpdateBlockList.                                                         *)

\* The registry is read without usersMu.  (Go may stop the process when it
\* finds the map being written meanwhile; the process that is then started
\* begins in BlockInit, with the block relations of the database.)
FindUser(q) ==
    /\ rpc[q] = "find"
    /\ us' = [us EXCEPT ![q] = users[origin[q]]]
    /\ GotoReq(q, IF users[origin[q]] = None THEN "done" ELSE "lock")
    /\ UNCHANGED <<vars, askVars, list, them, rtodo, word>>

\* sendToListDifferences visits who is in the one list but not in the other.
\* (The faulty variant has stored the new list before the second loop.)
Differences_storedFirst(q, w) ==
    IF w = "Disconnect" THEN list[q] \ blocklist[us[q]] ELSE list[q] \ list[q]

Differences(q, w) ==
    IF w = "Disconnect" THEN list[q] \ blocklist[us[q]] ELSE blocklist[us[q]] \ list[q]

\* BlocklistMu.Lock, then usersMu.RLock; nothing is read in between.
LockBlocklist(q) ==
    /\ rpc[q] = "lock" /\ us[q] \notin blocklistWriters
    /\ blocklistWriters' = blocklistWriters \cup {us[q]}
    /\ usersReaders' = usersReaders \cup {q}
    /\ word' = [word EXCEPT ![q] = "Disconnect"]
    /\ rtodo' = [rtodo EXCEPT ![q] = Differences(q, "Disconnect")]
    /\ GotoReq(q, "diff")
    /\ UNCHANGED <<relations, handlerVars, blocklist, pending, askVars, list, us, them>>

\* Only who is online, and in the same room as us, is told and told of.
Concerned(q, t) == users[t] # None /\ roomID[users[t]] = roomID[us[q]]

VisitThem(q, t) ==
    /\ rpc[q] = "diff" /\ t \in rtodo[q]
    /\ rtodo' = [rtodo EXCEPT ![q] = @ \ {t}]
    /\ IF Concerned(q, t)
         THEN them' = [them EXCEPT ![q] = users[t]] /\ GotoReq(q, "us")
         ELSE UNCHANGED <<them, rpc>>
    /\ UNCHANGED <<vars, askVars, list, us, word>>

SendUs(q) ==
    /\ rpc[q] = "us" /\ outbox[us[q]] = "served"
    /\ Send(us[q], them[q], word[q])
    /\ GotoReq(q, "them")
    /\ UNCHANGED <<relations, handlerVars, blocklist, lockVars, askVars, list, us, them, rtodo, word>>

SendThem(q) ==
    /\ rpc[q] = "them" /\ outbox[them[q]] = "served"
    /\ Send(them[q], us[q], word[q])
    /\ GotoReq(q, "diff")
    /\ UNCHANGED <<relations, handlerVars, blocklist, lockVars, askVars, list, us, them, rtodo, word>>

Unlock(q) ==
    /\ usersReaders' = usersReaders \ {q}
    /\ blocklistWriters' = blocklistWriters \ {us[q]}

Recover_keepsLocks(q) == UNCHANGED lockVars
Recover(q) == Unlock(q)

\* A send on a closed channel panics (us may have left since it was looked up;
\* them may not, as usersMu is held since); net/http recovers the handler's panic,
\* the deferred unlocks run, and the list is not replaced.
SendPanics(q) ==
    /\ rpc[q] = "us" /\ outbox[us[q]] = "closed"
    /\ Recover(q)
    /\ GotoReq(q, "panicked")
    /\ UNCHANGED <<relations, handlerVars, blocklist, pending, askVars, list, us, them, rtodo, word>>

SecondLoop(q) ==
    /\ rpc[q] = "diff" /\ rtodo[q] = {} /\ word[q] = "Disconnect"
    /\ word' = [word EXCEPT ![q] = "Connect"]
    /\ rtodo' = [rtodo EXCEPT ![q] = Differences(q, "Connect")]
    /\ UNCHANGED <<vars, rpc, askVars, list, us, them>>

StoreBlocklist(q) ==
    /\ rpc[q] = "diff" /\ rtodo[q] = {} /\ word[q] = "Connect"
    /\ blocklist' = [blocklist EXCEPT ![us[q]] = list[q]]
    /\ Unlock(q)
    /\ GotoReq(q, "done")
    /\ UNCHANGED <<relations, handlerVars, pending, askVars, list, us, them, rtodo, word>>

-----------------------------------------------------------------------------

ReqStep(q) ==
    \/ \E v \in Verbs, o, s \in Account : BeginTx(q, v, o, s)
    \/ Commit(q) \/ CommitFails(q)
    \/ FindUser(q) \/ LockBlocklist(q)
    \/ \E t \in Account : VisitThem(q, t)
    \/ SendUs(q) \/ SendThem(q) \/ SendPanics(q)
    \/ SecondLoop(q) \/ StoreBlocklist(q)

ReqOver == \A q \in Req : rpc[q] \in {"done", "failed", "panicked"}

BlockNext ==
    \/ ConnNext /\ UNCHANGED reqVars
    \/ \E q \in Req : ReqStep(q)
    \/ AllGone /\ ReqOver /\ UNCHANGED reqVars

BlockSpec == BlockInit /\ [][BlockNext]_allVars

-----------------------------------------------------------------------------

\* No handler and no request is running.
Quiet == Settled /\ \A q \in Req : rpc[q] \in {"idle", "done", "failed", "panicked"}

\* However blocking, unblocking and moving about interleave, players of one
\* room who do not block each other any more see each other: the skipped
\* introductions are made up for by the second loop of UpdateBlockList.
UnblockedShown ==
    Quiet => \A c, m \in Conn : Visible(c, m) => m \in shown[c]

\* "so that nothing sends to a closed channel" (handler.go): no request panics
\* in the middle of its update because the player it looked up has left.
NoRequestPanics == \A q \in Req : rpc[q] # "panicked"

\* "Did we block them, or they block us?" (rooms.go): as long as one of two
\* players has the other on the list its connection keeps, neither is shown
\* the other once everything is quiet.
BlockedStayHidden ==
    Quiet => \A c \in Conn : pc[c] = "ready" =>
        \A m \in shown[c] : m = c \/ ~arePacketsSkippedPlayer(c, m)

\* "We just don't send packets when we're in one" (rooms.go, of singleplayer
\* rooms): a player in a singleplayer map is not shown anybody.
SingleplayerSilent ==
    \A c \in Conn : pc[c] = "ready" /\ roomID[c] \in SPMaps => shown[c] = {}

\* "Is it ourselves? We already know what we sent" (rooms.go): the server
\* never introduces a player to itself.
NeverIntroducedToSelf == \A c \in Conn : c \notin shown[c]

\* "No error, they should be blocked now" (users.go): once no request is
\* running, the list that a player's connection keeps is the database's.
BlockedNow ==
    Quiet => \A c \in Conn :
        pc[c] = "ready" /\ uuid[c] \in Account => blocklist[c] = BlockedBy(uuid[c])
=============================================================================
