------------------------------- MODULE Parties -------------------------------
(***************************************************************************)
(* Parties: the requests that create, join and leave them (api/parties.go, *)
(* the transactions in datastore), and the copy of its party that every    *)
(* chat connection keeps (api/chat).                                       *)
(*                                                                         *)
(* The transactions run at READ COMMITTED: a statement sees what is        *)
(* committed when it starts, and its own transaction's changes; it waits   *)
(* for another transaction that has changed the row it wants to change.    *)
(* parties and member are what is committed; rows[q] and erased[q] are the *)
(* changes of q's transaction.  rpc[q] is where request q stands.          *)
(***************************************************************************)
EXTENDS FiniteSets

CONSTANTS
    Account,
    Party,        \* party ids, each drawn at most once
    Req,          \* requests; each is sent once
    Conn,         \* chat connections
    DBMayFail,    \* whether a request may be cancelled in its transaction
    None

ASSUME PartiesAssumption ==
    /\ None \notin Party \cup Account
    /\ DBMayFail \in BOOLEAN

VARIABLES
    parties,              \* the parties table
    member,               \* party_members: account -> its party, or None
    been,                 \* <<account, party>> pairs that have ever been committed
    rpc, verb, who,       \* a request: what it asks for, and for which account
    target,               \* the party it is about
    rows,                 \* accounts whose member row its transaction changed
    erased,               \* whether its transaction deleted the target
    todo,                 \* chat connections that it has yet to update
    cpc, account,         \* chat connections: where they stand, whose they are
    partyID               \* clientData.partyID

tables == <<parties, member, been>>
askVars == <<verb, who>>
txVars == <<rows, erased>>
chatVars == <<cpc, account, partyID>>
vars == <<tables, rpc, askVars, target, txVars, todo, chatVars>>

Inserting == {"create", "join"}
Verbs == Inserting \cup {"leave"}
Over == {"done", "failed"}
RPCs == {"idle", "row", "fkey", "check", "erase", "cascade", "commit", "rollback",
         "update", "conns"} \cup Over

TypeOK ==
    /\ parties \subseteq Party
    /\ member \in [Account -> Party \cup {None}]
    /\ been \subseteq Account \X Party
    /\ rpc \in [Req -> RPCs] /\ verb \in [Req -> Verbs] /\ who \in [Req -> Account \cup {None}]
    /\ target \in [Req -> Party \cup {None}]
    /\ rows \in [Req -> SUBSET Account] /\ erased \in [Req -> BOOLEAN]
    /\ \A q \in Req : rows[q] # {} => target[q] \in Party
    /\ todo \in [Req -> SUBSET Conn]
    /\ cpc \in [Conn -> {"new", "authorized", "open", "closed"}]
    /\ account \in [Conn -> Account \cup {None}] /\ partyID \in [Conn -> Party \cup {None}]

Init ==
    /\ parties = {} /\ member = [a \in Account |-> None] /\ been = {}
    /\ rpc = [q \in Req |-> "idle"] /\ verb = [q \in Req |-> "join"]
    /\ who = [q \in Req |-> None]
    /\ target = [q \in Req |-> None]
    /\ rows = [q \in Req |-> {}] /\ erased = [q \in Req |-> FALSE]
    /\ todo = [q \in Req |-> {}]
    /\ cpc = [c \in Conn |-> "new"]
    /\ account = [c \in Conn |-> None]
    /\ partyID = [c \in Conn |-> None]

Goto(q, l) == rpc' = [rpc EXCEPT ![q] = l]

-----------------------------------------------------------------------------
(* What one transaction waits for another to end for.                       *)

Members(p) == {a \in Account : member[a] = p}

\* Another transaction has inserted or deleted the account's member row.
RowBusy(q, a) == \E r \in Req \ {q} : a \in rows[r]

\* A transaction that references a party keeps it from being deleted.
KeyShared(r, p) == rpc[r] = "commit" /\ verb[r] \in Inserting /\ target[r] = p

Erasing(r, p) == erased[r] /\ target[r] = p

-----------------------------------------------------------------------------
(* CreateParty, InsertPartyMember.                                          *)

\* A new party has an id nobody has seen; joiners name a party that they know.
Begin(q, v, a, p) ==
    /\ rpc[q] = "idle"
    /\ CASE v = "create" -> p \in Party \ {target[r] : r \in Req}
         [] v = "join"   -> \E b \in Account : <<b, p>> \in been
         [] v = "leave"  -> p = None
    /\ verb' = [verb EXCEPT ![q] = v]
    /\ who' = [who EXCEPT ![q] = a]
    /\ target' = [target EXCEPT ![q] = p]
    /\ Goto(q, "row")
    /\ UNCHANGED <<tables, txVars, todo, chatVars>>

\* The account is in a party already: ErrNotUnique.
InsertRefused(q) ==
    /\ rpc[q] = "row" /\ verb[q] \in Inserting /\ ~RowBusy(q, who[q])
    /\ member[who[q]] # None
    /\ Goto(q, "rollback")
    /\ UNCHANGED <<tables, askVars, target, txVars, todo, chatVars>>

InsertMember(q) ==
    /\ rpc[q] = "row" /\ verb[q] \in Inserting /\ ~RowBusy(q, who[q])
    /\ member[who[q]] = None
    /\ rows' = [rows EXCEPT ![q] = {who[q]}]
    /\ Goto(q, "fkey")
    /\ UNCHANGED <<tables, askVars, target, erased, todo, chatVars>>

\* The foreign key is checked, and the party row locked against deletion; a
\* party whose deletion is not committed yet is waited for.
FkeyWaits(q) == \E r \in Req \ {q} : Erasing(r, target[q])

CheckFkey(q) ==
    /\ rpc[q] = "fkey" /\ ~FkeyWaits(q)
    /\ Goto(q, IF verb[q] = "create" \/ target[q] \in parties THEN "commit" ELSE "rollback")
    /\ UNCHANGED <<tables, askVars, target, txVars, todo, chatVars>>

-----------------------------------------------------------------------------
(* DeletePartyMember.                                                       *)

\* What the DELETE finds; an uncommitted insertion is not seen.
InParty(q) == member[who[q]] # None

\* ErrNotFound
DeleteRefused(q) ==
    /\ rpc[q] = "row" /\ verb[q] = "leave" /\ ~InParty(q)
    /\ Goto(q, "rollback")
    /\ UNCHANGED <<tables, askVars, target, txVars, todo, chatVars>>

DeleteMember(q) ==
    /\ rpc[q] = "row" /\ verb[q] = "leave" /\ InParty(q)
    /\ ~RowBusy(q, who[q])
    /\ target' = [target EXCEPT ![q] = member[who[q]]]
    /\ rows' = [rows EXCEPT ![q] = {who[q]}]
    /\ Goto(q, "check")
    /\ UNCHANGED <<tables, askVars, erased, todo, chatVars>>

\* DeletePartyIfEmpty: NOT EXISTS looks at what is committed, less its own row.
CheckEmpty(q) ==
    /\ rpc[q] = "check"
    /\ Goto(q, IF Members(target[q]) \ rows[q] = {} THEN "erase" ELSE "commit")
    /\ UNCHANGED <<tables, askVars, target, txVars, todo, chatVars>>

\* The deletion waits for the transactions that reference or delete the party;
\* NOT EXISTS is not evaluated again when they have ended.
EraseParty(q) ==
    /\ rpc[q] = "erase"
    /\ \A r \in Req \ {q} : ~KeyShared(r, target[q]) /\ ~Erasing(r, target[q])
    /\ IF target[q] \in parties
         THEN erased' = [erased EXCEPT ![q] = TRUE] /\ Goto(q, "cascade")
         ELSE UNCHANGED erased /\ Goto(q, "commit")
    /\ UNCHANGED <<tables, askVars, target, rows, todo, chatVars>>

\* ON DELETE CASCADE runs with a new snapshot.  (Names with an underscore are
\* faulty variants of the definition after them.)
Cascaded_none(q) == rows[q]
Cascaded(q) == rows[q] \cup Members(target[q])

Cascade(q) ==
    /\ rpc[q] = "cascade" /\ \A a \in Cascaded(q) : ~RowBusy(q, a)
    /\ rows' = [rows EXCEPT ![q] = Cascaded(q)]
    /\ Goto(q, "commit")
    /\ UNCHANGED <<tables, askVars, target, erased, todo, chatVars>>

-----------------------------------------------------------------------------
(* The end of a transaction.                                                *)

EndTx(q) == rows' = [rows EXCEPT ![q] = {}] /\ erased' = [erased EXCEPT ![q] = FALSE]

\* If its answer is lost, nothing is passed on (UpdateParty).
Commit(q) ==
    /\ rpc[q] = "commit"
    /\ LET now == IF verb[q] = "leave" THEN None ELSE target[q]
       IN  member' = [a \in Account |-> IF a \in rows[q] THEN now ELSE member[a]]
    /\ parties' = IF verb[q] = "create" THEN parties \cup {target[q]}
                  ELSE IF erased[q] THEN parties \ {target[q]} ELSE parties
    /\ been' = been \cup {x \in Account \X Party : member'[x[1]] = x[2]}
    /\ EndTx(q)
    /\ Goto(q, "update") \/ (DBMayFail /\ Goto(q, "failed"))
    /\ UNCHANGED <<askVars, target, todo, chatVars>>

\* defer tx.Rollback
RolledBack_forgotten(q) == UNCHANGED txVars
RolledBack(q) == EndTx(q)

Rollback(q) ==
    /\ rpc[q] = "rollback"
    /\ RolledBack(q)
    /\ Goto(q, "failed")
    /\ UNCHANGED <<tables, askVars, target, todo, chatVars>>

\* A statement fails, as when the client has gone: the statements use the
\* request's context.
StatementFails(q) ==
    /\ rpc[q] \in {"row", "fkey", "check", "erase", "cascade", "commit"} /\ DBMayFail
    /\ Goto(q, "rollback")
    /\ UNCHANGED <<tables, askVars, target, txVars, todo, chatVars>>

-----------------------------------------------------------------------------
(* The chat connections.                                                    *)

\* Authorize reads the account's party; OnOpen adds the connection to users.
Authorize(c, a) ==
    /\ cpc[c] = "new"
    /\ account' = [account EXCEPT ![c] = a]
    /\ partyID' = [partyID EXCEPT ![c] = member[a]]
    /\ cpc' = [cpc EXCEPT ![c] = "authorized"]
    /\ UNCHANGED <<tables, rpc, askVars, target, txVars, todo>>

\* usersMu is held for reading by those that are in forEachConnOf.
UsersFree == \A q \in Req : rpc[q] # "conns"

OnOpen(c) ==
    /\ cpc[c] = "authorized" /\ UsersFree
    /\ cpc' = [cpc EXCEPT ![c] = "open"]
    /\ UNCHANGED <<tables, rpc, askVars, target, txVars, todo, account, partyID>>

OnClose(c) ==
    /\ cpc[c] = "open" /\ UsersFree
    /\ cpc' = [cpc EXCEPT ![c] = "closed"]
    /\ UNCHANGED <<tables, rpc, askVars, target, txVars, todo, account, partyID>>

\* UpdateParty, for one connection of the account after the other.
ConnsOf_everyones(a) == {c \in Conn : cpc[c] = "open"}
ConnsOf(a) == {c \in Conn : cpc[c] = "open" /\ account[c] = a}

forEachConnOf(q) ==
    /\ rpc[q] = "update"
    /\ todo' = [todo EXCEPT ![q] = ConnsOf(who[q])]
    /\ Goto(q, "conns")
    /\ UNCHANGED <<tables, askVars, target, txVars, chatVars>>

UpdateParty(q, c) ==
    /\ rpc[q] = "conns" /\ c \in todo[q]
    /\ partyID' = [partyID EXCEPT ![c] = IF verb[q] = "leave" THEN None ELSE target[q]]
    /\ todo' = [todo EXCEPT ![q] = @ \ {c}]
    /\ UNCHANGED <<tables, rpc, askVars, target, txVars, cpc, account>>

Answer(q) ==
    /\ rpc[q] = "conns" /\ todo[q] = {}
    /\ Goto(q, "done")
    /\ UNCHANGED <<tables, askVars, target, txVars, todo, chatVars>>

-----------------------------------------------------------------------------

ReqStep(q) ==
    \/ InsertRefused(q) \/ InsertMember(q) \/ CheckFkey(q)
    \/ DeleteRefused(q) \/ DeleteMember(q) \/ CheckEmpty(q) \/ EraseParty(q) \/ Cascade(q)
    \/ Commit(q) \/ Rollback(q)
    \/ forEachConnOf(q) \/ (\E c \in Conn : UpdateParty(q, c)) \/ Answer(q)

AllOver ==
    /\ \A q \in Req : rpc[q] \in Over
    /\ \A c \in Conn : cpc[c] = "closed"
    /\ UNCHANGED vars

Next ==
    \/ \E q \in Req :
          \/ ReqStep(q) \/ StatementFails(q)
          \/ \E v \in Verbs, a \in Account, p \in Party \cup {None} : Begin(q, v, a, p)
    \/ \E c \in Conn : OnOpen(c) \/ OnClose(c) \/ \E a \in Account : Authorize(c, a)
    \/ AllOver

\* PostgreSQL serves every statement that need not wait.
Fairness == \A q \in Req : WF_vars(ReqStep(q))

Spec == Init /\ [][Next]_vars

FairSpec == Spec /\ Fairness

-----------------------------------------------------------------------------

\* No request is running, and no connection is being opened.
Quiet == (\A q \in Req : rpc[q] \in {"idle"} \cup Over) /\ \A c \in Conn : cpc[c] # "authorized"

\* Whatever joins and leaves interleave, nobody is left in a party that was
\* deleted as empty (the foreign key, with its cascade).
NoOrphans == \A a \in Account : member[a] # None => member[a] \in parties

\* Party chat goes by the copies that the connections keep, and however stale
\* they are, a connection never names a party its account was not a member of.
NeverOutsiders ==
    \A c \in Conn : partyID[c] # None => <<account[c], partyID[c]>> \in been

\* Every request is answered: transactions that wait for one another never
\* do so in a circle, and one that failed does not keep its locks.
RequestsEnd == \A q \in Req : rpc[q] # "idle" ~> rpc[q] \in Over

\* "deleting it if it's empty" (datastore.go): no empty party stays.
EmptyPartyDeleted == Quiet => \A p \in parties : Members(p) # {}

\* "Removes a user from their party, deleting it if it's empty": a leave takes
\* nobody but its own account out of the party.
OnlyLeaversLeave ==
    [][\A a \in Account : member[a] # None /\ member'[a] = None
          => \E q \in Req : rpc[q] = "commit" /\ verb[q] = "leave" /\ who[q] = a]_vars

\* "Update a user's party. nil if they left" (chat/interop.go): when no request
\* is running, a chat connection's party is the one that the database has.
PartyCopyFresh ==
    Quiet => \A c \in Conn : cpc[c] = "open" => partyID[c] = member[account[c]]
=============================================================================
