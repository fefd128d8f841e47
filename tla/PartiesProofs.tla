----------------------------- MODULE PartiesProofs -----------------------------
(***************************************************************************)
(* Proofs about Parties, for any accounts, parties, requests and chat      *)
(* connections.                                                            *)
(*                                                                         *)
(* Nobody is left in a party that was deleted because of the locks that    *)
(* the transactions hold.  TxHolds says what is so of a transaction in     *)
(* each place; RowsApart and PartyHeld that two transactions never hold    *)
(* the same member's row, and that nobody inserts into a party that        *)
(* another deletes.  Copied follows a party from the tables to the chat    *)
(* connections.                                                            *)
(***************************************************************************)
EXTENDS Parties, TLAPS

Leaving == {"check", "erase", "cascade"}

TxHolds(q) ==
    /\ rpc[q] # "idle" => who[q] \in Account
    /\ rpc[q] # "idle" /\ verb[q] \in Inserting => target[q] \in Party
    /\ rpc[q] = "fkey" => verb[q] \in Inserting
    /\ rpc[q] \in Leaving => verb[q] = "leave"
    /\ rows[q] # {} => rpc[q] \in Leaving \cup {"fkey", "commit", "rollback"}
    /\ erased[q] => rpc[q] \in {"cascade", "commit", "rollback"} /\ verb[q] = "leave"
    /\ rpc[q] \in {"fkey", "commit"} /\ verb[q] \in Inserting
          => rows[q] = {who[q]} /\ member[who[q]] = None
    /\ rpc[q] \in Leaving \cup {"commit"} /\ verb[q] = "leave"
          => target[q] \in Party /\ \A a \in rows[q] : member[a] = target[q]
    /\ rpc[q] = "commit" /\ verb[q] = "join" => target[q] \in parties
    /\ rpc[q] = "commit" /\ erased[q] => Members(target[q]) \subseteq rows[q]

RowsApart == \A q, r \in Req : q # r => rows[q] \cap rows[r] = {}

PartyHeld ==
    \A q, r \in Req : q # r /\ erased[q]
        => ~Erasing(r, target[q]) /\ ~KeyShared(r, target[q])

TxInv == (\A q \in Req : TxHolds(q)) /\ RowsApart /\ PartyHeld /\ NoOrphans

Copied ==
    /\ \A a \in Account : member[a] # None => <<a, member[a]>> \in been
    /\ \A q \in Req : rpc[q] \in {"update", "conns"} /\ verb[q] \in Inserting
          => <<who[q], target[q]>> \in been
    /\ \A q \in Req : rpc[q] = "conns" =>
          \A c \in todo[q] : cpc[c] # "new" /\ account[c] = who[q]
    /\ NeverOutsiders

PartiesInv == TypeOK /\ TxInv /\ Copied

-----------------------------------------------------------------------------

\* No request has begun.
LEMMA PartiesInit == Init => PartiesInv
  BY PartiesAssumption
  DEF Init, PartiesInv, TypeOK, RPCs, Over, Verbs, Inserting, TxInv, TxHolds, Leaving,
      RowsApart, PartyHeld, NoOrphans, Copied, NeverOutsiders

\* A request begins with no row and no party.
LEMMA BeginInv ==
    ASSUME TypeOK, TxInv, NEW q \in Req, NEW v \in Verbs, NEW a \in Account,
           NEW p \in Party \cup {None}, Begin(q, v, a, p)
    PROVE  TypeOK' /\ TxInv'
  <1> USE DEF TypeOK, RPCs, Verbs, Inserting, Over, Leaving, Begin, Goto, txVars, tables, chatVars
  <1>1. TypeOK'
    BY DEF TxInv, TxHolds
  <1>2. rpc[q] = "idle" /\ rows[q] = {} /\ ~erased[q] /\ rpc'[q] = "row"
    BY DEF TxInv, TxHolds
  <1>3. v \in Inserting => p \in Party
    BY PartiesAssumption
  <1>4. ASSUME NEW r \in Req PROVE TxHolds(r)'
    <2>1. CASE r = q
      BY <1>2, <1>3, <2>1 DEF TxInv, TxHolds
    <2>2. CASE r # q
      BY <2>2 DEF TxInv, TxHolds, Members
    <2> QED
      BY <2>1, <2>2
  <1>5. RowsApart'
    BY DEF TxInv, RowsApart
  <1>6. PartyHeld'
    BY <1>2 DEF TxInv, PartyHeld, Erasing, KeyShared
  <1> QED
    BY <1>1, <1>4, <1>5, <1>6 DEF TxInv, NoOrphans

\* The statements that insert a member.
LEMMA InsertInv ==
    ASSUME TypeOK, TxInv, NEW q \in Req, InsertRefused(q) \/ InsertMember(q) \/ CheckFkey(q)
    PROVE  TypeOK' /\ TxInv'
  <1> USE DEF TypeOK, RPCs, Verbs, Inserting, Over, Leaving, Goto, tables, askVars, txVars, chatVars
  <1>1. CASE InsertRefused(q)
    BY <1>1 DEF InsertRefused, TxInv, TxHolds, Members, RowsApart, PartyHeld, Erasing, KeyShared,
                NoOrphans
  <1>2. CASE InsertMember(q)
    <2> USE <1>2 DEF InsertMember
    <2>1. rows[q] = {} /\ who[q] \in Account /\ target[q] \in Party /\ ~erased[q]
      BY DEF TxInv, TxHolds
    <2>2. TypeOK'
      BY <2>1
    <2>3. ASSUME NEW r \in Req PROVE TxHolds(r)'
      BY <2>1 DEF TxInv, TxHolds, Members
    <2>4. RowsApart'
      BY DEF TxInv, RowsApart, RowBusy
    <2>5. PartyHeld'
      BY DEF TxInv, PartyHeld, Erasing, KeyShared
    <2> QED
      BY <2>2, <2>3, <2>4, <2>5 DEF TxInv, NoOrphans
  <1>3. CASE CheckFkey(q)
    <2> USE <1>3 DEF CheckFkey
    <2>1. ASSUME NEW r \in Req PROVE TxHolds(r)'
      BY DEF TxInv, TxHolds, Members
    <2>2. PartyHeld'
      <3>1. ~erased[q]
        BY DEF TxInv, TxHolds
      <3> QED
        BY <3>1 DEF TxInv, PartyHeld, Erasing, KeyShared, FkeyWaits
    <2> QED
      BY <2>1, <2>2 DEF TxInv, RowsApart, NoOrphans
  <1> QED
    BY <1>1, <1>2, <1>3

\* The statements that delete a member, and a party that is empty.
LEMMA DeleteInv ==
    ASSUME TypeOK, TxInv, NEW q \in Req,
           DeleteRefused(q) \/ DeleteMember(q) \/ CheckEmpty(q) \/ EraseParty(q) \/ Cascade(q)
    PROVE  TypeOK' /\ TxInv'
  <1> USE DEF TypeOK, RPCs, Verbs, Inserting, Over, Leaving, Goto, tables, askVars, txVars, chatVars
  <1>1. CASE DeleteRefused(q)
    BY <1>1 DEF DeleteRefused, TxInv, TxHolds, Members, RowsApart, PartyHeld, Erasing, KeyShared,
                NoOrphans
  <1>2. CASE DeleteMember(q)
    <2> USE <1>2 DEF DeleteMember, InParty
    <2>1. rows[q] = {} /\ who[q] \in Account /\ member[who[q]] \in Party /\ ~erased[q]
      BY DEF TxInv, TxHolds
    <2>2. TypeOK'
      BY <2>1
    <2>3. ASSUME NEW r \in Req PROVE TxHolds(r)'
      <3>1. CASE r = q
        BY <2>1, <3>1 DEF TxInv, TxHolds
      <3>2. CASE r # q
        BY <3>2 DEF TxInv, TxHolds, Members
      <3> QED
        BY <3>1, <3>2
    <2>4. RowsApart'
      BY DEF TxInv, RowsApart, RowBusy
    <2>5. PartyHeld'
      BY <2>1 DEF TxInv, PartyHeld, Erasing, KeyShared
    <2> QED
      BY <2>2, <2>3, <2>4, <2>5 DEF TxInv, NoOrphans
  <1>3. CASE CheckEmpty(q)
    <2>1. ~erased[q] /\ verb[q] = "leave"
      BY <1>3 DEF CheckEmpty, TxInv, TxHolds
    <2> QED
      BY <1>3, <2>1
      DEF CheckEmpty, TxInv, TxHolds, Members, RowsApart, PartyHeld, Erasing, KeyShared, NoOrphans
  <1>4. CASE EraseParty(q)
    <2> USE <1>4 DEF EraseParty
    <2>1. verb[q] = "leave" /\ ~erased[q]
      BY DEF TxInv, TxHolds
    <2>2. TypeOK'
      OBVIOUS
    <2>3. ASSUME NEW r \in Req PROVE TxHolds(r)'
      <3>1. CASE r = q
        BY <2>1, <3>1 DEF TxInv, TxHolds, Members
      <3>2. CASE r # q
        BY <3>2 DEF TxInv, TxHolds, Members
      <3> QED
        BY <3>1, <3>2
    <2>4. PartyHeld'
      BY <2>1 DEF TxInv, PartyHeld, Erasing, KeyShared
    <2> QED
      BY <2>2, <2>3, <2>4 DEF TxInv, RowsApart, NoOrphans
  <1>5. CASE Cascade(q)
    <2> USE <1>5 DEF Cascade
    <2>1. verb[q] = "leave" /\ target[q] \in Party
      BY DEF TxInv, TxHolds
    <2>2. Cascaded(q) \subseteq Account /\ rows' = [rows EXCEPT ![q] = Cascaded(q)]
      BY DEF Cascaded, Members
    <2>3. TypeOK'
      BY <2>1, <2>2
    <2>4. ASSUME NEW r \in Req PROVE TxHolds(r)'
      <3>1. CASE r = q
        BY <2>1, <2>2, <3>1 DEF TxInv, TxHolds, Members, Cascaded
      <3>2. CASE r # q
        BY <2>2, <3>2 DEF TxInv, TxHolds, Members
      <3> QED
        BY <3>1, <3>2
    <2>5. RowsApart'
      BY <2>2 DEF TxInv, RowsApart, RowBusy
    <2>6. PartyHeld'
      BY <2>1 DEF TxInv, PartyHeld, Erasing, KeyShared
    <2> QED
      BY <2>3, <2>4, <2>5, <2>6 DEF TxInv, NoOrphans
  <1> QED
    BY <1>1, <1>2, <1>3, <1>4, <1>5

\* A transaction that fails keeps what it holds until it is rolled back.
LEMMA RollbackInv ==
    ASSUME TypeOK, TxInv, NEW q \in Req, StatementFails(q) \/ Rollback(q)
    PROVE  TypeOK' /\ TxInv'
  <1> USE DEF TypeOK, RPCs, Verbs, Inserting, Over, Leaving, Goto, tables, askVars, txVars, chatVars
  <1>1. CASE StatementFails(q)
    BY <1>1 DEF StatementFails, TxInv, TxHolds, Members, RowsApart, PartyHeld, Erasing, KeyShared,
                NoOrphans
  <1>2. CASE Rollback(q)
    <2> USE <1>2 DEF Rollback, RolledBack, EndTx
    <2>1. ASSUME NEW r \in Req PROVE TxHolds(r)'
      BY DEF TxInv, TxHolds, Members
    <2>2. RowsApart' /\ PartyHeld'
      BY DEF TxInv, RowsApart, PartyHeld, Erasing, KeyShared
    <2> QED
      BY <2>1, <2>2 DEF TxInv, NoOrphans
  <1> QED
    BY <1>1, <1>2

\* Who changes a member's row at the commit: the transaction that holds it.
LEMMA CommitRows ==
    ASSUME TypeOK, TxInv, NEW q \in Req, Commit(q)
    PROVE  /\ verb[q] \in Inserting =>
                /\ rows[q] = {who[q]} /\ who[q] \in Account /\ target[q] \in Party
                /\ member' = [member EXCEPT ![who[q]] = target[q]]
                /\ ~erased[q]
           /\ verb[q] = "leave" =>
                /\ \A a \in Account : member'[a] = IF a \in rows[q] THEN None ELSE member[a]
                /\ \A a \in rows[q] : member[a] = target[q]
                /\ target[q] \in Party
  <1> USE DEF TypeOK, Verbs, Inserting, Leaving, Commit
  <1>1. ASSUME verb[q] \in Inserting
        PROVE  rows[q] = {who[q]} /\ who[q] \in Account /\ target[q] \in Party /\ ~erased[q]
    BY <1>1 DEF TxInv, TxHolds
  <1>2. ASSUME verb[q] \in Inserting
        PROVE  member' = [member EXCEPT ![who[q]] = target[q]]
    BY <1>1, <1>2
  <1>3. ASSUME verb[q] = "leave"
        PROVE  target[q] \in Party /\ \A a \in rows[q] : member[a] = target[q]
    BY <1>3 DEF TxInv, TxHolds
  <1> QED
    BY <1>1, <1>2, <1>3

\* No commit puts a member into a party that is being deleted, nor leaves one
\* in a party that it deletes.
LEMMA CommitInv ==
    ASSUME TypeOK, TxInv, NEW q \in Req, Commit(q)
    PROVE  TypeOK' /\ TxInv'
  <1> USE DEF TypeOK, RPCs, Verbs, Inserting, Over, Leaving, Goto, Commit, EndTx, askVars, chatVars
  <1>1. target[q] \in Party /\ member' \in [Account -> Party \cup {None}]
    BY CommitRows
  <1>2. TypeOK'
    BY <1>1
  <1>3. RowsApart' /\ PartyHeld'
    BY DEF TxInv, RowsApart, PartyHeld, Erasing, KeyShared
  <1>4. ASSUME NEW r \in Req, r # q, NEW a \in rows[r] PROVE member'[a] = member[a]
    <2>1. a \in Account /\ a \notin rows[q]
      BY <1>4 DEF TxInv, RowsApart
    <2> QED
      BY <2>1
  <1>5. ASSUME NEW r \in Req, r # q, rpc[r] = "commit", erased[r]
        PROVE  Members(target[r])' \subseteq rows[r]
    <2> SUFFICES ASSUME NEW a \in Account, member'[a] = target[r] PROVE a \in rows[r]
      BY <1>5 DEF Members
    <2>1. target[r] \in Party /\ Members(target[r]) \subseteq rows[r]
      BY <1>5 DEF TxInv, TxHolds
    <2>2. verb[q] \in Inserting => target[q] # target[r]
      BY <1>5 DEF TxInv, PartyHeld, KeyShared
    <2>3. member[a] = target[r]
      BY <2>1, <2>2, CommitRows, PartiesAssumption
    <2> QED
      BY <2>1, <2>3 DEF Members
  <1>6. ASSUME NEW r \in Req, r # q, rpc[r] = "commit", verb[r] = "join"
        PROVE  target[r] \in parties'
    BY <1>6 DEF TxInv, TxHolds, PartyHeld, KeyShared
  <1>7. ASSUME NEW r \in Req PROVE TxHolds(r)'
    <2>1. CASE r = q
      BY <2>1 DEF TxInv, TxHolds
    <2>2. CASE r # q
      <3>1. /\ rpc'[r] = rpc[r] /\ rows'[r] = rows[r] /\ erased'[r] = erased[r]
            /\ verb'[r] = verb[r] /\ who'[r] = who[r] /\ target'[r] = target[r]
        BY <2>2
      <3>2. TxHolds(r)
        BY DEF TxInv
      <3> HIDE DEF Commit, EndTx, Goto, RPCs, TypeOK
      <3>3. rpc'[r] \in {"fkey", "commit"} /\ verb'[r] \in Inserting
               => rows'[r] = {who'[r]} /\ member'[who'[r]] = None
        BY <1>4, <2>2, <3>1, <3>2 DEF TxHolds
      <3>4. rpc'[r] \in Leaving \cup {"commit"} /\ verb'[r] = "leave"
               => target'[r] \in Party /\ \A a \in rows'[r] : member'[a] = target'[r]
        BY <1>4, <2>2, <3>1, <3>2 DEF TxHolds
      <3>5. rpc'[r] = "commit" /\ erased'[r] => Members(target[r])' \subseteq rows'[r]
        BY <1>5, <2>2, <3>1
      <3> QED
        BY <1>6, <2>2, <3>1, <3>2, <3>3, <3>4, <3>5 DEF TxHolds, Members
    <2> QED
      BY <2>1, <2>2
  <1>8. NoOrphans'
    <2> SUFFICES ASSUME NEW a \in Account, member'[a] # None PROVE member'[a] \in parties'
      BY DEF NoOrphans
    <2>1. CASE verb[q] \in Inserting
      <3>1. target[q] \in parties'
        BY <2>1, CommitRows DEF TxInv, TxHolds
      <3>2. parties \subseteq parties'
        BY <2>1, CommitRows
      <3> QED
        BY <2>1, <3>1, <3>2, CommitRows DEF TxInv, NoOrphans
    <2>2. CASE verb[q] = "leave"
      <3>1. a \notin rows[q] /\ member'[a] = member[a] /\ member[a] \in parties
        BY <2>2, CommitRows DEF TxInv, NoOrphans
      <3>2. erased[q] => member[a] # target[q]
        BY <3>1 DEF TxInv, TxHolds, Members
      <3> QED
        BY <2>2, <3>1, <3>2
    <2> QED
      BY <2>1, <2>2
  <1> QED
    BY <1>2, <1>3, <1>7, <1>8 DEF TxInv

\* The chat connections take no part in the transactions.
LEMMA ChatInv ==
    ASSUME TypeOK, TxInv,
           \/ \E q \in Req : forEachConnOf(q) \/ Answer(q) \/ \E c \in Conn : UpdateParty(q, c)
           \/ \E c \in Conn : OnOpen(c) \/ OnClose(c) \/ \E a \in Account : Authorize(c, a)
           \/ UNCHANGED vars
    PROVE  TypeOK' /\ TxInv'
  <1> USE DEF TypeOK, RPCs, Verbs, Inserting, Over, Leaving, Goto, tables, askVars, txVars, chatVars
  <1>1. /\ UNCHANGED <<tables, askVars, target, txVars>>
        /\ \A r \in Req : \/ rpc'[r] = rpc[r]
                          \/ rpc[r] \in {"update", "conns"} /\ rpc'[r] \in {"conns", "done"}
    BY DEF forEachConnOf, Answer, UpdateParty, OnOpen, OnClose, Authorize, vars
  <1>2. TypeOK'
    <2>1. ASSUME NEW q \in Req, forEachConnOf(q) \/ Answer(q) PROVE TypeOK'
      BY <2>1 DEF forEachConnOf, Answer, ConnsOf
    <2>2. ASSUME NEW q \in Req, NEW c \in Conn, UpdateParty(q, c) PROVE TypeOK'
      BY <2>2 DEF UpdateParty
    <2>3. ASSUME NEW c \in Conn, OnOpen(c) \/ OnClose(c) PROVE TypeOK'
      BY <2>3 DEF OnOpen, OnClose
    <2>4. ASSUME NEW c \in Conn, NEW a \in Account, Authorize(c, a) PROVE TypeOK'
      BY <2>4 DEF Authorize
    <2>5. CASE UNCHANGED vars
      BY <2>5 DEF vars
    <2> QED
      BY <2>1, <2>2, <2>3, <2>4, <2>5
  <1>3. ASSUME NEW r \in Req PROVE TxHolds(r)'
    BY <1>1 DEF TxInv, TxHolds, Members
  <1>4. RowsApart' /\ PartyHeld'
    BY <1>1 DEF TxInv, RowsApart, PartyHeld, Erasing, KeyShared
  <1> QED
    BY <1>1, <1>2, <1>3, <1>4 DEF TxInv, NoOrphans

\* Every step keeps what the transactions hold.
LEMMA TxStep == TypeOK /\ TxInv /\ [Next]_vars => TypeOK' /\ TxInv'
  <1> SUFFICES ASSUME TypeOK, TxInv, [Next]_vars PROVE TypeOK' /\ TxInv'
    OBVIOUS
  <1>1. ASSUME NEW q \in Req, ReqStep(q) PROVE TypeOK' /\ TxInv'
    BY <1>1, InsertInv, DeleteInv, CommitInv, RollbackInv, ChatInv DEF ReqStep
  <1> QED
    BY <1>1, RollbackInv, BeginInv, ChatInv DEF Next, AllOver

-----------------------------------------------------------------------------
(* The copies of the chat connections.                                      *)

\* A request records what it commits before it passes it along.
LEMMA CommitCopied ==
    ASSUME TypeOK, TxInv, Copied, NEW q \in Req, Commit(q)
    PROVE  Copied'
  <1> USE DEF TypeOK, Verbs, Inserting, Goto, Commit, EndTx, askVars, chatVars
  <1>1. member' \in [Account -> Party \cup {None}]
    BY CommitRows
  <1>2. ASSUME NEW a \in Account, member'[a] # None PROVE <<a, member'[a]>> \in been'
    <2> DEFINE x == <<a, member'[a]>>
    <2>1. x \in Account \X Party /\ x[1] = a /\ x[2] = member'[a]
      BY <1>1, <1>2
    <2>2. been' = been \cup {y \in Account \X Party : member'[y[1]] = y[2]}
      OBVIOUS
    <2> HIDE DEF x, Commit
    <2>3. x \in {y \in Account \X Party : member'[y[1]] = y[2]}
      BY ONLY <2>1, Zenon
    <2> QED
      BY <2>2, <2>3 DEF x
  <1>3. ASSUME verb[q] \in Inserting PROVE <<who[q], target[q]>> \in been'
    <2>1. /\ who[q] \in Account /\ target[q] \in Party
          /\ member' = [member EXCEPT ![who[q]] = target[q]]
      BY <1>3, CommitRows
    <2>2. member'[who[q]] = target[q]
      BY ONLY TypeOK, <2>1 DEF TypeOK
    <2> QED
      BY <1>2, <2>1, <2>2, PartiesAssumption
  <1>4. been \subseteq been'
    OBVIOUS
  <1> QED
    BY <1>2, <1>3, <1>4 DEF Copied, NeverOutsiders

\* UpdateParty, and connections that come and go.
LEMMA ChatCopied ==
    ASSUME TypeOK, Copied,
           \/ \E q \in Req : forEachConnOf(q) \/ Answer(q) \/ \E c \in Conn : UpdateParty(q, c)
           \/ \E c \in Conn : OnOpen(c) \/ OnClose(c) \/ \E a \in Account : Authorize(c, a)
    PROVE  Copied'
  <1> USE DEF TypeOK, RPCs, Verbs, Inserting, Over, Goto, tables, askVars, txVars, chatVars,
              Copied, NeverOutsiders
  <1>1. ASSUME NEW q \in Req, forEachConnOf(q) PROVE Copied'
    BY <1>1 DEF forEachConnOf, ConnsOf
  <1>2. ASSUME NEW q \in Req, Answer(q) PROVE Copied'
    BY <1>2 DEF Answer
  <1>3. ASSUME NEW q \in Req, NEW c \in Conn, UpdateParty(q, c) PROVE Copied'
    <2>1. account[c] = who[q] /\ verb[q] \in Inserting => <<account[c], target[q]>> \in been
      BY <1>3 DEF UpdateParty
    <2> QED
      BY <1>3, <2>1 DEF UpdateParty
  <1>4. ASSUME NEW c \in Conn, OnOpen(c) PROVE Copied'
    BY <1>4 DEF OnOpen
  <1>5. ASSUME NEW c \in Conn, OnClose(c) PROVE Copied'
    BY <1>5 DEF OnClose
  <1>6. ASSUME NEW c \in Conn, NEW a \in Account, Authorize(c, a) PROVE Copied'
    BY <1>6 DEF Authorize
  <1> QED
    BY <1>1, <1>2, <1>3, <1>4, <1>5, <1>6

\* Every other step of a request leaves the copies, and what it may pass along.
LEMMA CopiedStep == TypeOK /\ TxInv /\ Copied /\ [Next]_vars => Copied'
  <1> SUFFICES ASSUME TypeOK, TxInv, Copied, [Next]_vars PROVE Copied'
    OBVIOUS
  <1> USE DEF TypeOK, RPCs, Verbs, Inserting, Over, Goto, tables, askVars, txVars, chatVars
  <1>1. ASSUME NEW q \in Req, NEW v \in Verbs, NEW a \in Account, NEW p \in Party \cup {None},
               Begin(q, v, a, p)
        PROVE  Copied'
    BY <1>1 DEF Begin, Copied, NeverOutsiders
  <1>2. ASSUME NEW q \in Req,
               InsertRefused(q) \/ InsertMember(q) \/ CheckFkey(q) \/ DeleteRefused(q)
                  \/ CheckEmpty(q) \/ EraseParty(q) \/ Cascade(q) \/ Rollback(q)
                  \/ StatementFails(q)
        PROVE  Copied'
    <2>1. /\ UNCHANGED <<tables, askVars, target, todo, chatVars>>
          /\ \A r \in Req : rpc'[r] = rpc[r] \/ rpc'[r] \notin {"update", "conns"}
      BY <1>2 DEF InsertRefused, InsertMember, CheckFkey, DeleteRefused, CheckEmpty,
                  EraseParty, Cascade, Rollback, StatementFails
    <2> QED
      BY <2>1 DEF Copied, NeverOutsiders
  <1>3. ASSUME NEW q \in Req, DeleteMember(q) PROVE Copied'
    BY <1>3 DEF DeleteMember, Copied, NeverOutsiders
  <1>4. CASE UNCHANGED vars
    BY <1>4 DEF vars, Copied, NeverOutsiders
  <1>5. ASSUME NEW q \in Req, ReqStep(q) PROVE Copied'
    BY <1>2, <1>3, <1>5, CommitCopied, ChatCopied DEF ReqStep
  <1> QED
    BY <1>1, <1>2, <1>4, <1>5, ChatCopied DEF Next, AllOver

\* The invariant, of every reachable state.
LEMMA PartiesAlways == Spec => []PartiesInv
  <1>1. PartiesInv /\ [Next]_vars => PartiesInv'
    BY TxStep, CopiedStep DEF PartiesInv
  <1> QED
    BY <1>1, PartiesInit, PTL DEF Spec

-----------------------------------------------------------------------------

\* The tables, the transactions and the connections keep their types.
THEOREM PartiesTypeCorrect == Spec => []TypeOK
  <1>1. PartiesInv => TypeOK
    BY DEF PartiesInv
  <1> QED
    BY <1>1, PartiesAlways, PTL

\* However many joins, leaves and creations interleave, statement by statement,
\* nobody is in a party that is not there.
THEOREM NobodyOrphaned == Spec => []NoOrphans
  <1>1. PartiesInv => NoOrphans
    BY DEF PartiesInv, TxInv
  <1> QED
    BY <1>1, PartiesAlways, PTL

\* No chat connection ever names a party that its account was not in.
THEOREM OutsidersKeptOut == Spec => []NeverOutsiders
  <1>1. PartiesInv => NeverOutsiders
    BY DEF PartiesInv, Copied
  <1> QED
    BY <1>1, PartiesAlways, PTL
=============================================================================
