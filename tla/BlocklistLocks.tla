--------------------------- MODULE BlocklistLocks ---------------------------
(***************************************************************************)
(* The BlocklistMu of every player (a sync.RWMutex), seen by the two kinds *)
(* of goroutine that take it: a player's read loop, which goes through the *)
(* members of its room and read-locks its own and the member's list to     *)
(* compare them (arePacketsSkippedPlayer), and UpdateBlockList, which      *)
(* write-locks one list while it hides and shows players.                  *)
(*                                                                         *)
(* RoomHandler and BlockSync take the comparison as one step; here the two *)
(* read locks are taken one after the other, and the mutex does what       *)
(* Go's does: a writer that waits keeps new readers out, and the readers   *)
(* it kept out go before the next writer.                                  *)
(***************************************************************************)
EXTENDS FiniteSets

CONSTANTS
    Player,   \* the members of one room; each shares one message to the others
    Update,   \* calls of UpdateBlockList
    NoWriter  \* no update

ASSUME LocksAssumption == NoWriter \notin Update /\ Player \cap Update = {}

VARIABLES
    at,        \* of players and updates
    left,      \* members a player still has to look at
    peer,      \* the member it is comparing with
    target,    \* whose blocklist an update replaces
    writer,    \* the update that has called Lock on a list, waiting or not
    readers,   \* players that hold a list's read lock
    queued     \* players that wait for the writer to unlock

locksVars == <<at, left, peer, target, writer, readers, queued>>

Proc == Player \cup Update

LocksTypeOK ==
    /\ at \in [Proc -> {"pick", "us", "them", "lock", "wait", "held", "done"}]
    /\ left \in [Player -> SUBSET Player] /\ peer \in [Player -> Player]
    /\ target \in [Update -> Player] /\ writer \in [Player -> Update \cup {NoWriter}]
    /\ readers \in [Player -> SUBSET Player] /\ queued \in [Player -> SUBSET Player]
    /\ \A l \in Player : readers[l] \cap queued[l] = {}

LocksInit ==
    /\ at = [p \in Proc |-> IF p \in Player THEN "pick" ELSE "lock"]
    /\ left = [p \in Player |-> Player]
    /\ peer = [p \in Player |-> p]
    /\ target \in [Update -> Player]
    /\ writer = [p \in Player |-> NoWriter]
    /\ readers = [p \in Player |-> {}]
    /\ queued = [p \in Player |-> {}]

Go(p, l) == at' = [at EXCEPT ![p] = l]

-----------------------------------------------------------------------------
(* sync.RWMutex.                                                            *)

\* RLock: at once if no writer has called Lock, else after that writer.
RLock(p, l) ==
    IF writer[l] = NoWriter
      THEN readers' = [readers EXCEPT ![l] = @ \cup {p}] /\ UNCHANGED queued
      ELSE queued' = [queued EXCEPT ![l] = @ \cup {p}] /\ UNCHANGED readers

\* Lock keeps new readers out, and is granted when the old ones are gone.
LockCalled(u) == writer' = [writer EXCEPT ![target[u]] = u]
LockGranted(u) == readers[target[u]] = {}

-----------------------------------------------------------------------------
(* arePacketsSkippedPlayer, for one member after the other.                 *)

\* "Is it ourselves?" comes before any lock.
SkipSelf(p) ==
    /\ at[p] = "pick" /\ p \in left[p]
    /\ left' = [left EXCEPT ![p] = @ \ {p}]
    /\ UNCHANGED <<at, peer, target, writer, readers, queued>>

RLockUs(p, m) ==
    /\ at[p] = "pick" /\ m \in left[p] /\ m # p
    /\ peer' = [peer EXCEPT ![p] = m]
    /\ RLock(p, p)
    /\ Go(p, "us")
    /\ UNCHANGED <<left, target, writer>>

RLockThem(p) ==
    /\ at[p] = "us" /\ p \in readers[p]
    /\ RLock(p, peer[p])
    /\ Go(p, "them")
    /\ UNCHANGED <<left, peer, target, writer>>

\* Both lists are locked, compared, and unlocked again.  (Names with an
\* underscore are faulty variants of the definition after them.)
Comparing_usLocked(p) == at[p] = "them"
Comparing(p) == at[p] = "them" /\ p \in readers[peer[p]]

RUnlockBoth_themOnly(p) == [readers EXCEPT ![peer[p]] = @ \ {p}]
RUnlockBoth(p) == [readers EXCEPT ![peer[p]] = @ \ {p}, ![p] = @ \ {p}]

Compare(p) ==
    /\ Comparing(p)
    /\ readers' = RUnlockBoth(p)
    /\ left' = [left EXCEPT ![p] = @ \ {peer[p]}]
    /\ Go(p, "pick")
    /\ UNCHANGED <<peer, target, writer, queued>>

ShareDone(p) ==
    /\ at[p] = "pick" /\ left[p] = {}
    /\ Go(p, "done")
    /\ UNCHANGED <<left, peer, target, writer, readers, queued>>

-----------------------------------------------------------------------------
(* UpdateBlockList.                                                         *)

Lock(u) ==
    /\ at[u] = "lock" /\ writer[target[u]] = NoWriter
    /\ LockCalled(u)
    /\ Go(u, "wait")
    /\ UNCHANGED <<left, peer, target, readers, queued>>

Locked(u) ==
    /\ at[u] = "wait" /\ LockGranted(u)
    /\ Go(u, "held")
    /\ UNCHANGED <<left, peer, target, writer, readers, queued>>

\* The list is replaced; Unlock lets in the readers that waited.
UnlockList(u) ==
    /\ at[u] = "held"
    /\ writer' = [writer EXCEPT ![target[u]] = NoWriter]
    /\ readers' = [readers EXCEPT ![target[u]] = queued[target[u]]]
    /\ queued' = [queued EXCEPT ![target[u]] = {}]
    /\ Go(u, "done")
    /\ UNCHANGED <<left, peer, target>>

-----------------------------------------------------------------------------

Share(p) ==
    \/ SkipSelf(p) \/ RLockThem(p) \/ Compare(p) \/ ShareDone(p)
    \/ \E m \in Player : RLockUs(p, m)

Replace(u) == Lock(u) \/ Locked(u) \/ UnlockList(u)

AllDone == (\A p \in Proc : at[p] = "done") /\ UNCHANGED locksVars

LocksNext == (\E p \in Player : Share(p)) \/ (\E u \in Update : Replace(u)) \/ AllDone

LocksFairness ==
    /\ \A p \in Player : WF_locksVars(Share(p))
    /\ \A u \in Update : WF_locksVars(Replace(u))

LocksSpec == LocksInit /\ [][LocksNext]_locksVars /\ LocksFairness

-----------------------------------------------------------------------------

\* "Lock blocklists so we can check safely" (rooms.go): while a player compares
\* two lists, no update that write-locked one of them is still replacing it.
ComparedListsStay ==
    \A p \in Player, u \in Update :
        Comparing(p) /\ at[u] = "held" => target[u] \notin {p, peer[p]}

\* Who is kept waiting: a reader that queues, an update whose turn it is not,
\* or one that has called Lock while there are readers.
Waits(p) ==
    \/ at[p] = "us" /\ p \notin readers[p]
    \/ at[p] = "them" /\ ~Comparing(p)
    \/ at[p] = "lock" /\ writer[target[p]] # NoWriter
    \/ at[p] = "wait" /\ ~LockGranted(p)

\* Players go round in a ring: each has read-locked its own list and queues for
\* the next one's, behind an update that waits for that one to let go of it.
Ring(S) ==
    \A p \in S :
        /\ at[p] = "them" /\ p \in readers[p] /\ p \in queued[peer[p]] /\ peer[p] \in S
        /\ \E u \in Update : at[u] = "wait" /\ target[u] = peer[p]

\* Two read locks are held at a time (rooms.go), and a writer that waits keeps
\* readers out: shares and updates can come to wait for each other for ever,
\* but only if players wait for each other in a ring, each list of it being
\* replaced by an update of its own.
OnlyRingsWait ==
    (\A p \in Proc : at[p] = "done" \/ Waits(p)) =>
        (\A p \in Proc : at[p] = "done") \/ \E S \in SUBSET Player : S # {} /\ Ring(S)

\* Every share and every update ends.  With two updates it is false of the code.
NobodyWaitsForEver == \A p \in Proc : <>(at[p] = "done")
=============================================================================
