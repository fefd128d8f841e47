-------------------------- MODULE SessionRegistry --------------------------
(***************************************************************************)
(* What the room handler's registry promises, without saying how: of all   *)
(* the connections that ask to play as an account, at most one is admitted *)
(* at a time, and a connection that is over never comes back.              *)
(***************************************************************************)
CONSTANTS Conn, Uuid, None

VARIABLES
    online,   \* the connection a UUID plays on, or None
    past      \* connections that were refused, or have left the game

vars == <<online, past>>

Playing == {online[u] : u \in Uuid} \ {None}

Init ==
    /\ online = [u \in Uuid |-> None]
    /\ past = {}

Admit(c, u) ==
    /\ c \notin past \cup Playing
    /\ online[u] = None
    /\ online' = [online EXCEPT ![u] = c]
    /\ UNCHANGED past

Refuse(c) ==
    /\ c \notin past \cup Playing
    /\ past' = past \cup {c}
    /\ UNCHANGED online

End(u) ==
    /\ online[u] # None
    /\ online' = [online EXCEPT ![u] = None]
    /\ past' = past \cup {online[u]}

Next ==
    \/ \E c \in Conn : Refuse(c) \/ \E u \in Uuid : Admit(c, u)
    \/ \E u \in Uuid : End(u)

Spec == Init /\ [][Next]_vars
=============================================================================
