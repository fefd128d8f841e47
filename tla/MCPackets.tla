------------------------------ MODULE MCPackets ------------------------------
(* Instances of Packets: every kind of message with its parts at the ends of *)
(* their ranges, and with one of them beyond; and packets that are torn.     *)
EXTENDS Packets, TLC

CONSTANTS w1, w2, Junk

\* By kind, the least and the greatest value of each part.
Ends ==
    [SwitchRoom |-> <<<<1, 2>>>>, Facing |-> <<<<0, 3>>>>, Speed |-> <<<<0, 10>>>>,
     Transparency |-> <<<<0, 7>>>>, Hidden |-> <<<<0, 1>>>>, SysName |-> <<<<1, 1>>>>,
     Sprite |-> <<<<1, 2>>, <<0, MaxInt>>>>,
     MainPlayerPos |-> <<<<0, 500>>, <<0, 500>>>>,
     Teleport |-> <<<<0, 500>>, <<0, 500>>>>, Jump |-> <<<<0, 500>>, <<0, 500>>>>,
     SoundEffect |-> <<<<0, 100>>, <<10, 400>>, <<0, 100>>>>,
     Flash |-> <<<<0, 255>>, <<0, MaxInt>>, <<0, MaxInt>>>>,
     RepeatingFlash |-> <<<<0, 255>>, <<0, MaxInt>>, <<0, MaxInt>>>>,
     RemoveRepeatingFlash |-> <<>>, ShowPlayerBattleAnim |-> <<<<7, 7>>>>,
     ShowPicture |-> <<<<0, 1000>>, <<0, MaxInt>>, <<0, 200>>, <<0, MaxInt>>, <<1, 1>>>>,
     MovePicture |-> <<<<0, 1000>>, <<0, MaxInt>>, <<0, 200>>, <<0, MaxInt>>, <<0, MaxInt>>>>,
     ErasePicture |-> <<<<0, 1000>>>>]

Symmetries == Permutations(Worker)

Message(kind, parts) == [kind |-> kind, parts |-> parts]

Side(kind, s) == [j \in 1..Len(Ends[kind]) |-> Ends[kind][j][s]]

MCLegit ==
    {Message(k, Side(k, s)) : k \in DOMAIN Ends, s \in 1..2}
        \cup {Message("Facing", <<2>>), Message("Speed", <<3>>)}

MCPart == -1..MaxInt + 1 \cup {Junk}

\* One part is just out of its range, or no number.
Beyond ==
    UNION {{Message(k, [Side(k, 1) EXCEPT ![j] = v]) :
              v \in {Ends[k][j][1] - 1, Ends[k][j][2] + 1, Junk}} :
           <<k, j>> \in {<<k, j>> \in (DOMAIN Ends) \X (1..5) : j <= Len(Ends[k])}}

Torn ==
    {Message("unknown", <<>>), Message("RemoveRepeatingFlash", <<0>>),
     Message("MainPlayerPos", <<0>>), Message("MainPlayerPos", <<0, 0, 0>>)}

\* Packets of two messages are made of these.
Few ==
    {Message("Facing", <<3>>), Message("Sprite", <<1, 0>>), Message("SwitchRoom", <<1>>),
     Message("Speed", <<11>>), Message("SysName", <<Junk>>)}

MCFew ==
    [count : 0..3, sealed : BOOLEAN, body : {<<Message("Facing", <<3>>)>>}]
        \cup [count : 1..2, sealed : {TRUE}, body : {<<m, n>> : m, n \in Few}]

MCPacket ==
    MCFew \cup [count : {2}, sealed : {TRUE}, body : {<<m>> : m \in MCLegit \cup Beyond \cup Torn}]
=============================================================================
