-------------------------- MODULE AppearanceProofs --------------------------
(***************************************************************************)
(* Proofs about Appearance, for any players, any of them changing their    *)
(* looks, and any number of messages.                                      *)
(*                                                                         *)
(* PlacesInv says where the handlers stand: what a player is saying agrees *)
(* with its data and with the message it processes (SayingOK), who reads   *)
(* the room holds on to its members and has gathered those it visited      *)
(* (ReadingOK), and no look is of a picture that has not been shown yet    *)
(* (Seen).  Knows is about what v will show of c when all that is under    *)
(* way to v has arrived: it agrees with c's data, or c is writing, or c    *)
(* has yet to send v what changed, or the change overtook an introduction. *)
(***************************************************************************)
EXTENDS Appearance, Integers, TLAPS

(* Where the players and their messages stand.                              *)

Here(c) == pc[c] \in {"greet", "show", "room"}

\* What a player is saying fits the message that it processes and its data.
SayingOK(c) ==
    /\ saying[c].kind = "intro" <=> pc[c] = "show"
    /\ pc[c] = "show" => doing[c] = "none" /\ saying[c] = GetIntroMessages(c, sprite[c])
    /\ pc[c] \in {"join", "greet"} => doing[c] = "none" /\ ~Saying(c)
    /\ Saying(c) /\ pc[c] # "show" => doing[c] # "none"
    /\ saying[c].kind = "sprite" => saying[c].val = sprite[c]
    /\ saying[c].kind = "show" => saying[c].val = active[c] /\ active[c] # 0
    /\ saying[c].kind \in {"once", "erase"} => active[c] = 0
    /\ saying[c].kind = "move" => active[c] # 0 /\ saying[c].val = base[c][active[c]]
    /\ saying[c].kind \in {"show", "once"} => doing[c] = saying[c].kind
    /\ saying[c].kind = "erase" => doing[c] \in {"show", "once", "erase"}
    /\ sprite[c] # Unset => sprite[c][1] # 0 /\ sprite[c][2] # 0
    /\ doing[c] # "none" => updates[c] # 0

\* A reader of the room holds on to its members, and has gathered whom it visited.
ReadingOK(c) ==
    /\ c \in members <=> Here(c)
    /\ c \in reading => Here(c) /\ todo[c] \subseteq members \ {c}
    /\ c \in reading /\ pc[c] # "greet" => Saying(c)
    /\ \A m \in Conn :
          /\ intro[c][m].kind \in {"none", "intro"}
          /\ intro[c][m].kind = "intro" <=>
                pc[c] = "greet" /\ c \in reading /\ m \in Others(c) \ todo[c]

\* A picture that is to be shown has not been seen yet.
Seen(c) ==
    IF doing[c] \in {"show", "once"} /\ saying[c].kind \in {"none", "erase"}
      THEN updates[c] - 1 ELSE updates[c]

LookOK(v, c) ==
    /\ coming[v][c].on => v # c /\ Here(v) /\ Here(c)
    /\ ~coming[v][c].on => coming[v][c].sprite = Unset /\ coming[v][c].pic = 0
    /\ coming[v][c].base = Later => coming[v][c].pic # 0
    /\ screen[v][c].base # Later
    /\ coming[v][c].pic <= Seen(c)
    /\ intro[v][c].kind = "intro" => intro[v][c].val.pic <= Seen(c)

PlacesInv ==
    /\ TypeOK
    /\ \A c \in Conn : SayingOK(c) /\ ReadingOK(c) /\ active[c] <= Seen(c)
    /\ \A v, c \in Conn : LookOK(v, c)

-----------------------------------------------------------------------------
(* What one player shows, and is going to show, of another.                 *)

\* When it has received what it has gathered.
Shown(v, c) == Apply(coming[v][c], intro[v][c])

ToGather(v, c) == pc[v] = "greet" /\ (v \notin reading \/ c \in todo[v])

ToShow(c, v) == pc[c] = "greet" \/ (pc[c] = "show" /\ (c \notin reading \/ v \in todo[c]))

\* c has yet to send v a message of such a kind.
Owes(c, v, kinds) == saying[c].kind \in kinds /\ (c \notin reading \/ v \in todo[c])

KnowsOf(v, c) ==
    v # c /\ Here(v) /\ Here(c) => ToGather(v, c) \/ ToShow(c, v) \/ Shown(v, c).on

KnowsSprite(v, c) ==
    Shown(v, c).on =>
        \/ Shown(v, c).sprite = sprite[c]
        \/ Writing(c, {"sprite"}) \/ Owes(c, v, {"sprite"})
        \/ <<v, c, "sprite">> \in overtaken

KnowsPicture(v, c) ==
    Shown(v, c).on =>
        \/ Shown(v, c).pic = active[c]
        \/ Owes(c, v, {"show", "once", "erase"})
        \/ <<v, c, "pic">> \in overtaken

KnowsBase(v, c) ==
    Shown(v, c).pic # 0 /\ Shown(v, c).pic = active[c] =>
        Shown(v, c).base \in {Later, base[c][active[c]]} \/ Owes(c, v, {"move"})

Knows(v, c) == KnowsOf(v, c) /\ KnowsSprite(v, c) /\ KnowsPicture(v, c) /\ KnowsBase(v, c)

LooksInv == PlacesInv /\ \A v, c \in Conn : Knows(v, c)

-----------------------------------------------------------------------------
(* What a message does to a look, and the types.                            *)

\* What each field of a look is when a message has been applied to it.
LEMMA ApplyFields ==
    ASSUME NEW look \in Looks, NEW w \in Words
    PROVE  LET a == Apply(look, w)
           IN  /\ a \in Looks
               /\ a.on <=> look.on \/ w.kind = "intro"
               /\ a.sprite = IF w.kind = "intro"
                               THEN IF w.val.sprite = Unset THEN look.sprite ELSE w.val.sprite
                               ELSE IF look.on /\ w.kind = "sprite" THEN w.val ELSE look.sprite
               /\ a.pic = IF w.kind = "intro" THEN IF w.val.pic = 0 THEN look.pic ELSE w.val.pic
                          ELSE IF look.on /\ w.kind = "show" THEN w.val
                          ELSE IF look.on /\ w.kind \in {"once", "erase"} THEN 0 ELSE look.pic
               /\ a.base = IF w.kind = "intro" THEN IF w.val.pic = 0 THEN look.base ELSE Later
                           ELSE IF look.on /\ w.kind = "show" THEN Later
                           ELSE IF look.on /\ w.kind \in {"once", "erase"} THEN 0
                           ELSE IF look.on /\ w.kind = "move" /\ look.pic # 0 THEN w.val
                           ELSE look.base
  <1> SUFFICES ASSUME NEW a, a = Apply(look, w)
               PROVE  /\ a \in Looks
                      /\ a.on <=> look.on \/ w.kind = "intro"
                      /\ a.sprite = IF w.kind = "intro"
                                      THEN IF w.val.sprite = Unset THEN look.sprite ELSE w.val.sprite
                                      ELSE IF look.on /\ w.kind = "sprite" THEN w.val ELSE look.sprite
                      /\ a.pic = IF w.kind = "intro"
                                   THEN IF w.val.pic = 0 THEN look.pic ELSE w.val.pic
                                 ELSE IF look.on /\ w.kind = "show" THEN w.val
                                 ELSE IF look.on /\ w.kind \in {"once", "erase"} THEN 0 ELSE look.pic
                      /\ a.base = IF w.kind = "intro"
                                    THEN IF w.val.pic = 0 THEN look.base ELSE Later
                                  ELSE IF look.on /\ w.kind = "show" THEN Later
                                  ELSE IF look.on /\ w.kind \in {"once", "erase"} THEN 0
                                  ELSE IF look.on /\ w.kind = "move" /\ look.pic # 0 THEN w.val
                                  ELSE look.base
    OBVIOUS
  <1>0. MaxUpdates \in Nat
    BY AppearanceAssumption
  <1>1. CASE w.kind = "intro"
    <2>1. w.val \in [sprite : Sprites, flash : BOOLEAN, pic : 0..MaxUpdates]
      BY <1>1 DEF Words, Silence, Word
    <2>2. a = [on |-> TRUE, flash |-> look.flash \/ w.val.flash,
               sprite |-> IF w.val.sprite = Unset THEN look.sprite ELSE w.val.sprite,
               pic |-> IF w.val.pic = 0 THEN look.pic ELSE w.val.pic,
               base |-> IF w.val.pic = 0 THEN look.base ELSE Later]
      BY <1>1 DEF Apply
    <2>3. a \in Looks
      BY <1>0, <2>1, <2>2 DEF Looks, Later
    <2> QED
      BY <1>1, <2>2, <2>3
  <1>2. CASE w.kind # "intro" /\ ~look.on
    BY <1>2 DEF Apply
  <1>10. /\ w.kind = "sprite" => w.val \in Sprites
         /\ w.kind = "flash" => w.val \in BOOLEAN
         /\ w.kind \in {"show", "once", "move", "erase"} => w.val \in 0..MaxUpdates
    BY DEF Words, Silence, Word
  <1>3. CASE look.on /\ w.kind = "sprite"
    <2>1. a = [look EXCEPT !.sprite = w.val]
      BY <1>3 DEF Apply
    <2> QED
      BY <1>3, <1>10, <2>1 DEF Looks
  <1>4. CASE look.on /\ w.kind = "flash"
    <2>1. a = [look EXCEPT !.flash = w.val]
      BY <1>4 DEF Apply
    <2> QED
      BY <1>4, <1>10, <2>1 DEF Looks
  <1>5. CASE look.on /\ w.kind = "show"
    <2>1. a = [look EXCEPT !.pic = w.val, !.base = Later]
      BY <1>5 DEF Apply
    <2>2. a = [on |-> look.on, sprite |-> look.sprite, flash |-> look.flash, pic |-> w.val,
               base |-> Later]
      BY <2>1 DEF Looks
    <2>3. a \in Looks
      BY <1>0, <1>5, <1>10, <2>2 DEF Looks, Later
    <2> QED
      BY <1>5, <2>2, <2>3
  <1>6. CASE look.on /\ w.kind \in {"once", "erase"}
    <2>1. a = [look EXCEPT !.pic = 0, !.base = 0]
      BY <1>6 DEF Apply
    <2>2. a = [on |-> look.on, sprite |-> look.sprite, flash |-> look.flash, pic |-> 0,
               base |-> 0]
      BY <2>1 DEF Looks
    <2>3. a \in Looks
      BY <1>0, <1>6, <1>10, <2>2 DEF Looks, Later
    <2> QED
      BY <1>6, <2>2, <2>3
  <1>7. CASE look.on /\ w.kind = "move" /\ look.pic # 0
    <2>1. a = [look EXCEPT !.base = w.val]
      BY <1>7 DEF Apply
    <2> QED
      BY <1>0, <1>7, <1>10, <2>1 DEF Looks, Later
  <1>8. CASE look.on /\ (w.kind = "none" \/ (w.kind = "move" /\ look.pic = 0))
    <2>1. a = look
      BY <1>8 DEF Apply
    <2> QED
      BY <1>8, <2>1
  <1>9. w.kind \in {"none", "sprite", "flash", "show", "once", "move", "erase", "intro"}
    BY DEF Words, Silence, Word
  <1> QED
    BY <1>1, <1>2, <1>3, <1>4, <1>5, <1>6, <1>7, <1>8, <1>9

\* A look is as it was when there is nothing to apply.
LEMMA ApplySilence == \A look : Apply(look, Silence) = look
  BY DEF Apply, Silence, Word

\* What is said is a word, whatever a newcomer has read of a sprite.
LEMMA SpriteType ==
    ASSUME TypeOK, NEW c \in Conn, NEW s \in SpriteReads(c)
    PROVE  s \in Sprites
  BY AppearanceAssumption DEF TypeOK, SpriteReads, Sprites, Torn

\* An introduction is a word of its kind.
LEMMA IntroType ==
    ASSUME TypeOK, NEW c \in Conn, NEW s \in Sprites
    PROVE  GetIntroMessages(c, s) \in Words /\ GetIntroMessages(c, s).kind = "intro"
  <1>1. SpriteIntro(s) \in Sprites
    BY AppearanceAssumption DEF SpriteIntro, Sprites, Unset, Torn
  <1>2. flash[c] \in BOOLEAN /\ PictureIntro(c) \in 0..MaxUpdates
    BY DEF TypeOK, PictureIntro
  <1> QED
    BY <1>1, <1>2 DEF GetIntroMessages, Word, Words

\* So is silence.
LEMMA SilenceType == Silence \in Words /\ Silence.kind = "none"
  BY DEF Silence, Word, Words

-----------------------------------------------------------------------------

\* What a player is saying, and an introduction, are words.
LEMMA SayType ==
    ASSUME TypeOK, NEW c \in Conn, NEW kind, NEW val,
           \/ kind = "sprite" /\ val \in Sprites
           \/ kind = "flash" /\ val \in BOOLEAN
           \/ kind \in {"show", "once", "move", "erase"} /\ val \in 0..MaxUpdates,
           Say(c, kind, val)
    PROVE  /\ saying' \in [Conn -> Words] /\ saying'[c] = Word(kind, val)
           /\ \A d \in Conn \ {c} : saying'[d] = saying[d]
  <1>1. Word(kind, val) \in Words
    BY DEF Word, Words
  <1> QED
    BY <1>1 DEF TypeOK, Say

\* Processing a message keeps the types.
LEMMA ProcessType ==
    ASSUME PlacesInv, NEW c \in Conn, processMessage(c)
    PROVE  TypeOK'
  <1> USE DEF dataVars, roomVars, clientVars
  <1>1. TypeOK /\ SayingOK(c) /\ MaxUpdates \in Nat
    BY AppearanceAssumption DEF PlacesInv
  <1>2. /\ updates[c] \in 0..MaxUpdates /\ active[c] \in 0..MaxUpdates
        /\ doing[c] # "none" => updates[c] # 0
    BY <1>1 DEF TypeOK, SayingOK
  <1>3. CASE SetField(c)
    <2>1. <<updates[c], updates[c]>> \in (0..MaxUpdates) \X (0..MaxUpdates)
      BY <1>2
    <2>2. sprite'[c] \in Sprites /\ sprite' \in [Conn -> (0..MaxUpdates) \X (0..MaxUpdates)]
      BY <1>1, <1>3, <2>1 DEF SetField, TypeOK, Sprites, Torn
    <2>3. saying' \in [Conn -> Words]
      BY <1>1, <1>3, <2>2, SayType DEF SetField
    <2> QED
      BY <1>1, <1>3, <2>2, <2>3 DEF SetField, TypeOK
  <1>4. CASE RepeatingFlash(c)
    <2>1. saying' \in [Conn -> Words]
      BY <1>1, <1>4, SayType DEF RepeatingFlash
    <2> QED
      BY <1>1, <1>4, <2>1 DEF RepeatingFlash, TypeOK
  <1>5. CASE RemoveRepeatingFlash(c)
    <2>1. saying' \in [Conn -> Words]
      BY <1>1, <1>5, SayType DEF RemoveRepeatingFlash
    <2> QED
      BY <1>1, <1>5, <2>1 DEF RemoveRepeatingFlash, TypeOK
  <1>6. CASE removePicture(c)
    <2>1. saying' \in [Conn -> Words]
      BY <1>1, <1>6, SayType DEF removePicture
    <2>2. active' \in [Conn -> 0..MaxUpdates]
      BY <1>1, <1>6 DEF removePicture, TypeOK
    <2> QED
      BY <1>1, <1>6, <2>1, <2>2 DEF removePicture, TypeOK
  <1>7. CASE ShowPicture(c)
    <2>1. doing[c] \in {"show", "once"} /\ updates[c] \in 1..MaxUpdates
      BY <1>2, <1>7 DEF ShowPicture, Writing
    <2>2. saying' \in [Conn -> Words]
      BY <1>1, <1>2, <1>7, <2>1, SayType DEF ShowPicture
    <2>3. active' \in [Conn -> 0..MaxUpdates]
      BY <1>1, <1>2, <1>7 DEF ShowPicture, TypeOK
    <2>4. base' \in [Conn -> [1..MaxUpdates -> 0..MaxUpdates]]
      BY <1>1, <1>7, <2>1 DEF ShowPicture, TypeOK
    <2> QED
      BY <1>1, <1>7, <2>2, <2>3, <2>4 DEF ShowPicture, TypeOK
  <1>8. CASE MovePicture(c)
    <2>1. saying' \in [Conn -> Words]
      BY <1>1, <1>2, <1>8, SayType DEF MovePicture
    <2>2. base' \in [Conn -> [1..MaxUpdates -> 0..MaxUpdates]]
      BY <1>1, <1>2, <1>8 DEF MovePicture, MoveBase, TypeOK
    <2> QED
      BY <1>1, <1>8, <2>1, <2>2 DEF MovePicture, TypeOK
  <1>9. CASE NoSuchPicture(c)
    BY <1>1, <1>9 DEF NoSuchPicture, TypeOK
  <1> QED
    BY <1>3, <1>4, <1>5, <1>6, <1>7, <1>8, <1>9 DEF processMessage

\* Sharing keeps the types.
LEMMA ShareType ==
    ASSUME PlacesInv, NEW c \in Conn, shareToRoom(c)
    PROVE  TypeOK'
  <1> USE DEF dataVars, roomVars, clientVars
  <1>1. TypeOK
    BY DEF PlacesInv
  <1>2. ASSUME Shared(c)
        PROVE  /\ doing' \in [Conn -> Kinds \cup {"none"}] /\ saying' \in [Conn -> Words]
    <2>1. AfterShare(c) \in Kinds \cup {"none"}
      BY <1>1 DEF TypeOK, AfterShare
    <2> QED
      BY <1>1, <1>2, <2>1, SilenceType DEF Shared, TypeOK
  <1>3. CASE ShareSkipped(c)
    BY <1>1, <1>2, <1>3 DEF ShareSkipped, TypeOK
  <1>4. CASE ShareBegin(c)
    BY <1>1, <1>4 DEF ShareBegin, Others, TypeOK
  <1>5. ASSUME NEW v \in Conn, ShareSend(c, v) PROVE TypeOK'
    <2>1. coming[v][c] \in Looks /\ saying[c] \in Words
      BY <1>1 DEF TypeOK
    <2>2. Apply(coming[v][c], saying[c]) \in Looks
      BY <2>1, ApplyFields
    <2>3. coming' \in [Conn -> [Conn -> Looks]]
      BY <1>1, <1>5, <2>2 DEF ShareSend, TypeOK
    <2>4. overtaken' \subseteq Conn \X Conn \X Fields
      BY <1>1, <1>5 DEF ShareSend, Overtaking, TypeOK
    <2>5. todo' \in [Conn -> SUBSET Conn]
      BY <1>1, <1>5 DEF ShareSend, TypeOK
    <2> QED
      BY <1>1, <1>5, <2>3, <2>4, <2>5 DEF ShareSend, TypeOK
  <1>6. CASE ShareEnd(c)
    BY <1>1, <1>2, <1>6 DEF ShareEnd, TypeOK
  <1> QED
    BY <1>3, <1>4, <1>5, <1>6 DEF shareToRoom

\* Changing rooms keeps the types.
LEMMA RoomType ==
    ASSUME PlacesInv, NEW c \in Conn, changeRoom(c)
    PROVE  TypeOK'
  <1> USE DEF dataVars, roomVars, clientVars
  <1>1. TypeOK
    BY DEF PlacesInv
  <1>2. CASE SwitchRoom(c)
    BY <1>1, <1>2 DEF SwitchRoom, TypeOK
  <1>3. CASE setRoom(c)
    BY <1>1, <1>3 DEF setRoom, TypeOK
  <1>4. CASE GreetBegin(c)
    BY <1>1, <1>4 DEF GreetBegin, Others, TypeOK
  <1>5. ASSUME NEW m \in Conn, GreetVisit(c, m) PROVE TypeOK'
    <2>1. PICK s \in SpriteReads(m) : intro' = [intro EXCEPT ![c][m] = GetIntroMessages(m, s)]
      BY <1>5 DEF GreetVisit
    <2>2. GetIntroMessages(m, s) \in Words
      BY <1>1, SpriteType, IntroType
    <2>3. intro' \in [Conn -> [Conn -> Words]]
      BY <1>1, <2>1, <2>2 DEF TypeOK
    <2>4. todo' \in [Conn -> SUBSET Conn] /\ crashed' \in BOOLEAN
      BY <1>1, <1>5 DEF GreetVisit, TypeOK
    <2> QED
      BY <1>1, <1>5, <2>3, <2>4 DEF GreetVisit, TypeOK
  <1>6. CASE GreetEnd(c)
    <2>1. \A m \in Conn : Apply(coming[c][m], intro[c][m]) \in Looks
      BY <1>1, ApplyFields DEF TypeOK
    <2>2. coming' \in [Conn -> [Conn -> Looks]]
      BY <1>1, <1>6, <2>1 DEF GreetEnd, TypeOK
    <2>3. intro' \in [Conn -> [Conn -> Words]]
      BY <1>1, <1>6, SilenceType DEF GreetEnd, TypeOK
    <2>4. sprite[c] \in Sprites
      BY <1>1, AppearanceAssumption DEF TypeOK, Sprites, Torn
    <2>5. GetIntroMessages(c, sprite[c]) \in Words
      BY <1>1, <2>4, IntroType
    <2>6. saying' \in [Conn -> Words]
      BY <1>1, <1>6, <2>5 DEF GreetEnd, TypeOK
    <2> QED
      BY <1>1, <1>6, <2>2, <2>3, <2>6 DEF GreetEnd, TypeOK
  <1> QED
    BY <1>2, <1>3, <1>4, <1>5, <1>6 DEF changeRoom

\* A look that is serialized is one, with a base.
LEMMA SerializedLook ==
    ASSUME PlacesInv, NEW v \in Conn, NEW c \in Conn
    PROVE  LET look == coming[v][c]
               new == Serialized(c, look)
           IN  /\ new \in Looks /\ new.base # Later
               /\ new.on = look.on /\ new.sprite = look.sprite /\ new.pic = look.pic
               /\ look.base # Later => new = look
               /\ look.base = Later => new.base = base[c][look.pic]
  <1> SUFFICES ASSUME NEW look, NEW new, look = coming[v][c], new = Serialized(c, look)
               PROVE  /\ new \in Looks /\ new.base # Later
                      /\ new.on = look.on /\ new.sprite = look.sprite /\ new.pic = look.pic
                      /\ look.base # Later => new = look
                      /\ look.base = Later => new.base = base[c][look.pic]
    OBVIOUS
  <1>1. look \in Looks /\ (look.base = Later => look.pic # 0) /\ MaxUpdates \in Nat
    BY AppearanceAssumption DEF PlacesInv, TypeOK, LookOK
  <1>2. CASE look.base # Later
    <2>1. new = look
      BY <1>2 DEF Serialized
    <2> QED
      BY <1>1, <1>2, <2>1
  <1>3. CASE look.base = Later
    <2>1. look.pic \in 1..MaxUpdates
      BY <1>1, <1>3 DEF Looks
    <2>9. base \in [Conn -> [1..MaxUpdates -> 0..MaxUpdates]]
      BY DEF PlacesInv, TypeOK
    <2>2. base[c][look.pic] \in 0..MaxUpdates
      BY <2>1, <2>9
    <2>3. new = [look EXCEPT !.base = base[c][look.pic]]
      BY <1>3 DEF Serialized
    <2>4. new = [on |-> look.on, sprite |-> look.sprite, flash |-> look.flash, pic |-> look.pic,
                 base |-> base[c][look.pic]]
      BY <1>1, <2>3 DEF Looks
    <2>5. base[c][look.pic] \in 0..Later /\ base[c][look.pic] # Later
      BY <1>1, <2>2 DEF Later
    <2>6. new \in Looks
      BY <1>1, <2>4, <2>5 DEF Looks
    <2> QED
      BY <1>3, <2>4, <2>5, <2>6
  <1> QED
    BY <1>2, <1>3

\* Every step keeps the types.
LEMMA TypeStep ==
    ASSUME PlacesInv, [Next]_vars
    PROVE  TypeOK'
  <1> USE DEF dataVars, roomVars, localVars, clientVars
  <1>1. TypeOK
    BY DEF PlacesInv
  <1>2. ASSUME NEW c \in Conn, NEW kind \in Kinds, Receive(c, kind) PROVE TypeOK'
    <2>1. updates' \in [Conn -> 0..MaxUpdates]
      BY <1>1, <1>2, AppearanceAssumption DEF Receive, TypeOK
    <2> QED
      BY <1>1, <1>2, <2>1 DEF Receive, TypeOK
  <1>3. ASSUME NEW v \in Conn, Flush(v) PROVE TypeOK'
    <2>1. \A c \in Conn : Serialized(c, coming[v][c]) \in Looks
      BY SerializedLook
    <2>2. screen' \in [Conn -> [Conn -> Looks]]
      BY <1>1, <1>3, <2>1 DEF Flush, TypeOK
    <2>3. coming' \in [Conn -> [Conn -> Looks]]
      BY <1>1, <1>3, <2>2 DEF Flush, TypeOK
    <2> QED
      BY <1>1, <1>3, <2>2, <2>3 DEF Flush, TypeOK
  <1>4. CASE UNCHANGED vars
    BY <1>1, <1>4 DEF vars, TypeOK
  <1> QED
    BY <1>2, <1>3, <1>4, ProcessType, ShareType, RoomType DEF Next, Rest

-----------------------------------------------------------------------------
(* Every step keeps players, readers and messages in their places.          *)

PlayerOK(c) == SayingOK(c) /\ ReadingOK(c) /\ active[c] <= Seen(c)

\* Nothing happens to a player.
SameData(d) ==
    /\ sprite'[d] = sprite[d] /\ flash'[d] = flash[d]
    /\ active'[d] = active[d] /\ base'[d] = base[d]

SamePlace(d) ==
    /\ pc'[d] = pc[d] /\ todo'[d] = todo[d] /\ intro'[d] = intro[d]
    /\ d \in reading' <=> d \in reading

SameWork(d) == doing'[d] = doing[d] /\ saying'[d] = saying[d] /\ updates'[d] = updates[d]

\* What a player is saying still fits if none of what it is about changed.
LEMMA SayingSame ==
    ASSUME NEW d \in Conn, SayingOK(d), SameData(d), pc'[d] = pc[d], SameWork(d)
    PROVE  SayingOK(d)' /\ Seen(d)' = Seen(d)
  BY DEF SayingOK, SameData, SameWork, Saying, GetIntroMessages, SpriteIntro, PictureIntro, Seen

\* A reader of the room stays one.
LEMMA ReadingSame ==
    ASSUME NEW d \in Conn, ReadingOK(d), SamePlace(d), saying'[d] = saying[d],
           members' = members
    PROVE  ReadingOK(d)'
  BY DEF ReadingOK, SamePlace, Here, Others, Saying

\* A player to which nothing happens stays where it is.
LEMMA PlayerSame ==
    ASSUME NEW d \in Conn, PlayerOK(d), SameData(d), SamePlace(d), SameWork(d),
           members' = members
    PROVE  PlayerOK(d)'
  BY SayingSame, ReadingSame DEF PlayerOK, SameData, SamePlace, SameWork

\* What is counted is a number, now and after a step.
LEMMA SeenType ==
    ASSUME TypeOK, NEW d \in Conn
    PROVE  Seen(d) \in Int /\ active[d] \in Int /\ updates[d] \in Int
  BY AppearanceAssumption DEF TypeOK, Seen

LEMMA SeenTypeNext ==
    ASSUME TypeOK', NEW d \in Conn
    PROVE  Seen(d)' \in Int
  BY AppearanceAssumption DEF TypeOK, Seen

\* A look that nobody adds to is as fine as before.
LEMMA LookSame ==
    ASSUME PlacesInv, TypeOK', NEW v \in Conn, NEW d \in Conn,
           coming'[v][d] = coming[v][d], screen'[v][d] = screen[v][d],
           intro'[v][d] = intro[v][d],
           Here(v) => Here(v)', Here(d) => Here(d)', Seen(d) <= Seen(d)'
    PROVE  LookOK(v, d)'
  <1>1. LookOK(v, d) /\ Seen(d) \in Int /\ Seen(d)' \in Int
    BY SeenType, SeenTypeNext DEF PlacesInv
  <1>2. coming[v][d] \in Looks /\ intro[v][d] \in Words
    <2>1. coming \in [Conn -> [Conn -> Looks]] /\ intro \in [Conn -> [Conn -> Words]]
      BY DEF PlacesInv, TypeOK
    <2> QED
      BY <2>1
  <1>3. coming[v][d].pic \in Int
    BY <1>2, AppearanceAssumption DEF Looks
  <1>4. intro[v][d].kind = "intro" => intro[v][d].val.pic \in Int
    BY <1>2, AppearanceAssumption DEF Words, Silence, Word
  <1>5. coming[v][d].pic <= Seen(d)'
    BY <1>1, <1>3 DEF LookOK
  <1>6. intro[v][d].kind = "intro" => intro[v][d].val.pic <= Seen(d)'
    BY <1>1, <1>4 DEF LookOK
  <1> QED
    BY <1>1, <1>5, <1>6 DEF LookOK, Later

\* Processing a message.
LEMMA ProcessPlayer ==
    ASSUME PlacesInv, TypeOK', NEW c \in Conn, processMessage(c)
    PROVE  PlayerOK(c)' /\ Seen(c) <= Seen(c)'
  <1> USE DEF dataVars, roomVars, clientVars
  <1>1. TypeOK /\ SayingOK(c) /\ ReadingOK(c) /\ active[c] <= Seen(c) /\ MaxUpdates \in Nat
    BY AppearanceAssumption DEF PlacesInv
  <1>2. Seen(c) \in Int /\ active[c] \in Int /\ updates[c] \in Int
    BY <1>1, SeenType
  <1>3. doing[c] # "none" /\ saying[c].kind = "none" /\ updates[c] # 0 /\ c \notin reading
        /\ pc[c] \in {"away", "room"}
    <2>1. doing[c] # "none" /\ saying[c].kind = "none"
      BY DEF processMessage, SetField, RepeatingFlash, RemoveRepeatingFlash, removePicture,
             ShowPicture, MovePicture, NoSuchPicture, Writing, Saying
    <2>2. pc[c] \in {"away", "join", "greet", "show", "room"}
      BY <1>1 DEF TypeOK
    <2> QED
      BY <1>1, <2>1, <2>2 DEF SayingOK, ReadingOK, Saying, Here
  <1>4. ASSUME pc' = pc, todo' = todo, intro' = intro, reading' = reading, members' = members
        PROVE  ReadingOK(c)'
    BY <1>1, <1>3, <1>4 DEF ReadingOK, Here, Others
  <1>5. CASE SetField(c)
    <2>1. saying'[c] = Word("sprite", sprite'[c])
      BY <1>1, <1>5 DEF SetField, Say, TypeOK
    <2>2. sprite'[c] = <<updates[c], updates[c]>>
      BY <1>1, <1>5 DEF SetField, TypeOK
    <2>3. SayingOK(c)'
      BY <1>1, <1>3, <1>5, <2>1, <2>2 DEF SetField, SayingOK, Saying, Word, Writing
    <2>4. Seen(c)' = Seen(c)
      BY <1>3, <1>5, <2>1 DEF SetField, Seen, Word, Writing
    <2> QED
      BY <1>1, <1>2, <1>4, <1>5, <2>3, <2>4 DEF SetField, PlayerOK
  <1>6. CASE RepeatingFlash(c)
    <2>1. saying'[c] = Word("flash", TRUE)
      BY <1>1, <1>6 DEF RepeatingFlash, Say, TypeOK
    <2>3. SayingOK(c)'
      BY <1>1, <1>3, <1>6, <2>1 DEF RepeatingFlash, SayingOK, Saying, Word, Writing
    <2>4. Seen(c)' = Seen(c)
      BY <1>3, <1>6, <2>1 DEF RepeatingFlash, Seen, Word, Writing
    <2> QED
      BY <1>1, <1>2, <1>4, <1>6, <2>3, <2>4 DEF RepeatingFlash, PlayerOK
  <1>7. CASE RemoveRepeatingFlash(c)
    <2>1. saying'[c] = Word("flash", FALSE)
      BY <1>1, <1>7 DEF RemoveRepeatingFlash, Say, TypeOK
    <2>3. SayingOK(c)'
      BY <1>1, <1>3, <1>7, <2>1 DEF RemoveRepeatingFlash, SayingOK, Saying, Word, Writing
    <2>4. Seen(c)' = Seen(c)
      BY <1>3, <1>7, <2>1 DEF RemoveRepeatingFlash, Seen, Word, Writing
    <2> QED
      BY <1>1, <1>2, <1>4, <1>7, <2>3, <2>4 DEF RemoveRepeatingFlash, PlayerOK
  <1>8. CASE removePicture(c)
    <2>1. saying'[c] = Word("erase", 0)
      BY <1>1, <1>8 DEF removePicture, Say, TypeOK
    <2>2. active'[c] = 0
      BY <1>1, <1>8 DEF removePicture, TypeOK
    <2>3. SayingOK(c)'
      BY <1>1, <1>3, <1>8, <2>1, <2>2 DEF removePicture, SayingOK, Saying, Word, Writing
    <2>4. Seen(c)' = Seen(c)
      BY <1>3, <1>8, <2>1 DEF removePicture, Seen, Word, Writing
    <2>5. Seen(c) >= 0
      BY <1>1, <1>2 DEF TypeOK
    <2> QED
      BY <1>1, <1>2, <1>4, <1>8, <2>2, <2>3, <2>4, <2>5 DEF removePicture, PlayerOK
  <1>9. CASE ShowPicture(c)
    <2>1. saying'[c] = Word(doing[c], updates[c])
      BY <1>1, <1>9 DEF ShowPicture, Say, TypeOK
    <2>2. active'[c] = IF doing[c] = "show" THEN updates[c] ELSE 0
      BY <1>1, <1>9 DEF ShowPicture, Tracked, TypeOK
    <2>5. doing[c] \in {"show", "once"} /\ doing' = doing /\ updates' = updates
      BY <1>9 DEF ShowPicture, Writing
    <2>3. SayingOK(c)'
      BY <1>1, <1>3, <1>9, <2>1, <2>2, <2>5 DEF ShowPicture, SayingOK, Saying, Word
    <2>4. Seen(c)' = updates[c] /\ Seen(c) = updates[c] - 1
      BY <1>3, <2>1, <2>5 DEF Seen, Word
    <2>6. updates[c] >= 0
      BY <1>1 DEF TypeOK
    <2> QED
      BY <1>1, <1>2, <1>4, <1>9, <2>2, <2>3, <2>4, <2>6 DEF ShowPicture, PlayerOK
  <1>10. CASE MovePicture(c)
    <2>1. saying'[c] = Word("move", updates[c])
      BY <1>1, <1>10 DEF MovePicture, Say, TypeOK
    <2>2. active[c] \in 1..MaxUpdates
      BY <1>1, <1>10 DEF MovePicture, TypeOK
    <2>6. base'[c][active[c]] = updates[c]
      BY <1>1, <1>10, <2>2 DEF MovePicture, MoveBase, TypeOK
    <2>3. SayingOK(c)'
      BY <1>1, <1>3, <1>10, <2>1, <2>2, <2>6 DEF MovePicture, SayingOK, Saying, Word, Writing
    <2>4. Seen(c)' = Seen(c)
      BY <1>3, <1>10, <2>1 DEF MovePicture, Seen, Word, Writing
    <2> QED
      BY <1>1, <1>2, <1>4, <1>10, <2>3, <2>4 DEF MovePicture, PlayerOK
  <1>11. CASE NoSuchPicture(c)
    <2>1. doing'[c] = "none"
      BY <1>1, <1>11 DEF NoSuchPicture, TypeOK
    <2>3. SayingOK(c)'
      BY <1>1, <1>3, <1>11, <2>1 DEF NoSuchPicture, SayingOK, Saying
    <2>4. Seen(c)' = Seen(c)
      BY <1>3, <1>11, <2>1 DEF NoSuchPicture, Seen, Writing
    <2> QED
      BY <1>1, <1>2, <1>4, <1>11, <2>3, <2>4 DEF NoSuchPicture, PlayerOK
  <1> QED
    BY <1>5, <1>6, <1>7, <1>8, <1>9, <1>10, <1>11 DEF processMessage

\* It concerns nobody else.
LEMMA ProcessOthers ==
    ASSUME TypeOK, NEW c \in Conn, processMessage(c)
    PROVE  /\ pc' = pc /\ todo' = todo /\ intro' = intro /\ reading' = reading
           /\ members' = members /\ coming' = coming /\ screen' = screen
           /\ updates' = updates /\ overtaken' = overtaken
           /\ \A d \in Conn \ {c} : SameData(d) /\ SamePlace(d) /\ SameWork(d)
  <1> USE DEF dataVars, roomVars, clientVars, SameData, SamePlace, SameWork, TypeOK, Say
  <1>1. CASE SetField(c)
    BY <1>1 DEF SetField
  <1>2. CASE RepeatingFlash(c)
    BY <1>2 DEF RepeatingFlash
  <1>3. CASE RemoveRepeatingFlash(c)
    BY <1>3 DEF RemoveRepeatingFlash
  <1>4. CASE removePicture(c)
    BY <1>4 DEF removePicture
  <1>5. CASE ShowPicture(c)
    BY <1>5 DEF ShowPicture
  <1>6. CASE MovePicture(c)
    BY <1>6 DEF MovePicture, MoveBase
  <1>7. CASE NoSuchPicture(c)
    BY <1>7 DEF NoSuchPicture
  <1> QED
    BY <1>1, <1>2, <1>3, <1>4, <1>5, <1>6, <1>7 DEF processMessage

\* So processing keeps everything in its place.
LEMMA ProcessPlaces ==
    ASSUME PlacesInv, NEW c \in Conn, processMessage(c)
    PROVE  PlacesInv'
  <1>1. TypeOK /\ TypeOK'
    BY ProcessType DEF PlacesInv
  <1>2. \A d \in Conn : PlayerOK(d)
    BY DEF PlacesInv, PlayerOK
  <1>3. PlayerOK(c)' /\ Seen(c) <= Seen(c)'
    BY <1>1, ProcessPlayer
  <1>4. ASSUME NEW d \in Conn \ {c} PROVE PlayerOK(d)' /\ Seen(d) <= Seen(d)'
    <2>1. SameData(d) /\ SamePlace(d) /\ SameWork(d) /\ members' = members
      BY <1>1, ProcessOthers
    <2>2. SayingOK(d)' /\ Seen(d)' = Seen(d)
      BY <1>2, <2>1, SayingSame DEF PlayerOK, SamePlace
    <2> QED
      BY <1>1, <1>2, <2>1, <2>2, PlayerSame, SeenType
  <1>5. \A v, d \in Conn : LookOK(v, d)'
    BY <1>1, <1>3, <1>4, ProcessOthers, LookSame DEF Here
  <1> QED
    BY <1>1, <1>3, <1>4, <1>5 DEF PlacesInv, PlayerOK

\* Taking up a message.
LEMMA ReceivePlaces ==
    ASSUME PlacesInv, TypeOK', NEW c \in Conn, NEW kind \in Kinds, Receive(c, kind)
    PROVE  PlacesInv'
  <1> USE DEF dataVars, roomVars, clientVars
  <1>1. TypeOK /\ SayingOK(c) /\ ReadingOK(c) /\ active[c] <= Seen(c) /\ MaxUpdates \in Nat
    BY AppearanceAssumption DEF PlacesInv
  <1>2. Seen(c) \in Int /\ active[c] \in Int /\ updates[c] \in Int
    BY <1>1, SeenType
  <1>3. pc[c] \in {"away", "room"} /\ doing[c] = "none" /\ saying[c].kind = "none"
    BY <1>1 DEF Receive, Idle, SayingOK, Saying
  <1>4. doing'[c] = kind /\ kind # "none" /\ updates'[c] = updates[c] + 1
    BY <1>1 DEF Receive, TypeOK, Kinds
  <1>5. updates[c] >= 0
    BY <1>1 DEF TypeOK
  <1>6. Seen(c) = updates[c] /\ Seen(c)' >= updates[c] /\ Seen(c)' \in Int
    BY <1>2, <1>3, <1>4 DEF Receive, Seen
  <1>7. SayingOK(c)'
    <2>1. updates'[c] # 0
      BY <1>2, <1>4, <1>5
    <2> QED
      BY <1>1, <1>3, <1>4, <2>1 DEF Receive, SayingOK, Saying
  <1>8. ReadingOK(c)'
    BY <1>1, <1>3 DEF Receive, ReadingOK, Here, Others, Saying
  <1>9. PlayerOK(c)' /\ Seen(c) <= Seen(c)'
    BY <1>1, <1>2, <1>6, <1>7, <1>8 DEF Receive, PlayerOK
  <1>10. ASSUME NEW d \in Conn \ {c} PROVE PlayerOK(d)' /\ Seen(d) <= Seen(d)'
    <2>1. SameData(d) /\ SamePlace(d) /\ SameWork(d) /\ members' = members
      BY <1>1 DEF Receive, SameData, SamePlace, SameWork, TypeOK
    <2>2. PlayerOK(d)
      BY DEF PlacesInv, PlayerOK
    <2>3. SayingOK(d)' /\ Seen(d)' = Seen(d)
      BY <2>1, <2>2, SayingSame DEF PlayerOK, SamePlace
    <2> QED
      BY <1>1, <2>1, <2>2, <2>3, PlayerSame, SeenType
  <1>11. \A v, d \in Conn : LookOK(v, d)'
    BY <1>9, <1>10, LookSame DEF Receive, Here
  <1> QED
    BY <1>9, <1>10, <1>11 DEF PlacesInv, PlayerOK

\* Sharing concerns nobody else, but for the looks that are going to be shown.
LEMMA ShareOthers ==
    ASSUME TypeOK, NEW c \in Conn, shareToRoom(c)
    PROVE  /\ dataVars' = dataVars /\ members' = members /\ intro' = intro /\ screen' = screen
           /\ updates' = updates
           /\ \A d \in Conn \ {c} : SameData(d) /\ SamePlace(d) /\ SameWork(d)
  <1> USE DEF dataVars, roomVars, clientVars, SameData, SamePlace, SameWork, TypeOK, Shared
  <1>1. CASE ShareSkipped(c)
    BY <1>1 DEF ShareSkipped
  <1>2. CASE ShareBegin(c)
    BY <1>2 DEF ShareBegin
  <1>3. CASE \E v \in Conn : ShareSend(c, v)
    BY <1>3 DEF ShareSend
  <1>4. CASE ShareEnd(c)
    BY <1>4 DEF ShareEnd
  <1> QED
    BY <1>1, <1>2, <1>3, <1>4 DEF shareToRoom

\* When a message has been shared, what is left of it has not been seen.
LEMMA SharedSaying ==
    ASSUME TypeOK, NEW c \in Conn, SayingOK(c), Shared(c), Saying(c),
           pc[c] \in {"away", "show", "room"}, pc'[c] \in {"away", "room"},
           SameData(c), updates' = updates
    PROVE  SayingOK(c)' /\ Seen(c)' = Seen(c)
  <1>1. saying'[c] = Silence /\ doing'[c] = AfterShare(c)
    BY DEF Shared, TypeOK
  <1>2. saying'[c].kind = "none"
    BY <1>1 DEF Silence, Word
  <1>3. SayingOK(c)'
    BY <1>1, <1>2 DEF SayingOK, Saying, SameData, AfterShare
  <1>4. Seen(c)' = Seen(c)
    BY <1>1, <1>2 DEF SayingOK, Saying, Seen, AfterShare
  <1> QED
    BY <1>3, <1>4

\* Sharing a change leaves the player in its place.
LEMMA SharePlayer ==
    ASSUME PlacesInv, NEW c \in Conn, shareToRoom(c)
    PROVE  PlayerOK(c)' /\ Seen(c)' = Seen(c) /\ (Here(c)' <=> Here(c))
  <1> USE DEF dataVars, roomVars, clientVars
  <1>1. TypeOK /\ SayingOK(c) /\ ReadingOK(c) /\ active[c] <= Seen(c)
    BY DEF PlacesInv
  <1>2. SameData(c)
    BY <1>1, ShareOthers DEF SameData
  <1>3. CASE ShareSkipped(c)
    <2>1. pc' = pc /\ pc[c] = "away" /\ Saying(c) /\ Shared(c) /\ updates' = updates
      BY <1>3 DEF ShareSkipped
    <2>2. SayingOK(c)' /\ Seen(c)' = Seen(c)
      BY <1>1, <1>2, <2>1, SharedSaying
    <2>3. ReadingOK(c)'
      BY <1>1, <1>3, <2>1 DEF ShareSkipped, ReadingOK, Here, Others
    <2> QED
      BY <1>1, <1>2, <2>1, <2>2, <2>3 DEF PlayerOK, SameData, Here
  <1>4. CASE ShareBegin(c)
    <2>1. pc' = pc /\ doing' = doing /\ saying' = saying /\ updates' = updates
      BY <1>4 DEF ShareBegin
    <2>2. SayingOK(c)' /\ Seen(c)' = Seen(c)
      BY <1>1, <1>2, <2>1, SayingSame DEF SameWork
    <2>3. todo'[c] = members \ {c} /\ members' = members
      BY <1>1, <1>4 DEF ShareBegin, Others, TypeOK
    <2>4. ReadingOK(c)'
      BY <1>1, <1>4, <2>1, <2>3 DEF ShareBegin, ReadingOK, Here, Others, Saying
    <2> QED
      BY <1>1, <1>2, <2>1, <2>2, <2>4 DEF PlayerOK, SameData, Here
  <1>5. ASSUME NEW v \in Conn, ShareSend(c, v)
        PROVE  PlayerOK(c)' /\ Seen(c)' = Seen(c) /\ (Here(c)' <=> Here(c))
    <2>1. pc' = pc /\ doing' = doing /\ saying' = saying /\ updates' = updates
      BY <1>5 DEF ShareSend
    <2>2. SayingOK(c)' /\ Seen(c)' = Seen(c)
      BY <1>1, <1>2, <2>1, SayingSame DEF SameWork
    <2>3. todo'[c] = todo[c] \ {v} /\ members' = members
      BY <1>1, <1>5 DEF ShareSend, TypeOK
    <2>4. ReadingOK(c)'
      BY <1>1, <1>5, <2>1, <2>3 DEF ShareSend, ReadingOK, Here, Others, Saying
    <2> QED
      BY <1>1, <1>2, <2>1, <2>2, <2>4 DEF PlayerOK, SameData, Here
  <1>6. CASE ShareEnd(c)
    <2>1. pc'[c] = "room" /\ Saying(c) /\ Shared(c) /\ updates' = updates
          /\ pc[c] \in {"show", "room"} /\ c \notin reading'
      BY <1>1, <1>6 DEF ShareEnd, TypeOK, ReadingOK
    <2>2. SayingOK(c)' /\ Seen(c)' = Seen(c)
      BY <1>1, <1>2, <2>1, SharedSaying
    <2>3. ReadingOK(c)'
      BY <1>1, <1>6, <2>1 DEF ShareEnd, ReadingOK, Here, Others
    <2> QED
      BY <1>1, <1>2, <2>1, <2>2, <2>3 DEF PlayerOK, SameData, Here
  <1> QED
    BY <1>3, <1>4, <1>5, <1>6 DEF shareToRoom

\* What is shared makes a look of what the player has shown.
LEMMA SharePlaces ==
    ASSUME PlacesInv, NEW c \in Conn, shareToRoom(c)
    PROVE  PlacesInv'
  <1> USE DEF dataVars, roomVars, clientVars
  <1>1. TypeOK /\ TypeOK'
    BY ShareType DEF PlacesInv
  <1>2. ASSUME NEW d \in Conn
        PROVE  PlayerOK(d)' /\ Seen(d)' = Seen(d) /\ (Here(d)' <=> Here(d))
    <2>1. CASE d = c
      BY <2>1, SharePlayer
    <2>2. CASE d # c
      <3>1. SameData(d) /\ SamePlace(d) /\ SameWork(d) /\ members' = members
        BY <1>1, <2>2, ShareOthers
      <3>2. PlayerOK(d)
        BY DEF PlacesInv, PlayerOK
      <3>3. SayingOK(d)' /\ Seen(d)' = Seen(d)
        BY <3>1, <3>2, SayingSame DEF PlayerOK, SamePlace
      <3> QED
        BY <3>1, <3>2, <3>3, PlayerSame DEF SamePlace, Here
    <2> QED
      BY <2>1, <2>2
  <1>3. \A d \in Conn : Seen(d) <= Seen(d)'
    BY <1>1, <1>2, SeenType
  <1>4. intro' = intro /\ screen' = screen
    BY <1>1, ShareOthers
  <1>5. ASSUME coming' = coming PROVE \A v, d \in Conn : LookOK(v, d)'
    BY <1>1, <1>2, <1>3, <1>4, <1>5, LookSame
  <1>6. ASSUME NEW v \in Conn, ShareSend(c, v) PROVE \A u, d \in Conn : LookOK(u, d)'
    <2>1. \A u, d \in Conn : <<u, d>> # <<v, c>> => coming'[u][d] = coming[u][d]
      BY <1>1, <1>6 DEF ShareSend, TypeOK
    <2>2. coming'[v][c] = Apply(coming[v][c], saying[c])
      BY <1>1, <1>6 DEF ShareSend, TypeOK
    <2>3. LookOK(v, c) /\ SayingOK(c) /\ ReadingOK(c) /\ ReadingOK(v) /\ active[c] <= Seen(c)
      BY DEF PlacesInv
    <2>4. v # c /\ Here(v) /\ Here(c)
      BY <1>6, <2>3 DEF ShareSend, ReadingOK
    <2>5. coming[v][c] \in Looks /\ saying[c] \in Words
      BY <1>1 DEF TypeOK
    <2>6. coming[v][c].pic <= Seen(c) /\ coming[v][c].pic >= 0 /\ Seen(c) \in Int
          /\ active[c] \in Int
      BY <1>1, <2>3, <2>5, SeenType DEF LookOK, Looks
    <2>7. saying[c].kind = "intro" => saying[c].val.pic = active[c]
      BY <2>3 DEF SayingOK, GetIntroMessages, PictureIntro, Word
    <2>8. PICK look \in Looks : look = coming'[v][c]
      BY <1>1 DEF TypeOK
    <2>9. /\ ~look.on => look.sprite = Unset /\ look.pic = 0
          /\ look.base = Later => look.pic # 0
          /\ look.pic <= Seen(c)
      <3>1. look.pic <= Seen(c)
        BY <2>2, <2>3, <2>5, <2>6, <2>7, <2>8, ApplyFields DEF SayingOK
      <3>2. ~look.on => look.sprite = Unset /\ look.pic = 0
        BY <2>2, <2>3, <2>5, <2>8, ApplyFields DEF LookOK
      <3>3. look.base = Later => look.pic # 0
        <4>1. MaxUpdates \in Nat /\ Later = MaxUpdates + 1
          BY AppearanceAssumption DEF Later
        <4>2. saying[c].kind = "move" => saying[c].val \in 0..MaxUpdates
          BY <2>5 DEF Words, Silence, Word
        <4> QED
          BY <2>2, <2>3, <2>5, <2>8, <4>1, <4>2, ApplyFields DEF LookOK, SayingOK
      <3> QED
        BY <3>1, <3>2, <3>3
    <2>10. LookOK(v, c)'
      <3>1. Seen(c)' = Seen(c) /\ Here(c)' /\ Here(v)'
        BY <1>2, <2>4
      <3>2. intro[v][c].kind = "intro" => intro[v][c].val.pic <= Seen(c)
        BY <2>3 DEF LookOK
      <3> QED
        BY <1>4, <2>3, <2>4, <2>8, <2>9, <3>1, <3>2 DEF LookOK, Later
    <2>11. \A u, d \in Conn : <<u, d>> # <<v, c>> => LookOK(u, d)'
      BY <1>1, <1>2, <1>3, <1>4, <2>1, LookSame
    <2> QED
      BY <2>10, <2>11
  <1>7. \A v, d \in Conn : LookOK(v, d)'
    BY <1>5, <1>6 DEF shareToRoom, ShareSkipped, ShareBegin, ShareEnd
  <1> QED
    BY <1>1, <1>2, <1>7 DEF PlacesInv, PlayerOK

\* Changing rooms concerns nobody else.
LEMMA RoomOthers ==
    ASSUME TypeOK, NEW c \in Conn, changeRoom(c)
    PROVE  /\ dataVars' = dataVars /\ screen' = screen /\ updates' = updates /\ doing' = doing
           /\ overtaken' = overtaken
           /\ \A d \in Conn : SameData(d)
           /\ \A d \in Conn \ {c} :
                 SamePlace(d) /\ SameWork(d) /\ coming'[d] = coming[d]
                 /\ (d \in members' <=> d \in members)
  <1> USE DEF dataVars, roomVars, clientVars, SameData, SamePlace, SameWork, TypeOK
  <1>1. CASE SwitchRoom(c)
    BY <1>1 DEF SwitchRoom
  <1>2. CASE setRoom(c)
    BY <1>2 DEF setRoom
  <1>3. CASE GreetBegin(c)
    BY <1>3 DEF GreetBegin
  <1>4. CASE \E m \in Conn : GreetVisit(c, m)
    BY <1>4 DEF GreetVisit
  <1>5. CASE GreetEnd(c)
    BY <1>5 DEF GreetEnd
  <1> QED
    BY <1>1, <1>2, <1>3, <1>4, <1>5 DEF changeRoom

\* What a newcomer gathers of a member is an introduction with its picture.
LEMMA Gathered ==
    ASSUME TypeOK, NEW c \in Conn, NEW m \in Conn, GreetVisit(c, m)
    PROVE  /\ \E s \in SpriteReads(m) : intro'[c][m] = GetIntroMessages(m, s)
           /\ intro'[c][m].kind = "intro" /\ intro'[c][m].val.pic = active[m]
           /\ \A d \in Conn \ {m} : intro'[c][d] = intro[c][d]
           /\ \A v \in Conn \ {c} : intro'[v] = intro[v]
  <1>1. PICK s \in SpriteReads(m) : intro' = [intro EXCEPT ![c][m] = GetIntroMessages(m, s)]
    BY DEF GreetVisit
  <1>2. intro'[c][m] = GetIntroMessages(m, s)
    BY <1>1 DEF TypeOK
  <1> QED
    BY <1>1, <1>2 DEF TypeOK, GetIntroMessages, Word, PictureIntro

\* Changing rooms brings a player from place to place.
LEMMA RoomPlayer ==
    ASSUME PlacesInv, NEW c \in Conn, changeRoom(c)
    PROVE  PlayerOK(c)' /\ Seen(c)' = Seen(c) /\ (Here(c) => Here(c)')
  <1> USE DEF dataVars, roomVars, clientVars
  <1>1. TypeOK /\ SayingOK(c) /\ ReadingOK(c) /\ active[c] <= Seen(c)
    BY DEF PlacesInv
  <1>2. SameData(c) /\ doing' = doing /\ updates' = updates
    BY <1>1, RoomOthers
  <1>3. doing[c] = "none" /\ saying[c].kind = "none"
    BY <1>1 DEF changeRoom, SwitchRoom, setRoom, GreetBegin, GreetVisit, GreetEnd, Idle,
                SayingOK, Saying
  <1>4. Seen(c)' = Seen(c)
    BY <1>2, <1>3 DEF Seen
  <1>5. CASE SwitchRoom(c)
    <2>1. pc[c] = "away" /\ pc'[c] = "join" /\ saying' = saying
      BY <1>1, <1>5 DEF SwitchRoom, TypeOK
    <2>2. SayingOK(c)'
      BY <1>1, <1>2, <1>3, <2>1 DEF SayingOK, Saying, SameData
    <2>3. ReadingOK(c)'
      BY <1>1, <1>5, <2>1 DEF SwitchRoom, ReadingOK, Here, Others
    <2> QED
      BY <1>1, <1>2, <1>4, <2>1, <2>2, <2>3 DEF PlayerOK, SameData, Here
  <1>6. CASE setRoom(c)
    <2>1. pc[c] = "join" /\ pc'[c] = "greet" /\ saying' = saying /\ members' = members \cup {c}
          /\ c \notin reading' /\ c \notin reading
      BY <1>1, <1>6 DEF setRoom, TypeOK
    <2>2. SayingOK(c)'
      BY <1>1, <1>2, <1>3, <2>1 DEF SayingOK, Saying, SameData
    <2>3. ReadingOK(c)'
      BY <1>1, <1>6, <2>1 DEF setRoom, ReadingOK, Here, Others
    <2> QED
      BY <1>1, <1>2, <1>4, <2>1, <2>2, <2>3 DEF PlayerOK, SameData, Here
  <1>7. CASE GreetBegin(c)
    <2>1. pc[c] = "greet" /\ pc' = pc /\ saying' = saying /\ members' = members
          /\ c \in reading' /\ c \notin reading /\ todo'[c] = members \ {c}
      BY <1>1, <1>7 DEF GreetBegin, Others, TypeOK
    <2>2. SayingOK(c)'
      BY <1>1, <1>2, <1>3, <2>1 DEF SayingOK, Saying, SameData
    <2>3. ReadingOK(c)'
      BY <1>1, <1>7, <2>1 DEF GreetBegin, ReadingOK, Here, Others
    <2> QED
      BY <1>1, <1>2, <1>4, <2>1, <2>2, <2>3 DEF PlayerOK, SameData, Here
  <1>8. ASSUME NEW m \in Conn, GreetVisit(c, m)
        PROVE  PlayerOK(c)' /\ Seen(c)' = Seen(c) /\ (Here(c) => Here(c)')
    <2>1. pc[c] = "greet" /\ pc' = pc /\ saying' = saying /\ members' = members
          /\ reading' = reading /\ c \in reading /\ todo'[c] = todo[c] \ {m} /\ m \in todo[c]
      BY <1>1, <1>8 DEF GreetVisit, TypeOK
    <2>2. SayingOK(c)'
      BY <1>1, <1>2, <1>3, <2>1 DEF SayingOK, Saying, SameData
    <2>3. ReadingOK(c)'
      BY <1>1, <1>8, <2>1, Gathered DEF ReadingOK, Here, Others
    <2> QED
      BY <1>1, <1>2, <1>4, <2>1, <2>2, <2>3 DEF PlayerOK, SameData, Here
  <1>9. CASE GreetEnd(c)
    <2>1. pc[c] = "greet" /\ pc'[c] = "show" /\ members' = members /\ c \notin reading'
          /\ saying'[c] = GetIntroMessages(c, sprite[c])
          /\ \A m \in Conn : intro'[c][m] = Silence
      BY <1>1, <1>9 DEF GreetEnd, TypeOK
    <2>2. SayingOK(c)'
      BY <1>1, <1>2, <1>3, <2>1
      DEF SayingOK, Saying, SameData, GetIntroMessages, SpriteIntro, PictureIntro, Word
    <2>3. ReadingOK(c)'
      BY <1>1, <1>9, <2>1, SilenceType DEF ReadingOK, Here, Others
    <2> QED
      BY <1>1, <1>2, <1>4, <2>1, <2>2, <2>3 DEF PlayerOK, SameData, Here
  <1> QED
    BY <1>5, <1>6, <1>7, <1>8, <1>9 DEF changeRoom

\* What a newcomer gathered makes looks of what the members have shown.
LEMMA RoomPlaces ==
    ASSUME PlacesInv, NEW c \in Conn, changeRoom(c)
    PROVE  PlacesInv'
  <1> USE DEF dataVars, roomVars, clientVars
  <1>1. TypeOK /\ TypeOK'
    BY RoomType DEF PlacesInv
  <1>2. ASSUME NEW d \in Conn
        PROVE  PlayerOK(d)' /\ Seen(d)' = Seen(d) /\ (Here(d) => Here(d)')
    <2>1. CASE d = c
      BY <2>1, RoomPlayer
    <2>2. CASE d # c
      <3>1. SameData(d) /\ SamePlace(d) /\ SameWork(d) /\ (d \in members' <=> d \in members)
        BY <1>1, <2>2, RoomOthers
      <3>2. SayingOK(d) /\ ReadingOK(d) /\ active[d] <= Seen(d)
        BY DEF PlacesInv
      <3>3. SayingOK(d)' /\ Seen(d)' = Seen(d)
        BY <3>1, <3>2, SayingSame DEF SamePlace
      <3>4. ReadingOK(d)'
        <4>1. CASE members' = members
          BY <3>1, <3>2, <4>1, ReadingSame DEF SameWork
        <4>2. CASE setRoom(c)
          BY <3>1, <3>2, <4>2 DEF setRoom, ReadingOK, SamePlace, Here
        <4> QED
          BY <4>1, <4>2 DEF changeRoom, SwitchRoom, GreetBegin, GreetVisit, GreetEnd
      <3> QED
        BY <3>1, <3>2, <3>3, <3>4 DEF PlayerOK, SameData, SamePlace, Here
    <2> QED
      BY <2>1, <2>2
  <1>3. \A d \in Conn : Seen(d) <= Seen(d)'
    BY <1>1, <1>2, SeenType
  <1>4. screen' = screen
    BY <1>1, RoomOthers
  <1>5. ASSUME coming' = coming, intro' = intro PROVE \A v, d \in Conn : LookOK(v, d)'
    BY <1>1, <1>2, <1>3, <1>4, <1>5, LookSame
  <1>6. ASSUME NEW m \in Conn, GreetVisit(c, m) PROVE \A v, d \in Conn : LookOK(v, d)'
    <2>1. coming' = coming
      BY <1>6 DEF GreetVisit
    <2>2. LookOK(c, m) /\ active[m] <= Seen(m)
      BY DEF PlacesInv
    <2>3. intro'[c][m].val.pic <= Seen(m)'
      BY <1>1, <1>2, <1>6, <2>2, Gathered
    <2>4. LookOK(c, m)'
      BY <1>2, <1>4, <2>1, <2>2, <2>3 DEF LookOK, Later
    <2>5. \A v, d \in Conn : <<v, d>> # <<c, m>> => LookOK(v, d)'
      BY <1>1, <1>2, <1>3, <1>4, <1>6, <2>1, Gathered, LookSame
    <2> QED
      BY <2>4, <2>5
  <1>7. ASSUME GreetEnd(c) PROVE \A v, d \in Conn : LookOK(v, d)'
    <2>1. ASSUME NEW m \in Conn PROVE LookOK(c, m)'
      <3>1. coming'[c][m] = Apply(coming[c][m], intro[c][m]) /\ intro'[c][m] = Silence
        BY <1>1, <1>7 DEF GreetEnd, TypeOK
      <3>2. coming[c][m] \in Looks /\ intro[c][m] \in Words
        BY <1>1 DEF TypeOK
      <3>3. LookOK(c, m) /\ ReadingOK(c) /\ ReadingOK(m)
        BY DEF PlacesInv
      <3>4. /\ intro[c][m].kind \in {"none", "intro"}
            /\ intro[c][m].kind = "intro" =>
                  c # m /\ Here(m) /\ Here(c) /\ intro[c][m].val.pic <= Seen(m)
        BY <1>7, <3>3 DEF GreetEnd, ReadingOK, LookOK, Others
      <3>5. PICK look \in Looks : look = coming'[c][m]
        BY <1>1 DEF TypeOK
      <3>6. /\ look.on => c # m /\ Here(c) /\ Here(m)
            /\ ~look.on => look.sprite = Unset /\ look.pic = 0
            /\ look.base = Later => look.pic # 0
            /\ look.pic <= Seen(m)
        <4>1. CASE intro[c][m].kind = "intro"
          <5>1. /\ look.on
                /\ look.pic = IF intro[c][m].val.pic = 0 THEN coming[c][m].pic
                                                         ELSE intro[c][m].val.pic
                /\ look.base = IF intro[c][m].val.pic = 0 THEN coming[c][m].base ELSE Later
            BY <3>1, <3>2, <3>5, <4>1, ApplyFields
          <5> QED
            BY <3>3, <3>4, <4>1, <5>1 DEF LookOK
        <4>2. CASE intro[c][m].kind = "none"
          <5>1. look = coming[c][m]
            BY <3>1, <3>2, <3>5, <4>2, ApplySilence DEF Words, Silence, Word
          <5> QED
            BY <3>3, <5>1 DEF LookOK
        <4> QED
          BY <3>4, <4>1, <4>2
      <3>7. Seen(m)' = Seen(m) /\ (Here(c) => Here(c)') /\ (Here(m) => Here(m)')
        BY <1>2
      <3> QED
        BY <1>4, <3>1, <3>3, <3>5, <3>6, <3>7, SilenceType DEF LookOK, Later
    <2>2. ASSUME NEW v \in Conn \ {c}, NEW d \in Conn PROVE LookOK(v, d)'
      <3>1. coming'[v] = coming[v] /\ intro'[v] = intro[v]
        BY <1>1, <1>7 DEF GreetEnd, TypeOK
      <3> QED
        BY <1>1, <1>2, <1>3, <1>4, <3>1, LookSame
    <2> QED
      BY <2>1, <2>2
  <1>8. \A v, d \in Conn : LookOK(v, d)'
    BY <1>5, <1>6, <1>7 DEF changeRoom, SwitchRoom, setRoom, GreetBegin
  <1> QED
    BY <1>1, <1>2, <1>8 DEF PlacesInv, PlayerOK

\* A batch is shown.
LEMMA FlushedLook ==
    ASSUME PlacesInv, NEW v \in Conn, NEW c \in Conn, Flush(v)
    PROVE  /\ coming'[v][c] = Serialized(c, coming[v][c]) /\ screen'[v][c] = coming'[v][c]
           /\ \A u \in Conn \ {v} : coming'[u] = coming[u] /\ screen'[u] = screen[u]
  <1>1. screen \in [Conn -> [Conn -> Looks]] /\ coming \in [Conn -> [Conn -> Looks]]
    BY DEF PlacesInv, TypeOK
  <1> QED
    BY <1>1 DEF Flush

\* Sending a batch keeps everything in its place.
LEMMA FlushPlaces ==
    ASSUME PlacesInv, TypeOK', NEW v \in Conn, Flush(v)
    PROVE  PlacesInv'
  <1> USE DEF dataVars, roomVars, localVars, clientVars
  <1>1. TypeOK
    BY DEF PlacesInv
  <1>2. ASSUME NEW d \in Conn
        PROVE  PlayerOK(d)' /\ Seen(d)' = Seen(d) /\ (Here(d) => Here(d)')
    <2>1. SameData(d) /\ SamePlace(d) /\ SameWork(d) /\ members' = members
      BY DEF Flush, SameData, SamePlace, SameWork
    <2>2. PlayerOK(d)
      BY DEF PlacesInv, PlayerOK
    <2>3. SayingOK(d)' /\ Seen(d)' = Seen(d)
      BY <2>1, <2>2, SayingSame DEF PlayerOK, SamePlace
    <2> QED
      BY <2>1, <2>2, <2>3, PlayerSame DEF SamePlace, Here
  <1>3. \A d \in Conn : Seen(d) <= Seen(d)'
    BY <1>1, <1>2, SeenType
  <1>4. ASSUME NEW c \in Conn PROVE LookOK(v, c)'
    <2>1. PICK new : new = Serialized(c, coming[v][c])
      OBVIOUS
    <2>2. coming'[v][c] = new /\ screen'[v][c] = new /\ intro' = intro
      BY <2>1, FlushedLook DEF Flush
    <2>3. /\ new.base # Later /\ new.on = coming[v][c].on
          /\ new.sprite = coming[v][c].sprite /\ new.pic = coming[v][c].pic
      BY <2>1, SerializedLook
    <2>4. LookOK(v, c)
      BY DEF PlacesInv
    <2> QED
      BY <1>2, <2>2, <2>3, <2>4 DEF LookOK, Later
  <1>5. ASSUME NEW u \in Conn \ {v}, NEW c \in Conn PROVE LookOK(u, c)'
    <2>1. coming'[u] = coming[u] /\ screen'[u] = screen[u] /\ intro' = intro
      BY FlushedLook DEF Flush
    <2> QED
      BY <1>2, <1>3, <2>1, LookSame
  <1> QED
    BY <1>2, <1>4, <1>5 DEF PlacesInv, PlayerOK

\* So does every step, and the first state has it so.
LEMMA PlacesStep ==
    ASSUME PlacesInv, [Next]_vars
    PROVE  PlacesInv'
  <1>1. TypeOK'
    BY TypeStep
  <1>2. CASE UNCHANGED vars
    <2>1. UNCHANGED <<sprite, flash, active, base, members, reading, pc, doing, saying, todo,
                      intro, screen, coming, updates>>
      BY <1>2 DEF vars, dataVars, roomVars, localVars, clientVars
    <2>2. \A d \in Conn : PlayerOK(d) => PlayerOK(d)'
      BY <2>1, PlayerSame DEF SameData, SamePlace, SameWork
    <2>3. \A v, d \in Conn : LookOK(v, d) => LookOK(v, d)'
      BY <2>1 DEF LookOK, Here, Seen, Later
    <2> QED
      BY <1>1, <2>2, <2>3 DEF PlacesInv, PlayerOK
  <1> QED
    BY <1>1, <1>2, ReceivePlaces, ProcessPlaces, SharePlaces, RoomPlaces, FlushPlaces
    DEF Next, Rest

LEMMA PlacesInit == Init => PlacesInv
  <1> SUFFICES ASSUME Init PROVE PlacesInv
    OBVIOUS
  <1>1. Absent \in Looks /\ Silence \in Words /\ Silence.kind = "none"
    BY AppearanceAssumption, SilenceType DEF Absent, Looks, Sprites, Unset, Torn, Later
  <1>2. TypeOK
    <2>1. Unset \in (0..MaxUpdates) \X (0..MaxUpdates) /\ 0 \in 0..MaxUpdates
      BY AppearanceAssumption DEF Unset
    <2> QED
      BY <1>1, <2>1 DEF Init, TypeOK
  <1>3. ASSUME NEW c \in Conn PROVE SayingOK(c) /\ ReadingOK(c) /\ active[c] <= Seen(c)
    <2>1. /\ sprite[c] = Unset /\ active[c] = 0 /\ members = {} /\ reading = {}
          /\ pc[c] = "away" /\ doing[c] = "none" /\ saying[c] = Silence /\ updates[c] = 0
          /\ \A m \in Conn : intro[c][m] = Silence
      BY DEF Init
    <2> QED
      BY <1>1, <2>1 DEF SayingOK, Saying, ReadingOK, Here, Seen
  <1>4. ASSUME NEW v \in Conn, NEW c \in Conn PROVE LookOK(v, c)
    <2>1. /\ coming[v][c] = Absent /\ screen[v][c] = Absent /\ intro[v][c] = Silence
          /\ doing[c] = "none" /\ updates[c] = 0
      BY DEF Init
    <2>2. 0 # Later
      BY AppearanceAssumption DEF Later
    <2> QED
      BY <1>1, <2>1, <2>2 DEF LookOK, Absent, Seen
  <1> QED
    BY <1>2, <1>3, <1>4 DEF PlacesInv

-----------------------------------------------------------------------------
(* Every step keeps what players know of each other.                        *)

\* c's message under way, if any, has not reached v.
Unsent(c, v) == c \notin reading \/ v \in todo[c]

\* Nothing that concerns how v sees c has happened.
SameSight(v, c) ==
    /\ Shown(v, c)' = Shown(v, c)
    /\ Here(v)' /\ Here(c)' => Here(v) /\ Here(c)
    /\ ToGather(v, c) => ToGather(v, c)'
    /\ ToShow(c, v) => ToShow(c, v)'
    /\ \A f \in Fields : <<v, c, f>> \in overtaken => <<v, c, f>> \in overtaken'

\* What v knows of c is as good as before if nothing concerns it.
LEMMA KnowsSame ==
    ASSUME NEW v \in Conn, NEW c \in Conn, Knows(v, c), SameSight(v, c), SameData(c),
           SameWork(c), Saying(c) /\ Unsent(c, v) => Unsent(c, v)'
    PROVE  Knows(v, c)'
  <1> USE DEF SameSight, SameData, SameWork, Knows
  <1>1. KnowsOf(v, c)'
    BY DEF KnowsOf
  <1>2. KnowsSprite(v, c)'
    BY DEF KnowsSprite, Owes, Unsent, Writing, Saying, Fields
  <1>3. KnowsPicture(v, c)'
    BY DEF KnowsPicture, Owes, Unsent, Saying, Fields
  <1>4. KnowsBase(v, c)'
    BY DEF KnowsBase, Owes, Unsent, Saying
  <1> QED
    BY <1>1, <1>2, <1>3, <1>4

\* A message that is taken up has had no effect yet.
LEMMA ReceiveKnows ==
    ASSUME PlacesInv, NEW c \in Conn, NEW kind \in Kinds, Receive(c, kind),
           NEW v \in Conn, NEW d \in Conn, Knows(v, d)
    PROVE  Knows(v, d)'
  <1> USE DEF dataVars, roomVars, clientVars
  <1>1. TypeOK /\ SayingOK(c)
    BY DEF PlacesInv
  <1>2. /\ UNCHANGED <<sprite, flash, active, base, members, reading, pc, saying, todo, intro,
                       screen, coming, overtaken>>
        /\ doing[c] = "none"
        /\ \A e \in Conn \ {c} : doing'[e] = doing[e] /\ updates'[e] = updates[e]
    BY <1>1 DEF Receive, Idle, TypeOK
  <1>3. SameSight(v, d) /\ SameData(d) /\ (Unsent(d, v) => Unsent(d, v)')
    BY <1>2 DEF SameSight, SameData, Shown, Here, ToGather, ToShow, Unsent
  <1>4. CASE d # c
    BY <1>2, <1>3, <1>4, KnowsSame DEF SameWork
  <1>5. CASE d = c
    <2> USE DEF SameSight, SameData, Knows
    <2>1. KnowsOf(v, c)'
      BY <1>3, <1>5 DEF KnowsOf
    <2>2. KnowsSprite(v, c)'
      BY <1>2, <1>3, <1>5 DEF KnowsSprite, Owes, Unsent, Writing, Fields
    <2>3. KnowsPicture(v, c)'
      BY <1>2, <1>3, <1>5 DEF KnowsPicture, Owes, Unsent, Fields
    <2>4. KnowsBase(v, c)'
      BY <1>2, <1>3, <1>5 DEF KnowsBase, Owes, Unsent
    <2> QED
      BY <1>5, <2>1, <2>2, <2>3, <2>4
  <1> QED
    BY <1>4, <1>5

\* A player that processes a message owes everyone what it changes.
LEMMA ProcessKnows ==
    ASSUME PlacesInv, NEW c \in Conn, processMessage(c),
           NEW v \in Conn, NEW d \in Conn, Knows(v, d)
    PROVE  Knows(v, d)'
  <1> USE DEF dataVars, roomVars, clientVars
  <1>1. TypeOK /\ SayingOK(c) /\ ReadingOK(c) /\ active[c] <= Seen(c) /\ LookOK(v, c)
    BY DEF PlacesInv
  <1>2. /\ UNCHANGED <<members, reading, pc, todo, intro, screen, coming, updates, overtaken>>
        /\ \A e \in Conn \ {c} : SameData(e) /\ SamePlace(e) /\ SameWork(e)
    BY <1>1, ProcessOthers
  <1>3. SameSight(v, d) /\ (Unsent(d, v) => Unsent(d, v)')
    BY <1>2 DEF SameSight, Shown, Here, ToGather, ToShow, Unsent
  <1>4. CASE d # c
    BY <1>2, <1>3, <1>4, KnowsSame
  <1>5. CASE d = c
    <2> DEFINE shown == Shown(v, c)
    <2>1. shown' = shown /\ KnowsOf(v, c)'
      BY <1>3, <1>5 DEF SameSight, Knows, KnowsOf
    <2> HIDE DEF shown
    <2>2. doing[c] # "none" /\ saying[c].kind = "none"
      BY DEF processMessage, SetField, RepeatingFlash, RemoveRepeatingFlash, removePicture,
             ShowPicture, MovePicture, NoSuchPicture, Writing, Saying
    <2>3. pc[c] \in {"away", "room"} /\ c \notin reading'
      <3>1. pc[c] \in {"away", "join", "greet", "show", "room"}
        BY <1>1 DEF TypeOK
      <3> QED
        BY <1>1, <1>2, <2>2, <3>1 DEF SayingOK, ReadingOK, Saying, Here
    <2>4. /\ shown.on => \/ shown.sprite = sprite[c] \/ Writing(c, {"sprite"})
                         \/ <<v, c, "sprite">> \in overtaken'
          /\ shown.on => shown.pic = active[c] \/ <<v, c, "pic">> \in overtaken'
          /\ shown.pic # 0 /\ shown.pic = active[c] => shown.base \in {Later, base[c][active[c]]}
      BY <1>2, <1>5, <2>2
      DEF Knows, KnowsSprite, KnowsPicture, KnowsBase, Owes, Saying, shown
    <2>5. /\ (KnowsSprite(v, c)' <=>
                (shown.on => \/ shown.sprite = sprite'[c] \/ Writing(c, {"sprite"})'
                             \/ saying'[c].kind = "sprite" \/ <<v, c, "sprite">> \in overtaken'))
          /\ (KnowsPicture(v, c)' <=>
                (shown.on => \/ shown.pic = active'[c]
                             \/ saying'[c].kind \in {"show", "once", "erase"}
                             \/ <<v, c, "pic">> \in overtaken'))
          /\ (KnowsBase(v, c)' <=>
                (shown.pic # 0 /\ shown.pic = active'[c] =>
                    shown.base \in {Later, base'[c][active'[c]]} \/ saying'[c].kind = "move"))
      BY <2>1, <2>3 DEF KnowsSprite, KnowsPicture, KnowsBase, Owes, shown
    <2>6. KnowsSprite(v, c)' /\ KnowsPicture(v, c)' /\ KnowsBase(v, c)'
      <3>1. CASE SetField(c)
        BY <1>1, <2>4, <2>5, <3>1 DEF SetField, Say, Word, TypeOK
      <3>2. CASE RepeatingFlash(c) \/ RemoveRepeatingFlash(c) \/ NoSuchPicture(c)
        <4>1. ~Writing(c, {"sprite"}) /\ UNCHANGED <<sprite, active, base>>
          BY <3>2 DEF RepeatingFlash, RemoveRepeatingFlash, NoSuchPicture, Writing
        <4> QED
          BY <2>4, <2>5, <4>1
      <3>3. CASE removePicture(c)
        <4>1. ~Writing(c, {"sprite"}) /\ sprite' = sprite
          BY <3>3 DEF removePicture, Writing
        <4>2. active'[c] = 0 /\ saying'[c].kind = "erase"
          BY <1>1, <3>3 DEF removePicture, Say, Word, TypeOK
        <4> QED
          BY <2>4, <2>5, <4>1, <4>2
      <3>4. CASE ShowPicture(c)
        <4>1. ~Writing(c, {"sprite"}) /\ sprite' = sprite /\ doing[c] \in {"show", "once"}
          BY <3>4 DEF ShowPicture, Writing
        <4>2. active'[c] \in {0, updates[c]} /\ saying'[c].kind = doing[c]
          BY <1>1, <3>4 DEF ShowPicture, Say, Word, TypeOK
        <4>3. shown.pic <= updates[c] - 1
          <5>1. Seen(c) = updates[c] - 1
            BY <2>2, <4>1 DEF Seen
          <5>2. coming[v][c] \in Looks /\ intro[v][c] \in Words
            BY <1>1 DEF TypeOK
          <5>3. shown.pic = IF intro[v][c].kind = "intro" /\ intro[v][c].val.pic # 0
                              THEN intro[v][c].val.pic ELSE coming[v][c].pic
            <6>1. ReadingOK(v)
              BY DEF PlacesInv
            <6>2. intro[v][c].kind \in {"none", "intro"}
              BY <6>1 DEF ReadingOK
            <6> QED
              BY <5>2, <6>2, ApplyFields DEF shown, Shown
          <5> QED
            BY <1>1, <5>1, <5>3 DEF LookOK
        <4>4. shown.pic # 0 => shown.pic # updates[c]
          <5>1. updates[c] \in Int /\ MaxUpdates \in Nat
            BY <1>1, AppearanceAssumption DEF TypeOK
          <5>2. shown.pic \in Int
            <6>1. coming[v][c] \in Looks /\ intro[v][c] \in Words
              BY <1>1 DEF TypeOK
            <6> QED
              BY <5>1, <6>1, ApplyFields DEF shown, Shown, Looks
          <5> QED
            BY <4>3, <5>1, <5>2
        <4> QED
          BY <2>4, <2>5, <4>1, <4>2, <4>4
      <3>5. CASE MovePicture(c)
        <4>1. ~Writing(c, {"sprite"}) /\ sprite' = sprite /\ active' = active
          BY <3>5 DEF MovePicture, Writing
        <4>2. saying'[c].kind = "move"
          BY <1>1, <3>5 DEF MovePicture, Say, Word, TypeOK
        <4> QED
          BY <2>4, <2>5, <4>1, <4>2
      <3> QED
        BY <3>1, <3>2, <3>3, <3>4, <3>5 DEF processMessage
    <2> QED
      BY <1>5, <2>1, <2>6 DEF Knows
  <1> QED
    BY <1>4, <1>5

\* Nothing is shown of a player that is not there, nor to one.
LEMMA Strangers ==
    ASSUME PlacesInv, NEW u \in Conn, NEW d \in Conn, ~(u # d /\ Here(u) /\ Here(d))
    PROVE  Shown(u, d) = coming[u][d] /\ ~Shown(u, d).on /\ Shown(u, d).pic = 0
  <1>1. LookOK(u, d) /\ ReadingOK(u) /\ ReadingOK(d)
    BY DEF PlacesInv
  <1>2. intro[u][d].kind = "none" /\ ~coming[u][d].on
    BY <1>1 DEF LookOK, ReadingOK, Others, Here
  <1>3. intro[u][d] \in Words
    BY DEF PlacesInv, TypeOK
  <1>4. intro[u][d] = Silence
    BY <1>2, <1>3 DEF Words, Silence, Word
  <1> QED
    BY <1>1, <1>2, <1>4, ApplySilence DEF Shown, LookOK

\* So there is nothing to know of it.
LEMMA StrangersNext ==
    ASSUME PlacesInv', NEW u \in Conn, NEW d \in Conn, ~(u # d /\ Here(u)' /\ Here(d)')
    PROVE  Knows(u, d)'
  <1>1. LookOK(u, d)' /\ ReadingOK(u)' /\ ReadingOK(d)'
    BY DEF PlacesInv
  <1>2. intro'[u][d].kind = "none" /\ ~coming'[u][d].on
    BY <1>1 DEF LookOK, ReadingOK, Others, Here
  <1>3. intro'[u][d] \in Words
    BY DEF PlacesInv, TypeOK
  <1>4. intro'[u][d] = Silence
    BY <1>2, <1>3 DEF Words, Silence, Word
  <1>5. ~Shown(u, d)'.on /\ Shown(u, d)'.pic = 0
    BY <1>1, <1>2, <1>4, ApplySilence DEF Shown, LookOK
  <1> QED
    BY <1>5 DEF Knows, KnowsOf, KnowsSprite, KnowsPicture, KnowsBase

\* What is shown when a gathered introduction is applied, if there is one.
LEMMA ShownFields ==
    ASSUME NEW look \in Looks, NEW i \in Words, i.kind \in {"none", "intro"}
    PROVE  LET a == Apply(look, i)
           IN  /\ a \in Looks /\ (a.on <=> look.on \/ i.kind = "intro")
               /\ a.sprite = IF i.kind = "intro" /\ i.val.sprite # Unset
                               THEN i.val.sprite ELSE look.sprite
               /\ a.pic = IF i.kind = "intro" /\ i.val.pic # 0 THEN i.val.pic ELSE look.pic
               /\ a.base = IF i.kind = "intro" /\ i.val.pic # 0 THEN Later ELSE look.base
  <1> SUFFICES ASSUME NEW a, a = Apply(look, i)
               PROVE  /\ a \in Looks /\ (a.on <=> look.on \/ i.kind = "intro")
                      /\ a.sprite = IF i.kind = "intro" /\ i.val.sprite # Unset
                                      THEN i.val.sprite ELSE look.sprite
                      /\ a.pic = IF i.kind = "intro" /\ i.val.pic # 0
                                   THEN i.val.pic ELSE look.pic
                      /\ a.base = IF i.kind = "intro" /\ i.val.pic # 0 THEN Later ELSE look.base
    OBVIOUS
  <1> QED
    BY ApplyFields

\* A message reaches the batch of a viewer.
LEMMA SendKnows ==
    ASSUME PlacesInv, NEW c \in Conn, NEW v \in Conn, ShareSend(c, v), Knows(v, c)
    PROVE  Knows(v, c)'
  <1> USE DEF dataVars, roomVars, clientVars
  <1>1. TypeOK /\ SayingOK(c) /\ ReadingOK(c) /\ ReadingOK(v) /\ LookOK(v, c)
    BY DEF PlacesInv
  <1>2. PICK look, w, i, new, old, shown :
            /\ look = coming[v][c] /\ w = saying[c] /\ i = intro[v][c]
            /\ new = Apply(look, w) /\ old = Apply(look, i) /\ shown = Apply(new, i)
    OBVIOUS
  <1>3. old = Shown(v, c) /\ shown = Shown(v, c)'
    BY <1>1, <1>2 DEF ShareSend, Shown, TypeOK
  <1>4. look \in Looks /\ w \in Words /\ i \in Words /\ i.kind \in {"none", "intro"}
    BY <1>1, <1>2 DEF TypeOK, ReadingOK
  <1>5. /\ new \in Looks /\ (new.on <=> look.on \/ w.kind = "intro")
        /\ new.sprite = IF w.kind = "intro"
                          THEN IF w.val.sprite = Unset THEN look.sprite ELSE w.val.sprite
                          ELSE IF look.on /\ w.kind = "sprite" THEN w.val ELSE look.sprite
        /\ new.pic = IF w.kind = "intro" THEN IF w.val.pic = 0 THEN look.pic ELSE w.val.pic
                     ELSE IF look.on /\ w.kind = "show" THEN w.val
                     ELSE IF look.on /\ w.kind \in {"once", "erase"} THEN 0 ELSE look.pic
        /\ new.base = IF w.kind = "intro" THEN IF w.val.pic = 0 THEN look.base ELSE Later
                      ELSE IF look.on /\ w.kind = "show" THEN Later
                      ELSE IF look.on /\ w.kind \in {"once", "erase"} THEN 0
                      ELSE IF look.on /\ w.kind = "move" /\ look.pic # 0 THEN w.val
                      ELSE look.base
    BY <1>2, <1>4, ApplyFields
  <1>6. /\ (old.on <=> look.on \/ i.kind = "intro")
        /\ old.sprite = IF i.kind = "intro" /\ i.val.sprite # Unset
                          THEN i.val.sprite ELSE look.sprite
        /\ old.pic = IF i.kind = "intro" /\ i.val.pic # 0 THEN i.val.pic ELSE look.pic
        /\ old.base = IF i.kind = "intro" /\ i.val.pic # 0 THEN Later ELSE look.base
    BY <1>2, <1>4, ShownFields
  <1>7. /\ (shown.on <=> new.on \/ i.kind = "intro")
        /\ shown.sprite = IF i.kind = "intro" /\ i.val.sprite # Unset
                            THEN i.val.sprite ELSE new.sprite
        /\ shown.pic = IF i.kind = "intro" /\ i.val.pic # 0 THEN i.val.pic ELSE new.pic
        /\ shown.base = IF i.kind = "intro" /\ i.val.pic # 0 THEN Later ELSE new.base
    <2>1. new \in Looks /\ shown = Apply(new, i)
      BY <1>2, <1>5
    <2> QED
      BY <1>4, <2>1, ShownFields
  <1>8. /\ pc[c] \in {"show", "room"} /\ (w.kind = "intro" <=> pc[c] = "show")
        /\ c \in reading /\ v \in todo[c] /\ w.kind # "none"
        /\ ~Writing(c, {"sprite"}) /\ v # c
    BY <1>1, <1>2 DEF ShareSend, SayingOK, ReadingOK, Saying, Writing
  <1>9. /\ UNCHANGED <<sprite, active, base, pc, doing, saying, members, reading>>
        /\ todo'[c] = todo[c] \ {v} /\ todo'[v] = todo[v]
    <2>1. todo \in [Conn -> SUBSET Conn] /\ v # c
      BY <1>1, <1>8 DEF TypeOK
    <2> QED
      BY <2>1 DEF ShareSend
  <1>10. ~look.on => look.sprite = Unset /\ look.pic = 0
    BY <1>1, <1>2 DEF LookOK
  <1>11. /\ w.kind = "intro" => w.val.pic = active[c] /\ w.val.sprite = sprite[c]
         /\ w.kind = "sprite" => w.val = sprite[c]
         /\ w.kind = "show" => w.val = active[c]
         /\ w.kind \in {"once", "erase"} => active[c] = 0
         /\ w.kind = "move" => w.val = base[c][active[c]]
    BY <1>1, <1>2
    DEF SayingOK, GetIntroMessages, SpriteIntro, PictureIntro, Word
  <1>12. /\ w.kind = "sprite" /\ i.kind = "intro" => <<v, c, "sprite">> \in overtaken'
         /\ w.kind \in {"show", "once", "erase"} /\ i.kind = "intro"
               => <<v, c, "pic">> \in overtaken'
         /\ w.kind # "sprite" /\ <<v, c, "sprite">> \in overtaken
               => <<v, c, "sprite">> \in overtaken'
         /\ w.kind \notin {"show", "once", "erase"} /\ <<v, c, "pic">> \in overtaken
               => <<v, c, "pic">> \in overtaken'
    BY <1>2, <1>8 DEF ShareSend, Overtaking, HasGathered, FieldOf, Fields
  <1>13. w.kind \in {"sprite", "flash", "show", "once", "move", "erase", "intro"}
    BY <1>4, <1>8 DEF Words, Silence, Word
  <1>14. KnowsOf(v, c)'
    <2>1. ToGather(v, c) => ToGather(v, c)'
      BY <1>9 DEF ToGather
    <2>2. pc[c] = "room" => ~ToShow(c, v)
      BY DEF ToShow
    <2>3. Here(v)' => Here(v)
      BY <1>9 DEF Here
    <2>4. KnowsOf(v, c) /\ Here(c)
      BY <1>8 DEF Knows, Here
    <2> QED
      BY <1>3, <1>5, <1>6, <1>7, <1>8, <2>1, <2>2, <2>3, <2>4 DEF KnowsOf
  <1>15. KnowsSprite(v, c)'
    <2>1. old.on => \/ old.sprite = sprite[c] \/ w.kind = "sprite"
                    \/ <<v, c, "sprite">> \in overtaken
      BY <1>2, <1>3, <1>8 DEF Knows, KnowsSprite, Owes
    <2>2. shown.on => shown.sprite = sprite[c] \/ <<v, c, "sprite">> \in overtaken'
      <3>1. CASE w.kind = "intro"
        BY <1>5, <1>6, <1>7, <1>10, <1>11, <1>12, <2>1, <3>1
      <3>2. CASE w.kind = "sprite"
        BY <1>4, <1>5, <1>7, <1>11, <1>12, <3>2
      <3>3. CASE w.kind \notin {"intro", "sprite"}
        BY <1>5, <1>6, <1>7, <1>12, <2>1, <3>3
      <3> QED
        BY <3>1, <3>2, <3>3
    <2> QED
      BY <1>3, <1>9, <2>2 DEF KnowsSprite
  <1>16. KnowsPicture(v, c)'
    <2>1. old.on => \/ old.pic = active[c] \/ w.kind \in {"show", "once", "erase"}
                    \/ <<v, c, "pic">> \in overtaken
      BY <1>2, <1>3, <1>8 DEF Knows, KnowsPicture, Owes
    <2>2. shown.on => shown.pic = active[c] \/ <<v, c, "pic">> \in overtaken'
      <3>1. CASE w.kind = "intro"
        BY <1>5, <1>6, <1>7, <1>10, <1>11, <1>12, <2>1, <3>1
      <3>2. CASE w.kind \in {"show", "once", "erase"}
        BY <1>4, <1>5, <1>7, <1>11, <1>12, <3>2
      <3>3. CASE w.kind \notin {"intro", "show", "once", "erase"}
        BY <1>5, <1>6, <1>7, <1>12, <2>1, <3>3
      <3> QED
        BY <3>1, <3>2, <3>3
    <2> QED
      BY <1>3, <1>9, <2>2 DEF KnowsPicture
  <1>17. KnowsBase(v, c)'
    <2>1. old.pic # 0 /\ old.pic = active[c] =>
              old.base \in {Later, base[c][active[c]]} \/ w.kind = "move"
      BY <1>2, <1>3, <1>8 DEF Knows, KnowsBase, Owes
    <2>2. shown.pic # 0 /\ shown.pic = active[c] => shown.base \in {Later, base[c][active[c]]}
      <3>1. CASE i.kind = "intro" /\ i.val.pic # 0
        BY <1>7, <3>1
      <3>2. CASE ~(i.kind = "intro" /\ i.val.pic # 0)
        <4>1. shown.pic = new.pic /\ shown.base = new.base
              /\ old.pic = look.pic /\ old.base = look.base
          BY <1>6, <1>7, <3>2
        <4>2. CASE w.kind = "intro"
          BY <1>5, <1>11, <4>1, <4>2
        <4>3. CASE w.kind \in {"show", "once", "erase"}
          BY <1>5, <1>10, <1>11, <4>1, <4>3
        <4>4. CASE w.kind = "move"
          BY <1>5, <1>10, <1>11, <4>1, <4>4
        <4>5. CASE w.kind \in {"sprite", "flash"}
          BY <1>5, <2>1, <4>1, <4>5
        <4> QED
          BY <1>13, <4>2, <4>3, <4>4, <4>5
      <3> QED
        BY <3>1, <3>2
    <2> QED
      BY <1>3, <1>9, <2>2 DEF KnowsBase
  <1> QED
    BY <1>14, <1>15, <1>16, <1>17 DEF Knows

\* What has been shared with everyone is owed to nobody.
LEMMA ShareKnows ==
    ASSUME PlacesInv, PlacesInv', NEW c \in Conn, shareToRoom(c),
           NEW u \in Conn, NEW d \in Conn, Knows(u, d)
    PROVE  Knows(u, d)'
  <1> USE DEF dataVars, roomVars, clientVars
  <1> SUFFICES ASSUME u # d, Here(u)', Here(d)'
               PROVE  Knows(u, d)'
    BY StrangersNext
  <1>1. TypeOK /\ SayingOK(c) /\ ReadingOK(c) /\ ReadingOK(u)
    BY DEF PlacesInv
  <1>2. /\ UNCHANGED <<sprite, flash, active, base, members, intro, screen, updates>>
        /\ \A e \in Conn \ {c} : SameData(e) /\ SamePlace(e) /\ SameWork(e)
    BY <1>1, ShareOthers
  <1>3. SameData(d)
    BY <1>2 DEF SameData
  <1>4. Here(u) /\ Here(d)
    BY <1>2, SharePlayer DEF SamePlace, Here
  <1>5. CASE ShareSkipped(c)
    <2>1. c # d /\ UNCHANGED <<members, reading, pc, todo, intro, coming, overtaken>>
      BY <1>4, <1>5 DEF ShareSkipped, Here
    <2>2. SameSight(u, d) /\ (Unsent(d, u) => Unsent(d, u)')
      BY <2>1 DEF SameSight, Shown, Here, ToGather, ToShow, Unsent
    <2> QED
      BY <1>2, <1>3, <2>1, <2>2, KnowsSame
  <1>6. CASE ShareBegin(c)
    <2>1. /\ UNCHANGED <<members, pc, doing, saying, intro, coming, overtaken>>
          /\ todo'[c] = members \ {c} /\ c \notin reading /\ pc[c] \in {"show", "room"}
      BY <1>1, <1>6 DEF ShareBegin, Others, TypeOK
    <2>2. u \in members
      BY <1>1, <1>4 DEF ReadingOK
    <2>3. SameSight(u, d) /\ (Unsent(d, u) => Unsent(d, u)')
      <3>1. Shown(u, d)' = Shown(u, d)
        BY <2>1 DEF Shown
      <3>2. ToGather(u, d) => ToGather(u, d)'
        BY <1>2, <2>1 DEF ToGather, SamePlace
      <3>3. (ToShow(d, u) => ToShow(d, u)') /\ (Unsent(d, u) => Unsent(d, u)')
        BY <1>2, <2>1, <2>2 DEF ToShow, Unsent, SamePlace
      <3> QED
        BY <1>4, <2>1, <3>1, <3>2, <3>3 DEF SameSight
    <2>4. SameWork(d)
      BY <2>1, <1>2 DEF SameWork
    <2> QED
      BY <1>3, <2>3, <2>4, KnowsSame
  <1>7. ASSUME NEW v \in Conn, ShareSend(c, v) PROVE Knows(u, d)'
    <2>1. CASE u = v /\ d = c
      BY <1>7, <2>1, SendKnows
    <2>2. CASE ~(u = v /\ d = c)
      <3>1. /\ UNCHANGED <<members, reading, pc, doing, saying, intro>>
            /\ todo'[c] = todo[c] \ {v} /\ pc[c] \in {"show", "room"}
        BY <1>1, <1>7 DEF ShareSend, TypeOK
      <3>2. coming'[u][d] = coming[u][d]
        BY <1>1, <1>7, <2>2 DEF ShareSend, TypeOK
      <3>3. \A f \in Fields : <<u, d, f>> \in overtaken => <<u, d, f>> \in overtaken'
        BY <1>7, <2>2 DEF ShareSend, Overtaking
      <3>4. Shown(u, d)' = Shown(u, d)
        BY <3>1, <3>2 DEF Shown
      <3>5. ToGather(u, d) => ToGather(u, d)'
        BY <1>2, <3>1 DEF ToGather, SamePlace
      <3>6. (ToShow(d, u) => ToShow(d, u)') /\ (Unsent(d, u) => Unsent(d, u)')
        BY <1>2, <2>2, <3>1 DEF ToShow, Unsent, SamePlace
      <3>7. SameWork(d)
        BY <1>2, <3>1 DEF SameWork
      <3> QED
        BY <1>3, <1>4, <3>3, <3>4, <3>5, <3>6, <3>7, KnowsSame DEF SameSight
    <2> QED
      BY <2>1, <2>2
  <1>8. CASE ShareEnd(c)
    <2>1. /\ UNCHANGED <<members, todo, intro, coming, overtaken>>
          /\ pc[c] \in {"show", "room"} /\ c \in reading /\ todo[c] = {} /\ pc'[c] = "room"
          /\ saying'[c] = Silence /\ doing'[c] = AfterShare(c)
      BY <1>1, <1>8 DEF ShareEnd, Shared, TypeOK
    <2>2. Shown(u, d)' = Shown(u, d)
      BY <2>1 DEF Shown
    <2>3. ToGather(u, d) => ToGather(u, d)'
      BY <1>2, <2>1 DEF ToGather, SamePlace
    <2>4. ToShow(d, u) => ToShow(d, u)'
      BY <1>2, <2>1 DEF ToShow, SamePlace
    <2>5. SameSight(u, d)
      BY <1>4, <2>1, <2>2, <2>3, <2>4 DEF SameSight
    <2>6. CASE d # c
      BY <1>2, <2>5, <2>6, KnowsSame DEF Unsent, SamePlace
    <2>7. CASE d = c
      <3>1. ~Unsent(c, u) /\ ~Writing(c, {"sprite"})
        BY <1>1, <2>1 DEF Unsent, ReadingOK, Writing
      <3>2. KnowsOf(u, c)'
        BY <1>4, <2>5, <2>7 DEF Knows, KnowsOf, SameSight
      <3>3. KnowsSprite(u, c)'
        BY <1>3, <2>5, <2>7, <3>1
        DEF Knows, KnowsSprite, SameSight, SameData, Owes, Unsent, Fields
      <3>4. KnowsPicture(u, c)'
        BY <1>3, <2>5, <2>7, <3>1
        DEF Knows, KnowsPicture, SameSight, SameData, Owes, Unsent, Fields
      <3>5. KnowsBase(u, c)'
        BY <1>3, <2>5, <2>7, <3>1 DEF Knows, KnowsBase, SameSight, SameData, Owes, Unsent
      <3> QED
        BY <2>7, <3>2, <3>3, <3>4, <3>5 DEF Knows
    <2> QED
      BY <2>6, <2>7
  <1> QED
    BY <1>5, <1>6, <1>7, <1>8 DEF shareToRoom

\* A newcomer gathers the introduction of a member.
LEMMA VisitKnows ==
    ASSUME PlacesInv, NEW c \in Conn, NEW m \in Conn, GreetVisit(c, m), Knows(c, m)
    PROVE  Knows(c, m)'
  <1> USE DEF dataVars, roomVars, clientVars
  <1>1. TypeOK /\ SayingOK(m) /\ ReadingOK(c) /\ LookOK(c, m)
    BY DEF PlacesInv
  <1>2. PICK s \in SpriteReads(m) : intro'[c][m] = GetIntroMessages(m, s)
    BY <1>1, Gathered
  <1>3. PICK look, i, shown :
            /\ look = coming[c][m] /\ i = GetIntroMessages(m, s) /\ shown = Apply(look, i)
    OBVIOUS
  <1>4. look \in Looks /\ i \in Words /\ i.kind = "intro"
    BY <1>1, <1>3, SpriteType, IntroType DEF TypeOK
  <1>5. i.val.sprite = SpriteIntro(s) /\ i.val.pic = active[m]
    BY <1>3 DEF GetIntroMessages, PictureIntro, Word
  <1>6. c # m /\ intro[c][m] = Silence
    <2>1. c # m /\ m \in todo[c] /\ intro[c][m] \in Words
      BY <1>1 DEF GreetVisit, ReadingOK, TypeOK
    <2>2. intro[c][m].kind = "none"
      BY <1>1, <2>1 DEF ReadingOK
    <2> QED
      BY <2>1, <2>2 DEF Words, Silence, Word
  <1>7. Shown(c, m) = look /\ Shown(c, m)' = shown
    BY <1>2, <1>3, <1>6, ApplySilence DEF GreetVisit, Shown
  <1>8. /\ shown.on
        /\ shown.sprite = IF i.val.sprite # Unset THEN i.val.sprite ELSE look.sprite
        /\ shown.pic = IF i.val.pic # 0 THEN i.val.pic ELSE look.pic
        /\ shown.base = IF i.val.pic # 0 THEN Later ELSE look.base
    BY <1>3, <1>4, ShownFields
  <1>9. /\ UNCHANGED <<sprite, active, base, doing, saying, reading, overtaken>>
        /\ todo'[m] = todo[m]
    BY <1>1, <1>6 DEF GreetVisit, TypeOK
  <1>10. ~look.on => look.sprite = Unset /\ look.pic = 0
    BY <1>1, <1>3 DEF LookOK
  <1>11. KnowsOf(c, m)'
    BY <1>7, <1>8 DEF KnowsOf
  <1>12. KnowsSprite(c, m)'
    <2>1. CASE Writing(m, {"sprite"})
      BY <1>9, <2>1 DEF KnowsSprite, Writing, Saying
    <2>2. CASE ~Writing(m, {"sprite"})
      <3>1. SpriteIntro(s) = sprite[m]
        BY <1>1, <2>2 DEF SpriteReads, SpriteIntro, SayingOK
      <3>2. look.on => look.sprite = sprite[m] \/ Owes(m, c, {"sprite"})
                       \/ <<c, m, "sprite">> \in overtaken
        BY <1>7, <2>2 DEF Knows, KnowsSprite
      <3>3. Owes(m, c, {"sprite"}) => Owes(m, c, {"sprite"})'
        BY <1>9 DEF Owes
      <3> QED
        BY <1>5, <1>7, <1>8, <1>9, <1>10, <3>1, <3>2, <3>3 DEF KnowsSprite
    <2> QED
      BY <2>1, <2>2
  <1>13. KnowsPicture(c, m)'
    <2>1. Owes(m, c, {"show", "once", "erase"}) => Owes(m, c, {"show", "once", "erase"})'
      BY <1>9 DEF Owes
    <2> QED
      BY <1>5, <1>7, <1>8, <1>9, <1>10, <2>1 DEF Knows, KnowsPicture
  <1>14. KnowsBase(c, m)'
    BY <1>5, <1>7, <1>8, <1>9 DEF KnowsBase
  <1> QED
    BY <1>11, <1>12, <1>13, <1>14 DEF Knows

\* A newcomer has everyone to gather, then itself to show.
LEMMA RoomKnows ==
    ASSUME PlacesInv, PlacesInv', NEW c \in Conn, changeRoom(c),
           NEW u \in Conn, NEW d \in Conn, Knows(u, d)
    PROVE  Knows(u, d)'
  <1> USE DEF dataVars, roomVars, clientVars
  <1> SUFFICES ASSUME u # d, Here(u)', Here(d)'
               PROVE  Knows(u, d)'
    BY StrangersNext
  <1>1. TypeOK /\ SayingOK(c) /\ ReadingOK(c) /\ ReadingOK(u) /\ ReadingOK(d)
    BY DEF PlacesInv
  <1>2. /\ UNCHANGED <<sprite, flash, active, base, doing, screen, updates, overtaken>>
        /\ SameData(d)
        /\ \A e \in Conn \ {c} : SamePlace(e) /\ SameWork(e) /\ coming'[e] = coming[e]
    BY <1>1, RoomOthers
  <1>3. CASE u # c /\ d # c
    <2>1. SameSight(u, d) /\ SameWork(d) /\ (Unsent(d, u) => Unsent(d, u)')
      BY <1>2, <1>3 DEF SameSight, Shown, Here, ToGather, ToShow, Unsent, SamePlace
    <2> QED
      BY <1>2, <2>1, KnowsSame
  <1>4. CASE SwitchRoom(c) /\ (u = c \/ d = c)
    <2>1. pc'[c] = "join"
      BY <1>1, <1>4 DEF SwitchRoom, TypeOK
    <2> QED
      BY <1>4, <2>1 DEF Here
  <1>5. CASE setRoom(c) /\ (u = c \/ d = c)
    <2>1. ~Shown(u, d).on /\ Shown(u, d).pic = 0
      <3>1. ~(Here(u) /\ Here(d))
        BY <1>5 DEF setRoom, Here
      <3> QED
        BY <3>1, Strangers
    <2>2. Shown(u, d)' = Shown(u, d)
      BY <1>5 DEF setRoom, Shown
    <2>3. pc'[c] = "greet" /\ c \notin reading'
      BY <1>1, <1>5 DEF setRoom, TypeOK
    <2>4. ToGather(u, d)' \/ ToShow(d, u)'
      BY <1>5, <2>3 DEF ToGather, ToShow
    <2> QED
      BY <2>1, <2>2, <2>4 DEF Knows, KnowsOf, KnowsSprite, KnowsPicture, KnowsBase
  <1>6. CASE GreetBegin(c)
    <2>1. /\ UNCHANGED <<members, pc, doing, saying, intro, coming>>
          /\ todo'[c] = members \ {c} /\ c \notin reading /\ pc[c] = "greet"
      BY <1>1, <1>6 DEF GreetBegin, Others, TypeOK
    <2>2. u \in members /\ d \in members /\ Here(u) /\ Here(d)
      BY <1>1, <2>1 DEF ReadingOK, Here
    <2>3. Shown(u, d)' = Shown(u, d) /\ SameWork(d)
      BY <1>2, <2>1 DEF Shown, SameWork
    <2>4. ToGather(u, d) => ToGather(u, d)'
      BY <1>2, <2>1, <2>2 DEF ToGather, SamePlace
    <2>5. (ToShow(d, u) => ToShow(d, u)') /\ (Unsent(d, u) => Unsent(d, u)')
      BY <1>2, <2>1, <2>2 DEF ToShow, Unsent, SamePlace
    <2> QED
      BY <1>2, <2>2, <2>3, <2>4, <2>5, KnowsSame DEF SameSight
  <1>7. ASSUME NEW m \in Conn, GreetVisit(c, m) PROVE Knows(u, d)'
    <2>1. CASE u = c /\ d = m
      BY <1>7, <2>1, VisitKnows
    <2>2. CASE ~(u = c /\ d = m)
      <3>1. /\ UNCHANGED <<members, reading, pc, doing, saying, coming>>
            /\ todo'[c] = todo[c] \ {m} /\ pc[c] = "greet"
        BY <1>1, <1>7 DEF GreetVisit, TypeOK
      <3>2. intro'[u][d] = intro[u][d]
        BY <1>1, <1>7, <2>2, Gathered
      <3>3. Shown(u, d)' = Shown(u, d) /\ SameWork(d)
        BY <1>2, <3>1, <3>2 DEF Shown, SameWork
      <3>4. ToGather(u, d) => ToGather(u, d)'
        BY <1>2, <2>2, <3>1 DEF ToGather, SamePlace
      <3>5. (ToShow(d, u) => ToShow(d, u)')
            /\ (Saying(d) /\ Unsent(d, u) => Unsent(d, u)')
        BY <1>1, <1>2, <3>1 DEF ToShow, Unsent, SamePlace, SayingOK
      <3>6. Here(u) /\ Here(d)
        BY <3>1 DEF Here
      <3> QED
        BY <1>2, <3>3, <3>4, <3>5, <3>6, KnowsSame DEF SameSight
    <2> QED
      BY <2>1, <2>2
  <1>8. CASE GreetEnd(c) /\ (u = c \/ d = c)
    <2>1. /\ members' = members /\ pc[c] = "greet" /\ pc'[c] = "show" /\ todo' = todo
          /\ c \in reading /\ todo[c] = {} /\ c \notin reading'
          /\ saying'[c].kind = "intro" /\ saying[c].kind = "none" /\ doing[c] = "none"
      BY <1>1, <1>8 DEF GreetEnd, TypeOK, SayingOK, Saying, GetIntroMessages, Word
    <2>2. Here(u) /\ Here(d)
      BY <1>1, <1>2, <2>1 DEF Here, SamePlace
    <2>3. CASE u = c
      <3>1. /\ coming'[c][d] = Apply(coming[c][d], intro[c][d]) /\ intro'[c][d] = Silence
        BY <1>1, <1>8 DEF GreetEnd, TypeOK
      <3>2. Shown(c, d)' = Shown(c, d)
        BY <3>1, ApplySilence DEF Shown
      <3>3. ~ToGather(c, d)
        BY <2>1 DEF ToGather
      <3>4. d # c /\ SamePlace(d) /\ SameWork(d)
        BY <1>2, <2>3
      <3>5. (ToShow(d, c) => ToShow(d, c)') /\ (Unsent(d, c) => Unsent(d, c)')
        BY <2>1, <3>4 DEF ToShow, Unsent, SamePlace
      <3> QED
        BY <1>2, <2>2, <2>3, <3>2, <3>3, <3>4, <3>5, KnowsSame DEF SameSight
    <2>4. CASE d = c
      <3>1. SamePlace(u) /\ coming'[u] = coming[u]
        BY <1>2, <2>4
      <3>2. Shown(u, c)' = Shown(u, c)
        BY <3>1 DEF Shown, SamePlace
      <3>3. ToShow(c, u)'
        BY <2>1 DEF ToShow
      <3>4. KnowsSprite(u, c)'
        BY <1>2, <2>1, <2>4, <3>2 DEF Knows, KnowsSprite, SameData, Owes, Writing
      <3>5. KnowsPicture(u, c)'
        BY <1>2, <2>1, <2>4, <3>2 DEF Knows, KnowsPicture, SameData, Owes
      <3>6. KnowsBase(u, c)'
        BY <1>2, <2>1, <2>4, <3>2 DEF Knows, KnowsBase, SameData, Owes
      <3> QED
        BY <2>4, <3>3, <3>4, <3>5, <3>6 DEF Knows, KnowsOf
    <2> QED
      BY <1>8, <2>3, <2>4
  <1> QED
    BY <1>3, <1>4, <1>5, <1>6, <1>7, <1>8 DEF changeRoom

\* A batch is serialized: each picture comes with the base that it has now.
LEMMA FlushKnows ==
    ASSUME PlacesInv, NEW w \in Conn, Flush(w),
           NEW v \in Conn, NEW c \in Conn, Knows(v, c)
    PROVE  Knows(v, c)'
  <1> USE DEF dataVars, roomVars, localVars, clientVars
  <1>1. UNCHANGED <<sprite, flash, active, base, members, reading, pc, doing, saying, todo, intro,
                    updates, overtaken>>
    BY DEF Flush
  <1>2. CASE v # w
    <2>1. coming'[v] = coming[v]
      BY <1>2, FlushedLook
    <2>2. SameSight(v, c) /\ SameData(c) /\ SameWork(c) /\ (Unsent(c, v) => Unsent(c, v)')
      BY <1>1, <2>1
      DEF SameSight, SameData, SameWork, Shown, Here, ToGather, ToShow, Unsent
    <2> QED
      BY <2>2, KnowsSame
  <1>3. CASE v = w
    <2>1. PICK look, new, i, old, shown :
              /\ look = coming[v][c] /\ new = Serialized(c, look) /\ i = intro[v][c]
              /\ old = Apply(look, i) /\ shown = Apply(new, i)
      OBVIOUS
    <2>2. old = Shown(v, c) /\ shown = Shown(v, c)'
      BY <1>1, <1>3, <2>1, FlushedLook DEF Shown
    <2>3. look \in Looks /\ i \in Words /\ i.kind \in {"none", "intro"}
      <3>1. ReadingOK(v) /\ TypeOK
        BY DEF PlacesInv
      <3> QED
        BY <2>1, <3>1 DEF ReadingOK, TypeOK
    <2>4. /\ new \in Looks
          /\ new.on = look.on /\ new.sprite = look.sprite /\ new.pic = look.pic
          /\ look.base # Later => new = look
          /\ look.base = Later => new.base = base[c][look.pic]
      BY <2>1, SerializedLook
    <2>5. /\ (old.on <=> look.on \/ i.kind = "intro")
          /\ old.sprite = IF i.kind = "intro" /\ i.val.sprite # Unset
                            THEN i.val.sprite ELSE look.sprite
          /\ old.pic = IF i.kind = "intro" /\ i.val.pic # 0 THEN i.val.pic ELSE look.pic
          /\ old.base = IF i.kind = "intro" /\ i.val.pic # 0 THEN Later ELSE look.base
      BY <2>1, <2>3, ShownFields
    <2>6. /\ (shown.on <=> new.on \/ i.kind = "intro")
          /\ shown.sprite = IF i.kind = "intro" /\ i.val.sprite # Unset
                              THEN i.val.sprite ELSE new.sprite
          /\ shown.pic = IF i.kind = "intro" /\ i.val.pic # 0 THEN i.val.pic ELSE new.pic
          /\ shown.base = IF i.kind = "intro" /\ i.val.pic # 0 THEN Later ELSE new.base
      <3>1. new \in Looks /\ shown = Apply(new, i)
        BY <2>1, <2>4
      <3> QED
        BY <2>3, <3>1, ShownFields
    <2>7. /\ (shown.on <=> old.on) /\ shown.sprite = old.sprite /\ shown.pic = old.pic
          /\ shown.base = old.base \/ (old.base = Later /\ shown.base = base[c][old.pic])
      BY <2>4, <2>5, <2>6
    <2>8. /\ Here(v)' = Here(v) /\ Here(c)' = Here(c)
          /\ ToGather(v, c)' = ToGather(v, c) /\ ToShow(c, v)' = ToShow(c, v)
          /\ Writing(c, {"sprite"})' = Writing(c, {"sprite"})
          /\ \A kinds : Owes(c, v, kinds)' = Owes(c, v, kinds)
      BY <1>1 DEF Here, ToGather, ToShow, Writing, Saying, Owes
    <2>9. KnowsOf(v, c)'
      BY <2>2, <2>7, <2>8 DEF Knows, KnowsOf
    <2>10. KnowsSprite(v, c)'
      BY <1>1, <2>2, <2>7, <2>8 DEF Knows, KnowsSprite
    <2>11. KnowsPicture(v, c)'
      BY <1>1, <2>2, <2>7, <2>8 DEF Knows, KnowsPicture
    <2>12. KnowsBase(v, c)'
      BY <1>1, <2>2, <2>7, <2>8 DEF Knows, KnowsBase
    <2> QED
      BY <2>9, <2>10, <2>11, <2>12 DEF Knows
  <1> QED
    BY <1>2, <1>3

\* LooksInv is an invariant.
LEMMA InitLooks == Init => LooksInv
  <1> SUFFICES ASSUME Init PROVE LooksInv
    OBVIOUS
  <1>1. PlacesInv
    BY PlacesInit
  <1>2. ASSUME NEW v \in Conn, NEW c \in Conn PROVE Knows(v, c)
    <2>1. ~Here(v)
      BY DEF Init, Here
    <2>2. ~Shown(v, c).on /\ Shown(v, c).pic = 0
      BY <1>1, <2>1, Strangers
    <2> QED
      BY <2>1, <2>2 DEF Knows, KnowsOf, KnowsSprite, KnowsPicture, KnowsBase
  <1> QED
    BY <1>1, <1>2 DEF LooksInv

LEMMA NextLooks == LooksInv /\ [Next]_vars => LooksInv'
  <1> SUFFICES ASSUME LooksInv, [Next]_vars PROVE LooksInv'
    OBVIOUS
  <1>1. PlacesInv /\ PlacesInv'
    BY PlacesStep DEF LooksInv
  <1>2. ASSUME NEW v \in Conn, NEW d \in Conn PROVE Knows(v, d)'
    <2>1. Knows(v, d)
      BY DEF LooksInv
    <2>2. CASE UNCHANGED vars
      <3>1. UNCHANGED <<sprite, flash, active, base, members, reading, pc, doing, saying, todo,
                        intro, coming, updates, overtaken>>
        BY <2>2 DEF vars, dataVars, roomVars, localVars, clientVars
      <3>2. SameSight(v, d) /\ SameData(d) /\ SameWork(d) /\ (Unsent(d, v) => Unsent(d, v)')
        BY <3>1 DEF SameSight, SameData, SameWork, Shown, Here, ToGather, ToShow, Unsent
      <3> QED
        BY <2>1, <3>2, KnowsSame
    <2>3. ASSUME NEW c \in Conn,
                 \/ \E kind \in Kinds : Receive(c, kind)
                 \/ processMessage(c) \/ shareToRoom(c) \/ changeRoom(c) \/ Flush(c)
          PROVE  Knows(v, d)'
      BY <1>1, <2>1, <2>3, ReceiveKnows, ProcessKnows, ShareKnows, RoomKnows, FlushKnows
    <2> QED
      BY <2>2, <2>3 DEF Next, Rest
  <1> QED
    BY <1>1, <1>2 DEF LooksInv

-----------------------------------------------------------------------------

LEMMA LooksAlways == Spec => []LooksInv
  BY InitLooks, NextLooks, PTL DEF Spec

\* When everyone is done, everything that was owed has been received.
LEMMA WhenSettled ==
    ASSUME LooksInv, NEW v \in Conn, NEW c \in Conn, Sees(v, c)
    PROVE  /\ Shown(v, c) = screen[v][c] /\ screen[v][c].base # Later
           /\ ~ToGather(v, c) /\ ~ToShow(c, v) /\ Here(v) /\ Here(c)
           /\ ~Writing(c, {"sprite"}) /\ \A kinds : Owes(c, v, kinds) => "none" \in kinds
  <1>1. /\ Idle(c) /\ screen[v] = coming[v] /\ v # c /\ pc[v] = "room" /\ pc[c] = "room"
    BY DEF Sees, Settled
  <1>2. SayingOK(c) /\ ReadingOK(v) /\ LookOK(v, c) /\ TypeOK
    BY DEF LooksInv, PlacesInv
  <1>3. saying[c].kind = "none"
    BY <1>1, <1>2 DEF Idle, SayingOK, Saying
  <1>4. intro[v][c] = Silence
    <2>1. intro[v][c].kind = "none" /\ intro[v][c] \in Words
      BY <1>1, <1>2 DEF ReadingOK, TypeOK
    <2> QED
      BY <2>1 DEF Words, Silence, Word
  <1>5. Shown(v, c) = screen[v][c]
    BY <1>1, <1>4, ApplySilence DEF Shown
  <1> QED
    BY <1>1, <1>2, <1>3, <1>5 DEF LookOK, ToGather, ToShow, Here, Writing, Idle, Owes

\* Every variable of the model keeps its type: what players say and show, and
\* the batches on their way to them.
THEOREM AppearanceTypeCorrect == Spec => []TypeOK
  <1>1. LooksInv => TypeOK
    BY DEF LooksInv, PlacesInv
  <1> QED
    BY <1>1, LooksAlways, PTL

\* However many players change their looks, enter the shared map and gather
\* each other's introductions at the same time, everyone comes to see
\* everyone's sprite and picture as they are, unless a change overtook the
\* introduction (processMessage, changeRoom, GetIntroMessages).
THEOREM PlayersLookRight == Spec => []LooksAgree
  <1>1. LooksInv => LooksAgree
    <2> SUFFICES ASSUME LooksInv, NEW v \in Conn, NEW c \in Conn, Sees(v, c)
                 PROVE  /\ screen[v][c].on
                        /\ <<v, c, "sprite">> \notin overtaken => screen[v][c].sprite = sprite[c]
                        /\ <<v, c, "pic">> \notin overtaken => screen[v][c].pic = active[c]
      BY DEF LooksAgree
    <2>1. Knows(v, c) /\ v # c
      BY DEF LooksInv, Sees
    <2>2. screen[v][c].on
      BY <2>1, WhenSettled DEF Knows, KnowsOf
    <2> QED
      BY <2>1, <2>2, WhenSettled DEF Knows, KnowsSprite, KnowsPicture
  <1> QED
    BY <1>1, LooksAlways, PTL

\* A picture that players show, as its owner does, is where the owner moved it
\* to, overtaken or not: the base is looked up when the batch is serialized,
\* and who was told before is sent the movement (handleMp, GetIntroMessages).
THEOREM MovesAreKept == Spec => []MovesNeverLost
  <1>1. LooksInv => MovesNeverLost
    <2> SUFFICES ASSUME LooksInv, NEW v \in Conn, NEW c \in Conn, Sees(v, c),
                        screen[v][c].pic # 0, screen[v][c].pic = active[c]
                 PROVE  screen[v][c].base = base[c][active[c]]
      BY DEF MovesNeverLost
    <2>1. Knows(v, c)
      BY DEF LooksInv
    <2> QED
      BY <2>1, WhenSettled DEF Knows, KnowsBase
  <1> QED
    BY <1>1, LooksAlways, PTL
=============================================================================
