----------------------------- MODULE InputProofs -----------------------------
(***************************************************************************)
(* What is proved of the player's input and of the host's own game.        *)
(*                                                                         *)
(* Keys: buttons follow keys, for any number of keys, whatever they are    *)
(* bound to and however many commands wait in the buffer.  The invariant   *)
(* looks at one key that is not astray and at what it asks for while the   *)
(* commands in the buffer are run, one after the other: it begins with the *)
(* button the key holds and ends with that it is down for.                 *)
(*                                                                         *)
(* Moves: the ring of cl_input.c implements the delay line, whatever its   *)
(* size and whatever pq_lag does, as long as CL_SendMove writes over no    *)
(* move that is still to be sent (~Overruns).  The places of the ring are  *)
(* numbered without end, and a place lies in the slot of its remainder.    *)
(* The invariant says where the moves of this level are: from a place z on *)
(* to the end, numbered up to made, and there is none from the oldest      *)
(* place of the ring to z.  Once something has been thrown away on this    *)
(* level z is lag_tail.                                                    *)
(*                                                                         *)
(* LocalGame: a listen server and its player over the loop driver, for any *)
(* sizes of commands and buffers, any number of moves in a frame and any   *)
(* scripts that change the level once.  Driver says of the two buffers     *)
(* that they are laid out without a gap, and that the reliable message     *)
(* that lies in one of them is the only one the channel holds.  LocalInv   *)
(* goes round one frame with the two hosts: it says, for each stage of the *)
(* sign-on, where its message or its reply is while each part of the frame *)
(* runs, and how many commands keep a pending reconnect back.  Without the *)
(* last it is not inductive: a reconnect that came late would find the     *)
(* player in the middle of its sign-on.                                    *)
(***************************************************************************)
EXTENDS Keys, Moves, LocalGame, SequenceTheorems, Loops

-----------------------------------------------------------------------------
(* Keys: the invariant.                                                    *)

KeyOrTyped == GameKeys \cup {Typed}
Target == Button \cup {NoButton}
ButtonText == [sign : {"+", "-"}, button : Button, key : KeyOrTyped]

KeysTypes ==
  /\ keydown \in [GameKeys -> BOOLEAN]
  /\ keygamedown \in [GameKeys -> BOOLEAN]
  /\ keybindings \in [GameKeys -> Target]
  /\ text \in Seq(ButtonText)
  /\ down \in [Button -> SUBSET KeyOrTyped]
  /\ isDown \in [Button -> BOOLEAN]
  /\ in_smartjump \in BOOLEAN
  /\ astray \subseteq GameKeys

\* The buttons a key may hold that said "+", with pq_moveup or without.
MayHold(smart, b) == IF b = "jump" /\ smart THEN Button ELSE {b}

\* What key k said last was "+" of b, or "-", and was run: dn is the keys that
\* hold each button.
Holds(smart, dn, k, b) ==
  IF b = NoButton THEN \A c \in Button : k \notin dn[c]
  ELSE \E c \in MayHold(smart, b) :
         k \in dn[c] /\ \A d \in Button \ {c} : k \notin dn[d]

\* The command c turns what key k asks for from a to b.
Turns(k, c, a, b) ==
  IF c.key # k THEN b = a
  ELSE IF c.sign = "+" THEN a \in {NoButton, c.button} /\ b = c.button
  ELSE a = c.button /\ b = NoButton

\* The commands of t take key k from what it holds to asking for last.
Follows(smart, dn, k, t, last) ==
  \E want \in [0..Len(t) -> Target] :
    /\ Holds(smart, dn, k, want[0])
    /\ \A i \in 1..Len(t) : Turns(k, t[i], want[i - 1], want[i])
    /\ want[Len(t)] = last

\* The button key k is down for.
Asks(k) == IF keygamedown[k] THEN keybindings[k] ELSE NoButton

\* The inductive invariant.
GameKeysAreDown == \A k \in GameKeys : keygamedown[k] => keydown[k]
DownIsHeld == \A b \in Button : isDown[b] <=> down[b] # {}
KeysFollow ==
  \A k \in GameKeys \ astray : Follows(in_smartjump, down, k, text, Asks(k))
KeysInv == KeysTypes /\ GameKeysAreDown /\ DownIsHeld /\ KeysFollow

-----------------------------------------------------------------------------
(* What a key asks for.                                                    *)

LEMMA NoButtonIsNone == NoButton \notin Button
BY DEF NoButton, Button

LEMMA TypedIsNoKey == Typed \notin GameKeys
BY KeysAssumption DEF Typed, GameKeys

LEMMA ButtonsAre ==
  /\ "jump" \in Button /\ "up" \in Button /\ "jump" # "up"
  /\ \A b \in Button : b = "jump" \/ b = "up"
BY DEF Button

\* A key that holds no button and has nothing to say.
LEMMA QuietFollows ==
  ASSUME NEW smart, NEW dn, NEW k, NEW t \in Seq(ButtonText),
         \A b \in Button : k \notin dn[b],
         \A i \in DOMAIN t : t[i].key # k
  PROVE  Follows(smart, dn, k, t, NoButton)
<1> DEFINE want == [i \in 0..Len(t) |-> NoButton]
<1>1. want \in [0..Len(t) -> Target]
  BY DEF Target
<1>2. Len(t) \in Nat /\ DOMAIN t = 1..Len(t)
  OBVIOUS
<1>3. Holds(smart, dn, k, want[0])
  BY <1>2 DEF Holds
<1>4. \A i \in 1..Len(t) : Turns(k, t[i], want[i - 1], want[i])
  BY <1>2 DEF Turns
<1>5. want[Len(t)] = NoButton
  BY <1>2
<1> HIDE DEF want
<1> QED
  BY <1>1, <1>3, <1>4, <1>5 DEF Follows

\* What other keys hold does not matter.
LEMMA SameHolds ==
  ASSUME NEW smart, NEW dn, NEW dn2, NEW k, NEW b \in Target,
         Holds(smart, dn, k, b),
         \A c \in Button : k \in dn2[c] <=> k \in dn[c]
  PROVE  Holds(smart, dn2, k, b)
<1>1. MayHold(smart, b) \subseteq Button \/ b = NoButton
  BY DEF MayHold, Target
<1> QED
  BY <1>1 DEF Holds

LEMMA SameFollows ==
  ASSUME NEW smart, NEW dn, NEW dn2, NEW k,
         NEW t \in Seq(ButtonText), NEW last, Follows(smart, dn, k, t, last),
         \A b \in Button : k \in dn2[b] <=> k \in dn[b]
  PROVE  Follows(smart, dn2, k, t, last)
<1>1. \A b \in Target : Holds(smart, dn, k, b) => Holds(smart, dn2, k, b)
  BY SameHolds
<1>2. PICK want \in [0..Len(t) -> Target] :
         /\ Holds(smart, dn, k, want[0])
         /\ \A i \in 1..Len(t) : Turns(k, t[i], want[i - 1], want[i])
         /\ want[Len(t)] = last
  BY DEF Follows
<1>3. want[0] \in Target
  <2>1. Len(t) \in Nat
    OBVIOUS
  <2> QED
    BY <1>2, <2>1
<1> QED
  BY <1>1, <1>2, <1>3 DEF Follows

\* One more command at the end.
LEMMA AppendFollows ==
  ASSUME NEW smart, NEW dn, NEW k, NEW t \in Seq(ButtonText), NEW a, NEW b \in Target,
         NEW c \in ButtonText, Follows(smart, dn, k, t, a), Turns(k, c, a, b)
  PROVE  Follows(smart, dn, k, Append(t, c), b)
<1>1. PICK want \in [0..Len(t) -> Target] :
         /\ Holds(smart, dn, k, want[0])
         /\ \A i \in 1..Len(t) : Turns(k, t[i], want[i - 1], want[i])
         /\ want[Len(t)] = a
  BY DEF Follows
<1> DEFINE n == Len(t)
           u == Append(t, c)
           more == [i \in 0..n + 1 |-> IF i <= n THEN want[i] ELSE b]
<1>2. n \in Nat
  OBVIOUS
<1>3. Len(u) = n + 1 /\ u[n + 1] = c /\ \A i \in 1..n : u[i] = t[i]
  OBVIOUS
<1> HIDE DEF u, n
<1>4. more \in [0..n + 1 -> Target]
  BY <1>2 DEF n
<1>5. /\ more[0] = want[0] /\ more[n + 1] = b
      /\ \A i \in 0..n : more[i] = want[i]
  BY <1>2
<1> HIDE DEF more
<1>6. ASSUME NEW i \in 1..n + 1
      PROVE  Turns(k, u[i], more[i - 1], more[i])
  <2>1. CASE i = n + 1
    <3>1. i - 1 = n
      BY <1>2, <2>1
    <3>2. more[i - 1] = a /\ more[i] = b /\ u[i] = c
      BY <1>1, <1>2, <1>3, <1>5, <2>1, <3>1 DEF n
    <3> QED
      BY <3>2
  <2>2. CASE i # n + 1
    <3>1. i \in 1..n /\ i \in 0..n /\ i - 1 \in 0..n
      BY <1>2, <2>2
    <3>2. more[i - 1] = want[i - 1] /\ more[i] = want[i] /\ u[i] = t[i]
      BY <1>3, <1>5, <3>1
    <3>3. Turns(k, t[i], want[i - 1], want[i])
      BY <1>1, <3>1 DEF n
    <3> QED
      BY <3>2, <3>3
  <2> QED
    BY <2>1, <2>2
<1>7. Follows(smart, dn, k, u, b)
  BY <1>1, <1>3, <1>4, <1>5, <1>6 DEF Follows
<1> QED
  BY <1>7 DEF u

\* The first command is run: it is a turn from what the key holds, and the rest
\* follows from what it holds then.
LEMMA TailFollows ==
  ASSUME NEW smart, NEW dn, NEW dn2, NEW k, NEW t \in Seq(ButtonText), t # <<>>,
         NEW last, Follows(smart, dn, k, t, last),
         \A a, b \in Target : Holds(smart, dn, k, a) /\ Turns(k, Head(t), a, b)
                                => Holds(smart, dn2, k, b)
  PROVE  Follows(smart, dn2, k, Tail(t), last)
<1>1. PICK want \in [0..Len(t) -> Target] :
         /\ Holds(smart, dn, k, want[0])
         /\ \A i \in 1..Len(t) : Turns(k, t[i], want[i - 1], want[i])
         /\ want[Len(t)] = last
  BY DEF Follows
<1> DEFINE u == Tail(t)
           m == Len(u)
           rest == [i \in 0..m |-> want[i + 1]]
<1>2. /\ m \in Nat /\ Len(t) = m + 1 /\ Head(t) = t[1]
      /\ \A i \in 1..m : u[i] = t[i + 1]
  OBVIOUS
<1> HIDE DEF u, m
<1>3. rest \in [0..m -> Target]
  BY <1>2
<1>4. \A i \in 0..m : rest[i] = want[i + 1]
  OBVIOUS
<1> HIDE DEF rest
<1>5. Holds(smart, dn2, k, rest[0])
  <2>1. want[0] \in Target /\ want[1] \in Target /\ 1 \in 1..Len(t)
    BY <1>2
  <2>2. Turns(k, t[1], want[1 - 1], want[1])
    BY <1>1, <2>1
  <2>3. Turns(k, Head(t), want[0], want[1])
    BY <1>2, <2>2
  <2>4. rest[0] = want[1]
    BY <1>2, <1>4
  <2> QED
    BY <1>1, <2>1, <2>3, <2>4
<1>6. ASSUME NEW i \in 1..m
      PROVE  Turns(k, u[i], rest[i - 1], rest[i])
  <2>1. /\ i \in 0..m /\ i - 1 \in 0..m /\ i + 1 \in 1..Len(t)
        /\ (i + 1) - 1 = i /\ (i - 1) + 1 = i
    BY <1>2
  <2>2. Turns(k, t[i + 1], want[(i + 1) - 1], want[i + 1])
    BY <1>1, <2>1
  <2>3. rest[i - 1] = want[i] /\ rest[i] = want[i + 1] /\ u[i] = t[i + 1]
    BY <1>2, <1>4, <2>1
  <2> QED
    BY <2>1, <2>2, <2>3
<1>7. rest[m] = last
  BY <1>1, <1>2, <1>4
<1>8. Follows(smart, dn2, k, u, last)
  BY <1>3, <1>5, <1>6, <1>7 DEF Follows, m
<1> QED
  BY <1>8 DEF u

\* When the buffer is empty, a key holds what it asks for.
LEMMA EmptyFollows ==
  ASSUME NEW smart, NEW dn, NEW k, NEW last, Follows(smart, dn, k, <<>>, last)
  PROVE  Holds(smart, dn, k, last)
<1>1. Len(<<>>) = 0
  OBVIOUS
<1> QED
  BY <1>1 DEF Follows

-----------------------------------------------------------------------------
(* Keys go up.                                                             *)

\* What is said by a key that is let go.
Release(k) == ButtonCommand("-", k)

LEMMA ReleaseCommandsIs ==
  ASSUME KeysTypes, NEW keys \in SUBSET GameKeys,
         \A k \in keys : keybindings[k] \in Button
  PROVE  \E after \in [0..NumKeys -> Seq(ButtonText)] :
           /\ after[0] = text
           /\ \A k \in 1..NumKeys :
                after[k] = IF k \in keys THEN Append(after[k - 1], Release(k))
                           ELSE after[k - 1]
           /\ ReleaseCommands(keys) = after[NumKeys]
<1> DEFINE X == Seq(ButtonText)
           Turn(x, k) == IF k \in keys THEN Append(x, Release(k)) ELSE x
           F == [p \in X \X (1..NumKeys) |-> Turn(p[1], p[2])]
           IsAfter(a) == a = [k \in 0..NumKeys |->
                             IF k = 0 THEN text
                             ELSE IF k \in keys
                                  THEN Append(a[k - 1], Release(k))
                                  ELSE a[k - 1]]
           after == CHOOSE a : IsAfter(a)
<1>1. ReleaseCommands(keys) = after[NumKeys]
  BY DEF ReleaseCommands, Release
<1>2. NumKeys \in Nat /\ GameKeys = 1..NumKeys
  BY KeysAssumption DEF GameKeys
<1>3. text \in X
  BY DEF KeysTypes
<1>4. \A x \in X, k \in 1..NumKeys : Turn(x, k) \in X
  <2>1. \A k \in keys : Release(k) \in ButtonText
    BY DEF Release, ButtonCommand, ButtonText, KeyOrTyped
  <2> QED
    BY <2>1
<1>5. F \in [X \X (1..NumKeys) -> X]
  <2> HIDE DEF Turn
  <2> QED
    BY <1>4
<1>6. \A x \in X, k \in 1..NumKeys : F[<<x, k>>] = Turn(x, k)
  OBVIOUS
<1>7. PICK g \in [0..NumKeys -> X] : IsLoop(g, NumKeys, text, F)
  <2> HIDE DEF X, F
  <2> QED
    BY <1>2, <1>3, <1>5, LoopIsDefined
<1>8. \A k \in 1..NumKeys : g[k] = Turn(g[k - 1], k)
  <2>1. \A k \in 1..NumKeys : k - 1 \in 0..NumKeys
    BY <1>2
  <2> HIDE DEF X, F, Turn
  <2> QED
    BY <1>6, <1>7, <2>1 DEF IsLoop
<1>9. IsAfter(g)
  <2> HIDE DEF X
  <2>1. \A k \in 0..NumKeys : k # 0 => k \in 1..NumKeys
    BY <1>2
  <2> QED
    BY <1>7, <1>8, <2>1 DEF IsLoop
<1>10. IsAfter(after)
  <2> HIDE DEF IsAfter
  <2> QED
    BY <1>9
<1> HIDE DEF after
<1>11. after[0] = text /\ \A k \in 1..NumKeys : after[k] = Turn(after[k - 1], k)
  <2>1. 0 \in 0..NumKeys /\ \A k \in 1..NumKeys : k \in 0..NumKeys /\ k # 0
    BY <1>2
  <2> QED
    BY <1>10, <2>1
<1>12. after = g
  <2> DEFINE Same == {i \in 0..NumKeys : after[i] = g[i]}
  <2>1. 0 \in Same
    BY <1>2, <1>7, <1>11 DEF IsLoop
  <2>2. \A i \in 1..NumKeys : i - 1 \in Same => i \in Same
    <3> HIDE DEF Turn
    <3>1. \A i \in 1..NumKeys : i \in 0..NumKeys
      BY <1>2
    <3> QED
      BY <1>8, <1>11, <3>1
  <2>3. 0..NumKeys \subseteq Same
    <3> HIDE DEF Same
    <3> QED
      BY <1>2, <2>1, <2>2, AfterEveryTurn
  <2>4. DOMAIN after = 0..NumKeys /\ DOMAIN g = 0..NumKeys
    BY <1>7, <1>10
  <2> QED
    BY <1>7, <1>10, <2>3, <2>4
<1> QED
  BY <1>1, <1>7, <1>11, <1>12


\* Each of the keys asks for nothing when it has gone up, and the others ask for
\* what they asked for.
LEMMA ReleaseFollows ==
  ASSUME KeysTypes, NEW keys \in SUBSET GameKeys,
         \A k \in keys : keybindings[k] \in Button
  PROVE  LET t == ReleaseCommands(keys) IN
         /\ t \in Seq(ButtonText)
         /\ \A k \in GameKeys : \A last \in Target :
              /\ Follows(in_smartjump, down, k, text, last)
              /\ k \in keys => last = keybindings[k]
              => Follows(in_smartjump, down, k, t,
                         IF k \in keys THEN NoButton ELSE last)
<1>1. PICK after \in [0..NumKeys -> Seq(ButtonText)] :
        /\ after[0] = text
        /\ \A j \in 1..NumKeys :
             after[j] = IF j \in keys THEN Append(after[j - 1], Release(j))
                        ELSE after[j - 1]
        /\ ReleaseCommands(keys) = after[NumKeys]
  BY ReleaseCommandsIs
<1>2. NumKeys \in Nat /\ GameKeys = 1..NumKeys
  BY KeysAssumption DEF GameKeys
<1>3. ReleaseCommands(keys) \in Seq(ButtonText)
  BY <1>1, <1>2
<1>4. ASSUME NEW k \in GameKeys, NEW last \in Target,
             Follows(in_smartjump, down, k, text, last),
             k \in keys => last = keybindings[k]
      PROVE  Follows(in_smartjump, down, k, ReleaseCommands(keys),
                     IF k \in keys THEN NoButton ELSE last)
  <2> DEFINE Then(i) == IF k \in keys /\ k <= i THEN NoButton ELSE last
             Kept(i) == Follows(in_smartjump, down, k, after[i], Then(i))
             S == {i \in 0..NumKeys : Kept(i)}
  <2>1. 0 \in S
    <3>1. ~(k <= 0) /\ 0 \in 0..NumKeys
      BY <1>2
    <3> QED
      BY <1>1, <1>4, <3>1
  <2>2. ASSUME NEW i \in 1..NumKeys, i - 1 \in S
        PROVE  i \in S
    <3>1. /\ i - 1 \in 0..NumKeys /\ i \in 0..NumKeys
          /\ after[i - 1] \in Seq(ButtonText) /\ Kept(i - 1)
      BY <1>2, <2>2
    <3>2. Then(i) \in Target /\ Then(i - 1) \in Target
      BY DEF Target
    <3>3. CASE i \notin keys
      <4>1. after[i] = after[i - 1]
        BY <1>1, <3>3
      <4>2. k \in keys => (k <= i <=> k <= i - 1)
        BY <1>2, <3>3
      <4>3. Then(i) = Then(i - 1)
        BY <4>2
      <4> HIDE DEF Then
      <4> QED
        BY <3>1, <4>1, <4>3
    <3>4. CASE i \in keys
      <4>1. after[i] = Append(after[i - 1], Release(i))
        BY <1>1, <3>4
      <4>2. /\ Release(i) \in ButtonText /\ Release(i).key = i
            /\ Release(i).sign = "-" /\ Release(i).button = keybindings[i]
        BY <3>4 DEF Release, ButtonCommand, ButtonText, KeyOrTyped
      <4>3. Turns(k, Release(i), Then(i - 1), Then(i))
        <5>1. CASE i = k
          <6>1. Then(i - 1) = keybindings[k] /\ Then(i) = NoButton
            BY <1>2, <1>4, <3>4, <5>1
          <6> HIDE DEF Then
          <6> QED
            BY <4>2, <5>1, <6>1 DEF Turns
        <5>2. CASE i # k
          <6>1. k <= i <=> k <= i - 1
            BY <1>2, <5>2
          <6>2. Then(i) = Then(i - 1)
            BY <6>1
          <6> HIDE DEF Then
          <6> QED
            BY <4>2, <5>2, <6>2 DEF Turns
        <5> QED
          BY <5>1, <5>2
      <4> HIDE DEF Then
      <4>4. Follows(in_smartjump, down, k, Append(after[i - 1], Release(i)),
                    Then(i))
        BY <3>1, <3>2, <4>2, <4>3, AppendFollows
      <4> QED
        BY <3>1, <4>1, <4>4
    <3> QED
      BY <3>3, <3>4
  <2>3. 0..NumKeys \subseteq S
    <3> HIDE DEF S
    <3> QED
      BY <1>2, <2>1, <2>2, AfterEveryTurn
  <2>4. NumKeys \in 0..NumKeys /\ k <= NumKeys
    BY <1>2
  <2>5. Then(NumKeys) = IF k \in keys THEN NoButton ELSE last
    BY <2>4
  <2>6. Kept(NumKeys)
    BY <2>3, <2>4
  <2> HIDE DEF Then
  <2> QED
    BY <1>1, <2>5, <2>6
<1> QED
  BY <1>3, <1>4

-----------------------------------------------------------------------------
(* The steps.                                                              *)

\* A key that is not astray after a step was not astray before it and nothing
\* happened to it, or has nothing to hold and to say.
LEMMA NotAstray ==
  ASSUME KeysTypes', NEW ks, GoAstray(ks),
         \A k \in GameKeys \ (astray \cup ks) :
           Follows(in_smartjump', down', k, text', Asks(k)')
  PROVE  KeysFollow'
<1> SUFFICES ASSUME NEW k \in GameKeys \ astray'
             PROVE  Follows(in_smartjump', down', k, text', Asks(k)')
  BY DEF KeysFollow
<1>1. CASE k \in astray \cup ks
  <2>1. /\ ~keygamedown'[k]
        /\ \A b \in Button : k \notin down'[b]
        /\ \A i \in DOMAIN text' : text'[i].key # k
    BY <1>1 DEF GoAstray
  <2>2. Asks(k)' = NoButton
    BY <2>1 DEF Asks
  <2>3. text' \in Seq(ButtonText)
    BY DEF KeysTypes
  <2> QED
    BY <2>1, <2>2, <2>3, QuietFollows
<1>2. CASE k \notin astray \cup ks
  BY <1>2
<1> QED
  BY <1>1, <1>2

LEMMA AstrayTypes ==
  ASSUME NEW ks \in SUBSET GameKeys, astray \subseteq GameKeys, GoAstray(ks)
  PROVE  astray' \subseteq GameKeys
BY DEF GoAstray

LEMMA InitKeys == KeysInit => KeysInv
<1> SUFFICES ASSUME KeysInit
             PROVE  KeysInv
  OBVIOUS
<1>1. KeysTypes
  <2>1. keybindings \in [GameKeys -> Target]
    BY KeysAssumption DEF KeysInit, Target
  <2>2. text \in Seq(ButtonText)
    BY DEF KeysInit
  <2> QED
    BY <2>1, <2>2 DEF KeysInit, KeysTypes
<1>2. GameKeysAreDown /\ DownIsHeld
  BY DEF KeysInit, GameKeysAreDown, DownIsHeld
<1>3. ASSUME NEW k \in GameKeys
      PROVE  Follows(in_smartjump, down, k, text, Asks(k))
  <2>1. Asks(k) = NoButton /\ \A b \in Button : k \notin down[b]
    BY DEF KeysInit, Asks
  <2>2. \A i \in DOMAIN text : text[i].key # k
    BY DEF KeysInit
  <2>3. text \in Seq(ButtonText)
    BY <1>1 DEF KeysTypes
  <2> QED
    BY <2>1, <2>2, <2>3, QuietFollows
<1> QED
  BY <1>1, <1>2, <1>3 DEF KeysInv, KeysFollow

\* Key_Event for keys that go up.
LEMMA ReleaseKeepsKeys ==
  ASSUME KeysInv, NEW released \in SUBSET GameKeys, ReleaseKeys(released)
  PROVE  KeysInv'
<1> DEFINE acting == {k \in released \ Taken(released) : IsButtonHeld(k)}
           ks == {k \in Taken(released) : IsButtonHeld(k)}
<1>1. /\ keydown' = [k \in GameKeys |-> keydown[k] /\ k \notin released]
      /\ keygamedown' = [k \in GameKeys |-> keygamedown[k] /\ k \notin released]
      /\ text' = ReleaseCommands(acting)
      /\ UNCHANGED <<keybindings, down, isDown, in_smartjump>>
      /\ GoAstray(ks)
  BY DEF ReleaseKeys, buttonVars
<1>2. /\ acting \in SUBSET GameKeys /\ ks \in SUBSET GameKeys
      /\ \A k \in acting : keybindings[k] \in Button /\ keygamedown[k]
  <2>1. Taken(released) \subseteq released
    BY DEF Taken
  <2>2. \A k \in GameKeys : keybindings[k] \in Target
    BY DEF KeysInv, KeysTypes
  <2> QED
    BY <2>1, <2>2 DEF IsButtonHeld, Target
<1>3. KeysTypes
  BY DEF KeysInv
<1>4. /\ text' \in Seq(ButtonText)
      /\ \A k \in GameKeys : \A last \in Target :
           /\ Follows(in_smartjump, down, k, text, last)
           /\ k \in acting => last = keybindings[k]
           => Follows(in_smartjump, down, k, text',
                      IF k \in acting THEN NoButton ELSE last)
  <2> HIDE DEF acting
  <2> QED
    BY <1>1, <1>2, <1>3, ReleaseFollows
<1>5. KeysTypes'
  <2>1. astray' \subseteq GameKeys
    BY <1>1, <1>2, <1>3, AstrayTypes DEF KeysTypes
  <2>2. keydown' \in [GameKeys -> BOOLEAN] /\ keygamedown' \in [GameKeys -> BOOLEAN]
    BY <1>1
  <2> QED
    BY <1>1, <1>3, <1>4, <2>1, <2>2 DEF KeysTypes
<1>6. GameKeysAreDown' /\ DownIsHeld'
  BY <1>1 DEF KeysInv, GameKeysAreDown, DownIsHeld
<1>7. ASSUME NEW k \in GameKeys \ (astray \cup ks)
      PROVE  Follows(in_smartjump', down', k, text', Asks(k)')
  <2>1. Follows(in_smartjump, down, k, text, Asks(k)) /\ Asks(k) \in Target
    BY <1>3 DEF KeysInv, KeysFollow, Asks, KeysTypes, Target
  <2>2. k \in acting => Asks(k) = keybindings[k]
    BY <1>2 DEF Asks
  <2>3. Asks(k)' = IF k \in acting THEN NoButton ELSE Asks(k)
    <3>1. k \in released => (k \in acting \/ ~IsButtonHeld(k))
      OBVIOUS
    <3>2. ~IsButtonHeld(k) => Asks(k) = NoButton
      BY DEF IsButtonHeld, Asks
    <3>3. k \in acting => k \in released
      OBVIOUS
    <3> HIDE DEF acting
    <3> QED
      BY <1>1, <3>1, <3>2, <3>3 DEF Asks
  <2> HIDE DEF acting
  <2>4. Follows(in_smartjump, down, k, text', Asks(k)')
    BY <1>4, <2>1, <2>2, <2>3
  <2> QED
    BY <1>1, <2>4
<1>8. KeysFollow'
  <2> HIDE DEF ks
  <2> QED
    BY <1>1, <1>5, <1>7, NotAstray
<1> QED
  BY <1>5, <1>6, <1>8 DEF KeysInv

\* Key_Event for a press.
LEMMA PressKeepsKeys ==
  ASSUME KeysInv, KeyGoesDown
  PROVE  KeysInv'
<1> DEFINE c(j) == ButtonCommand("+", j)
<1>1. PICK j \in GameKeys, acts \in BOOLEAN :
        /\ keydown' = [keydown EXCEPT ![j] = TRUE]
        /\ keygamedown' = [keygamedown EXCEPT ![j] = @ \/ acts]
        /\ text' = IF acts /\ keybindings[j] # NoButton
                   THEN Append(text, c(j)) ELSE text
        /\ UNCHANGED <<keybindings, down, isDown, in_smartjump>>
        /\ GoAstray({})
  <2> DEFINE Pressed(j, acts) ==
               /\ keydown' = [keydown EXCEPT ![j] = TRUE]
               /\ keygamedown' = [keygamedown EXCEPT ![j] = @ \/ acts]
               /\ text' = IF acts /\ keybindings[j] # NoButton
                          THEN Append(text, c(j)) ELSE text
               /\ UNCHANGED <<keybindings, down, isDown, in_smartjump>>
               /\ GoAstray({})
  <2>1. PICK j \in GameKeys : \E acts \in MayAct(j) : Pressed(j, acts)
    BY DEF KeyGoesDown, buttonVars
  <2>2. MayAct(j) \subseteq BOOLEAN
    BY DEF MayAct
  <2>3. \E acts \in BOOLEAN : Pressed(j, acts)
    <3> HIDE DEF Pressed
    <3> QED
      BY <2>1, <2>2
  <2> QED
    BY <2>3
<1>2. KeysTypes
  BY DEF KeysInv
<1>3. acts /\ keybindings[j] # NoButton =>
        /\ c(j) \in ButtonText /\ c(j).key = j /\ c(j).sign = "+"
        /\ c(j).button = keybindings[j]
  BY <1>2 DEF KeysTypes, ButtonCommand, ButtonText, KeyOrTyped, Target
<1> HIDE DEF c
<1>4. text' \in Seq(ButtonText)
  BY <1>1, <1>2, <1>3 DEF KeysTypes
<1>5. keydown' \in [GameKeys -> BOOLEAN] /\ keygamedown' \in [GameKeys -> BOOLEAN]
  <2>1. (keygamedown[j] \/ acts) \in BOOLEAN
    OBVIOUS
  <2> QED
    BY <1>1, <1>2, <2>1 DEF KeysTypes
<1>6. KeysTypes'
  <2>1. astray' \subseteq GameKeys
    BY <1>1, <1>2, AstrayTypes DEF KeysTypes
  <2> QED
    BY <1>1, <1>2, <1>4, <1>5, <2>1 DEF KeysTypes
<1>7. /\ keygamedown'[j] <=> keygamedown[j] \/ acts
      /\ keydown'[j]
      /\ \A k \in GameKeys \ {j} : /\ keygamedown'[k] = keygamedown[k]
                                   /\ keydown'[k] = keydown[k]
  BY <1>1, <1>2 DEF KeysTypes
<1>8. GameKeysAreDown' /\ DownIsHeld'
  BY <1>1, <1>7 DEF KeysInv, GameKeysAreDown, DownIsHeld
<1>9. ASSUME NEW k \in GameKeys \ astray
      PROVE  Follows(in_smartjump', down', k, text', Asks(k)')
  <2>1. Follows(in_smartjump, down, k, text, Asks(k)) /\ Asks(k) \in Target
    BY <1>2 DEF KeysInv, KeysFollow, Asks, KeysTypes, Target
  <2>2. text \in Seq(ButtonText)
    BY <1>2 DEF KeysTypes
  <2>3. CASE ~(acts /\ keybindings[j] # NoButton)
    <3>1. Asks(k)' = Asks(k)
      <4>1. CASE k = j /\ acts
        BY <1>1, <1>7, <2>3, <4>1 DEF Asks
      <4>2. CASE ~(k = j /\ acts)
        <5>1. keygamedown'[k] <=> keygamedown[k]
          BY <1>7, <4>2
        <5> QED
          BY <1>1, <5>1 DEF Asks
      <4> QED
        BY <4>1, <4>2
    <3> QED
      BY <1>1, <2>1, <2>3, <3>1
  <2>4. CASE acts /\ keybindings[j] # NoButton
    <3>1. Turns(k, c(j), Asks(k), Asks(k)')
      <4>1. CASE k = j
        <5>1. Asks(k)' = keybindings[k] /\ Asks(k) \in {NoButton, keybindings[k]}
          BY <1>1, <1>7, <2>4, <4>1 DEF Asks
        <5> QED
          BY <1>3, <2>4, <4>1, <5>1 DEF Turns
      <4>2. CASE k # j
        <5>1. Asks(k)' = Asks(k)
          BY <1>1, <1>7, <4>2 DEF Asks
        <5> QED
          BY <1>3, <2>4, <4>2, <5>1 DEF Turns
      <4> QED
        BY <4>1, <4>2
    <3>2. Asks(k)' \in Target
      BY <1>1, <1>2 DEF Asks, KeysTypes, Target
    <3>3. Follows(in_smartjump, down, k, Append(text, c(j)), Asks(k)')
      BY <1>3, <2>1, <2>2, <2>4, <3>1, <3>2, AppendFollows
    <3> QED
      BY <1>1, <2>4, <3>3
  <2> QED
    BY <2>3, <2>4
<1>10. KeysFollow'
  <2>1. \A k \in GameKeys \ (astray \cup {}) :
          Follows(in_smartjump', down', k, text', Asks(k)')
    BY <1>9
  <2> QED
    BY <1>1, <1>6, <2>1, NotAstray
<1> QED
  BY <1>6, <1>8, <1>10 DEF KeysInv

\* A new binding.
LEMMA BindingKeepsKeys ==
  ASSUME KeysInv, Key_SetBinding
  PROVE  KeysInv'
<1>1. PICK j \in GameKeys, b \in Target :
        /\ keybindings' = [keybindings EXCEPT ![j] = b]
        /\ UNCHANGED <<keydown, keygamedown, text, down, isDown, in_smartjump>>
        /\ GoAstray(IF keygamedown[j] THEN {j} ELSE {})
  BY DEF Key_SetBinding, Target, keyVars, buttonVars
<1> DEFINE ks == IF keygamedown[j] THEN {j} ELSE {}
<1>2. KeysTypes
  BY DEF KeysInv
<1>3. KeysTypes'
  <2>1. astray' \subseteq GameKeys
    BY <1>1, <1>2, AstrayTypes DEF KeysTypes
  <2> QED
    BY <1>1, <1>2, <2>1 DEF KeysTypes
<1>4. GameKeysAreDown' /\ DownIsHeld'
  BY <1>1 DEF KeysInv, GameKeysAreDown, DownIsHeld
<1>5. ASSUME NEW k \in GameKeys \ (astray \cup ks)
      PROVE  Follows(in_smartjump', down', k, text', Asks(k)')
  <2>1. Follows(in_smartjump, down, k, text, Asks(k))
    BY DEF KeysInv, KeysFollow
  <2>2. Asks(k)' = Asks(k)
    <3>1. k # j => keybindings'[k] = keybindings[k]
      BY <1>1, <1>2 DEF KeysTypes
    <3>2. k = j => ~keygamedown[k]
      BY <1>5
    <3> QED
      BY <1>1, <3>1, <3>2 DEF Asks
  <2> QED
    BY <1>1, <2>1, <2>2
<1>6. KeysFollow'
  <2>1. GoAstray(ks)
    BY <1>1
  <2> HIDE DEF ks
  <2> QED
    BY <1>3, <1>5, <2>1, NotAstray
<1> QED
  BY <1>3, <1>4, <1>6 DEF KeysInv

\* A command that is typed.
LEMMA TypingKeepsKeys ==
  ASSUME KeysInv, TypeCommand
  PROVE  KeysInv'
<1>1. PICK c \in [sign : {"+", "-"}, button : Button, key : {Typed}] :
        /\ text' = Append(text, c)
        /\ UNCHANGED <<keydown, keygamedown, keybindings, down, isDown,
                       in_smartjump, astray>>
  BY DEF TypeCommand, keyVars, buttonVars
<1>2. c \in ButtonText /\ c.key = Typed
  BY DEF ButtonText, KeyOrTyped
<1>3. KeysTypes
  BY DEF KeysInv
<1>4. text \in Seq(ButtonText) /\ text' \in Seq(ButtonText)
  BY <1>1, <1>2, <1>3 DEF KeysTypes
<1>5. KeysTypes'
  BY <1>1, <1>3, <1>4 DEF KeysTypes
<1>6. GameKeysAreDown' /\ DownIsHeld'
  BY <1>1 DEF KeysInv, GameKeysAreDown, DownIsHeld
<1>7. ASSUME NEW k \in GameKeys \ astray
      PROVE  Follows(in_smartjump', down', k, text', Asks(k)')
  <2>1. Follows(in_smartjump, down, k, text, Asks(k)) /\ Asks(k) \in Target
    BY <1>3 DEF KeysInv, KeysFollow, Asks, KeysTypes, Target
  <2>2. Turns(k, c, Asks(k), Asks(k))
    BY <1>2, TypedIsNoKey DEF Turns
  <2>3. Follows(in_smartjump, down, k, Append(text, c), Asks(k))
    BY <1>2, <1>4, <2>1, <2>2, AppendFollows
  <2>4. Asks(k)' = Asks(k)
    BY <1>1 DEF Asks
  <2> QED
    BY <1>1, <2>3, <2>4
<1>8. KeysFollow'
  BY <1>1, <1>7 DEF KeysFollow
<1> QED
  BY <1>5, <1>6, <1>8 DEF KeysInv

\* The button key j takes that says "+" of button.
Taker(button, inwater) ==
  IF button = "jump" /\ in_smartjump /\ inwater THEN "up" ELSE button

\* KeyDown: the key takes the button its command is about, or goes astray.
LEMMA KeyDownHolds ==
  ASSUME KeysTypes, NEW button \in Button, NEW j \in KeyOrTyped,
         NEW inwater \in BOOLEAN, KeyDown(button, j, inwater)
  PROVE  \E ks \in SUBSET GameKeys :
           /\ GoAstray(ks)
           /\ down' \in [Button -> SUBSET KeyOrTyped]
           /\ isDown' \in [Button -> BOOLEAN]
           /\ DownIsHeld => DownIsHeld'
           /\ \A k \in GameKeys \ {j} : \A b \in Button :
                k \in down'[b] <=> k \in down[b]
           /\ j \in GameKeys \ ks => Holds(in_smartjump, down', j, button)
<1> DEFINE b == Taker(button, inwater)
           isFree == j \notin down[b] /\ Cardinality(down[b]) < 2
           isElsewhere == \E c \in Button \ {b} : j \in down[c]
           ks == IF j # Typed /\ (isElsewhere \/ j \notin down'[b])
                 THEN {j} ELSE {}
<1>1. /\ down' = [down EXCEPT ![b] = IF isFree THEN @ \cup {j} ELSE @]
      /\ isDown' = [isDown EXCEPT ![b] = @ \/ isFree]
      /\ GoAstray(ks)
  BY DEF KeyDown, Taker
<1>2. b \in Button /\ b \in MayHold(in_smartjump, button)
  BY DEF Taker, MayHold, Button
<1>3. isFree \in BOOLEAN /\ (isFree => j \notin down[b])
  OBVIOUS
<1>4. isElsewhere <=> \E c \in Button \ {b} : j \in down[c]
  OBVIOUS
<1>5. ks \in SUBSET GameKeys
  BY DEF KeyOrTyped
<1>6. j \in GameKeys \ ks => ~isElsewhere /\ j \in down'[b]
  BY TypedIsNoKey
<1> HIDE DEF b, isFree, isElsewhere, ks
<1>7. /\ down'[b] = IF isFree THEN down[b] \cup {j} ELSE down[b]
      /\ \A c \in Button \ {b} : down'[c] = down[c]
  BY <1>1, <1>2 DEF KeysTypes
<1>8. down' \in [Button -> SUBSET KeyOrTyped]
  <2>1. down[b] \cup {j} \in SUBSET KeyOrTyped
    BY <1>2 DEF KeysTypes
  <2> QED
    BY <1>1, <2>1 DEF KeysTypes
<1>9. /\ isDown' \in [Button -> BOOLEAN]
      /\ isDown'[b] <=> isDown[b] \/ isFree
      /\ \A c \in Button \ {b} : isDown'[c] = isDown[c]
  <2>1. (isDown[b] \/ isFree) \in BOOLEAN
    OBVIOUS
  <2> QED
    BY <1>1, <1>2, <2>1 DEF KeysTypes
<1>10. DownIsHeld => DownIsHeld'
  <2> SUFFICES ASSUME DownIsHeld, NEW c \in Button
               PROVE  isDown'[c] <=> down'[c] # {}
    BY DEF DownIsHeld
  <2>1. CASE c = b
    <3>1. isDown[b] <=> down[b] # {}
      BY <1>2 DEF DownIsHeld
    <3> QED
      BY <1>7, <1>9, <2>1, <3>1
  <2>2. CASE c # b
    BY <1>7, <1>9, <2>2 DEF DownIsHeld
  <2> QED
    BY <2>1, <2>2
<1>11. \A k \in GameKeys \ {j} : \A c \in Button :
         k \in down'[c] <=> k \in down[c]
  BY <1>7
<1>12. j \in GameKeys \ ks => Holds(in_smartjump, down', j, button)
  BY <1>2, <1>4, <1>6, <1>7, NoButtonIsNone DEF Holds
<1> QED
  BY <1>1, <1>5, <1>8, <1>9, <1>10, <1>11, <1>12

\* KeyUp: the key lets its button go, and others go astray.
LEMMA KeyUpHolds ==
  ASSUME KeysTypes, NEW button \in Button, NEW j \in KeyOrTyped,
         KeyUp(button, j)
  PROVE  \E ks \in SUBSET GameKeys :
           /\ GoAstray(ks)
           /\ down' \in [Button -> SUBSET KeyOrTyped]
           /\ isDown' \in [Button -> BOOLEAN]
           /\ DownIsHeld'
           /\ \A k \in GameKeys \ (ks \cup {j}) : \A b \in Button :
                k \in down'[b] <=> k \in down[b]
           /\ j \in GameKeys /\ Holds(in_smartjump, down, j, button)
                => Holds(in_smartjump, down', j, NoButton)
<1> DEFINE isJump == j # Typed /\ button = "jump" /\ in_smartjump
           isSwimming == isJump /\ j \in down["up"]
           kept(b) == CASE isSwimming -> IF b = "up" THEN down[b] \ {j} ELSE down[b]
                        [] isJump /\ b = "up" -> {}
                        [] j = Typed /\ b = button -> {}
                        [] b = button -> down[b] \ {j}
                        [] OTHER -> down[b]
           ks == (UNION {down[b] \ kept(b) : b \in Button}) \ {j, Typed}
<1>1. /\ down' = [b \in Button |-> kept(b)]
      /\ isDown' = [b \in Button |-> kept(b) # {}]
      /\ GoAstray(ks)
  BY DEF KeyUp
<1>2. \A b \in Button : kept(b) \subseteq down[b]
  OBVIOUS
<1>3. j # Typed /\ Holds(in_smartjump, down, j, button) =>
        j \notin kept("jump") /\ j \notin kept("up")
  <2> SUFFICES ASSUME j # Typed, Holds(in_smartjump, down, j, button)
               PROVE  j \notin kept("jump") /\ j \notin kept("up")
    OBVIOUS
  <2>1. PICK c \in MayHold(in_smartjump, button) :
          j \in down[c] /\ \A d \in Button \ {c} : j \notin down[d]
    BY NoButtonIsNone DEF Holds
  <2>2. CASE isSwimming
    <3>1. j \notin down["jump"]
      BY <2>1, <2>2, ButtonsAre DEF MayHold
    <3> QED
      BY <2>2, <3>1, ButtonsAre
  <2>3. CASE isJump /\ ~isSwimming
    BY <2>3, ButtonsAre
  <2>4. CASE ~isJump
    <3>1. c = button
      BY <2>1, <2>4 DEF MayHold
    <3>2. \A d \in Button \ {button} : j \notin down[d]
      BY <2>1, <3>1
    <3> QED
      BY <2>4, <3>2, ButtonsAre
  <2> QED
    BY <2>2, <2>3, <2>4
<1> HIDE DEF kept
<1>4. ks \in SUBSET GameKeys
  BY DEF KeysTypes, KeyOrTyped
<1>5. down' \in [Button -> SUBSET KeyOrTyped]
  BY <1>1, <1>2 DEF KeysTypes
<1>6. isDown' \in [Button -> BOOLEAN] /\ DownIsHeld'
  BY <1>1 DEF DownIsHeld
<1>7. ASSUME NEW k \in GameKeys \ (ks \cup {j}), NEW b \in Button
      PROVE  k \in down'[b] <=> k \in down[b]
  <2>1. k # Typed /\ k # j
    BY TypedIsNoKey
  <2>2. k \notin down[b] \ kept(b)
    BY <2>1
  <2> QED
    BY <1>1, <1>2, <2>2
<1>8. j \in GameKeys /\ Holds(in_smartjump, down, j, button)
        => Holds(in_smartjump, down', j, NoButton)
  BY <1>1, <1>3, ButtonsAre, TypedIsNoKey DEF Holds
<1> HIDE DEF ks
<1> QED
  BY <1>1, <1>4, <1>5, <1>6, <1>7, <1>8

\* Cbuf_Execute comes to a command.
LEMMA ExecuteKeepsKeys ==
  ASSUME KeysInv, ExecuteCommand
  PROVE  KeysInv'
<1> DEFINE c == Head(text)
<1>1. /\ text # <<>> /\ text' = Tail(text)
      /\ UNCHANGED <<keydown, keygamedown, keybindings, in_smartjump>>
      /\ \/ c.sign = "+" /\ \E inwater \in BOOLEAN :
                              KeyDown(c.button, c.key, inwater)
         \/ c.sign = "-" /\ KeyUp(c.button, c.key)
  BY DEF ExecuteCommand, keyVars
<1>2. KeysTypes /\ DownIsHeld
  BY DEF KeysInv
<1>3. /\ text \in Seq(ButtonText) /\ text' \in Seq(ButtonText)
      /\ c \in ButtonText
  BY <1>1, <1>2 DEF KeysTypes
<1> HIDE DEF c
<1>4. c.button \in Button /\ c.key \in KeyOrTyped
  BY <1>3 DEF ButtonText
<1>5. PICK ks \in SUBSET GameKeys :
        /\ GoAstray(ks)
        /\ down' \in [Button -> SUBSET KeyOrTyped]
        /\ isDown' \in [Button -> BOOLEAN]
        /\ DownIsHeld'
        /\ \A k \in GameKeys \ (ks \cup {c.key}) : \A b \in Button :
             k \in down'[b] <=> k \in down[b]
        /\ c.key \in GameKeys \ ks =>
             \A a, b \in Target :
               Holds(in_smartjump, down, c.key, a) /\ Turns(c.key, c, a, b)
                 => Holds(in_smartjump, down', c.key, b)
  <2>1. CASE c.sign = "+" /\ \E inwater \in BOOLEAN :
                               KeyDown(c.button, c.key, inwater)
    <3>1. PICK inwater \in BOOLEAN : KeyDown(c.button, c.key, inwater)
      BY <2>1
    <3>2. PICK ks \in SUBSET GameKeys :
            /\ GoAstray(ks)
            /\ down' \in [Button -> SUBSET KeyOrTyped]
            /\ isDown' \in [Button -> BOOLEAN]
            /\ DownIsHeld => DownIsHeld'
            /\ \A k \in GameKeys \ {c.key} : \A b \in Button :
                 k \in down'[b] <=> k \in down[b]
            /\ c.key \in GameKeys \ ks =>
                 Holds(in_smartjump, down', c.key, c.button)
      BY <1>2, <1>4, <3>1, KeyDownHolds
    <3>3. \A a, b \in Target : Turns(c.key, c, a, b) => b = c.button
      BY <2>1 DEF Turns
    <3>4. c.key \in GameKeys \ ks =>
            \A a, b \in Target :
              Holds(in_smartjump, down, c.key, a) /\ Turns(c.key, c, a, b)
                => Holds(in_smartjump, down', c.key, b)
      BY <3>2, <3>3
    <3> QED
      BY <1>2, <3>2, <3>4
  <2>2. CASE c.sign = "-" /\ KeyUp(c.button, c.key)
    <3>1. PICK ks \in SUBSET GameKeys :
            /\ GoAstray(ks)
            /\ down' \in [Button -> SUBSET KeyOrTyped]
            /\ isDown' \in [Button -> BOOLEAN]
            /\ DownIsHeld'
            /\ \A k \in GameKeys \ (ks \cup {c.key}) : \A b \in Button :
                 k \in down'[b] <=> k \in down[b]
            /\ c.key \in GameKeys
               /\ Holds(in_smartjump, down, c.key, c.button)
                 => Holds(in_smartjump, down', c.key, NoButton)
      BY <1>2, <1>4, <2>2, KeyUpHolds
    <3>2. \A a, b \in Target :
            Turns(c.key, c, a, b) => a = c.button /\ b = NoButton
      BY <2>2 DEF Turns
    <3>3. c.key \in GameKeys \ ks =>
            \A a, b \in Target :
              Holds(in_smartjump, down, c.key, a) /\ Turns(c.key, c, a, b)
                => Holds(in_smartjump, down', c.key, b)
      BY <3>1, <3>2
    <3> QED
      BY <3>1, <3>3
  <2> QED
    BY <1>1, <2>1, <2>2
<1>6. KeysTypes'
  <2>1. astray' \subseteq GameKeys
    BY <1>2, <1>5, AstrayTypes DEF KeysTypes
  <2> QED
    BY <1>1, <1>2, <1>3, <1>5, <2>1 DEF KeysTypes
<1>7. GameKeysAreDown'
  BY <1>1 DEF KeysInv, GameKeysAreDown
<1>8. ASSUME NEW k \in GameKeys \ (astray \cup ks)
      PROVE  Follows(in_smartjump', down', k, text', Asks(k)')
  <2>1. Follows(in_smartjump, down, k, text, Asks(k))
    BY DEF KeysInv, KeysFollow
  <2>2. \A a, b \in Target :
          Holds(in_smartjump, down, k, a) /\ Turns(k, c, a, b)
            => Holds(in_smartjump, down', k, b)
    <3>1. CASE k = c.key
      BY <1>5, <3>1
    <3>2. CASE k # c.key
      <4>1. \A b \in Button : k \in down'[b] <=> k \in down[b]
        BY <1>5, <3>2
      <4>2. \A a, b \in Target : Turns(k, c, a, b) => b = a
        BY <3>2 DEF Turns
      <4> QED
        BY <4>1, <4>2, SameHolds
    <3> QED
      BY <3>1, <3>2
  <2>3. Follows(in_smartjump, down', k, Tail(text), Asks(k))
    BY <1>1, <1>3, <2>1, <2>2, TailFollows DEF c
  <2>4. Asks(k)' = Asks(k)
    BY <1>1 DEF Asks
  <2> QED
    BY <1>1, <2>3, <2>4
<1>9. KeysFollow'
  BY <1>5, <1>6, <1>8, NotAstray
<1> QED
  BY <1>5, <1>6, <1>7, <1>9 DEF KeysInv

\* Nothing happens to keys and buttons.
LEMMA QuietKeepsKeys ==
  ASSUME KeysInv, UNCHANGED <<keydown, keygamedown, keybindings, text, down,
                              isDown, in_smartjump, astray>>
  PROVE  KeysInv'
<1>1. KeysTypes' /\ GameKeysAreDown' /\ DownIsHeld'
  BY DEF KeysInv, KeysTypes, GameKeysAreDown, DownIsHeld
<1>2. \A k : Asks(k)' = Asks(k)
  BY DEF Asks
<1>3. KeysFollow'
  BY <1>2 DEF KeysInv, KeysFollow
<1> QED
  BY <1>1, <1>3 DEF KeysInv

LEMMA NextKeepsKeys == KeysInv /\ [KeysNext]_keysVars => KeysInv'
<1> SUFFICES ASSUME KeysInv, [KeysNext]_keysVars
             PROVE  KeysInv'
  OBVIOUS
<1>1. CASE KeyGoesDown
  BY <1>1, PressKeepsKeys
<1>2. CASE KeyGoesUp
  <2>1. PICK k \in GameKeys : ReleaseKeys({k})
    BY <1>2 DEF KeyGoesUp
  <2> QED
    BY <2>1, ReleaseKeepsKeys
<1>3. CASE Key_ClearAllStates
  <2>1. ReleaseKeys({k \in GameKeys : keydown[k]})
    BY <1>3 DEF Key_ClearAllStates
  <2> QED
    BY <2>1, ReleaseKeepsKeys
<1>4. CASE SCR_ModalMessage
  BY <1>4, QuietKeepsKeys DEF SCR_ModalMessage, buttonVars
<1>5. CASE ChangeKeyDest
  BY <1>5, QuietKeepsKeys DEF ChangeKeyDest, keyVars, buttonVars
<1>6. CASE Key_SetBinding
  BY <1>6, BindingKeepsKeys
<1>7. CASE TypeCommand
  BY <1>7, TypingKeepsKeys
<1>8. CASE ExecuteCommand
  BY <1>8, ExecuteKeepsKeys
<1>9. CASE UNCHANGED keysVars
  BY <1>9, QuietKeepsKeys DEF keysVars, keyVars, buttonVars
<1> QED
  BY <1>1, <1>2, <1>3, <1>4, <1>5, <1>6, <1>7, <1>8, <1>9 DEF KeysNext

(***************************************************************************)
(* In every state, what waits in the command buffer takes each key that is *)
(* not astray from the button it holds to the one it is down for.          *)
(***************************************************************************)
THEOREM KeysInvAlways == KeysSpec => []KeysInv
<1>1. KeysInit => KeysInv
  BY InitKeys
<1>2. KeysInv /\ [KeysNext]_keysVars => KeysInv'
  BY NextKeepsKeys
<1> QED
  BY <1>1, <1>2, PTL DEF KeysSpec

(***************************************************************************)
(* A button is down just while something holds it, a key that holds it is  *)
(* down, and one that is down for it holds it: whatever has the keys when  *)
(* they go down and up, and however long their commands wait.              *)
(***************************************************************************)
THEOREM ButtonsAlwaysFollowKeys == KeysSpec => []ButtonsFollowKeys
<1>1. KeysInv => ButtonsFollowKeys
  <2> SUFFICES ASSUME KeysInv, text = <<>>
               PROVE  /\ \A b \in Button :
                           /\ isDown[b] <=> down[b] # {}
                           /\ \A k \in down[b] \ (astray \cup {Typed}) :
                                keydown[k]
                      /\ \A k \in GameKeys \ astray :
                           IsButtonHeld(k) =>
                             \E b \in HoldsFor(k) : k \in down[b]
    BY DEF ButtonsFollowKeys
  <2>1. \A k \in GameKeys \ astray : Holds(in_smartjump, down, k, Asks(k))
    BY EmptyFollows DEF KeysInv, KeysFollow
  <2>2. ASSUME NEW b \in Button, NEW k \in down[b] \ (astray \cup {Typed})
        PROVE  keydown[k]
    <3>1. k \in GameKeys
      BY DEF KeysInv, KeysTypes, KeyOrTyped
    <3>2. Asks(k) # NoButton
      BY <2>1, <3>1 DEF Holds
    <3> QED
      BY <3>1, <3>2 DEF Asks, KeysInv, GameKeysAreDown
  <2>3. ASSUME NEW k \in GameKeys \ astray, IsButtonHeld(k)
        PROVE  \E b \in HoldsFor(k) : k \in down[b]
    <3>1. Asks(k) = keybindings[k] /\ keybindings[k] # NoButton
      BY <2>3 DEF IsButtonHeld, Asks
    <3>2. \E b \in MayHold(in_smartjump, keybindings[k]) : k \in down[b]
      BY <2>1, <3>1 DEF Holds
    <3>3. MayHold(in_smartjump, keybindings[k]) \subseteq HoldsFor(k)
      BY ButtonsAre DEF MayHold, HoldsFor
    <3> QED
      BY <3>2, <3>3
  <2> QED
    BY <2>2, <2>3 DEF KeysInv, DownIsHeld
<1> QED
  BY <1>1, KeysInvAlways, PTL

-----------------------------------------------------------------------------
(* Moves: the invariant.                                                   *)

Playing == game \in {"remote", "listen"}

\* The places from z to head hold the moves up to the n-th, those from lo to z
\* none.
MovesAt(lo, z, head, buff, n) ==
  /\ \A p \in lo..z - 1 : buff[p % LagSlots] = 0
  /\ \A p \in z..head - 1 : buff[p % LagSlots] = n + 1 - (head - p)
  /\ head - z <= n

MovesFrom(z) == MovesAt(OldestPlace, z, lag_head, lag_buff, made)

\* The inductive invariant.
RingTypes ==
  /\ game \in {"none", "demo", "remote", "listen"}
  /\ lag_head \in Nat /\ lag_tail \in Nat /\ lag_tail <= lag_head
  /\ made \in Nat /\ movemessages \in 0..3
  /\ lag_buff \in [Slot -> Nat]
NoDemoIsSent == sending => game # "demo"
MovesAreInRing == Playing => \E z \in OldestPlace..lag_head : MovesFrom(z)
TailIsNext ==
  Playing /\ movemessages > 0 =>
    lag_head - lag_tail <= LagSlots /\ MovesFrom(lag_tail)
RingInv == RingTypes /\ NoDemoIsSent /\ MovesAreInRing /\ TailIsNext

-----------------------------------------------------------------------------
(* Places and slots.                                                       *)

\* A place is a turn of the ring and a slot.
LEMMA ModSplit ==
  ASSUME NEW L \in Nat \ {0}, NEW p \in Int
  PROVE  /\ p % L \in 0..L - 1
         /\ p \div L \in Int /\ p = L * (p \div L) + (p % L)
OBVIOUS

\* No multiple of L but 0 lies between -L and L.
LEMMA MultipleTooSmall ==
  ASSUME NEW L \in Nat \ {0}, NEW k \in Int, -L < L * k, L * k < L
  PROVE  k = 0
<1>1. CASE k >= 1
  <2>1. L * k >= L
    BY <1>1
  <2> QED BY <2>1
<1>2. CASE k <= -1
  <2>1. L * k <= -L
    BY <1>2
  <2> QED BY <2>1
<1> QED
  BY <1>1, <1>2

\* Two places less than a turn apart do not share a slot.
LEMMA ModApart ==
  ASSUME NEW L \in Nat \ {0}, NEW p \in Int, NEW q \in Int,
         -L < p - q, p - q < L, (p % L) = (q % L)
  PROVE  p = q
<1> DEFINE a == p \div L
           b == q \div L
<1>1. /\ a \in Int /\ b \in Int
      /\ p = L * a + (p % L) /\ q = L * b + (q % L)
      /\ p % L \in Int /\ q % L \in Int
  BY ModSplit
<1> HIDE DEF a, b
<1>2. p - q = L * (a - b)
  BY <1>1
<1>3. a - b = 0
  BY <1>1, <1>2, MultipleTooSmall
<1> QED
  BY <1>2, <1>3

\* A turn on lies the same slot.
LEMMA ModAround ==
  ASSUME NEW L \in Nat \ {0}, NEW p \in Int
  PROVE  ((p + L) % L) = (p % L)
<1> DEFINE a == p \div L
           b == (p + L) \div L
           r == p % L
           s == (p + L) % L
<1>1. /\ a \in Int /\ b \in Int /\ r \in 0..L - 1 /\ s \in 0..L - 1
      /\ p = L * a + r /\ p + L = L * b + s
  <2>1. p + L \in Int
    OBVIOUS
  <2> QED
    BY <2>1, ModSplit
<1> HIDE DEF a, b, r, s
<1>2. s - r = L * ((a + 1) - b)
  BY <1>1
<1>3. (a + 1) - b = 0
  <2> DEFINE k == (a + 1) - b
  <2>1. k \in Int /\ -L < L * k /\ L * k < L
    BY <1>1, <1>2
  <2> HIDE DEF k
  <2>2. k = 0
    BY <2>1, MultipleTooSmall
  <2> QED
    BY <2>2 DEF k
<1>4. s = r
  BY <1>1, <1>2, <1>3
<1> QED
  BY <1>4 DEF s, r

\* A place is of the ring.
LEMMA PlaceHasSlot ==
  ASSUME NEW p \in Int
  PROVE  p % LagSlots \in Slot
BY MovesAssumption, ModSplit DEF Slot

-----------------------------------------------------------------------------
(* What is in the ring.                                                    *)

FirstMove(lo, head, buff) ==
  CHOOSE p \in lo..head : /\ \A q \in lo..p - 1 : buff[q % LagSlots] = 0
                          /\ p < head => buff[p % LagSlots] # 0

Contents(lo, head, buff) ==
  [i \in 1..head - FirstMove(lo, head, buff) |->
     buff[(FirstMove(lo, head, buff) + i - 1) % LagSlots]]

\* The moves in the ring have the last numbers.
LEMMA RingContents ==
  ASSUME NEW lo \in Nat, NEW head \in Nat, NEW z \in lo..head, NEW n \in Nat,
         NEW buff, MovesAt(lo, z, head, buff, n)
  PROVE  Contents(lo, head, buff) = [i \in 1..head - z |-> n - (head - z) + i]
<1> DEFINE Is(p) == /\ \A q \in lo..p - 1 : buff[q % LagSlots] = 0
                    /\ p < head => buff[p % LagSlots] # 0
           f == FirstMove(lo, head, buff)
<1>1. Is(z)
  <2>1. z < head => buff[z % LagSlots] # 0
    <3> HAVE z < head
    <3>1. z \in z..head - 1
      OBVIOUS
    <3>2. buff[z % LagSlots] = n + 1 - (head - z)
      BY <3>1 DEF MovesAt
    <3>3. head - z <= n
      BY DEF MovesAt
    <3> QED
      BY <3>2, <3>3
  <2>2. \A q \in lo..z - 1 : buff[q % LagSlots] = 0
    BY DEF MovesAt
  <2> QED
    BY <2>1, <2>2
<1>2. f \in lo..head /\ Is(f)
  BY <1>1 DEF FirstMove
<1> HIDE DEF f
<1>3. f = z
  <2>1. CASE f < z
    <3>1. f \in lo..z - 1 /\ f < head
      BY <1>2, <2>1
    <3> QED
      BY <1>1, <1>2, <3>1
  <2>2. CASE z < f
    <3>1. z \in lo..f - 1 /\ z < head
      BY <1>2, <2>2
    <3> QED
      BY <1>1, <1>2, <3>1
  <2> QED
    BY <1>2, <2>1, <2>2
<1>4. ASSUME NEW i \in 1..head - z
      PROVE  buff[(z + i - 1) % LagSlots] = n - (head - z) + i
  <2>1. z + i - 1 \in z..head - 1
    OBVIOUS
  <2>2. buff[(z + i - 1) % LagSlots] = n + 1 - (head - (z + i - 1))
    BY <2>1 DEF MovesAt
  <2> QED
    BY <2>2
<1>5. Contents(lo, head, buff) =
        [i \in 1..head - z |-> buff[(z + i - 1) % LagSlots]]
  BY <1>3 DEF Contents, f
<1> QED
  BY <1>4, <1>5

\* ... in any state, and in the one after it.
LEMMA InRingIs ==
  /\ InRing = Contents(OldestPlace, lag_head, lag_buff)
  /\ InRing' = Contents(OldestPlace', lag_head', lag_buff')
BY DEF InRing, OldestMove, Contents, FirstMove

LEMMA OldestPlaceIs ==
  ASSUME RingTypes
  PROVE  /\ OldestPlace \in Nat /\ lag_tail <= OldestPlace
         /\ OldestPlace <= lag_head /\ lag_head - OldestPlace <= LagSlots
BY MovesAssumption DEF RingTypes, OldestPlace

-----------------------------------------------------------------------------
(* A move that is put into the ring.                                       *)

\* A place that stays in the ring is in another slot than the new move.
LEMMA OtherSlot ==
  ASSUME NEW head \in Nat, NEW p \in Nat, p < head, head - p < LagSlots
  PROVE  (p % LagSlots) # (head % LagSlots)
<1>1. LagSlots \in Nat \ {0}
  BY MovesAssumption
<1>2. SUFFICES ASSUME (p % LagSlots) = (head % LagSlots)
               PROVE  p = head
  OBVIOUS
<1>3. -LagSlots < p - head /\ p - head < LagSlots
  BY <1>1
<1> QED
  BY <1>1, <1>2, <1>3, ModApart

\* The new move is the next one of those from z on, where nothing is lost that is
\* still to be sent: lo2 is the oldest place after it.
LEMMA MoveAdded ==
  ASSUME NEW lo \in Nat, NEW lo2 \in Nat, NEW head \in Nat, NEW z \in lo..head,
         NEW n \in Nat, NEW buff \in [Slot -> Nat],
         lo <= lo2, lo2 <= z, head - lo2 < LagSlots,
         MovesAt(lo, z, head, buff, n)
  PROVE  MovesAt(lo2, z, head + 1,
                 [buff EXCEPT ![head % LagSlots] = n + 1], n + 1)
<1> DEFINE b2 == [buff EXCEPT ![head % LagSlots] = n + 1]
<1>1. head % LagSlots \in Slot
  BY PlaceHasSlot
<1>2. ASSUME NEW p \in lo2..head - 1
      PROVE  b2[p % LagSlots] = buff[p % LagSlots]
  <2>1. p \in Nat /\ p < head /\ head - p < LagSlots
    BY MovesAssumption
  <2>2. (p % LagSlots) # (head % LagSlots)
    BY <2>1, OtherSlot
  <2>3. p % LagSlots \in Slot
    BY <2>1, PlaceHasSlot
  <2> QED
    BY <2>2, <2>3
<1>3. b2[head % LagSlots] = n + 1
  BY <1>1
<1> HIDE DEF b2
<1>4. ASSUME NEW p \in lo2..z - 1
      PROVE  b2[p % LagSlots] = 0
  <2>1. p \in lo2..head - 1 /\ p \in lo..z - 1
    OBVIOUS
  <2> QED
    BY <1>2, <2>1 DEF MovesAt
<1>5. ASSUME NEW p \in z..(head + 1) - 1
      PROVE  b2[p % LagSlots] = (n + 1) + 1 - ((head + 1) - p)
  <2>1. CASE p = head
    BY <1>3, <2>1
  <2>2. CASE p # head
    <3>1. p \in lo2..head - 1 /\ p \in z..head - 1
      BY <2>2
    <3>2. buff[p % LagSlots] = n + 1 - (head - p)
      BY <3>1 DEF MovesAt
    <3> QED
      BY <1>2, <3>1, <3>2
  <2> QED
    BY <2>1, <2>2
<1>6. (head + 1) - z <= n + 1
  BY DEF MovesAt
<1>7. MovesAt(lo2, z, head + 1, b2, n + 1)
  BY <1>4, <1>5, <1>6 DEF MovesAt
<1> QED
  BY <1>7 DEF b2

\* What is written over is no move, so the moves begin after it.
LEMMA NoMoveInHead ==
  ASSUME RingTypes, ~OverwritesMove, lag_head - lag_tail >= LagSlots,
         NEW z \in OldestPlace..lag_head, MovesFrom(z)
  PROVE  z > lag_head - LagSlots
<1> DEFINE p == lag_head - LagSlots
<1>1. LagSlots \in Nat \ {0} /\ lag_head \in Nat /\ p \in Int
  BY MovesAssumption DEF RingTypes
<1>2. lag_buff[lag_head % LagSlots] = 0
  BY DEF OverwritesMove, HeadSlot
<1>3. ((p + LagSlots) % LagSlots) = (p % LagSlots)
  <2> HIDE DEF p
  <2> QED
    BY <1>1, ModAround
<1>4. p + LagSlots = lag_head
  BY <1>1
<1>5. lag_buff[p % LagSlots] = 0
  BY <1>2, <1>3, <1>4
<1>6. z \in Int
  BY OldestPlaceIs
<1>7. SUFFICES ASSUME z <= p
               PROVE  FALSE
  BY <1>1, <1>6
<1>8. p \in z..lag_head - 1
  BY <1>1, <1>6, <1>7
<1>9. lag_buff[p % LagSlots] = made + 1 - (lag_head - p)
  BY <1>8 DEF MovesFrom, MovesAt
<1>10. lag_head - z <= made /\ made \in Nat
  BY DEF MovesFrom, MovesAt, RingTypes
<1> QED
  BY <1>1, <1>5, <1>6, <1>7, <1>9, <1>10

\* The same of a move that CL_SendMove makes in a game.
LEMMA SendMoveAdds ==
  ASSUME RingTypes, ~Overruns, CL_SendMove, game # "demo",
         NEW z \in OldestPlace..lag_head, MovesFrom(z)
  PROVE  /\ z \in OldestPlace'..lag_head'
         /\ MovesAt(OldestPlace', z, lag_head', lag_buff', made')
<1>1. /\ LagSlots \in Nat \ {0} /\ lag_head \in Nat /\ lag_tail \in Nat
      /\ lag_tail <= lag_head /\ made \in Nat /\ lag_buff \in [Slot -> Nat]
  BY MovesAssumption DEF RingTypes
<1>2. OldestPlace \in Nat /\ OldestPlace <= lag_head /\ z \in Nat
  BY OldestPlaceIs
<1>3. /\ made' = made + 1 /\ lag_head' = lag_head + 1 /\ lag_tail' = lag_tail
      /\ lag_buff' = [lag_buff EXCEPT ![lag_head % LagSlots] = made + 1]
      /\ ~OverwritesMove
  BY DEF CL_SendMove, HeadSlot
<1>4. lag_head - lag_tail >= LagSlots => z > lag_head - LagSlots
  BY <1>3, NoMoveInHead
<1>5. /\ OldestPlace' \in Nat /\ OldestPlace <= OldestPlace'
      /\ OldestPlace' <= z /\ lag_head - OldestPlace' < LagSlots
  BY <1>1, <1>2, <1>3, <1>4 DEF OldestPlace
<1>6. MovesAt(OldestPlace, z, lag_head, lag_buff, made)
  BY DEF MovesFrom
<1> DEFINE lo == OldestPlace
           lo2 == OldestPlace'
<1>7. lo \in Nat /\ lo2 \in Nat /\ z \in lo..lag_head
  BY <1>2, <1>5
<1>8. /\ lo <= lo2 /\ lo2 <= z /\ lag_head - lo2 < LagSlots
      /\ MovesAt(lo, z, lag_head, lag_buff, made)
  BY <1>5, <1>6
<1> HIDE DEF lo, lo2
<1>9. MovesAt(lo2, z, lag_head + 1,
              [lag_buff EXCEPT ![lag_head % LagSlots] = made + 1], made + 1)
  BY <1>1, <1>7, <1>8, MoveAdded
<1>10. MovesAt(OldestPlace', z, lag_head', lag_buff', made')
  BY <1>3, <1>9 DEF lo2
<1>11. z \in OldestPlace'..lag_head'
  BY <1>1, <1>2, <1>3, <1>5
<1> QED
  BY <1>10, <1>11

-----------------------------------------------------------------------------
(* The invariant.                                                          *)

LEMMA InitRing ==
  MovesInit => RingInv
<1> SUFFICES ASSUME MovesInit
             PROVE  RingInv
  OBVIOUS
<1>1. RingTypes
  BY MovesAssumption DEF MovesInit, RingTypes, Slot
<1>2. NoDemoIsSent /\ MovesAreInRing /\ TailIsNext
  BY DEF MovesInit, NoDemoIsSent, MovesAreInRing, TailIsNext, Playing
<1> QED
  BY <1>1, <1>2 DEF RingInv

\* The ring keeps what it holds.
RingKept == UNCHANGED <<lag_head, lag_tail, lag_buff, made>>

LEMMA KeptIsKept ==
  ASSUME RingKept
  PROVE  /\ OldestPlace' = OldestPlace
         /\ \A z : MovesFrom(z)' <=> MovesFrom(z)
         /\ MovesFrom(lag_tail)' <=> MovesFrom(lag_tail)
         /\ InRing' = InRing
<1>1. OldestPlace' = OldestPlace
  BY DEF RingKept, OldestPlace
<1>2. \A z : MovesFrom(z)' <=> MovesFrom(z)
  BY <1>1 DEF RingKept, MovesFrom
<1>3. MovesFrom(lag_tail)' <=> MovesFrom(lag_tail)
  BY <1>1 DEF RingKept, MovesFrom
<1>4. InRing' = InRing
  BY <1>1, InRingIs DEF RingKept
<1> QED
  BY <1>1, <1>2, <1>3, <1>4

\* Nor does the invariant see a step that keeps the ring and the game, or leaves
\* the game.
LEMMA KeepsRing ==
  ASSUME RingInv, RingKept, movemessages' = movemessages,
         game' = game \/ game' = "none", NoDemoIsSent'
  PROVE  RingInv'
<1>1. RingTypes'
  BY DEF RingInv, RingTypes, RingKept
<1>2. Playing' => Playing
  BY DEF Playing
<1>3. MovesAreInRing'
  <2> SUFFICES ASSUME Playing'
               PROVE  \E z \in OldestPlace'..lag_head' : MovesFrom(z)'
    BY DEF MovesAreInRing
  <2>1. PICK z \in OldestPlace..lag_head : MovesFrom(z)
    BY <1>2 DEF RingInv, MovesAreInRing
  <2>2. z \in OldestPlace'..lag_head'
    BY KeptIsKept DEF RingKept
  <2>3. MovesFrom(z)'
    BY <2>1, KeptIsKept
  <2> QED
    BY <2>2, <2>3
<1>4. TailIsNext'
  BY <1>2, KeptIsKept DEF RingInv, TailIsNext, RingKept
<1> QED
  BY <1>1, <1>3, <1>4 DEF RingInv

\* Nothing is in the ring.
LEMMA NothingInRing ==
  ASSUME NEW lo \in Nat, NEW head \in Nat, lo <= head, NEW n \in Nat,
         NEW buff, \A p \in lo..head - 1 : buff[p % LagSlots] = 0
  PROVE  head \in lo..head /\ MovesAt(lo, head, head, buff, n)
BY DEF MovesAt

LEMMA SendMoveKeeps ==
  ASSUME RingInv, ~Overruns, CL_SendMove
  PROVE  RingInv'
<1>1. /\ RingTypes /\ game' = game /\ movemessages' = movemessages
      /\ lag_tail' = lag_tail /\ lag_head' = lag_head + 1
      /\ sending' = (game # "demo") /\ ~OverwritesMove
  BY DEF RingInv, CL_SendMove
<1>2. RingTypes'
  <2>1. HeadSlot \in Slot
    BY PlaceHasSlot DEF HeadSlot, RingInv, RingTypes
  <2>2. made' \in Nat /\ lag_buff' \in [Slot -> Nat]
    BY <2>1 DEF RingInv, RingTypes, CL_SendMove
  <2> QED
    BY <1>1, <2>2 DEF RingTypes
<1>3. NoDemoIsSent'
  BY <1>1 DEF NoDemoIsSent
<1>4. CASE ~Playing
  BY <1>1, <1>2, <1>3, <1>4
    DEF RingInv, MovesAreInRing, TailIsNext, Playing
<1>5. CASE Playing
  <2>1. game # "demo"
    BY <1>5 DEF Playing
  <2>2. MovesAreInRing'
    <3>1. PICK z \in OldestPlace..lag_head : MovesFrom(z)
      BY <1>5 DEF RingInv, MovesAreInRing
    <3>2. z \in OldestPlace'..lag_head' /\ MovesFrom(z)'
      BY <1>1, <2>1, <3>1, SendMoveAdds DEF MovesFrom
    <3> QED
      BY <3>2 DEF MovesAreInRing
  <2>3. TailIsNext'
    <3> SUFFICES ASSUME movemessages > 0
                 PROVE  /\ lag_head' - lag_tail' <= LagSlots
                        /\ MovesFrom(lag_tail)'
      BY <1>1 DEF TailIsNext
    <3>1. /\ lag_head - lag_tail <= LagSlots /\ MovesFrom(lag_tail)
          /\ LagSlots \in Nat \ {0}
          /\ lag_head \in Nat /\ lag_tail \in Nat /\ lag_tail <= lag_head
      BY <1>1, <1>5, MovesAssumption DEF RingInv, TailIsNext, RingTypes
    <3>2. OldestPlace = lag_tail
      BY <3>1 DEF OldestPlace
    <3>3. lag_tail \in OldestPlace..lag_head
      BY <3>1, <3>2
    <3>4. lag_head - lag_tail >= LagSlots => lag_tail > lag_head - LagSlots
      BY <1>1, <3>1, <3>3, NoMoveInHead
    <3>5. lag_head' - lag_tail' <= LagSlots
      BY <1>1, <3>1, <3>4
    <3>6. MovesAt(OldestPlace', lag_tail, lag_head', lag_buff', made')
      BY <1>1, <2>1, <3>1, <3>3, SendMoveAdds
    <3> QED
      BY <1>1, <3>5, <3>6 DEF MovesFrom
  <2> QED
    BY <1>2, <1>3, <2>2, <2>3 DEF RingInv
<1> QED
  BY <1>4, <1>5

LEMMA DumpKeeps ==
  ASSUME RingInv, SendLagMove, DumpMoves
  PROVE  RingInv'
<1>1. /\ lag_head' = 0 /\ lag_tail' = 0 /\ made' = made /\ game' = game
      /\ lag_buff' = lag_buff /\ sending' = sending
      /\ movemessages' = IF movemessages = 3 THEN 3 ELSE movemessages + 1
  BY DEF SendLagMove, DumpMoves
<1>2. RingTypes'
  BY <1>1 DEF RingInv, RingTypes
<1>3. NoDemoIsSent'
  BY <1>1 DEF RingInv, NoDemoIsSent
<1>4. OldestPlace' = 0
  BY <1>1, MovesAssumption DEF OldestPlace
<1>5. MovesFrom(0)' /\ MovesFrom(lag_tail)'
  BY <1>1, <1>4 DEF MovesFrom, MovesAt, RingInv, RingTypes
<1>6. MovesAreInRing'
  BY <1>1, <1>4, <1>5 DEF MovesAreInRing
<1>7. TailIsNext'
  BY <1>1, <1>5, MovesAssumption DEF TailIsNext
<1> QED
  BY <1>2, <1>3, <1>6, <1>7 DEF RingInv

\* The first move is taken out.
LEMMA MovesWithoutFirst ==
  ASSUME NEW z \in Nat, NEW head \in Nat, z < head, NEW n \in Nat, NEW buff,
         MovesAt(z, z, head, buff, n)
  PROVE  MovesAt(z + 1, z + 1, head, buff, n)
<1>1. \A p \in z + 1..head - 1 : buff[p % LagSlots] = n + 1 - (head - p)
  <2> TAKE p \in z + 1..head - 1
  <2>1. p \in z..head - 1
    OBVIOUS
  <2> QED
    BY <2>1 DEF MovesAt
<1>2. \A p \in z + 1..(z + 1) - 1 : buff[p % LagSlots] = 0
  OBVIOUS
<1>3. head - (z + 1) <= n
  BY DEF MovesAt
<1> QED
  BY <1>1, <1>2, <1>3 DEF MovesAt

LEMMA SentKeeps ==
  ASSUME RingInv, SendLagMove, SendMove, movemessages >= 2
  PROVE  RingInv'
<1>1. /\ lag_head' = lag_head /\ lag_tail' = lag_tail + 1 /\ made' = made
      /\ lag_buff' = lag_buff /\ sending' = sending
      /\ movemessages' = IF movemessages = 3 THEN 3 ELSE movemessages + 1
      /\ lag_tail < lag_head
      /\ game' = game \/ game' = "none"
  BY DEF SendLagMove, SendMove, IsDue
<1>2. RingTypes'
  BY <1>1 DEF RingInv, RingTypes
<1>3. NoDemoIsSent'
  BY <1>1 DEF RingInv, NoDemoIsSent
<1>4. CASE ~Playing'
  BY <1>2, <1>3, <1>4 DEF RingInv, MovesAreInRing, TailIsNext
<1>5. CASE Playing'
  <2>1. /\ lag_head - lag_tail <= LagSlots /\ MovesFrom(lag_tail)
        /\ LagSlots \in Nat
        /\ lag_head \in Nat /\ lag_tail \in Nat /\ made \in Nat
    BY <1>1, <1>5, MovesAssumption
      DEF RingInv, TailIsNext, RingTypes, Playing
  <2>2. OldestPlace = lag_tail /\ OldestPlace' = lag_tail + 1
    BY <1>1, <2>1 DEF OldestPlace
  <2>3. MovesAt(lag_tail + 1, lag_tail + 1, lag_head, lag_buff, made)
    <3>1. MovesAt(lag_tail, lag_tail, lag_head, lag_buff, made)
      BY <2>1, <2>2 DEF MovesFrom
    <3> QED
      BY <1>1, <2>1, <3>1, MovesWithoutFirst
  <2>4. MovesFrom(lag_tail)'
    BY <1>1, <2>2, <2>3 DEF MovesFrom
  <2>5. lag_tail + 1 \in OldestPlace'..lag_head'
    BY <1>1, <2>1, <2>2
  <2>6. MovesAreInRing'
    <3>1. PICK z \in OldestPlace'..lag_head' : z = lag_tail + 1
      BY <2>5
    <3>2. MovesFrom(z)'
      BY <1>1, <2>2, <2>3, <3>1 DEF MovesFrom
    <3> QED
      BY <3>1, <3>2 DEF MovesAreInRing
  <2>7. TailIsNext'
    BY <1>1, <2>1, <2>4 DEF TailIsNext
  <2> QED
    BY <1>2, <1>3, <2>6, <2>7 DEF RingInv
<1> QED
  BY <1>4, <1>5

LEMMA ClearKeeps ==
  ASSUME RingInv, Host_ClearMemory
  PROVE  RingInv' /\ InRing' = <<>>
<1>1. /\ made' = 0 /\ movemessages' = 0 /\ ~sending'
      /\ lag_head' = lag_head /\ lag_tail' = lag_tail
      /\ lag_buff' = [s \in Slot |-> 0]
      /\ game' \in {"remote", "listen", "demo"}
  BY DEF Host_ClearMemory
<1>2. RingTypes'
  BY <1>1 DEF RingInv, RingTypes
<1>3. NoDemoIsSent'
  BY <1>1 DEF NoDemoIsSent
<1>4. /\ OldestPlace' = OldestPlace /\ OldestPlace \in Nat
      /\ OldestPlace <= lag_head /\ lag_head \in Nat
  BY <1>1, OldestPlaceIs DEF OldestPlace, RingInv, RingTypes
<1>5. \A p \in OldestPlace'..lag_head' - 1 : lag_buff'[p % LagSlots] = 0
  <2> SUFFICES ASSUME NEW p \in OldestPlace'..lag_head' - 1
               PROVE  lag_buff'[p % LagSlots] = 0
    OBVIOUS
  <2>1. p \in Int
    OBVIOUS
  <2> QED
    BY <1>1, <2>1, PlaceHasSlot
<1>6. /\ lag_head' \in OldestPlace'..lag_head'
      /\ MovesAt(OldestPlace', lag_head', lag_head', lag_buff', made')
  BY <1>1, <1>4, <1>5 DEF MovesAt
<1>7. MovesAreInRing'
  <2>1. PICK z \in OldestPlace'..lag_head' : z = lag_head'
    BY <1>6
  <2>2. MovesFrom(z)'
    BY <1>6, <2>1 DEF MovesFrom
  <2> QED
    BY <2>1, <2>2 DEF MovesAreInRing
<1>8. TailIsNext'
  BY <1>1 DEF TailIsNext
<1>9. InRing' = <<>>
  <2>1. InRing' =
          [i \in 1..lag_head' - lag_head' |-> made' - (lag_head' - lag_head') + i]
    BY <1>1, <1>4, <1>6, InRingIs, RingContents
  <2>2. 1..lag_head' - lag_head' = {}
    BY <1>1, <1>4
  <2> QED
    BY <2>1, <2>2
<1> QED
  BY <1>2, <1>3, <1>7, <1>8, <1>9 DEF RingInv

\* One round of the loop is one or the other.
LEMMA DumpsOrSends ==
  ASSUME RingTypes, SendLagMove
  PROVE  \/ DumpMoves /\ movemessages \in {0, 1}
         \/ SendMove /\ movemessages >= 2
BY DEF RingTypes, SendLagMove

LEMMA NextKeepsRing ==
  ASSUME ~Overruns
  PROVE  RingInv /\ [MovesNext]_movesVars => RingInv'
<1> SUFFICES ASSUME RingInv, [MovesNext]_movesVars
             PROVE  RingInv'
  OBVIOUS
<1>1. CASE CL_SendMove
  BY <1>1, SendMoveKeeps
<1>2. CASE Host_FilterTime
  <2>1. RingKept /\ movemessages' = movemessages /\ game' = game
    BY <1>2 DEF Host_FilterTime, lagVars, RingKept
  <2>2. NoDemoIsSent'
    BY <1>2 DEF Host_FilterTime, NoDemoIsSent
  <2> QED
    BY <2>1, <2>2, KeepsRing
<1>3. CASE SendLagMove
  BY <1>3, DumpsOrSends, DumpKeeps, SentKeeps DEF RingInv
<1>4. CASE LagMoveReturns \/ LagTick \/ Host_Ping_f \/ CL_SignonDone
           \/ ReconnectMoves \/ LeavesGame \/ UNCHANGED movesVars
  <2>1. /\ RingKept /\ movemessages' = movemessages
        /\ game' = game \/ game' = "none"
    BY <1>4 DEF LagMoveReturns, LagTick, Host_Ping_f, CL_SignonDone,
                ReconnectMoves, LeavesGame, movesVars, lagVars, RingKept
  <2>2. sending' => sending /\ game' = game
    BY <1>4 DEF LagMoveReturns, LagTick, Host_Ping_f, CL_SignonDone,
                ReconnectMoves, LeavesGame, movesVars
  <2>3. NoDemoIsSent'
    BY <2>2 DEF RingInv, NoDemoIsSent
  <2> QED
    BY <2>1, <2>3, KeepsRing
<1>5. CASE Host_ClearMemory
  BY <1>5, ClearKeeps
<1> QED
  BY <1>1, <1>2, <1>3, <1>4, <1>5 DEF MovesNext

\* The ring holds the moves of this level and no other, in the order they were
\* made, whatever its size.
THEOREM RingAlways ==
  ASSUME ~Overruns
  PROVE  MovesSpec => []RingInv
<1>1. MovesInit => RingInv
  BY InitRing
<1>2. RingInv /\ [MovesNext]_movesVars => RingInv'
  BY NextKeepsRing
<1> QED
  BY <1>1, <1>2, PTL DEF MovesSpec

-----------------------------------------------------------------------------
(* The refinement: each step of the ring is one of the delay line or none.  *)

Pending == IF Playing THEN InRing ELSE <<>>
Dumps == IF movemessages > 2 THEN 2 ELSE movemessages

\* What is pending, from the invariant.
LEMMA InRingOf ==
  ASSUME RingTypes, NEW z \in OldestPlace..lag_head, MovesFrom(z)
  PROVE  InRing = [i \in 1..lag_head - z |-> made - (lag_head - z) + i]
<1>1. OldestPlace \in Nat /\ lag_head \in Nat /\ made \in Nat
  BY OldestPlaceIs DEF RingTypes
<1>2. MovesAt(OldestPlace, z, lag_head, lag_buff, made)
  BY DEF MovesFrom
<1>3. Contents(OldestPlace, lag_head, lag_buff) =
        [i \in 1..lag_head - z |-> made - (lag_head - z) + i]
  <2> DEFINE lo == OldestPlace
  <2>1. lo \in Nat /\ z \in lo..lag_head /\ MovesAt(lo, z, lag_head, lag_buff, made)
    BY <1>1, <1>2
  <2> HIDE DEF lo
  <2>2. Contents(lo, lag_head, lag_buff) =
          [i \in 1..lag_head - z |-> made - (lag_head - z) + i]
    BY <1>1, <2>1, RingContents
  <2> QED
    BY <2>2 DEF lo
<1> QED
  BY <1>3, InRingIs

LEMMA OldestPlaceIsNext ==
  ASSUME RingTypes'
  PROVE  OldestPlace' \in Nat /\ lag_head' \in Nat /\ made' \in Nat
<1> DEFINE head == lag_head'
           tail == lag_tail'
<1>1. /\ head \in Nat /\ tail \in Nat /\ tail <= head /\ made' \in Nat
      /\ LagSlots \in Nat
  BY MovesAssumption DEF RingTypes
<1>2. OldestPlace' = IF head - tail > LagSlots THEN head - LagSlots ELSE tail
  BY DEF OldestPlace
<1> HIDE DEF head, tail
<1>3. OldestPlace' \in Nat
  BY <1>1, <1>2
<1> QED
  BY <1>1, <1>3 DEF head

\* ... and after a step.
LEMMA InRingOfNext ==
  ASSUME RingTypes', NEW z \in OldestPlace'..lag_head', MovesFrom(z)'
  PROVE  InRing' = [i \in 1..lag_head' - z |-> made' - (lag_head' - z) + i]
<1>1. OldestPlace' \in Nat /\ lag_head' \in Nat /\ made' \in Nat
  BY OldestPlaceIsNext
<1>2. MovesAt(OldestPlace', z, lag_head', lag_buff', made')
  BY DEF MovesFrom
<1> DEFINE lo == OldestPlace'
           head == lag_head'
           n == made'
           buff == lag_buff'
<1>3. /\ lo \in Nat /\ head \in Nat /\ n \in Nat /\ z \in lo..head
      /\ MovesAt(lo, z, head, buff, n)
  BY <1>1, <1>2
<1> HIDE DEF lo, head, n, buff
<1>4. Contents(lo, head, buff) = [i \in 1..head - z |-> n - (head - z) + i]
  BY <1>3, RingContents
<1> QED
  BY <1>4, InRingIs DEF lo, head, n, buff

\* A move more, and the first one less, in sequences of this form.
LEMMA OneMoreMove ==
  ASSUME NEW k \in Nat, NEW n \in Nat
  PROVE  [i \in 1..k + 1 |-> (n + 1) - (k + 1) + i] =
           Append([i \in 1..k |-> n - k + i], n + 1)
<1> DEFINE s == [i \in 1..k |-> n - k + i]
<1>1. s \in Seq(Int) /\ Len(s) = k
  OBVIOUS
<1>2. Append(s, n + 1) =
        [i \in 1..k + 1 |-> IF i = k + 1 THEN n + 1 ELSE s[i]]
  BY <1>1
<1>3. \A i \in 1..k + 1 :
        (IF i = k + 1 THEN n + 1 ELSE s[i]) = (n + 1) - (k + 1) + i
  OBVIOUS
<1> QED
  BY <1>2, <1>3

LEMMA FirstLess ==
  ASSUME NEW k \in Nat \ {0}, NEW n \in Nat
  PROVE  LET s == [i \in 1..k |-> n - k + i]
         IN /\ s # <<>> /\ Head(s) = n - k + 1
            /\ Tail(s) = [i \in 1..k - 1 |-> n - (k - 1) + i]
<1> DEFINE s == [i \in 1..k |-> n - k + i]
<1>1. s \in Seq(Int) /\ Len(s) = k
  OBVIOUS
<1>2. s # <<>>
  BY <1>1
<1>3. Head(s) = n - k + 1
  BY <1>1
<1>4. Tail(s) = [i \in 1..k - 1 |-> s[i + 1]]
  BY <1>1
<1>5. \A i \in 1..k - 1 : s[i + 1] = n - (k - 1) + i
  OBVIOUS
<1> QED
  BY <1>2, <1>3, <1>4, <1>5

LEMMA SendMoveSteps ==
  ASSUME RingInv, ~Overruns, CL_SendMove
  PROVE  \/ made' = made + 1 /\ Pending' = Append(Pending, made + 1)
         \/ made' = made /\ Pending' = Pending
<1>1. game' = game /\ RingTypes
  BY DEF CL_SendMove, RingInv
<1>2. CASE game = "demo"
  BY <1>1, <1>2 DEF CL_SendMove, Pending, Playing
<1>3. CASE Playing
  <2>1. PICK z \in OldestPlace..lag_head : MovesFrom(z)
    BY <1>3 DEF RingInv, MovesAreInRing
  <2>2. game # "demo"
    BY <1>3 DEF Playing
  <2>3. z \in OldestPlace'..lag_head' /\ MovesFrom(z)'
    BY <1>1, <2>1, <2>2, SendMoveAdds DEF MovesFrom
  <2>4. InRing = [i \in 1..lag_head - z |-> made - (lag_head - z) + i]
    BY <1>1, <2>1, InRingOf
  <2>5. RingTypes'
    BY SendMoveKeeps DEF RingInv
  <2>6. InRing' = [i \in 1..lag_head' - z |-> made' - (lag_head' - z) + i]
    BY <2>3, <2>5, InRingOfNext
  <2>7. lag_head' = lag_head + 1 /\ made' = made + 1
    BY <2>2 DEF CL_SendMove
  <2> DEFINE k == lag_head - z
  <2>8. k \in Nat /\ made \in Nat /\ lag_head' - z = k + 1
    BY <1>1, <2>1, <2>7, OldestPlaceIs DEF RingTypes
  <2> HIDE DEF k
  <2>9. InRing' = [i \in 1..k + 1 |-> (made + 1) - (k + 1) + i]
    BY <2>6, <2>7, <2>8
  <2>10. InRing = [i \in 1..k |-> made - k + i]
    BY <2>4 DEF k
  <2>11. InRing' = Append(InRing, made + 1)
    BY <2>8, <2>9, <2>10, OneMoreMove
  <2> QED
    BY <1>1, <1>3, <2>7, <2>11 DEF Pending, Playing
<1> QED
  BY <1>1, <1>2, <1>3 DEF RingTypes, CL_SendMove, Playing
LEMMA DumpSteps ==
  ASSUME RingInv, SendLagMove, DumpMoves
  PROVE  Pending' = <<>> /\ made' = made /\ out' = out
<1>1. lag_head' = 0 /\ made' = made /\ out' = out
  BY DEF SendLagMove, DumpMoves
<1>2. InRing' = <<>>
  <2>1. RingTypes' /\ lag_tail' = 0
    BY DumpKeeps DEF RingInv, DumpMoves
  <2>2. OldestPlace' = 0
    BY <1>1, <2>1, MovesAssumption DEF OldestPlace
  <2>3. PICK z \in OldestPlace'..lag_head' : z = 0
    BY <1>1, <2>2
  <2>4. MovesFrom(z)'
    BY <1>1, <2>2, <2>3 DEF MovesFrom, MovesAt, RingInv, RingTypes, SendLagMove
  <2>5. InRing' = [i \in 1..lag_head' - z |-> made' - (lag_head' - z) + i]
    BY <2>1, <2>3, <2>4, InRingOfNext
  <2>6. lag_head' - z = 0
    BY <1>1, <2>3
  <2>7. 1..lag_head' - z = {}
    BY <2>6
  <2> QED
    BY <2>5, <2>7
<1> QED
  BY <1>1, <1>2 DEF Pending

LEMMA SentSteps ==
  ASSUME RingInv, SendLagMove, SendMove, movemessages >= 2
  PROVE  /\ made' = made
         /\ \/ /\ Pending # <<>>
               /\ out' = Append(out, Head(Pending))
               /\ Pending' = Tail(Pending)
            \/ Pending' = <<>> /\ out' = out
<1>1. /\ made' = made /\ lag_head' = lag_head /\ lag_tail' = lag_tail + 1
      /\ lag_buff' = lag_buff /\ lag_tail < lag_head
  BY DEF SendLagMove, SendMove, IsDue
<1>2. CASE game' = "none" /\ out' = out
  BY <1>1, <1>2 DEF Pending, Playing
<1>3. CASE game # "none" /\ game' = game /\ out' = Append(out, lag_buff[TailSlot])
  <2>1. Playing
    BY <1>3 DEF Playing, RingInv, RingTypes, NoDemoIsSent, SendLagMove
  <2>2. /\ lag_head - lag_tail <= LagSlots /\ MovesFrom(lag_tail)
        /\ lag_head \in Nat /\ lag_tail \in Nat /\ made \in Nat /\ RingTypes
        /\ LagSlots \in Nat
    BY <2>1, MovesAssumption DEF RingInv, TailIsNext, RingTypes
  <2>3. OldestPlace = lag_tail /\ OldestPlace' = lag_tail + 1
    BY <1>1, <2>2 DEF OldestPlace
  <2> DEFINE k == lag_head - lag_tail
             n == made
  <2>4. k \in Nat \ {0} /\ n \in Nat
    BY <1>1, <2>2
  <2>5. InRing = [i \in 1..k |-> n - k + i]
    <3>1. lag_tail \in OldestPlace..lag_head
      BY <1>1, <2>2, <2>3
    <3> QED
      BY <2>2, <3>1, InRingOf
  <2>6. InRing' = [i \in 1..k - 1 |-> n - (k - 1) + i]
    <3>1. PICK z \in OldestPlace'..lag_head' : z = lag_tail + 1
      BY <1>1, <2>2, <2>3
    <3>2. MovesFrom(lag_tail)'
      BY <1>3, <2>1, SentKeeps DEF RingInv, TailIsNext, SendLagMove, RingTypes,
                                   Playing
    <3>3. MovesFrom(z)'
      BY <1>1, <3>1, <3>2 DEF MovesFrom
    <3>4. RingTypes'
      BY SentKeeps DEF RingInv
    <3>5. InRing' = [i \in 1..lag_head' - z |-> made' - (lag_head' - z) + i]
      BY <3>1, <3>3, <3>4, InRingOfNext
    <3>6. lag_head' - z = k - 1
      BY <1>1, <2>2, <3>1
    <3> QED
      BY <1>1, <3>5, <3>6
  <2>7. lag_buff[TailSlot] = n - k + 1
    <3>1. lag_tail \in lag_tail..lag_head - 1
      BY <1>1, <2>2
    <3>2. lag_buff[lag_tail % LagSlots] = made + 1 - (lag_head - lag_tail)
      BY <2>2, <3>1 DEF MovesFrom, MovesAt
    <3> QED
      BY <2>2, <3>2 DEF TailSlot
  <2> HIDE DEF k, n
  <2>8. InRing # <<>> /\ Head(InRing) = n - k + 1 /\ Tail(InRing) = InRing'
    BY <2>4, <2>5, <2>6, FirstLess
  <2>9. Pending = InRing /\ Pending' = InRing'
    BY <1>3, <2>1 DEF Pending, Playing
  <2> QED
    BY <1>1, <1>3, <2>7, <2>8, <2>9
<1> QED
  BY <1>2, <1>3 DEF SendMove

\* The state functions the delay line is instantiated with.
LEMMA DelayStep ==
  ASSUME ~Overruns, RingInv, [MovesNext]_movesVars
  PROVE  \/ made' = made + 1 /\ Pending' = Append(Pending, made + 1)
            /\ Dumps' = Dumps /\ out' = out
         \/ Dumps < 2 /\ Dumps' = Dumps + 1 /\ Pending' = <<>>
            /\ made' = made /\ out' = out
         \/ Dumps = 2 /\ Pending # <<>> /\ out' = Append(out, Head(Pending))
            /\ Pending' = Tail(Pending) /\ made' = made /\ Dumps' = Dumps
         \/ Pending' = <<>> /\ made' = made /\ Dumps' = Dumps /\ out' = out
         \/ made' = 0 /\ Pending' = <<>> /\ Dumps' = 0 /\ out' = <<>>
         \/ UNCHANGED <<made, Pending, Dumps, out>>
<1>1. CASE CL_SendMove
  <2>1. Dumps' = Dumps /\ out' = out
    BY <1>1 DEF CL_SendMove, Dumps
  <2> QED
    BY <1>1, <2>1, SendMoveSteps
<1>2. CASE SendLagMove /\ DumpMoves /\ movemessages \in {0, 1}
  <2>1. Dumps < 2 /\ Dumps' = Dumps + 1
    BY <1>2 DEF SendLagMove, Dumps
  <2> QED
    BY <1>2, <2>1, DumpSteps
<1>3. CASE SendLagMove /\ SendMove /\ movemessages >= 2
  <2>1. Dumps = 2 /\ Dumps' = 2
    BY <1>3 DEF SendLagMove, Dumps, RingInv, RingTypes
  <2> QED
    BY <1>3, <2>1, SentSteps
<1>4. CASE Host_FilterTime \/ LagMoveReturns \/ LagTick \/ Host_Ping_f
           \/ CL_SignonDone \/ ReconnectMoves \/ UNCHANGED movesVars
  <2>1. RingKept /\ game' = game /\ movemessages' = movemessages /\ out' = out
    BY <1>4 DEF Host_FilterTime, LagMoveReturns, LagTick, Host_Ping_f,
                CL_SignonDone, ReconnectMoves, movesVars, lagVars, RingKept
  <2>2. InRing' = InRing
    BY <2>1, KeptIsKept
  <2> QED
    BY <2>1, <2>2 DEF RingKept, Pending, Dumps, Playing
<1>5. CASE LeavesGame
  BY <1>5 DEF LeavesGame, Pending, Dumps, Playing, lagVars
<1>6. CASE Host_ClearMemory
  <2>1. InRing' = <<>>
    BY <1>6, ClearKeeps
  <2> QED
    BY <1>6, <2>1 DEF Host_ClearMemory, Pending, Dumps
<1> QED
  BY <1>1, <1>2, <1>3, <1>4, <1>5, <1>6, DumpsOrSends DEF MovesNext, RingInv

\* CL_SendMove and CL_SendLagMove delay the moves of a level and do nothing else
\* to them: none is sent twice, none is left out once two batches have been
\* thrown away, none of the level before is sent, and their order is kept.
THEOREM RingImplementsDelayLine ==
  ASSUME ~Overruns
  PROVE  MovesSpec => ImplementsDelayLine
<1>1. MovesInit => Delay!Init
  <2> SUFFICES ASSUME MovesInit
               PROVE  Delay!Init
    OBVIOUS
  <2>1. ~Playing
    BY DEF MovesInit, Playing
  <2> QED
    BY <2>1 DEF MovesInit, Delay!Init, Playing
<1>2. RingInv /\ [MovesNext]_movesVars => [Delay!Next]_(Delay!vars)
  <2> SUFFICES ASSUME RingInv, [MovesNext]_movesVars
               PROVE  [Delay!Next]_(Delay!vars)
    OBVIOUS
  <2> QED
    BY DelayStep
      DEF Delay!Next, Delay!vars, Delay!Make, Delay!Dump, Delay!Send, Delay!End,
          Delay!NextLevel, Pending, Dumps, Playing
<1>3. MovesSpec => []RingInv
  BY RingAlways
<1> QED
  BY <1>1, <1>2, <1>3, PTL DEF MovesSpec, ImplementsDelayLine, Delay!Spec


-----------------------------------------------------------------------------
(* The host's own game: sums of numbers.                                   *)

LEMMA TotalIs ==
  ASSUME NEW s \in Seq(Nat)
  PROVE  \E upto \in [0..Len(s) -> Nat] :
           /\ upto[0] = 0
           /\ \A i \in 1..Len(s) : upto[i] = upto[i - 1] + s[i]
           /\ Total(s) = upto[Len(s)]
<1> DEFINE n == Len(s)
           F == [p \in Nat \X (1..n) |-> p[1] + s[p[2]]]
           Sums(a) == a = [i \in 0..n |-> IF i = 0 THEN 0 ELSE a[i - 1] + s[i]]
           upto == CHOOSE a : Sums(a)
<1>1. Total(s) = upto[n]
  BY DEF Total
<1>2. n \in Nat /\ \A i \in 1..n : s[i] \in Nat
  OBVIOUS
<1>3. F \in [Nat \X (1..n) -> Nat]
  <2> HIDE DEF n
  <2>1. \A x \in Nat, i \in 1..n : x + s[i] \in Nat
    BY <1>2
  <2> QED
    BY <2>1
<1>4. \A x \in Nat, i \in 1..n : F[<<x, i>>] = x + s[i]
  OBVIOUS
<1>5. PICK g \in [0..n -> Nat] : IsLoop(g, n, 0, F)
  <2> HIDE DEF F, n
  <2>1. 0 \in Nat
    OBVIOUS
  <2> QED
    BY <1>2, <1>3, <2>1, LoopIsDefined
<1>6. /\ 0 \in 0..n /\ n \in 0..n
      /\ \A i \in 1..n : i - 1 \in 0..n /\ i \in 0..n /\ i # 0
      /\ \A i \in 0..n : i # 0 => i \in 1..n
  <2> HIDE DEF n
  <2> QED
    BY <1>2
<1> HIDE DEF n
<1>7. g[0] = 0 /\ \A i \in 1..n : g[i] = g[i - 1] + s[i]
  <2> HIDE DEF F
  <2> QED
    BY <1>4, <1>5, <1>6 DEF IsLoop
<1>8. Sums(g)
  BY <1>6, <1>7
<1>9. Sums(upto)
  <2> HIDE DEF Sums
  <2> QED
    BY <1>8
<1> HIDE DEF upto
<1>10. upto[0] = 0 /\ \A i \in 1..n : upto[i] = upto[i - 1] + s[i]
  BY <1>6, <1>9
<1>11. upto = g
  <2> DEFINE Same == {i \in 0..n : upto[i] = g[i]}
  <2>1. 0 \in Same
    BY <1>6, <1>7, <1>10
  <2>2. \A i \in 1..n : i - 1 \in Same => i \in Same
    BY <1>6, <1>7, <1>10
  <2>3. 0..n \subseteq Same
    <3> HIDE DEF Same
    <3> QED
      BY <1>2, <2>1, <2>2, AfterEveryTurn
  <2>4. DOMAIN upto = 0..n /\ DOMAIN g = 0..n
    BY <1>9
  <2> QED
    BY <1>9, <2>3, <2>4
<1> QED
  BY <1>1, <1>7, <1>11 DEF n

LEMMA TotalType ==
  ASSUME NEW s \in Seq(Nat)
  PROVE  Total(s) \in Nat
<1>1. PICK upto \in [0..Len(s) -> Nat] : Total(s) = upto[Len(s)]
  BY TotalIs
<1>2. Len(s) \in 0..Len(s)
  OBVIOUS
<1> QED
  BY <1>1, <1>2

LEMMA TotalOfNone == Total(<<>>) = 0
<1>1. <<>> \in Seq(Nat) /\ Len(<<>>) = 0
  OBVIOUS
<1> QED
  BY <1>1, TotalIs

LEMMA TotalOfOne ==
  ASSUME NEW x \in Nat
  PROVE  Total(<<x>>) = x
<1>1. <<x>> \in Seq(Nat) /\ Len(<<x>>) = 1 /\ <<x>>[1] = x
  OBVIOUS
<1>2. PICK upto \in [0..Len(<<x>>) -> Nat] :
        /\ upto[0] = 0
        /\ \A i \in 1..Len(<<x>>) : upto[i] = upto[i - 1] + <<x>>[i]
        /\ Total(<<x>>) = upto[Len(<<x>>)]
  BY <1>1, TotalIs
<1>3. upto[1] = upto[0] + x
  BY <1>1, <1>2
<1> QED
  BY <1>1, <1>2, <1>3

LEMMA TotalOfBoth ==
  ASSUME NEW s \in Seq(Nat), NEW t \in Seq(Nat)
  PROVE  Total(s \o t) = Total(s) + Total(t)
<1> DEFINE n == Len(s)
           m == Len(t)
           u == s \o t
<1>1. /\ n \in Nat /\ m \in Nat /\ u \in Seq(Nat) /\ Len(u) = n + m
      /\ \A i \in 1..n : u[i] = s[i]
      /\ \A i \in 1..m : u[n + i] = t[i]
  OBVIOUS
<1>2. PICK a \in [0..Len(s) -> Nat] :
        /\ a[0] = 0
        /\ \A i \in 1..Len(s) : a[i] = a[i - 1] + s[i]
        /\ Total(s) = a[Len(s)]
  BY TotalIs
<1>3. PICK b \in [0..Len(t) -> Nat] :
        /\ b[0] = 0
        /\ \A i \in 1..Len(t) : b[i] = b[i - 1] + t[i]
        /\ Total(t) = b[Len(t)]
  BY TotalIs
<1>4. PICK c \in [0..Len(u) -> Nat] :
        /\ c[0] = 0
        /\ \A i \in 1..Len(u) : c[i] = c[i - 1] + u[i]
        /\ Total(u) = c[Len(u)]
  <2> HIDE DEF u
  <2> QED
    BY <1>1, TotalIs
<1> HIDE DEF u
<1>5. /\ 0 \in 0..n /\ n \in 0..n /\ 0 \in 0..m /\ m \in 0..m
      /\ \A i \in 1..n : i \in 1..Len(u) /\ i \in 0..n
      /\ \A i \in 1..m : /\ n + i \in 1..Len(u) /\ i \in 0..m /\ i - 1 \in 0..m
                         /\ (n + i) - 1 = n + (i - 1)
  <2> HIDE DEF n, m
  <2> QED
    BY <1>1
<1>6. /\ \A i \in 0..m : b[i] \in Nat
      /\ \A i \in 1..m : b[i] = b[i - 1] + t[i]
      /\ \A i \in 1..n : a[i] = a[i - 1] + s[i]
      /\ a[n] \in Nat
  BY <1>2, <1>3, <1>5, ZenonT(40)
<1>9. \A i \in 1..m : t[i] \in Nat
  OBVIOUS
<1> HIDE DEF n, m
<1>7. c[n] = a[n]
  <2> DEFINE Same == {i \in 0..n : c[i] = a[i]}
  <2>1. 0 \in Same
    BY <1>2, <1>4, <1>5
  <2>2. ASSUME NEW i \in 1..n, i - 1 \in Same
        PROVE  i \in Same
    <3>1. c[i] = c[i - 1] + u[i] /\ u[i] = s[i] /\ i \in 0..n
      BY <1>1, <1>4, <1>5
    <3>2. a[i] = a[i - 1] + s[i] /\ c[i - 1] = a[i - 1]
      BY <1>6, <2>2
    <3> QED
      BY <3>1, <3>2
  <2>3. 0..n \subseteq Same
    <3> HIDE DEF Same
    <3> QED
      BY <1>1, <2>1, <2>2, AfterEveryTurn
  <2> QED
    BY <1>5, <2>3
<1>8. c[n + m] = a[n] + b[m]
  <2> DEFINE Same == {i \in 0..m : c[n + i] = a[n] + b[i]}
  <2>1. 0 \in Same
    <3>1. n + 0 = n /\ a[n] + 0 = a[n]
      BY <1>1, <1>6
    <3> QED
      BY <1>3, <1>5, <1>7, <3>1
  <2>2. ASSUME NEW i \in 1..m, i - 1 \in Same
        PROVE  i \in Same
    <3>1. c[n + i] = c[n + (i - 1)] + t[i]
      <4>1. c[n + i] = c[(n + i) - 1] + u[n + i]
        BY <1>4, <1>5
      <4> QED
        BY <1>1, <1>5, <4>1
    <3>2. c[n + (i - 1)] = a[n] + b[i - 1]
      BY <2>2
    <3>3. b[i] = b[i - 1] + t[i] /\ b[i - 1] \in Nat
      BY <1>5, <1>6
    <3>4. c[n + i] = a[n] + b[i]
      <4>1. \A x, y, z \in Nat : (x + y) + z = x + (y + z)
        OBVIOUS
      <4>2. t[i] \in Nat /\ a[n] \in Nat
        BY <1>6, <1>9
      <4> QED
        BY <3>1, <3>2, <3>3, <4>1, <4>2
    <3> QED
      BY <1>5, <3>4
  <2>3. 0..m \subseteq Same
    <3> HIDE DEF Same
    <3> QED
      BY <1>1, <2>1, <2>2, AfterEveryTurn
  <2>4. m \in Same
    <3> HIDE DEF Same
    <3> QED
      BY <1>5, <2>3
  <2> QED
    BY <2>4
<1> QED
  BY <1>1, <1>2, <1>3, <1>4, <1>7, <1>8 DEF n, m, u

-----------------------------------------------------------------------------
(* Sizes of messages and numbers of commands.                              *)

ServerCmd ==
  {Cmd("nop", 0), Cmd("update", 0), Cmd("print", 0), Cmd("reconnect", 0)}
    \cup {Signonnum(k) : k \in 1..3} \cup {Cmd("serverinfo", l) : l \in Nat}
ClientCmd ==
  {Cmd(name, 0) : name \in {"nop", "move", "say", "prespawn", "spawn", "begin"}}
GameCmd == ServerCmd \cup ClientCmd

SizeOf(c) == CommandSize[Kind(c)]

LEMMA SizeType ==
  ASSUME NEW c \in GameCmd
  PROVE  SizeOf(c) \in Nat
<1>1. Kind(c) \in {"nop", "move", "say", "prespawn", "spawn", "begin",
                   "serverinfo", "baselines", "signonnum", "reconnect",
                   "update", "print"}
  BY DEF GameCmd, ServerCmd, ClientCmd, Kind, Cmd, Signonnum
<1> QED
  BY <1>1, CommandSizeAssumption DEF SizeOf

LEMMA LengthIs ==
  ASSUME NEW s \in Seq(GameCmd)
  PROVE  /\ Length(s) \in Nat
         /\ \A c \in GameCmd : Length(<<c>>) = SizeOf(c)
         /\ Length(<<>>) = 0
         /\ \A t \in Seq(GameCmd) : Length(s \o t) = Length(s) + Length(t)
<1> DEFINE Sizes(t) == [i \in 1..Len(t) |-> SizeOf(t[i])]
<1>1. \A t : Length(t) = Total(Sizes(t))
  BY DEF Length, SizeOf
<1>2. \A t \in Seq(GameCmd) : Sizes(t) \in Seq(Nat) /\ Len(Sizes(t)) = Len(t)
  <2> SUFFICES ASSUME NEW t \in Seq(GameCmd)
               PROVE  Sizes(t) \in Seq(Nat) /\ Len(Sizes(t)) = Len(t)
    OBVIOUS
  <2>1. Len(t) \in Nat /\ \A i \in 1..Len(t) : SizeOf(t[i]) \in Nat
    BY SizeType
  <2> QED
    BY <2>1
<1>3. Length(s) \in Nat
  BY <1>1, <1>2, TotalType
<1>4. \A c \in GameCmd : Length(<<c>>) = SizeOf(c)
  <2> SUFFICES ASSUME NEW c \in GameCmd
               PROVE  Length(<<c>>) = SizeOf(c)
    OBVIOUS
  <2>1. Sizes(<<c>>) = <<SizeOf(c)>>
    OBVIOUS
  <2> HIDE DEF Sizes
  <2> QED
    BY <1>1, <2>1, SizeType, TotalOfOne
<1>5. Length(<<>>) = 0
  <2>1. Sizes(<<>>) = <<>>
    OBVIOUS
  <2> HIDE DEF Sizes
  <2> QED
    BY <1>1, <2>1, TotalOfNone
<1>6. ASSUME NEW t \in Seq(GameCmd)
      PROVE  Length(s \o t) = Length(s) + Length(t)
  <2>1. s \o t \in Seq(GameCmd) /\ Len(s \o t) = Len(s) + Len(t)
    OBVIOUS
  <2> DEFINE a == Sizes(s \o t)
             b == Sizes(s)
             c == Sizes(t)
  <2>2. /\ a \in Seq(Nat) /\ b \in Seq(Nat) /\ c \in Seq(Nat)
        /\ Len(a) = Len(s) + Len(t) /\ Len(b) = Len(s) /\ Len(c) = Len(t)
    <3> HIDE DEF Sizes
    <3> QED
      BY <1>2, <2>1
  <2>3. \A i \in 1..Len(s) + Len(t) :
          a[i] = IF i <= Len(s) THEN b[i] ELSE c[i - Len(s)]
    <3> SUFFICES ASSUME NEW i \in 1..Len(s) + Len(t)
                 PROVE  a[i] = IF i <= Len(s) THEN b[i] ELSE c[i - Len(s)]
      OBVIOUS
    <3>1. /\ Len(s) \in Nat /\ Len(t) \in Nat
          /\ (s \o t)[i] = IF i <= Len(s) THEN s[i] ELSE t[i - Len(s)]
      BY ConcatProperties
    <3>2. a[i] = SizeOf((s \o t)[i])
      BY <2>1
    <3>3. i <= Len(s) => i \in 1..Len(s)
      BY <3>1
    <3>4. ~(i <= Len(s)) => i - Len(s) \in 1..Len(t)
      BY <3>1
    <3>5. i <= Len(s) => b[i] = SizeOf(s[i])
      BY <3>3
    <3>6. ~(i <= Len(s)) => c[i - Len(s)] = SizeOf(t[i - Len(s)])
      BY <3>4
    <3> HIDE DEF a, b, c
    <3> QED
      BY <3>1, <3>2, <3>5, <3>6
  <2>4. a = b \o c
    <3> HIDE DEF a, b, c
    <3>3. /\ b \o c \in Seq(Nat) /\ Len(b \o c) = Len(b) + Len(c)
          /\ \A i \in 1..Len(b) + Len(c) :
               (b \o c)[i] = IF i <= Len(b) THEN b[i] ELSE c[i - Len(b)]
      <4>1. b \in Seq(Nat) /\ c \in Seq(Nat)
        BY <2>2
      <4> QED
        BY ONLY <4>1, ConcatProperties
    <3>1. /\ b \o c \in Seq(Nat) /\ Len(b \o c) = Len(s) + Len(t)
          /\ \A i \in 1..Len(s) + Len(t) :
               (b \o c)[i] = IF i <= Len(s) THEN b[i] ELSE c[i - Len(s)]
      BY <2>2, <3>3
    <3> QED
      BY <2>2, <2>3, <3>1, SeqEqual
  <2> HIDE DEF Sizes
  <2> QED
    BY <1>1, <2>2, <2>4, TotalOfBoth
<1> QED
  BY <1>3, <1>4, <1>5, <1>6

LEMMA CountIs ==
  ASSUME NEW X, NEW s \in Seq(X), NEW name
  PROVE  /\ Count(s, name) \in Nat
         /\ Count(<<>>, name) = 0
         /\ \A x : Count(<<x>>, name) = IF x = name THEN 1 ELSE 0
         /\ \A t \in Seq(X) : Count(s \o t, name) = Count(s, name) + Count(t, name)
<1> DEFINE One(x) == IF x = name THEN 1 ELSE 0
           Ones(t) == [i \in 1..Len(t) |-> One(t[i])]
<1>1. \A t : Count(t, name) = Total(Ones(t))
  BY DEF Count
<1>2. \A t \in Seq(X) : Ones(t) \in Seq(Nat) /\ Len(Ones(t)) = Len(t)
  <2> SUFFICES ASSUME NEW t \in Seq(X)
               PROVE  Ones(t) \in Seq(Nat) /\ Len(Ones(t)) = Len(t)
    OBVIOUS
  <2>1. Len(t) \in Nat /\ \A i \in 1..Len(t) : One(t[i]) \in Nat
    OBVIOUS
  <2> HIDE DEF One
  <2> QED
    BY <2>1
<1>3. Count(s, name) \in Nat
  <2> HIDE DEF Ones
  <2> QED
    BY <1>1, <1>2, TotalType
<1>4. \A x : Count(<<x>>, name) = One(x)
  <2> SUFFICES ASSUME NEW x
               PROVE  Count(<<x>>, name) = One(x)
    OBVIOUS
  <2>1. Ones(<<x>>) = <<One(x)>>
    <3> HIDE DEF One
    <3> QED
      OBVIOUS
  <2>2. One(x) \in Nat
    OBVIOUS
  <2> HIDE DEF Ones, One
  <2> QED
    BY <1>1, <2>1, <2>2, TotalOfOne
<1>5. Count(<<>>, name) = 0
  <2>1. Ones(<<>>) = <<>>
    OBVIOUS
  <2> HIDE DEF Ones
  <2> QED
    BY <1>1, <2>1, TotalOfNone
<1>6. ASSUME NEW t \in Seq(X)
      PROVE  Count(s \o t, name) = Count(s, name) + Count(t, name)
  <2>1. s \o t \in Seq(X) /\ Len(s \o t) = Len(s) + Len(t)
    OBVIOUS
  <2> DEFINE a == Ones(s \o t)
             b == Ones(s)
             c == Ones(t)
  <2>2. /\ a \in Seq(Nat) /\ b \in Seq(Nat) /\ c \in Seq(Nat)
        /\ Len(a) = Len(s) + Len(t) /\ Len(b) = Len(s) /\ Len(c) = Len(t)
    <3> HIDE DEF Ones
    <3> QED
      BY <1>2, <2>1
  <2> HIDE DEF One
  <2>3. \A i \in 1..Len(s) + Len(t) :
          a[i] = IF i <= Len(s) THEN b[i] ELSE c[i - Len(s)]
    <3> SUFFICES ASSUME NEW i \in 1..Len(s) + Len(t)
                 PROVE  a[i] = IF i <= Len(s) THEN b[i] ELSE c[i - Len(s)]
      OBVIOUS
    <3>1. /\ Len(s) \in Nat /\ Len(t) \in Nat
          /\ (s \o t)[i] = IF i <= Len(s) THEN s[i] ELSE t[i - Len(s)]
      BY ConcatProperties
    <3>2. a[i] = One((s \o t)[i])
      BY <2>1
    <3>3. i <= Len(s) => i \in 1..Len(s)
      BY <3>1
    <3>4. ~(i <= Len(s)) => i - Len(s) \in 1..Len(t)
      BY <3>1
    <3>5. i <= Len(s) => b[i] = One(s[i])
      BY <3>3
    <3>6. ~(i <= Len(s)) => c[i - Len(s)] = One(t[i - Len(s)])
      BY <3>4
    <3> HIDE DEF a, b, c
    <3> QED
      BY <3>1, <3>2, <3>5, <3>6
  <2>4. a = b \o c
    <3> HIDE DEF a, b, c
    <3>3. /\ b \o c \in Seq(Nat) /\ Len(b \o c) = Len(b) + Len(c)
          /\ \A i \in 1..Len(b) + Len(c) :
               (b \o c)[i] = IF i <= Len(b) THEN b[i] ELSE c[i - Len(b)]
      <4>1. b \in Seq(Nat) /\ c \in Seq(Nat)
        BY <2>2
      <4> QED
        BY ONLY <4>1, ConcatProperties
    <3>1. /\ b \o c \in Seq(Nat) /\ Len(b \o c) = Len(s) + Len(t)
          /\ \A i \in 1..Len(s) + Len(t) :
               (b \o c)[i] = IF i <= Len(s) THEN b[i] ELSE c[i - Len(s)]
      BY <2>2, <3>3
    <3> QED
      BY <2>2, <2>3, <3>1, SeqEqual
  <2> HIDE DEF Ones
  <2> QED
    BY <1>1, <2>2, <2>4, TotalOfBoth
<1> QED
  BY <1>3, <1>4, <1>5, <1>6

-----------------------------------------------------------------------------
(* What is in a buffer.                                                    *)

LoopMessage == [type : {1, 2}, num : Nat, body : Seq(GameCmd)]
LoopBuffer == UNION {[D -> LoopMessage] : D \in SUBSET Nat}
LoopSocket == [canSend : BOOLEAN, receiveMessageLength : Nat,
               receiveMessage : LoopBuffer]
LoopSockets == [Endpoint -> LoopSocket]

\* The bytes from a message to the one behind it.
Span(m) == IntAlign(Length(m.body) + 4)
Held(b) == {b[o] : o \in DOMAIN b}

\* NET_MAXMESSAGE is a multiple of four, and neither a move nor an update is of
\* the few sizes for which Loop_SendUnreliableMessage, which keeps three bytes
\* for a header that takes four, writes past the end of the buffer: a move is 16
\* or 19 bytes (CL_SendMove), an update MAX_DATAGRAM at most.
DatagramsFit ==
  /\ NET_MAXMESSAGE % 4 = 0
  /\ CommandSize["move"] % 4 # 1
  /\ CommandSize["update"] + 3 # NET_MAXMESSAGE

LaidOut(b, end) ==
  /\ end % 4 = 0 /\ end <= NET_MAXMESSAGE
  /\ \A o \in DOMAIN b : o < end /\ o + Span(b[o]) \in DOMAIN b \cup {end}
  /\ \A o, p \in DOMAIN b : o < p => o + Span(b[o]) <= p
  /\ end # 0 => 0 \in DOMAIN b

\* No message in it is reliable, or one is, which has number n.
NoneReliable(b) == \A o \in DOMAIN b : b[o].type # 1
OneReliable(b, n) ==
  \E o \in DOMAIN b : /\ b[o].type = 1 /\ b[o].num = n
                      /\ \A p \in DOMAIN b : b[p].type = 1 => p = o

LEMMA AlignIs ==
  ASSUME NEW v \in Nat
  PROVE  /\ IntAlign(v) \in Nat /\ IntAlign(v) % 4 = 0
         /\ v <= IntAlign(v) /\ IntAlign(v) <= v + 3
<1> DEFINE q == (v + 3) \div 4
<1>1. q \in Nat /\ v + 3 >= 4 * q /\ v + 3 <= 4 * q + 3
  OBVIOUS
<1>2. IntAlign(v) = q * 4
  BY DEF IntAlign
<1> HIDE DEF q
<1>3. (q * 4) % 4 = 0
  BY <1>1
<1> QED
  BY <1>1, <1>2, <1>3

LEMMA MultiplesOfFour ==
  ASSUME NEW x \in Nat, NEW y \in Nat, x % 4 = 0, y % 4 = 0
  PROVE  /\ (x + y) % 4 = 0
         /\ y <= x => (x - y) % 4 = 0
         /\ x < y + 4 => x <= y
         /\ x <= y + 3 => x <= y
OBVIOUS

LEMMA SpanIs ==
  ASSUME NEW m \in LoopMessage
  PROVE  /\ Length(m.body) \in Nat
         /\ Span(m) \in Nat /\ Span(m) % 4 = 0 /\ Span(m) >= 4
         /\ Span(m) >= Length(m.body) + 4 /\ Span(m) <= Length(m.body) + 7
         /\ \A at \in Nat : at % 4 = 0 =>
              IntAlign(at + Length(m.body) + 4) = at + Span(m)
<1>1. m.body \in Seq(GameCmd)
  BY DEF LoopMessage
<1>2. Length(m.body) \in Nat
  BY <1>1, LengthIs
<1>3. Length(m.body) + 4 \in Nat
  BY <1>2
<1>4. /\ Span(m) \in Nat /\ Span(m) % 4 = 0
      /\ Length(m.body) + 4 <= Span(m) /\ Span(m) <= (Length(m.body) + 4) + 3
  BY <1>3, AlignIs DEF Span
<1>5. ASSUME NEW at \in Nat, at % 4 = 0
      PROVE  IntAlign(at + Length(m.body) + 4) = at + Span(m)
  <2> DEFINE w == IntAlign(at + Length(m.body) + 4)
             z == at + Span(m)
             v == at + Length(m.body) + 4
  <2>1. v \in Nat /\ w = IntAlign(v)
    BY <1>2
  <2>2. w \in Nat /\ w % 4 = 0 /\ v <= w /\ w <= v + 3
    <3> HIDE DEF v, w
    <3> QED
      BY <2>1, AlignIs
  <2>3. z \in Nat /\ z % 4 = 0
    BY <1>4, <1>5, MultiplesOfFour
  <2>4. v <= z /\ z <= v + 3
    BY <1>2, <1>4
  <2>5. w <= z + 3 /\ z <= w + 3
    <3> HIDE DEF v, w, z
    <3> QED
      BY <2>1, <2>2, <2>3, <2>4
  <2>6. w <= z /\ z <= w
    <3> HIDE DEF v, w, z
    <3> QED
      BY <2>2, <2>3, <2>5, MultiplesOfFour
  <2>7. w = z
    <3> HIDE DEF v, w, z
    <3> QED
      BY <2>2, <2>3, <2>6
  <2> QED
    BY <2>7
<1>6. /\ Span(m) >= 4 /\ Span(m) >= Length(m.body) + 4
      /\ Span(m) <= Length(m.body) + 7
  <2> DEFINE l == Length(m.body)
             z == Span(m)
  <2>1. l \in Nat /\ z \in Nat /\ l + 4 <= z /\ z <= (l + 4) + 3
    BY <1>2, <1>4
  <2> HIDE DEF l, z
  <2>2. z >= 4 /\ z >= l + 4 /\ z <= l + 7
    BY <2>1
  <2> QED
    BY <2>2 DEF l, z
<1> QED
  BY <1>2, <1>4, <1>5, <1>6

LEMMA BufferIs ==
  ASSUME NEW b \in LoopBuffer
  PROVE  /\ DOMAIN b \subseteq Nat
         /\ \A o \in DOMAIN b : b[o] \in LoopMessage
         /\ b = [o \in DOMAIN b |-> b[o]]
BY DEF LoopBuffer

LEMMA IsBuffer ==
  ASSUME NEW b, NEW D \in SUBSET Nat, b \in [D -> LoopMessage]
  PROVE  b \in LoopBuffer
BY DEF LoopBuffer

With(b, at, m) == [o \in DOMAIN b \cup {at} |-> IF o = at THEN m ELSE b[o]]

LEMMA WithIs ==
  ASSUME NEW b \in LoopBuffer, NEW at \in Nat, NEW m \in LoopMessage,
         LaidOut(b, at), at + Span(m) <= NET_MAXMESSAGE
  PROVE  /\ With(b, at, m) \in LoopBuffer
         /\ LaidOut(With(b, at, m), at + Span(m))
         /\ Held(With(b, at, m)) \subseteq Held(b) \cup {m}
         /\ m.type # 1 =>
              /\ NoneReliable(b) => NoneReliable(With(b, at, m))
              /\ \A n : OneReliable(b, n) => OneReliable(With(b, at, m), n)
         /\ m.type = 1 /\ NoneReliable(b) => OneReliable(With(b, at, m), m.num)
<1> DEFINE w == With(b, at, m)
           D == DOMAIN b
<1>1. D \in SUBSET Nat /\ \A o \in D : b[o] \in LoopMessage
  BY BufferIs
<1>2. at \notin D
  BY DEF LaidOut
<1>3. /\ DOMAIN w = D \cup {at} /\ w[at] = m
      /\ \A o \in D : w[o] = b[o]
  BY <1>2 DEF With
<1>4. w \in [D \cup {at} -> LoopMessage]
  BY <1>1 DEF With
<1> HIDE DEF w
<1>5. w \in LoopBuffer
  <2>1. D \cup {at} \in SUBSET Nat
    BY <1>1
  <2> HIDE DEF D
  <2> QED
    BY <1>4, <2>1, IsBuffer
<1>6. LaidOut(w, at + Span(m))
  <2>1. /\ Span(m) \in Nat /\ Span(m) % 4 = 0 /\ Span(m) >= 4
        /\ \A o \in D : Span(b[o]) \in Nat
    BY <1>1, SpanIs
  <2>2. (at + Span(m)) % 4 = 0
    BY <2>1, MultiplesOfFour DEF LaidOut
  <2>3. /\ \A o \in D : Span(w[o]) = Span(b[o])
        /\ Span(w[at]) = Span(m)
    BY <1>3
  <2>4. \A o \in DOMAIN w : /\ o < at + Span(m)
                            /\ o + Span(w[o]) \in DOMAIN w \cup {at + Span(m)}
    <3> SUFFICES ASSUME NEW o \in DOMAIN w
                 PROVE  /\ o < at + Span(m)
                        /\ o + Span(w[o]) \in DOMAIN w \cup {at + Span(m)}
      OBVIOUS
    <3>1. CASE o = at
      BY <1>3, <2>1, <2>3, <3>1
    <3>2. CASE o # at
      <4>1. o \in D /\ o \in Nat
        BY <1>1, <1>3, <3>2
      <4>2. o < at /\ o + Span(b[o]) \in D \cup {at}
        BY <4>1 DEF LaidOut
      <4>3. o < at + Span(m)
        BY <2>1, <4>1, <4>2
      <4> QED
        BY <1>3, <2>3, <4>1, <4>2, <4>3
    <3> QED
      BY <3>1, <3>2
  <2>5. \A o, p \in DOMAIN w : o < p => o + Span(w[o]) <= p
    <3> SUFFICES ASSUME NEW o \in DOMAIN w, NEW p \in DOMAIN w, o < p
                 PROVE  o + Span(w[o]) <= p
      OBVIOUS
    <3>1. o \in D
      BY <1>1, <1>3 DEF LaidOut
    <3>2. CASE p = at
      <4>1. o + Span(b[o]) \in D \cup {at}
        BY <3>1 DEF LaidOut
      <4>2. o + Span(b[o]) <= at
        BY <1>1, <4>1 DEF LaidOut
      <4> QED
        BY <2>3, <3>1, <3>2, <4>2
    <3>3. CASE p # at
      <4>1. p \in D
        BY <1>3, <3>3
      <4> QED
        BY <2>3, <3>1, <4>1 DEF LaidOut
    <3> QED
      BY <3>2, <3>3
  <2>6. 0 \in DOMAIN w
    BY <1>3 DEF LaidOut
  <2> HIDE DEF D
  <2> QED
    BY <2>2, <2>4, <2>5, <2>6 DEF LaidOut
<1>7. Held(w) \subseteq Held(b) \cup {m}
  BY <1>3 DEF Held
<1>8. m.type # 1 =>
        /\ NoneReliable(b) => NoneReliable(w)
        /\ \A n : OneReliable(b, n) => OneReliable(w, n)
  <2>1. m.type # 1 /\ NoneReliable(b) => NoneReliable(w)
    BY <1>3 DEF NoneReliable
  <2>2. ASSUME m.type # 1, NEW n, OneReliable(b, n)
        PROVE  OneReliable(w, n)
    <3>1. PICK o \in D : /\ b[o].type = 1 /\ b[o].num = n
                         /\ \A p \in D : b[p].type = 1 => p = o
      BY <2>2 DEF OneReliable
    <3>2. /\ o \in DOMAIN w /\ w[o].type = 1 /\ w[o].num = n
          /\ \A p \in DOMAIN w : w[p].type = 1 => p = o
      BY <1>3, <2>2, <3>1
    <3> QED
      BY <3>2 DEF OneReliable
  <2> QED
    BY <2>1, <2>2
<1>9. m.type = 1 /\ NoneReliable(b) => OneReliable(w, m.num)
  <2> SUFFICES ASSUME m.type = 1, NoneReliable(b)
               PROVE  OneReliable(w, m.num)
    OBVIOUS
  <2>1. /\ at \in DOMAIN w /\ w[at].type = 1 /\ w[at].num = m.num
        /\ \A p \in DOMAIN w : w[p].type = 1 => p = at
    BY <1>3 DEF NoneReliable
  <2> QED
    BY <2>1 DEF OneReliable
<1> QED
  BY <1>5, <1>6, <1>7, <1>8, <1>9 DEF w

WithoutFirst(b, bytes) ==
  [o \in {p - bytes : p \in {q \in DOMAIN b : q >= bytes}} |-> b[o + bytes]]

LEMMA WithoutFirstIs ==
  ASSUME NEW b \in LoopBuffer, NEW end \in Nat, LaidOut(b, end), end # 0
  PROVE  LET f == WithoutFirst(b, Span(b[0])) IN
         /\ f \in LoopBuffer
         /\ end - Span(b[0]) \in Nat
         /\ LaidOut(f, end - Span(b[0]))
         /\ Held(f) \subseteq Held(b)
         /\ b[0] \in Held(b) /\ b[0] \in LoopMessage
         /\ b[0].type # 1 =>
              /\ NoneReliable(b) => NoneReliable(f)
              /\ \A n : OneReliable(b, n) => OneReliable(f, n)
         /\ b[0].type = 1 =>
              \A n : OneReliable(b, n) => b[0].num = n /\ NoneReliable(f)
<1> DEFINE y == Span(b[0])
           D == DOMAIN b
           f == WithoutFirst(b, y)
           G == DOMAIN f
<1>1. D \in SUBSET Nat /\ 0 \in D /\ \A o \in D : b[o] \in LoopMessage
  BY BufferIs DEF LaidOut
<1>2. y \in Nat /\ y % 4 = 0 /\ y >= 4 /\ \A o \in D : Span(b[o]) \in Nat
  BY <1>1, SpanIs
<1>3. \A o \in D : o # 0 => o >= y
  <2> SUFFICES ASSUME NEW o \in D, o # 0
               PROVE  o >= y
    OBVIOUS
  <2>1. 0 < o
    BY <1>1
  <2>2. 0 + y <= o
    BY <1>1, <2>1 DEF LaidOut
  <2> HIDE DEF y
  <2> QED
    BY <1>1, <1>2, <2>2
<1>4. y <= end
  <2>1. 0 + y \in D \cup {end}
    BY <1>1 DEF LaidOut
  <2>2. \A o \in D : o < end
    BY DEF LaidOut
  <2> HIDE DEF y
  <2> QED
    BY <1>1, <1>2, <2>1, <2>2
<1>5. /\ G \in SUBSET Nat
      /\ \A g \in G : g + y \in D /\ f[g] = b[g + y] /\ g + y # 0
      /\ \A o \in D : o # 0 => o - y \in G
  <2>1. G = {p - y : p \in {q \in D : q >= y}} /\ \A g \in G : f[g] = b[g + y]
    BY DEF WithoutFirst
  <2> HIDE DEF f, y, G
  <2>2. ASSUME NEW g \in G
        PROVE  g \in Nat /\ g + y \in D /\ g + y # 0
    <3>1. PICK p \in D : p >= y /\ g = p - y
      BY <2>1
    <3>2. p \in Nat
      BY <1>1
    <3>3. g + y = p /\ g \in Nat
      BY <1>2, <3>1, <3>2
    <3> QED
      BY <1>2, <3>1, <3>2, <3>3
  <2>3. ASSUME NEW o \in D, o # 0
        PROVE  o - y \in G
    BY <1>3, <2>1, <2>3
  <2> QED
    BY <2>1, <2>2, <2>3
<1>6. f \in [G -> LoopMessage]
  <2>1. f = [g \in G |-> f[g]]
    BY DEF WithoutFirst
  <2> HIDE DEF f, G, y, D
  <2> QED
    BY <1>1, <1>5, <2>1
<1>7. f \in LoopBuffer
  <2> HIDE DEF f, G
  <2> QED
    BY <1>5, <1>6, IsBuffer
<1>8. end - y \in Nat /\ (end - y) % 4 = 0 /\ end - y <= NET_MAXMESSAGE
  <2> HIDE DEF y
  <2>1. end - y \in Nat
    BY <1>2, <1>4
  <2>2. end % 4 = 0 /\ end <= NET_MAXMESSAGE
    BY DEF LaidOut
  <2>3. (end - y) % 4 = 0
    BY <1>2, <1>4, <2>2, MultiplesOfFour
  <2>4. end - y <= NET_MAXMESSAGE
    BY <1>2, <2>2, NET_MAXMESSAGEAssumption
  <2> QED
    BY <2>1, <2>3, <2>4
<1>9. LaidOut(f, end - y)
  <2>1. ASSUME NEW g \in G
        PROVE  g < end - y /\ g + Span(f[g]) \in G \cup {end - y}
    <3> DEFINE o == g + y
    <3>1. o \in D /\ o \in Nat /\ o # 0 /\ f[g] = b[o] /\ g \in Nat
      BY <1>1, <1>5
    <3>2. o < end /\ o + Span(b[o]) \in D \cup {end}
      BY <3>1 DEF LaidOut
    <3>3. Span(b[o]) \in Nat /\ Span(f[g]) = Span(b[o])
      BY <1>2, <3>1
    <3>4. g < end - y
      <4> HIDE DEF y
      <4> QED
        BY <1>2, <3>1, <3>2
    <3>5. g + Span(f[g]) = (o + Span(b[o])) - y
      <4> HIDE DEF y
      <4> QED
        BY <1>2, <3>1, <3>3
    <3>6. o + Span(b[o]) # 0
      <4> HIDE DEF y
      <4> QED
        BY <1>2, <3>1, <3>3
    <3>7. g + Span(f[g]) \in G \cup {end - y}
      <4> HIDE DEF y, G, D, f, o
      <4> QED
        BY <1>5, <3>2, <3>5, <3>6
    <3> QED
      BY <3>4, <3>7
  <2>2. ASSUME NEW g \in G, NEW h \in G, g < h
        PROVE  g + Span(f[g]) <= h
    <3>1. g + y \in D /\ h + y \in D /\ f[g] = b[g + y] /\ g \in Nat /\ h \in Nat
      BY <1>5
    <3>2. Span(f[g]) = Span(b[g + y]) /\ Span(f[g]) \in Nat
      BY <1>2, <3>1
    <3> HIDE DEF y, f, G
    <3>3. g + y < h + y
      BY <1>2, <2>2, <3>1
    <3>4. (g + y) + Span(f[g]) <= h + y
      BY <3>1, <3>2, <3>3 DEF LaidOut
    <3> QED
      BY <1>2, <3>1, <3>2, <3>4
  <2>3. end - y # 0 => 0 \in G
    <3> SUFFICES ASSUME end - y # 0
                 PROVE  0 \in G
      OBVIOUS
    <3>1. 0 + y \in D \cup {end}
      BY <1>1 DEF LaidOut
    <3> HIDE DEF y, G, D
    <3>2. y \in D /\ y # 0 /\ y - y = 0
      BY <1>2, <3>1
    <3> QED
      BY <1>5, <3>2
  <2> HIDE DEF y, f
  <2> QED
    BY <1>8, <2>1, <2>2, <2>3 DEF LaidOut
<1>10. Held(f) \subseteq Held(b) /\ b[0] \in Held(b)
  <2> HIDE DEF y, f
  <2> QED
    BY <1>1, <1>5 DEF Held
<1>11. /\ \A g \in G : f[g].type = b[g + y].type /\ f[g].num = b[g + y].num
       /\ \A o \in D : o # 0 => f[o - y].type = b[o].type /\ f[o - y].num = b[o].num
  <2> HIDE DEF y, f, G
  <2>1. \A g \in G : f[g] = b[g + y]
    BY <1>5
  <2>2. \A o \in D : (o - y) + y = o
    BY <1>1, <1>2
  <2>3. \A o \in D : o # 0 => f[o - y] = b[(o - y) + y]
    BY <1>5
  <2> QED
    BY <2>1, <2>2, <2>3
<1>12. b[0].type # 1 =>
         /\ NoneReliable(b) => NoneReliable(f)
         /\ \A n : OneReliable(b, n) => OneReliable(f, n)
  <2>1. NoneReliable(b) => NoneReliable(f)
    <3> HIDE DEF y, f
    <3> QED
      BY <1>5, <1>11 DEF NoneReliable
  <2>2. ASSUME b[0].type # 1, NEW n, OneReliable(b, n)
        PROVE  OneReliable(f, n)
    <3>1. PICK o \in D : /\ b[o].type = 1 /\ b[o].num = n
                         /\ \A p \in D : b[p].type = 1 => p = o
      BY <2>2 DEF OneReliable
    <3>2. o # 0
      BY <2>2, <3>1
    <3> HIDE DEF y, f, G
    <3>3. o - y \in G /\ f[o - y].type = 1 /\ f[o - y].num = n
      BY <1>5, <1>11, <3>1, <3>2
    <3>4. ASSUME NEW g \in G, f[g].type = 1
          PROVE  g = o - y
      <4>1. g + y = o
        BY <1>5, <1>11, <3>1, <3>4
      <4>2. g \in Nat
        BY <1>5
      <4> QED
        BY <1>2, <4>1, <4>2
    <3> QED
      BY <3>3, <3>4 DEF OneReliable, G
  <2> QED
    BY <2>1, <2>2
<1>13. ASSUME b[0].type = 1, NEW n, OneReliable(b, n)
       PROVE  b[0].num = n /\ NoneReliable(f)
  <2>1. PICK o \in D : /\ b[o].type = 1 /\ b[o].num = n
                       /\ \A p \in D : b[p].type = 1 => p = o
    BY <1>13 DEF OneReliable
  <2>2. o = 0
    BY <1>1, <1>13, <2>1
  <2> HIDE DEF y, f
  <2>3. \A g \in G : f[g].type # 1
    BY <1>5, <1>11, <2>1, <2>2
  <2> QED
    BY <2>1, <2>2, <2>3 DEF NoneReliable
<1> HIDE DEF f
<1>14. b[0] \in LoopMessage
  BY <1>1
<1> QED
  BY <1>7, <1>8, <1>9, <1>10, <1>12, <1>13, <1>14 DEF f

-----------------------------------------------------------------------------
(* The driver: what the buffers hold against what was sent and delivered.  *)

ChannelAt(k, s, d, e) ==
  IF k[e].canSend
  THEN /\ NoneReliable(k[Peer(e)].receiveMessage)
       /\ d[Peer(e)] = s[e]
  ELSE /\ OneReliable(k[Peer(e)].receiveMessage, Len(s[e]))
       /\ s[e] = Append(d[Peer(e)], Len(s[e]))

Driver(k, s, d) ==
  /\ k \in LoopSockets
  /\ s \in [Endpoint -> Seq(Nat)] /\ d \in [Endpoint -> Seq(Nat)]
  /\ \A e \in Endpoint :
       /\ LaidOut(k[e].receiveMessage, k[e].receiveMessageLength)
       /\ ChannelAt(k, s, d, e)

LEMMA EndsAre ==
  ASSUME NEW e \in Endpoint
  PROVE  /\ Peer(e) \in Endpoint /\ Peer(e) # e /\ Peer(Peer(e)) = e
         /\ Endpoint = {e, Peer(e)}
BY DEF Endpoint, Peer

LEMMA SocketWith ==
  ASSUME NEW v \in LoopSocket, NEW w, NEW n
  PROVE  [v EXCEPT !.receiveMessage = w, !.receiveMessageLength = n] =
           [canSend |-> v.canSend, receiveMessageLength |-> n,
            receiveMessage |-> w]
<1> DEFINE F == {"canSend", "receiveMessageLength", "receiveMessage"}
           u == [v EXCEPT !.receiveMessage = w, !.receiveMessageLength = n]
           t == [canSend |-> v.canSend, receiveMessageLength |-> n,
                 receiveMessage |-> w]
<1>1. DOMAIN v = F
  BY DEF LoopSocket
<1>2. /\ DOMAIN u = F /\ u = [x \in F |-> u[x]]
      /\ u.canSend = v.canSend
      /\ u.receiveMessageLength = n /\ u.receiveMessage = w
  BY <1>1
<1>3. /\ DOMAIN t = F /\ t = [x \in F |-> t[x]] /\ t.canSend = v.canSend
      /\ t.receiveMessageLength = n /\ t.receiveMessage = w
  OBVIOUS
<1> HIDE DEF u, t
<1>4. \A x \in F : u[x] = t[x]
  BY <1>2, <1>3
<1> HIDE DEF F
<1>5. u = t
  BY <1>2, <1>3, <1>4
<1> QED
  BY <1>5 DEF u, t

LEMMA PutIs ==
  ASSUME NEW k \in LoopSockets, NEW e \in Endpoint, NEW type, NEW num, NEW body
  PROVE  LET m == [type |-> type, num |-> num, body |-> body]
             p == Peer(e)
             r == Put(k, e, type, num, body)
         IN
         /\ r[e] = k[e] /\ DOMAIN r = Endpoint /\ r = [x \in Endpoint |-> r[x]]
         /\ r[p] = [canSend |-> k[p].canSend,
                    receiveMessageLength |->
                      IntAlign(k[p].receiveMessageLength + Length(body) + 4),
                    receiveMessage |->
                      With(k[p].receiveMessage, k[p].receiveMessageLength, m)]
<1> DEFINE m == [type |-> type, num |-> num, body |-> body]
           p == Peer(e)
           at == k[p].receiveMessageLength
           end == IntAlign(at + Length(body) + 4)
           w == With(k[p].receiveMessage, at, m)
           q == [k[p] EXCEPT !.receiveMessage = w, !.receiveMessageLength = end]
           r == Put(k, e, type, num, body)
<1>1. r = [k EXCEPT ![p] = q]
  BY DEF Put, With
<1>2. p \in Endpoint /\ p # e
  BY EndsAre
<1>3. k[p] \in LoopSocket
  BY <1>2 DEF LoopSockets
<1>4. q = [canSend |-> k[p].canSend, receiveMessageLength |-> end,
           receiveMessage |-> w]
  <2> HIDE DEF w, end
  <2> QED
    BY <1>3, SocketWith
<1>5. DOMAIN k = Endpoint
  BY DEF LoopSockets
<1> HIDE DEF q, p
<1>6. r[e] = k[e] /\ r[p] = q /\ DOMAIN r = Endpoint
      /\ r = [x \in Endpoint |-> r[x]]
  BY <1>1, <1>2, <1>5
<1> QED
  BY <1>4, <1>6 DEF p

\* A socket as the driver leaves it.
LEMMA SocketsAre ==
  ASSUME NEW r, NEW e \in Endpoint, r = [x \in Endpoint |-> r[x]],
         r[e] \in LoopSocket, r[Peer(e)] \in LoopSocket
  PROVE  r \in LoopSockets
<1>1. \A x \in Endpoint : r[x] \in LoopSocket
  BY EndsAre
<1> QED
  BY <1>1 DEF LoopSockets

LEMMA SocketIs ==
  ASSUME NEW k \in LoopSockets, NEW e \in Endpoint
  PROVE  /\ k[e] \in LoopSocket
         /\ k[e].canSend \in BOOLEAN /\ k[e].receiveMessageLength \in Nat
         /\ k[e].receiveMessage \in LoopBuffer
<1>1. k[e] \in LoopSocket
  BY DEF LoopSockets
<1> QED
  BY <1>1 DEF LoopSocket

LEMMA IsSocket ==
  ASSUME NEW c \in BOOLEAN, NEW n \in Nat, NEW b \in LoopBuffer
  PROVE  [canSend |-> c, receiveMessageLength |-> n, receiveMessage |-> b]
           \in LoopSocket
BY DEF LoopSocket

\* What a sender leaves: r, when it was k.
WasPut(k, r, e, m) ==
  /\ r \in LoopSockets
  /\ r[e].receiveMessage = k[e].receiveMessage
  /\ r[e].receiveMessageLength = k[e].receiveMessageLength
  /\ r[Peer(e)].canSend = k[Peer(e)].canSend
  /\ r[Peer(e)].receiveMessage =
       With(k[Peer(e)].receiveMessage, k[Peer(e)].receiveMessageLength, m)
  /\ r[Peer(e)].receiveMessageLength =
       k[Peer(e)].receiveMessageLength + Span(m)

LEMMA PutTypes ==
  ASSUME NEW k \in LoopSockets, NEW e \in Endpoint, NEW m \in LoopMessage,
         LaidOut(k[Peer(e)].receiveMessage, k[Peer(e)].receiveMessageLength),
         k[Peer(e)].receiveMessageLength + Span(m) <= NET_MAXMESSAGE
  PROVE  LET r == Put(k, e, m.type, m.num, m.body)
             c == [r EXCEPT ![e].canSend = FALSE]
         IN  /\ WasPut(k, r, e, m) /\ r[e] = k[e]
             /\ WasPut(k, c, e, m) /\ c[e].canSend = FALSE
<1> DEFINE p == Peer(e)
           b == k[p].receiveMessage
           at == k[p].receiveMessageLength
           w == With(b, at, m)
           r == Put(k, e, m.type, m.num, m.body)
           c == [r EXCEPT ![e].canSend = FALSE]
<1>1. p \in Endpoint /\ p # e
  BY EndsAre
<1>2. /\ at \in Nat /\ b \in LoopBuffer /\ k[p].canSend \in BOOLEAN
      /\ k[e] \in LoopSocket
  BY <1>1, SocketIs
<1>3. m = [type |-> m.type, num |-> m.num, body |-> m.body]
  BY DEF LoopMessage
<1>4. /\ Span(m) \in Nat
      /\ IntAlign(at + Length(m.body) + 4) = at + Span(m)
  <2>1. at % 4 = 0
    BY DEF LaidOut
  <2> QED
    BY <1>2, <2>1, SpanIs
<1>5. /\ r[e] = k[e] /\ r = [x \in Endpoint |-> r[x]] /\ DOMAIN r = Endpoint
      /\ r[p] = [canSend |-> k[p].canSend,
                 receiveMessageLength |-> at + Span(m), receiveMessage |-> w]
  BY <1>3, <1>4, PutIs
<1>6. w \in LoopBuffer
  <2> HIDE DEF w
  <2>1. LaidOut(b, at) /\ at + Span(m) <= NET_MAXMESSAGE
    OBVIOUS
  <2> QED
    BY <1>2, <2>1, WithIs DEF w
<1>7. at + Span(m) \in Nat
  BY <1>2, <1>4
<1> HIDE DEF p, b, at, w, r
<1>8. r[p] \in LoopSocket
  BY <1>2, <1>5, <1>6, <1>7, IsSocket
<1>9. r \in LoopSockets
  BY <1>2, <1>5, <1>8, SocketsAre DEF p
<1>10. /\ r[p].canSend = k[p].canSend /\ r[p].receiveMessage = w
       /\ r[p].receiveMessageLength = at + Span(m)
  BY <1>5
<1>11. WasPut(k, r, e, m)
  BY <1>5, <1>9, <1>10 DEF WasPut, p, b, at, w
<1>12. /\ c[p] = r[p] /\ c = [x \in Endpoint |-> c[x]]
       /\ c[e] = [r[e] EXCEPT !.canSend = FALSE]
  BY <1>1, <1>5
<1>13. r[e] \in LoopSocket
  BY <1>2, <1>5
<1>14. /\ c[e] \in LoopSocket /\ c[e].canSend = FALSE
       /\ c[e].receiveMessage = r[e].receiveMessage
       /\ c[e].receiveMessageLength = r[e].receiveMessageLength
  BY <1>12, <1>13 DEF LoopSocket
<1>15. c \in LoopSockets
  <2> HIDE DEF c
  <2> QED
    BY <1>8, <1>12, <1>14, SocketsAre DEF p
<1>16. WasPut(k, c, e, m)
  <2> HIDE DEF c
  <2> QED
    BY <1>5, <1>10, <1>12, <1>14, <1>15 DEF WasPut, p, b, at, w
<1> QED
  BY <1>5, <1>11, <1>14, <1>16 DEF r

\* A message that is not reliable.
LEMMA PutUnreliable ==
  ASSUME NEW k, NEW s, NEW d, Driver(k, s, d), NEW e \in Endpoint,
         NEW m \in LoopMessage, m.type = 2, NEW r, WasPut(k, r, e, m),
         r[e] = k[e],
         k[Peer(e)].receiveMessageLength + Span(m) <= NET_MAXMESSAGE
  PROVE  /\ Driver(r, s, d)
         /\ Held(r[Peer(e)].receiveMessage) \subseteq
              Held(k[Peer(e)].receiveMessage) \cup {m}
<1> DEFINE p == Peer(e)
           b == k[p].receiveMessage
           at == k[p].receiveMessageLength
           w == With(b, at, m)
<1>1. p \in Endpoint /\ p # e /\ Peer(p) = e /\ Endpoint = {e, p}
  BY EndsAre
<1>2. /\ k \in LoopSockets /\ LaidOut(b, at) /\ ChannelAt(k, s, d, e)
      /\ ChannelAt(k, s, d, p)
      /\ LaidOut(k[e].receiveMessage, k[e].receiveMessageLength)
  BY <1>1 DEF Driver
<1>3. at \in Nat /\ b \in LoopBuffer
  BY <1>1, <1>2, SocketIs
<1>4. /\ LaidOut(w, at + Span(m)) /\ Held(w) \subseteq Held(b) \cup {m}
      /\ NoneReliable(b) => NoneReliable(w)
      /\ \A n : OneReliable(b, n) => OneReliable(w, n)
  <2> HIDE DEF w
  <2> QED
    BY <1>2, <1>3, WithIs DEF w
<1>5. /\ r[p].receiveMessage = w /\ r[p].receiveMessageLength = at + Span(m)
      /\ r[p].canSend = k[p].canSend /\ r[e] = k[e] /\ r \in LoopSockets
  BY DEF WasPut
<1> HIDE DEF w, at, b, p
<1>6. ChannelAt(r, s, d, e)
  <2>1. ChannelAt(k, s, d, e)
    BY <1>2
  <2> QED
    BY <1>1, <1>4, <1>5, <2>1 DEF ChannelAt, p, b
<1>7. ChannelAt(r, s, d, p)
  BY <1>1, <1>2, <1>5 DEF ChannelAt
<1>8. /\ LaidOut(r[e].receiveMessage, r[e].receiveMessageLength)
      /\ LaidOut(r[p].receiveMessage, r[p].receiveMessageLength)
  BY <1>2, <1>4, <1>5
<1>9. s \in [Endpoint -> Seq(Nat)] /\ d \in [Endpoint -> Seq(Nat)]
  BY DEF Driver
<1>10. Driver(r, s, d)
  BY <1>1, <1>5, <1>6, <1>7, <1>8, <1>9 DEF Driver
<1> QED
  BY <1>4, <1>5, <1>10 DEF p, b

\* A reliable message, sent when the one before has been read.
LEMMA PutReliable ==
  ASSUME NEW k, NEW s, NEW d, Driver(k, s, d), NEW e \in Endpoint,
         NEW m \in LoopMessage, m.type = 1, m.num = Len(s[e]) + 1,
         k[e].canSend, NEW r, WasPut(k, r, e, m), r[e].canSend = FALSE,
         k[Peer(e)].receiveMessageLength + Span(m) <= NET_MAXMESSAGE
  PROVE  /\ Driver(r, [s EXCEPT ![e] = Append(s[e], m.num)], d)
         /\ Held(r[Peer(e)].receiveMessage) \subseteq
              Held(k[Peer(e)].receiveMessage) \cup {m}
<1> DEFINE p == Peer(e)
           b == k[p].receiveMessage
           at == k[p].receiveMessageLength
           w == With(b, at, m)
           t == [s EXCEPT ![e] = Append(s[e], m.num)]
<1>1. p \in Endpoint /\ p # e /\ Peer(p) = e /\ Endpoint = {e, p}
  BY EndsAre
<1>2. /\ k \in LoopSockets /\ LaidOut(b, at) /\ ChannelAt(k, s, d, e)
      /\ ChannelAt(k, s, d, p)
      /\ LaidOut(k[e].receiveMessage, k[e].receiveMessageLength)
      /\ s \in [Endpoint -> Seq(Nat)] /\ d \in [Endpoint -> Seq(Nat)]
  BY <1>1 DEF Driver
<1>3. at \in Nat /\ b \in LoopBuffer
  BY <1>1, <1>2, SocketIs
<1>4. NoneReliable(b) /\ d[p] = s[e]
  BY <1>2 DEF ChannelAt
<1>5. /\ LaidOut(w, at + Span(m)) /\ Held(w) \subseteq Held(b) \cup {m}
      /\ OneReliable(w, m.num)
  <2> HIDE DEF w
  <2> QED
    BY <1>2, <1>3, <1>4, WithIs DEF w
<1>6. /\ r[p].receiveMessage = w /\ r[p].receiveMessageLength = at + Span(m)
      /\ r[p].canSend = k[p].canSend /\ r[e].canSend = FALSE
      /\ r[e].receiveMessage = k[e].receiveMessage
      /\ r[e].receiveMessageLength = k[e].receiveMessageLength
      /\ r \in LoopSockets
  BY DEF WasPut
<1>7. s[e] \in Seq(Nat) /\ m.num \in Nat
  BY <1>2 DEF LoopMessage
<1>8. /\ t \in [Endpoint -> Seq(Nat)] /\ t[p] = s[p]
      /\ t[e] = Append(s[e], m.num) /\ Len(t[e]) = m.num
  <2>1. /\ Append(s[e], m.num) \in Seq(Nat)
        /\ Len(Append(s[e], m.num)) = Len(s[e]) + 1
    BY <1>7
  <2> QED
    BY <1>1, <1>2, <2>1
<1> HIDE DEF w, at, b, p, t
<1>9. ChannelAt(r, t, d, e)
  BY <1>4, <1>5, <1>6, <1>8 DEF ChannelAt, p
<1>10. ChannelAt(r, t, d, p)
  BY <1>1, <1>2, <1>6, <1>8 DEF ChannelAt
<1>11. /\ LaidOut(r[e].receiveMessage, r[e].receiveMessageLength)
       /\ LaidOut(r[p].receiveMessage, r[p].receiveMessageLength)
  BY <1>2, <1>5, <1>6
<1>12. Driver(r, t, d)
  BY <1>1, <1>2, <1>6, <1>8, <1>9, <1>10, <1>11 DEF Driver
<1> QED
  BY <1>5, <1>6, <1>12 DEF p, b, t

\* What a reader leaves: r, when it was k and m was at the front.
WasTaken(k, r, e, m) ==
  /\ r \in LoopSockets
  /\ r[e].canSend = k[e].canSend
  /\ r[e].receiveMessage = WithoutFirst(k[e].receiveMessage, Span(m))
  /\ r[e].receiveMessageLength = k[e].receiveMessageLength - Span(m)
  /\ r[Peer(e)].canSend = (k[Peer(e)].canSend \/ m.type = 1)
  /\ r[Peer(e)].receiveMessage = k[Peer(e)].receiveMessage
  /\ r[Peer(e)].receiveMessageLength = k[Peer(e)].receiveMessageLength

LEMMA TakeIs ==
  ASSUME NEW k \in LoopSockets, NEW e \in Endpoint, k[e].receiveMessageLength # 0,
         LaidOut(k[e].receiveMessage, k[e].receiveMessageLength)
  PROVE  WasTaken(k, Loop_GetMessage(k, e), e, k[e].receiveMessage[0])
<1> DEFINE p == Peer(e)
           b == k[e].receiveMessage
           end == k[e].receiveMessageLength
           m == b[0]
           y == Span(m)
           f == WithoutFirst(b, y)
           q == [k[e] EXCEPT !.receiveMessage = f,
                             !.receiveMessageLength = end - y]
           t == [k EXCEPT ![e] = q]
           more == k[p].canSend \/ m.type = 1
           r == [t EXCEPT ![p].canSend = @ \/ m.type = 1]
<1>1. p \in Endpoint /\ p # e
  BY EndsAre
<1>2. /\ k[e] \in LoopSocket /\ k[p] \in LoopSocket
      /\ end \in Nat /\ b \in LoopBuffer /\ k[e].canSend \in BOOLEAN
  BY <1>1, SocketIs
<1>3. f \in LoopBuffer /\ end - y \in Nat /\ m \in LoopMessage
  <2> HIDE DEF b, end
  <2>1. end # 0 /\ LaidOut(b, end)
    BY DEF b, end
  <2> QED
    BY <1>2, <2>1, WithoutFirstIs
<1>4. Loop_GetMessage(k, e) = r
  <2>1. Drop(k, e, y) = t
    BY DEF Drop, WithoutFirst
  <2>2. y = IntAlign(Length(m.body) + 4)
    BY DEF Span
  <2> HIDE DEF t, y
  <2> QED
    BY <2>1, <2>2 DEF Loop_GetMessage
<1>5. q = [canSend |-> k[e].canSend, receiveMessageLength |-> end - y,
           receiveMessage |-> f]
  <2> HIDE DEF f, y, end
  <2> QED
    BY <1>2, SocketWith
<1>6. q \in LoopSocket
  <2> HIDE DEF f, y, end, q
  <2> QED
    BY <1>2, <1>3, <1>5, IsSocket
<1>7. /\ q.canSend = k[e].canSend /\ q.receiveMessageLength = end - y
      /\ q.receiveMessage = f
  <2> HIDE DEF f, y, end, q
  <2> QED
    BY <1>5
<1>8. DOMAIN k = Endpoint
  BY DEF LoopSockets
<1> HIDE DEF q
<1>9. /\ t[e] = q /\ t[p] = k[p] /\ DOMAIN t = Endpoint
  <2> HIDE DEF p
  <2> QED
    BY <1>1, <1>8
<1> HIDE DEF t, p, m
<1>10. /\ r[e] = q /\ r = [x \in Endpoint |-> r[x]]
       /\ r[p] = [k[p] EXCEPT !.canSend = @ \/ m.type = 1]
  BY <1>1, <1>9
<1> HIDE DEF r
<1>11. more \in BOOLEAN
  OBVIOUS
<1>12. r[p] = [k[p] EXCEPT !.canSend = more]
  BY <1>10
<1> HIDE DEF more
<1>13. /\ r[p] \in LoopSocket /\ r[p].canSend = more
       /\ r[p].receiveMessage = k[p].receiveMessage
       /\ r[p].receiveMessageLength = k[p].receiveMessageLength
  BY <1>2, <1>11, <1>12 DEF LoopSocket
<1>14. r \in LoopSockets
  BY <1>6, <1>10, <1>13, SocketsAre DEF p
<1>15. WasTaken(k, r, e, m)
  BY <1>7, <1>10, <1>13, <1>14 DEF WasTaken, f, y, b, end, p, more
<1> QED
  BY <1>4, <1>15 DEF m

\* The message at the front is taken.
LEMMA TakeDriver ==
  ASSUME NEW k, NEW s, NEW d, Driver(k, s, d), NEW e \in Endpoint,
         k[e].receiveMessageLength # 0
  PROVE  LET m == k[e].receiveMessage[0]
             r == Loop_GetMessage(k, e)
             g == IF m.type = 1 THEN [d EXCEPT ![e] = Append(d[e], m.num)] ELSE d
         IN
         /\ Driver(r, s, g)
         /\ m \in Held(k[e].receiveMessage) /\ m \in LoopMessage
         /\ Held(r[e].receiveMessage) \subseteq Held(k[e].receiveMessage)
         /\ r[Peer(e)].receiveMessage = k[Peer(e)].receiveMessage
         /\ r[Peer(e)].receiveMessageLength = k[Peer(e)].receiveMessageLength
         /\ r[e].canSend = k[e].canSend
         /\ m.type = 1 => /\ ~k[Peer(e)].canSend /\ r[Peer(e)].canSend
                          /\ s[Peer(e)] = Append(d[e], m.num)
                          /\ m.num = Len(s[Peer(e)])
         /\ m.type # 1 => r[Peer(e)].canSend = k[Peer(e)].canSend
<1> DEFINE p == Peer(e)
           b == k[e].receiveMessage
           end == k[e].receiveMessageLength
           m == b[0]
           y == Span(m)
           f == WithoutFirst(b, y)
           r == Loop_GetMessage(k, e)
           g == IF m.type = 1 THEN [d EXCEPT ![e] = Append(d[e], m.num)] ELSE d
<1>1. p \in Endpoint /\ p # e /\ Peer(p) = e /\ Endpoint = {e, p}
  BY EndsAre
<1>2. /\ k \in LoopSockets /\ LaidOut(b, end) /\ ChannelAt(k, s, d, e)
      /\ ChannelAt(k, s, d, p)
      /\ LaidOut(k[p].receiveMessage, k[p].receiveMessageLength)
      /\ s \in [Endpoint -> Seq(Nat)] /\ d \in [Endpoint -> Seq(Nat)]
  BY <1>1 DEF Driver
<1>3. /\ end \in Nat /\ b \in LoopBuffer /\ k[p].canSend \in BOOLEAN
      /\ k[e].canSend \in BOOLEAN
  BY <1>1, <1>2, SocketIs
<1>4. WasTaken(k, r, e, m)
  BY <1>2, TakeIs
<1>5. /\ LaidOut(f, end - y) /\ Held(f) \subseteq Held(b)
      /\ m \in Held(b) /\ m \in LoopMessage
      /\ m.type # 1 => /\ NoneReliable(b) => NoneReliable(f)
                       /\ \A n : OneReliable(b, n) => OneReliable(f, n)
      /\ m.type = 1 => \A n : OneReliable(b, n) => m.num = n /\ NoneReliable(f)
  <2> HIDE DEF b, end
  <2>1. end # 0
    BY DEF end
  <2> QED
    BY <1>2, <1>3, <2>1, WithoutFirstIs
<1>6. 0 \in DOMAIN b
  <2>1. end # 0
    OBVIOUS
  <2> HIDE DEF b, end
  <2> QED
    BY <1>2, <2>1 DEF LaidOut
<1> HIDE DEF f, r, y, m
<1>7. /\ r[e].canSend = k[e].canSend /\ r[e].receiveMessage = f
      /\ r[e].receiveMessageLength = end - y
      /\ r[p].canSend = (k[p].canSend \/ m.type = 1)
      /\ r[p].receiveMessage = k[p].receiveMessage
      /\ r[p].receiveMessageLength = k[p].receiveMessageLength
      /\ r \in LoopSockets
  BY <1>4 DEF WasTaken, f, y
<1> HIDE DEF b, end, p
<1>8. m.type = 1 => /\ ~k[p].canSend /\ m.num = Len(s[p])
                    /\ s[p] = Append(d[e], m.num) /\ NoneReliable(f)
  <2> SUFFICES ASSUME m.type = 1
               PROVE  /\ ~k[p].canSend /\ m.num = Len(s[p])
                      /\ s[p] = Append(d[e], m.num) /\ NoneReliable(f)
    OBVIOUS
  <2>1. ~k[p].canSend
    BY <1>1, <1>2, <1>6 DEF ChannelAt, NoneReliable, m, b
  <2>2. OneReliable(b, Len(s[p])) /\ s[p] = Append(d[e], Len(s[p]))
    BY <1>1, <1>2, <2>1 DEF ChannelAt, b
  <2> QED
    BY <1>5, <2>1, <2>2
<1>9. /\ g \in [Endpoint -> Seq(Nat)] /\ g[p] = d[p]
      /\ m.type = 1 => g[e] = Append(d[e], m.num)
      /\ m.type # 1 => g[e] = d[e]
  <2>1. d[e] \in Seq(Nat) /\ m.num \in Nat
    BY <1>2, <1>5 DEF LoopMessage
  <2>2. Append(d[e], m.num) \in Seq(Nat)
    BY <2>1
  <2> QED
    BY <1>1, <1>2, <2>2
<1> HIDE DEF g
<1>10. ChannelAt(r, s, g, p)
  <2>1. CASE m.type = 1
    BY <1>1, <1>7, <1>8, <1>9, <2>1 DEF ChannelAt
  <2>2. CASE m.type # 1
    <3>1. r[p].canSend = k[p].canSend
      BY <1>3, <1>7, <2>2
    <3> QED
      BY <1>1, <1>2, <1>5, <1>7, <1>9, <2>2, <3>1 DEF ChannelAt, b
  <2> QED
    BY <2>1, <2>2
<1>11. ChannelAt(r, s, g, e)
  BY <1>1, <1>2, <1>7, <1>9 DEF ChannelAt, p
<1>12. /\ LaidOut(r[e].receiveMessage, r[e].receiveMessageLength)
       /\ LaidOut(r[p].receiveMessage, r[p].receiveMessageLength)
  BY <1>2, <1>5, <1>7
<1>13. Driver(r, s, g)
  BY <1>1, <1>2, <1>7, <1>9, <1>10, <1>11, <1>12 DEF Driver
<1>14. /\ m.type = 1 => r[p].canSend
       /\ m.type # 1 => r[p].canSend = k[p].canSend
  BY <1>3, <1>7
<1> QED
  BY <1>5, <1>7, <1>8, <1>13, <1>14 DEF p, b, m, r, g

-----------------------------------------------------------------------------
(* The senders of net_loop.c.                                              *)

\* Nothing is in a buffer of length 0.
LEMMA EmptyHolds ==
  ASSUME NEW k, NEW s, NEW d, Driver(k, s, d), NEW e \in Endpoint
  PROVE  /\ k[e].receiveMessageLength = 0 =>
              Held(k[e].receiveMessage) = {}
         /\ Held(k[e].receiveMessage) = {} => k[e].receiveMessageLength = 0
         /\ ~k[Peer(e)].canSend =>
              \E m \in Held(k[e].receiveMessage) : m.type = 1
         /\ k[Peer(e)].canSend =>
              \A m \in Held(k[e].receiveMessage) : m.type # 1
         /\ \A m \in Held(k[e].receiveMessage) : m \in LoopMessage
<1> DEFINE b == k[e].receiveMessage
           end == k[e].receiveMessageLength
<1>1. LaidOut(b, end) /\ ChannelAt(k, s, d, Peer(e)) /\ k \in LoopSockets
  BY EndsAre DEF Driver
<1>2. b \in LoopBuffer /\ DOMAIN b \subseteq Nat
      /\ \A o \in DOMAIN b : b[o] \in LoopMessage
  BY <1>1, SocketIs, BufferIs
<1> SUFFICES /\ end = 0 => Held(b) = {}
             /\ Held(b) = {} => end = 0
             /\ ~k[Peer(e)].canSend => \E m \in Held(b) : m.type = 1
             /\ k[Peer(e)].canSend => \A m \in Held(b) : m.type # 1
             /\ \A m \in Held(b) : m \in LoopMessage
  OBVIOUS
<1>3. Peer(Peer(e)) = e
  BY EndsAre
<1>4. /\ ~k[Peer(e)].canSend => \E m \in Held(b) : m.type = 1
      /\ k[Peer(e)].canSend => \A m \in Held(b) : m.type # 1
  BY <1>1, <1>3 DEF ChannelAt, NoneReliable, OneReliable, Held
<1> HIDE DEF b, end
<1>5. end = 0 => Held(b) = {}
  <2>1. \A o \in DOMAIN b : o < end /\ o \in Nat
    BY <1>1, <1>2 DEF LaidOut
  <2>2. end = 0 => DOMAIN b = {}
    BY <2>1
  <2> QED
    BY <2>2 DEF Held
<1>6. Held(b) = {} => end = 0
  BY <1>1 DEF Held, LaidOut
<1> QED
  BY <1>2, <1>4, <1>5, <1>6 DEF Held

LEMMA ReliableIs ==
  ASSUME NEW num \in Nat, NEW body \in Seq(GameCmd), NEW type \in {1, 2}
  PROVE  LET m == [type |-> type, num |-> num, body |-> body] IN
         /\ m \in LoopMessage /\ m.type = type /\ m.num = num /\ m.body = body
BY DEF LoopMessage

\* A datagram that fits behind what is there, or is dropped.
LEMMA SendUnreliable ==
  ASSUME NEW k, NEW s, NEW d, Driver(k, s, d), NEW e \in Endpoint,
         NEW body \in Seq(GameCmd), NET_MAXMESSAGE % 4 = 0,
         \/ Length(body) % 4 # 1
         \/ /\ k[Peer(e)].receiveMessageLength = 0
            /\ Length(body) + 3 # NET_MAXMESSAGE
  PROVE  LET r == Loop_SendUnreliableMessage(k, e, body)
             m == [type |-> 2, num |-> 0, body |-> body]
         IN
         /\ Driver(r, s, d) /\ r[e] = k[e]
         /\ r[Peer(e)].canSend = k[Peer(e)].canSend
         /\ Held(r[Peer(e)].receiveMessage) \subseteq
              Held(k[Peer(e)].receiveMessage) \cup {m}
<1> DEFINE p == Peer(e)
           at == k[p].receiveMessageLength
           r == Loop_SendUnreliableMessage(k, e, body)
           m == [type |-> 2, num |-> 0, body |-> body]
<1>1. CASE Length(body) + 3 > RoomFor(k, e)
  <2>1. r = k
    BY <1>1 DEF Loop_SendUnreliableMessage
  <2> QED
    BY <2>1
<1>2. CASE ~(Length(body) + 3 > RoomFor(k, e))
  <2>1. /\ m \in LoopMessage /\ m.type = 2 /\ m.num = 0 /\ m.body = body
    BY ReliableIs
  <2>2. r = Put(k, e, 2, 0, body)
    BY <1>2 DEF Loop_SendUnreliableMessage
  <2>3. r = Put(k, e, m.type, m.num, m.body)
    BY <2>1, <2>2
  <2>4. k \in LoopSockets /\ p \in Endpoint /\ LaidOut(k[p].receiveMessage, at)
    BY EndsAre DEF Driver
  <2>5. at \in Nat
    BY <2>4, SocketIs
  <2>6. at + Span(m) <= NET_MAXMESSAGE
    <3> DEFINE l == Length(body)
               z == Span(m)
               M == NET_MAXMESSAGE
    <3>1. /\ l \in Nat /\ z \in Nat /\ z % 4 = 0 /\ z >= l + 4 /\ z <= l + 7
      BY <2>1, SpanIs
    <3>2. at % 4 = 0 /\ at <= M
      BY <2>4 DEF LaidOut
    <3>3. ~(l + 3 > M - at)
      BY <1>2 DEF RoomFor
    <3>4. (l % 4 # 1) \/ (at = 0 /\ l + 3 # M)
      OBVIOUS
    <3>5. M \in Nat /\ M % 4 = 0
      BY NET_MAXMESSAGEAssumption
    <3> HIDE DEF l, z, M, at
    <3>6. at + z \in Nat /\ (at + z) % 4 = 0
      BY <2>5, <3>1, <3>2, MultiplesOfFour
    <3>7. M - at \in Nat /\ (M - at) % 4 = 0
      BY <2>5, <3>2, <3>5, MultiplesOfFour
    <3>8. l + 3 # M - at
      <4>1. l % 4 # 1 => l + 3 # M - at
        BY <3>1, <3>7
      <4>2. (at = 0 /\ l + 3 # M) => l + 3 # M - at
        BY <3>5
      <4> QED
        BY <3>4, <4>1, <4>2
    <3>9. at + z < M + 4
      BY <2>5, <3>1, <3>3, <3>5, <3>7, <3>8
    <3>10. at + z <= M
      BY <3>5, <3>6, <3>9, MultiplesOfFour
    <3> QED
      BY <3>10 DEF M, z
  <2> HIDE DEF r, m
  <2>7. WasPut(k, r, e, m) /\ r[e] = k[e]
    BY <2>1, <2>3, <2>4, <2>6, PutTypes
  <2>8. /\ Driver(r, s, d)
        /\ Held(r[p].receiveMessage) \subseteq
             Held(k[p].receiveMessage) \cup {m}
    BY <2>1, <2>6, <2>7, PutUnreliable
  <2>9. r[p].canSend = k[p].canSend
    BY <2>7 DEF WasPut
  <2> QED
    BY <2>7, <2>8, <2>9 DEF r, m
<1> QED
  BY <1>1, <1>2

-----------------------------------------------------------------------------
(* The loops over the commands of a message and over the moves of a frame: *)
(* T[i] is where they may be after i turns.                                *)

\* SV_ReadClientMessage.
LEMMA ExecuteAllReaches ==
  ASSUME NEW s, NEW cmds \in Seq(GameCmd), NEW T,
         s \in T[0],
         \A i \in 1..Len(cmds) : \A t \in T[i - 1] :
           Execute(t, cmds[i]) \in T[i]
  PROVE  ExecuteAll(s, cmds) \in T[Len(cmds)]
<1> DEFINE Turn(x, i) == Execute(x, cmds[i])
           n == Len(cmds)
           X == UNION {T[i] : i \in 0..n}
           F == [p \in X \X (1..n) |-> IF p[1] \in T[p[2] - 1]
                                       THEN Turn(p[1], p[2]) ELSE s]
           Rounds(a) == a = [i \in 0..n |-> IF i = 0 THEN s
                                           ELSE Turn(a[i - 1], i)]
           after == CHOOSE a : Rounds(a)
<1>1. ExecuteAll(s, cmds) = after[n]
  BY DEF ExecuteAll
<1>2. /\ n \in Nat /\ 0 \in 0..n /\ n \in 0..n
      /\ \A i \in 1..n : i - 1 \in 0..n /\ i \in 0..n /\ i # 0
      /\ \A i \in 0..n : i # 0 => i \in 1..n
  OBVIOUS
<1>3. s \in T[0] /\ \A i \in 1..n : \A t \in T[i - 1] :
                      Turn(t, i) \in T[i]
  OBVIOUS
<1> HIDE DEF n
<1>4. s \in X /\ \A i \in 0..n : \A t \in T[i] : t \in X
  BY <1>2, <1>3
<1> HIDE DEF X
<1>5. \A x \in X, i \in 1..n :
        (IF x \in T[i - 1] THEN Turn(x, i) ELSE s) \in X
  BY <1>2, <1>3, <1>4
<1>6. F \in [X \X (1..n) -> X]
  BY <1>5
<1>7. \A x \in X, i \in 1..n : x \in T[i - 1] =>
        F[<<x, i>>] = Turn(x, i)
  OBVIOUS
<1>8. PICK g \in [0..n -> X] : IsLoop(g, n, s, F)
  <2> HIDE DEF F
  <2> QED
    BY <1>2, <1>4, <1>6, LoopIsDefined
<1> HIDE DEF F
<1>9. \A i \in 0..n : g[i] \in T[i]
  <2> DEFINE Good == {i \in 0..n : g[i] \in T[i]}
  <2>1. 0 \in Good
    BY <1>2, <1>3, <1>8 DEF IsLoop
  <2>2. ASSUME NEW i \in 1..n, i - 1 \in Good
        PROVE  i \in Good
    <3>1. g[i - 1] \in T[i - 1] /\ g[i - 1] \in X
      BY <1>2, <2>2
    <3>2. g[i] = Turn(g[i - 1], i)
      BY <1>7, <1>8, <3>1 DEF IsLoop
    <3> QED
      BY <1>2, <1>3, <3>1, <3>2
  <2>3. 0..n \subseteq Good
    <3> HIDE DEF Good
    <3> QED
      BY <1>2, <2>1, <2>2, AfterEveryTurn
  <2> QED
    BY <2>3
<1>10. /\ g[0] = s
       /\ \A i \in 1..n : g[i] = Turn(g[i - 1], i)
  <2>1. \A i \in 1..n : g[i - 1] \in T[i - 1] /\ g[i - 1] \in X
    BY <1>2, <1>9
  <2> QED
    BY <1>7, <1>8, <2>1 DEF IsLoop
<1>11. Rounds(g)
  BY <1>2, <1>10
<1>12. Rounds(after)
  <2> HIDE DEF Rounds
  <2> QED
    BY <1>11
<1> HIDE DEF after
<1>13. /\ after[0] = s
       /\ \A i \in 1..n : after[i] = Turn(after[i - 1], i)
  BY <1>2, <1>12
<1>14. \A i \in 0..n : after[i] = g[i]
  <2> DEFINE Same == {i \in 0..n : after[i] = g[i]}
  <2>1. 0 \in Same
    BY <1>2, <1>10, <1>13
  <2>2. \A i \in 1..n : i - 1 \in Same => i \in Same
    BY <1>2, <1>10, <1>13
  <2>3. 0..n \subseteq Same
    <3> HIDE DEF Same
    <3> QED
      BY <1>2, <2>1, <2>2, AfterEveryTurn
  <2> QED
    BY <2>3
<1> QED
  BY <1>1, <1>2, <1>9, <1>14 DEF n

\* CL_ParseServerMessage.
LEMMA ParseAllReaches ==
  ASSUME NEW s, NEW cmds \in Seq(GameCmd), NEW T,
         s \in T[0],
         \A i \in 1..Len(cmds) : \A t \in T[i - 1] :
           ParseServerMessage(t, cmds[i]) \in T[i]
  PROVE  ParseServerMessages(s, cmds) \in T[Len(cmds)]
<1> DEFINE Turn(x, i) == ParseServerMessage(x, cmds[i])
           n == Len(cmds)
           X == UNION {T[i] : i \in 0..n}
           F == [p \in X \X (1..n) |-> IF p[1] \in T[p[2] - 1]
                                       THEN Turn(p[1], p[2]) ELSE s]
           Rounds(a) == a = [i \in 0..n |-> IF i = 0 THEN s
                                           ELSE Turn(a[i - 1], i)]
           after == CHOOSE a : Rounds(a)
<1>1. ParseServerMessages(s, cmds) = after[n]
  BY DEF ParseServerMessages
<1>2. /\ n \in Nat /\ 0 \in 0..n /\ n \in 0..n
      /\ \A i \in 1..n : i - 1 \in 0..n /\ i \in 0..n /\ i # 0
      /\ \A i \in 0..n : i # 0 => i \in 1..n
  OBVIOUS
<1>3. s \in T[0] /\ \A i \in 1..n : \A t \in T[i - 1] :
                      Turn(t, i) \in T[i]
  OBVIOUS
<1> HIDE DEF n
<1>4. s \in X /\ \A i \in 0..n : \A t \in T[i] : t \in X
  BY <1>2, <1>3
<1> HIDE DEF X
<1>5. \A x \in X, i \in 1..n :
        (IF x \in T[i - 1] THEN Turn(x, i) ELSE s) \in X
  BY <1>2, <1>3, <1>4
<1>6. F \in [X \X (1..n) -> X]
  BY <1>5
<1>7. \A x \in X, i \in 1..n : x \in T[i - 1] =>
        F[<<x, i>>] = Turn(x, i)
  OBVIOUS
<1>8. PICK g \in [0..n -> X] : IsLoop(g, n, s, F)
  <2> HIDE DEF F
  <2> QED
    BY <1>2, <1>4, <1>6, LoopIsDefined
<1> HIDE DEF F
<1>9. \A i \in 0..n : g[i] \in T[i]
  <2> DEFINE Good == {i \in 0..n : g[i] \in T[i]}
  <2>1. 0 \in Good
    BY <1>2, <1>3, <1>8 DEF IsLoop
  <2>2. ASSUME NEW i \in 1..n, i - 1 \in Good
        PROVE  i \in Good
    <3>1. g[i - 1] \in T[i - 1] /\ g[i - 1] \in X
      BY <1>2, <2>2
    <3>2. g[i] = Turn(g[i - 1], i)
      BY <1>7, <1>8, <3>1 DEF IsLoop
    <3> QED
      BY <1>2, <1>3, <3>1, <3>2
  <2>3. 0..n \subseteq Good
    <3> HIDE DEF Good
    <3> QED
      BY <1>2, <2>1, <2>2, AfterEveryTurn
  <2> QED
    BY <2>3
<1>10. /\ g[0] = s
       /\ \A i \in 1..n : g[i] = Turn(g[i - 1], i)
  <2>1. \A i \in 1..n : g[i - 1] \in T[i - 1] /\ g[i - 1] \in X
    BY <1>2, <1>9
  <2> QED
    BY <1>7, <1>8, <2>1 DEF IsLoop
<1>11. Rounds(g)
  BY <1>2, <1>10
<1>12. Rounds(after)
  <2> HIDE DEF Rounds
  <2> QED
    BY <1>11
<1> HIDE DEF after
<1>13. /\ after[0] = s
       /\ \A i \in 1..n : after[i] = Turn(after[i - 1], i)
  BY <1>2, <1>12
<1>14. \A i \in 0..n : after[i] = g[i]
  <2> DEFINE Same == {i \in 0..n : after[i] = g[i]}
  <2>1. 0 \in Same
    BY <1>2, <1>10, <1>13
  <2>2. \A i \in 1..n : i - 1 \in Same => i \in Same
    BY <1>2, <1>10, <1>13
  <2>3. 0..n \subseteq Same
    <3> HIDE DEF Same
    <3> QED
      BY <1>2, <2>1, <2>2, AfterEveryTurn
  <2> QED
    BY <2>3
<1> QED
  BY <1>1, <1>2, <1>9, <1>14 DEF n

MoveSent(k) == Loop_SendUnreliableMessage(k, "client", <<Cmd("move", 0)>>)

\* CL_SendLagMove.
LEMMA LagMovesReach ==
  ASSUME NEW moves \in Nat, NEW s, s = sock, NEW T,
         s \in T[0],
         \A i \in 1..moves : \A t \in T[i - 1] :
           MoveSent(t) \in T[i]
  PROVE  CL_SendLagMove(moves) \in T[moves]
<1> DEFINE Turn(x, i) == MoveSent(x)
           n == moves
           X == UNION {T[i] : i \in 0..n}
           F == [p \in X \X (1..n) |-> IF p[1] \in T[p[2] - 1]
                                       THEN Turn(p[1], p[2]) ELSE s]
           Rounds(a) == a = [i \in 0..n |-> IF i = 0 THEN s
                                           ELSE Turn(a[i - 1], i)]
           after == CHOOSE a : Rounds(a)
<1>1. CL_SendLagMove(moves) = after[n]
  BY DEF CL_SendLagMove, MoveSent
<1>2. /\ n \in Nat /\ 0 \in 0..n /\ n \in 0..n
      /\ \A i \in 1..n : i - 1 \in 0..n /\ i \in 0..n /\ i # 0
      /\ \A i \in 0..n : i # 0 => i \in 1..n
  OBVIOUS
<1>3. s \in T[0] /\ \A i \in 1..n : \A t \in T[i - 1] :
                      Turn(t, i) \in T[i]
  OBVIOUS
<1> HIDE DEF n
<1>4. s \in X /\ \A i \in 0..n : \A t \in T[i] : t \in X
  BY <1>2, <1>3
<1> HIDE DEF X
<1>5. \A x \in X, i \in 1..n :
        (IF x \in T[i - 1] THEN Turn(x, i) ELSE s) \in X
  BY <1>2, <1>3, <1>4
<1>6. F \in [X \X (1..n) -> X]
  BY <1>5
<1>7. \A x \in X, i \in 1..n : x \in T[i - 1] =>
        F[<<x, i>>] = Turn(x, i)
  OBVIOUS
<1>8. PICK g \in [0..n -> X] : IsLoop(g, n, s, F)
  <2> HIDE DEF F
  <2> QED
    BY <1>2, <1>4, <1>6, LoopIsDefined
<1> HIDE DEF F
<1>9. \A i \in 0..n : g[i] \in T[i]
  <2> DEFINE Good == {i \in 0..n : g[i] \in T[i]}
  <2>1. 0 \in Good
    BY <1>2, <1>3, <1>8 DEF IsLoop
  <2>2. ASSUME NEW i \in 1..n, i - 1 \in Good
        PROVE  i \in Good
    <3>1. g[i - 1] \in T[i - 1] /\ g[i - 1] \in X
      BY <1>2, <2>2
    <3>2. g[i] = Turn(g[i - 1], i)
      BY <1>7, <1>8, <3>1 DEF IsLoop
    <3> QED
      BY <1>2, <1>3, <3>1, <3>2
  <2>3. 0..n \subseteq Good
    <3> HIDE DEF Good
    <3> QED
      BY <1>2, <2>1, <2>2, AfterEveryTurn
  <2> QED
    BY <2>3
<1>10. /\ g[0] = s
       /\ \A i \in 1..n : g[i] = Turn(g[i - 1], i)
  <2>1. \A i \in 1..n : g[i - 1] \in T[i - 1] /\ g[i - 1] \in X
    BY <1>2, <1>9
  <2> QED
    BY <1>7, <1>8, <2>1 DEF IsLoop
<1>11. Rounds(g)
  BY <1>2, <1>10
<1>12. Rounds(after)
  <2> HIDE DEF Rounds
  <2> QED
    BY <1>11
<1> HIDE DEF after
<1>13. /\ after[0] = s
       /\ \A i \in 1..n : after[i] = Turn(after[i - 1], i)
  BY <1>2, <1>12
<1>14. \A i \in 0..n : after[i] = g[i]
  <2> DEFINE Same == {i \in 0..n : after[i] = g[i]}
  <2>1. 0 \in Same
    BY <1>2, <1>10, <1>13
  <2>2. \A i \in 1..n : i - 1 \in Same => i \in Same
    BY <1>2, <1>10, <1>13
  <2>3. 0..n \subseteq Same
    <3> HIDE DEF Same
    <3> QED
      BY <1>2, <2>1, <2>2, AfterEveryTurn
  <2> QED
    BY <2>3
<1> QED
  BY <1>1, <1>2, <1>9, <1>14 DEF n

-----------------------------------------------------------------------------
(* What a message of either side does to the other.                        *)

Say == Cmd("say", 0)
Printed == Cmd("print", 0)
Moved == <<Cmd("move", 0)>>
Updated == <<Cmd("update", 0)>>
Recalled == <<Cmd("reconnect", 0)>>

\* What the player says: at the start there is the nop of
\* CL_EstablishConnection among it.
Talk == Seq({Say, Nop})
\* Its answer to stage k of signing on, and what it says behind that.
Requests(k, m) ==
  /\ m \in Seq(ClientCmd) /\ m # <<>> /\ m[1] = CL_SignonReply(k)
  /\ \A i \in 2..Len(m) : m[i] = Say

\* The message of stage k of level l.
StageOf(k, l) == IF k = 1 THEN <<Cmd("serverinfo", l), Signonnum(1)>>
                 ELSE <<Signonnum(k)>>

SlotOf(body) == [spawned |-> FALSE, sendsignon |-> TRUE, message |-> body]
IdleSlot == [spawned |-> FALSE, sendsignon |-> FALSE, message |-> <<>>]
PlayingSlot == [spawned : {TRUE}, sendsignon : BOOLEAN,
                message : Seq({Printed})]
PlayerType == [signon : 0..4, message : Seq(ClientCmd), level : Nat]

LEMMA CmdIs ==
  ASSUME NEW name, NEW n
  PROVE  Cmd(name, n).name = name /\ Cmd(name, n).n = n
BY DEF Cmd

LEMMA NamesAre ==
  /\ Say.name = "say" /\ Nop.name = "nop" /\ Printed.name = "print"
  /\ Cmd("move", 0).name = "move"
  /\ CL_SignonReply(1).name = "prespawn" /\ CL_SignonReply(2).name = "spawn"
  /\ CL_SignonReply(3).name = "begin"
  /\ \A k : Signonnum(k).name = "signonnum" /\ Signonnum(k).n = k
BY CmdIs DEF Say, Nop, Printed, CL_SignonReply, Signonnum

LEMMA CommandsAre ==
  /\ Say \in ClientCmd /\ Nop \in ClientCmd /\ Cmd("move", 0) \in ClientCmd
  /\ \A k \in 1..3 : CL_SignonReply(k) \in ClientCmd
  /\ Printed \in ServerCmd /\ Nop \in ServerCmd
  /\ Cmd("update", 0) \in ServerCmd /\ Cmd("reconnect", 0) \in ServerCmd
  /\ \A k \in 1..3 : Signonnum(k) \in ServerCmd
  /\ \A l \in Nat : Cmd("serverinfo", l) \in ServerCmd
<1>1. ASSUME NEW k \in 1..3
      PROVE  CL_SignonReply(k) \in ClientCmd
  <2>1. k = 1 \/ k = 2 \/ k = 3
    OBVIOUS
  <2> QED
    BY <2>1 DEF CL_SignonReply, ClientCmd
<1> QED
  BY <1>1 DEF ServerCmd, ClientCmd, Nop, Say, Printed

LEMMA BodiesAre ==
  /\ Talk \subseteq Seq(ClientCmd) /\ Seq({Printed}) \subseteq Seq(ServerCmd)
  /\ Moved \in Seq(ClientCmd) /\ Updated \in Seq(ServerCmd)
  /\ Recalled \in Seq(ServerCmd)
  /\ \A k \in 1..3, l \in Nat : StageOf(k, l) \in Seq(ServerCmd)
  /\ Seq(ClientCmd) \subseteq Seq(GameCmd)
  /\ Seq(ServerCmd) \subseteq Seq(GameCmd)
<1>1. ASSUME NEW k \in 1..3, NEW l \in Nat
      PROVE  StageOf(k, l) \in Seq(ServerCmd)
  <2>1. Cmd("serverinfo", l) \in ServerCmd /\ Signonnum(1) \in ServerCmd
        /\ Signonnum(k) \in ServerCmd
    BY CommandsAre
  <2> QED
    BY <2>1 DEF StageOf
<1>2. {Say, Nop} \subseteq ClientCmd /\ {Printed} \subseteq ServerCmd
  BY CommandsAre
<1>3. Talk \subseteq Seq(ClientCmd) /\ Seq({Printed}) \subseteq Seq(ServerCmd)
  BY <1>2 DEF Talk
<1>4. ClientCmd \subseteq GameCmd /\ ServerCmd \subseteq GameCmd
  BY DEF GameCmd
<1>5. /\ Seq(ClientCmd) \subseteq Seq(GameCmd)
      /\ Seq(ServerCmd) \subseteq Seq(GameCmd)
  BY <1>4
<1>6. /\ Cmd("move", 0) \in ClientCmd /\ Cmd("update", 0) \in ServerCmd
      /\ Cmd("reconnect", 0) \in ServerCmd
  BY CommandsAre
<1>7. Moved \in Seq(ClientCmd) /\ Updated \in Seq(ServerCmd)
      /\ Recalled \in Seq(ServerCmd)
  BY <1>6 DEF Moved, Updated, Recalled
<1> QED
  BY <1>1, <1>3, <1>5, <1>7

LEMMA ExecuteIs ==
  ASSUME NEW s, NEW c
  PROVE  /\ c.name = "prespawn" => Execute(s, c) = Host_PreSpawn_f(s)
         /\ c.name = "spawn" => Execute(s, c) = Host_Spawn_f(s)
         /\ c.name = "begin" => Execute(s, c) = Host_Begin_f(s)
         /\ c.name = "say" => Execute(s, c) = Host_Say_f(s)
         /\ c.name \in {"nop", "move"} => Execute(s, c) = s
BY DEF Execute

\* Moves, and what is said by a player who is not in the game, do nothing.
LEMMA TalkIsIgnored ==
  ASSUME NEW s, NEW m, (m \in Talk /\ ~s.spawned) \/ m = Moved
  PROVE  ExecuteAll(s, m) = s
<1> DEFINE T == [i \in 0..Len(m) |-> {s}]
<1>1. m \in Seq(GameCmd) /\ Len(m) \in Nat
      /\ \A i \in 1..Len(m) : m[i] \in {Say, Nop} \/ m[i] = Cmd("move", 0)
  <2>1. m \in Seq(ClientCmd)
    BY BodiesAre
  <2>2. m \in Seq(GameCmd) /\ Len(m) \in Nat
    BY <2>1, BodiesAre
  <2>3. m \in Talk => \A i \in 1..Len(m) : m[i] \in {Say, Nop}
    BY DEF Talk
  <2>4. m = Moved => \A i \in 1..Len(m) : m[i] = Cmd("move", 0)
    BY DEF Moved
  <2> QED
    BY <2>2, <2>3, <2>4
<1>2. ASSUME NEW i \in 1..Len(m)
      PROVE  Execute(s, m[i]) = s
  <2>1. CASE m[i] = Say /\ ~s.spawned
    BY <2>1, ExecuteIs, NamesAre DEF Host_Say_f
  <2>2. CASE m[i] = Nop \/ m[i] = Cmd("move", 0)
    BY <2>2, ExecuteIs, NamesAre
  <2>3. m = Moved => m[i] = Cmd("move", 0)
    BY DEF Moved
  <2> QED
    BY <1>1, <2>1, <2>2, <2>3
<1>3. \A i \in 0..Len(m) : T[i] = {s}
  OBVIOUS
<1>4. 0 \in 0..Len(m) /\ Len(m) \in 0..Len(m)
      /\ \A i \in 1..Len(m) : i \in 0..Len(m) /\ i - 1 \in 0..Len(m)
  BY <1>1
<1> HIDE DEF T
<1>5. /\ s \in T[0]
      /\ \A i \in 1..Len(m) : \A t \in T[i - 1] : Execute(t, m[i]) \in T[i]
  BY <1>2, <1>3, <1>4
<1>6. ExecuteAll(s, m) \in T[Len(m)]
  BY <1>1, <1>5, ExecuteAllReaches
<1> QED
  BY <1>3, <1>4, <1>6

LEMMA SayIsPrinted ==
  ASSUME NEW s \in PlayingSlot, NEW c \in {Say, Nop}
  PROVE  Execute(s, c) \in PlayingSlot
<1>1. s.spawned /\ s.message \in Seq({Printed})
  BY DEF PlayingSlot
<1>2. Append(s.message, Printed) \in Seq({Printed})
  BY <1>1
<1>3. Host_Say_f(s) = [s EXCEPT !.message = Append(s.message, Printed)]
  BY <1>1 DEF Host_Say_f, Printed
<1>4. Host_Say_f(s) \in PlayingSlot
  BY <1>2, <1>3 DEF PlayingSlot
<1> QED
  BY <1>4, ExecuteIs, NamesAre

\* What is said in the game is printed.
LEMMA TalkIsPrinted ==
  ASSUME NEW s \in PlayingSlot, NEW m \in Talk
  PROVE  ExecuteAll(s, m) \in PlayingSlot
<1> DEFINE T == [i \in 0..Len(m) |-> PlayingSlot]
<1>1. m \in Seq(GameCmd) /\ Len(m) \in Nat
      /\ \A i \in 1..Len(m) : m[i] \in {Say, Nop}
  <2>1. m \in Seq(ClientCmd)
    BY BodiesAre
  <2>2. m \in Seq(GameCmd) /\ Len(m) \in Nat
    BY <2>1, BodiesAre
  <2>3. \A i \in 1..Len(m) : m[i] \in {Say, Nop}
    BY DEF Talk
  <2> QED
    BY <2>2, <2>3
<1>2. \A i \in 0..Len(m) : T[i] = PlayingSlot
  OBVIOUS
<1>3. 0 \in 0..Len(m) /\ Len(m) \in 0..Len(m)
      /\ \A i \in 1..Len(m) : i \in 0..Len(m) /\ i - 1 \in 0..Len(m)
  BY <1>1
<1> HIDE DEF T
<1>4. /\ s \in T[0]
      /\ \A i \in 1..Len(m) : \A t \in T[i - 1] : Execute(t, m[i]) \in T[i]
  BY <1>1, <1>2, <1>3, SayIsPrinted
<1>5. ExecuteAll(s, m) \in T[Len(m)]
  BY <1>1, <1>4, ExecuteAllReaches
<1> QED
  BY <1>2, <1>3, <1>5

\* A stage that is asked for is what the player gets next, and after the last
\* one it is in the game.
LEMMA StageIsServed ==
  ASSUME NEW k \in 1..3, NEW m, Requests(k, m)
  PROVE  /\ k < 3 => ExecuteAll(IdleSlot, m) = SlotOf(StageOf(k + 1, 0))
         /\ k = 3 => ExecuteAll(IdleSlot, m) \in PlayingSlot
<1> DEFINE After == IF k = 3 THEN PlayingSlot ELSE {SlotOf(StageOf(k + 1, 0))}
           T == [i \in 0..Len(m) |-> IF i = 0 THEN {IdleSlot} ELSE After]
<1>1. /\ m \in Seq(GameCmd) /\ Len(m) \in Nat /\ Len(m) # 0
      /\ m[1] = CL_SignonReply(k) /\ \A i \in 2..Len(m) : m[i] = Say
  BY BodiesAre DEF Requests
<1>2. Execute(IdleSlot, CL_SignonReply(k)) \in After
  <2>1. CASE k = 3
    <3>1. Execute(IdleSlot, CL_SignonReply(k)) = Host_Begin_f(IdleSlot)
      BY <2>1, ExecuteIs, NamesAre
    <3>2. <<>> \in Seq({Printed})
      OBVIOUS
    <3>3. IdleSlot \in [spawned : BOOLEAN, sendsignon : BOOLEAN,
                        message : Seq({Printed})]
      BY <3>2 DEF IdleSlot
    <3>4. Host_Begin_f(IdleSlot) \in PlayingSlot
      BY <3>3 DEF Host_Begin_f, PlayingSlot
    <3> QED
      BY <2>1, <3>1, <3>4
  <2>2. CASE k = 1
    <3>1. Execute(IdleSlot, CL_SignonReply(k)) = Host_PreSpawn_f(IdleSlot)
      BY <2>2, ExecuteIs, NamesAre
    <3>2. Append(<<>>, Signonnum(2)) = <<Signonnum(2)>>
      OBVIOUS
    <3>3. Host_PreSpawn_f(IdleSlot) = SlotOf(<<Signonnum(2)>>)
      BY <3>2 DEF Host_PreSpawn_f, IdleSlot, SlotOf
    <3>4. StageOf(k + 1, 0) = <<Signonnum(2)>>
      BY <2>2 DEF StageOf
    <3> QED
      BY <2>2, <3>1, <3>3, <3>4
  <2>3. CASE k = 2
    <3>1. Execute(IdleSlot, CL_SignonReply(k)) = Host_Spawn_f(IdleSlot)
      BY <2>3, ExecuteIs, NamesAre
    <3>2. Host_Spawn_f(IdleSlot) = SlotOf(<<Signonnum(3)>>)
      BY DEF Host_Spawn_f, IdleSlot, SlotOf
    <3>3. StageOf(k + 1, 0) = <<Signonnum(3)>>
      BY <2>3 DEF StageOf
    <3> QED
      BY <2>3, <3>1, <3>2, <3>3
  <2> QED
    BY <2>1, <2>2, <2>3
<1>3. ASSUME NEW t \in After
      PROVE  Execute(t, Say) \in After
  <2>1. CASE k = 3
    BY <1>3, <2>1, SayIsPrinted
  <2>2. CASE k # 3
    <3>1. ~t.spawned /\ t \in After
      BY <1>3, <2>2 DEF SlotOf
    <3>2. Execute(t, Say) = t
      BY <3>1, ExecuteIs, NamesAre DEF Host_Say_f
    <3> QED
      BY <3>1, <3>2
  <2> QED
    BY <2>1, <2>2
<1> HIDE DEF After
<1>4. T[0] = {IdleSlot} /\ \A i \in 1..Len(m) : T[i] = After
  BY <1>1
<1>5. /\ Len(m) \in 1..Len(m)
      /\ \A i \in 1..Len(m) : i = 1 \/ (i \in 2..Len(m) /\ i - 1 \in 1..Len(m))
  BY <1>1
<1> HIDE DEF T
<1>6. ASSUME NEW i \in 1..Len(m), NEW t \in T[i - 1]
      PROVE  Execute(t, m[i]) \in T[i]
  <2>1. CASE i = 1
    <3>1. T[i - 1] = {IdleSlot}
      BY <1>4, <2>1
    <3> QED
      BY <1>1, <1>2, <1>4, <1>6, <2>1, <3>1
  <2>2. CASE i \in 2..Len(m) /\ i - 1 \in 1..Len(m)
    BY <1>1, <1>3, <1>4, <1>6, <2>2
  <2> QED
    BY <1>5, <2>1, <2>2
<1>7. ExecuteAll(IdleSlot, m) \in T[Len(m)]
  BY <1>1, <1>4, <1>6, ExecuteAllReaches
<1>8. ExecuteAll(IdleSlot, m) \in After
  BY <1>4, <1>5, <1>7
<1> QED
  BY <1>8 DEF After

-----------------------------------------------------------------------------
(* What a message of the server does to the player.                        *)

\* The player, the command buffer and the game while a message is parsed.
Parsing(c, b) == [cls |-> c, cbuf |-> b, failure |-> "none"]
PlayerOf(stage, message, l) ==
  [signon |-> stage, message |-> message, level |-> l]

LEMMA PlayerIs ==
  ASSUME NEW c \in PlayerType
  PROVE  /\ c = PlayerOf(c.signon, c.message, c.level)
         /\ c.signon \in 0..4 /\ c.message \in Seq(ClientCmd) /\ c.level \in Nat
BY DEF PlayerType, PlayerOf

LEMMA IsPlayer ==
  ASSUME NEW n \in 0..4, NEW m \in Seq(ClientCmd), NEW l \in Nat
  PROVE  /\ PlayerOf(n, m, l) \in PlayerType
         /\ PlayerOf(n, m, l).signon = n /\ PlayerOf(n, m, l).message = m
         /\ PlayerOf(n, m, l).level = l
BY DEF PlayerType, PlayerOf

LEMMA ParsingIs ==
  ASSUME NEW c, NEW b
  PROVE  /\ Parsing(c, b).cls = c /\ Parsing(c, b).cbuf = b
         /\ Parsing(c, b).failure = "none"
BY DEF Parsing

LEMMA ServerinfoIs ==
  ASSUME NEW c \in PlayerType, NEW b, NEW l \in Nat
  PROVE  ParseServerMessage(Parsing(c, b), Cmd("serverinfo", l)) =
           Parsing(PlayerOf(c.signon, <<>>, l), b)
<1> DEFINE d == Cmd("serverinfo", l)
           r == Parsing(c, b)
<1>1. d.name = "serverinfo" /\ d.n = l
  BY CmdIs
<1>2. r.failure = "none"
  BY ParsingIs
<1> HIDE DEF d
<1>3. ParseServerMessage(r, d) =
        [r EXCEPT !.cls.message = <<>>, !.cls.level = d.n]
  <2> HIDE DEF r
  <2> QED
    BY <1>1, <1>2 DEF ParseServerMessage
<1>4. PICK n, m, k : c = PlayerOf(n, m, k) /\ c.signon = n
  BY PlayerIs
<1>5. [r EXCEPT !.cls.message = <<>>, !.cls.level = l] =
        Parsing(PlayerOf(n, <<>>, l), b)
  <2> DEFINE none == <<>>
             u == [r EXCEPT !.cls.message = none]
  <2>1. r = Parsing(PlayerOf(n, m, k), b)
    BY <1>4
  <2> HIDE DEF r, none
  <2>2. u = Parsing(PlayerOf(n, none, k), b)
    BY <2>1 DEF Parsing, PlayerOf
  <2>3. [r EXCEPT !.cls.message = none, !.cls.level = l] =
          [u EXCEPT !.cls.level = l]
    OBVIOUS
  <2> HIDE DEF u
  <2>4. [u EXCEPT !.cls.level = l] = Parsing(PlayerOf(n, none, l), b)
    BY <2>2 DEF Parsing, PlayerOf
  <2> QED
    BY <2>3, <2>4 DEF none
<1> QED
  BY <1>1, <1>3, <1>4, <1>5 DEF d

LEMMA SignonnumIs ==
  ASSUME NEW c \in PlayerType, NEW b, NEW k \in 1..3, c.signon < k
  PROVE  ParseServerMessage(Parsing(c, b), Signonnum(k)) =
           Parsing(PlayerOf(k, Append(c.message, CL_SignonReply(k)), c.level),
                   b)
<1> DEFINE d == Signonnum(k)
           r == Parsing(c, b)
<1>1. d.name = "signonnum" /\ d.n = k
  BY NamesAre
<1>2. r.failure = "none" /\ r.cls = c /\ c.signon \in 0..4
  BY ParsingIs, PlayerIs
<1> HIDE DEF d
<1>3. d.n > r.cls.signon /\ ~(d.n <= r.cls.signon)
  <2> HIDE DEF r
  <2> QED
    BY <1>1, <1>2
<1>4. ParseServerMessage(r, d) =
        [r EXCEPT !.cls.signon = d.n,
                  !.cls.message = Append(@, CL_SignonReply(d.n))]
  <2> HIDE DEF r
  <2> QED
    BY <1>1, <1>2, <1>3 DEF ParseServerMessage
<1>5. PICK n, m, l : /\ c = PlayerOf(n, m, l) /\ c.message = m
                     /\ c.level = l
  BY PlayerIs
<1> DEFINE a == CL_SignonReply(k)
<1> HIDE DEF a
<1>6. [r EXCEPT !.cls.signon = k, !.cls.message = Append(@, a)] =
        Parsing(PlayerOf(k, Append(m, a), l), b)
  <2> DEFINE z == Append(m, a)
  <2>1. r = Parsing(PlayerOf(n, m, l), b) /\ r.cls.message = m
    BY <1>2, <1>5
  <2> DEFINE u == [r EXCEPT !.cls.signon = k]
  <2> HIDE DEF r
  <2>2. [r EXCEPT !.cls.signon = k, !.cls.message = Append(@, a)] =
          [u EXCEPT !.cls.message = z]
    BY <2>1
  <2> HIDE DEF z
  <2>3. u = Parsing(PlayerOf(k, m, l), b)
    BY <2>1 DEF Parsing, PlayerOf
  <2> HIDE DEF u
  <2>4. [u EXCEPT !.cls.message = z] = Parsing(PlayerOf(k, z, l), b)
    BY <2>3 DEF Parsing, PlayerOf
  <2> QED
    BY <2>2, <2>4 DEF z
<1> QED
  BY <1>1, <1>4, <1>5, <1>6 DEF d, a

LEMMA ReconnectIs ==
  ASSUME NEW c \in PlayerType, NEW b
  PROVE  ParseServerMessage(Parsing(c, b), Cmd("reconnect", 0)) =
           Parsing(c, Append(b, "reconnect"))
<1> DEFINE d == Cmd("reconnect", 0)
           r == Parsing(c, b)
<1>1. d.name = "reconnect"
  BY CmdIs
<1>2. r.failure = "none"
  BY ParsingIs
<1> HIDE DEF d
<1>3. ParseServerMessage(r, d) = [r EXCEPT !.cbuf = Append(@, "reconnect")]
  <2> HIDE DEF r
  <2> QED
    BY <1>1, <1>2 DEF ParseServerMessage
<1>4. [r EXCEPT !.cbuf = Append(@, "reconnect")] =
        Parsing(c, Append(b, "reconnect"))
  BY DEF Parsing
<1> QED
  BY <1>3, <1>4 DEF d

LEMMA UpdateIs ==
  ASSUME NEW c \in PlayerType, NEW b
  PROVE  ParseServerMessage(Parsing(c, b), Cmd("update", 0)) =
           Parsing(PlayerOf(CL_ParseUpdate(c.signon), c.message, c.level), b)
<1> DEFINE d == Cmd("update", 0)
           r == Parsing(c, b)
<1>1. d.name = "update"
  BY CmdIs
<1>2. r.failure = "none"
  BY ParsingIs
<1> HIDE DEF d
<1>3. ParseServerMessage(r, d) = [r EXCEPT !.cls.signon = CL_ParseUpdate(@)]
  <2> HIDE DEF r
  <2> QED
    BY <1>1, <1>2 DEF ParseServerMessage
<1>4. PICK n, m, l : /\ c = PlayerOf(n, m, l) /\ c.signon = n
                     /\ c.message = m /\ c.level = l
  BY PlayerIs
<1> DEFINE u == CL_ParseUpdate(n)
<1>5. [r EXCEPT !.cls.signon = CL_ParseUpdate(@)] =
        Parsing(PlayerOf(u, m, l), b)
  BY <1>4 DEF Parsing, PlayerOf
<1> QED
  BY <1>3, <1>4, <1>5 DEF d

LEMMA PrintIs ==
  ASSUME NEW c, NEW b
  PROVE  ParseServerMessage(Parsing(c, b), Printed) = Parsing(c, b)
<1>1. Printed.name = "print" /\ Parsing(c, b).failure = "none"
  BY NamesAre, ParsingIs
<1> QED
  BY <1>1 DEF ParseServerMessage

\* A message of one command.
LEMMA OneIsParsed ==
  ASSUME NEW r, NEW c \in GameCmd
  PROVE  ParseServerMessages(r, <<c>>) = ParseServerMessage(r, c)
<1> DEFINE q == ParseServerMessage(r, c)
           T == [i \in 0..1 |-> IF i = 0 THEN {r} ELSE {q}]
<1>1. <<c>> \in Seq(GameCmd) /\ Len(<<c>>) = 1 /\ <<c>>[1] = c
  OBVIOUS
<1>2. T[0] = {r} /\ T[1] = {ParseServerMessage(r, c)}
  OBVIOUS
<1> HIDE DEF T
<1>3. /\ r \in T[0]
      /\ \A i \in 1..Len(<<c>>) : \A t \in T[i - 1] :
           ParseServerMessage(t, <<c>>[i]) \in T[i]
  BY <1>1, <1>2
<1>4. ParseServerMessages(r, <<c>>) \in T[Len(<<c>>)]
  BY <1>1, <1>3, ParseAllReaches
<1> QED
  BY <1>1, <1>2, <1>4

LEMMA TwoAreParsed ==
  ASSUME NEW r, NEW c \in GameCmd, NEW d \in GameCmd
  PROVE  ParseServerMessages(r, <<c, d>>) =
           ParseServerMessage(ParseServerMessage(r, c), d)
<1> DEFINE q == ParseServerMessage(r, c)
           p == ParseServerMessage(q, d)
           T == [i \in 0..2 |-> IF i = 0 THEN {r}
                                ELSE IF i = 1 THEN {q} ELSE {p}]
           m == <<c, d>>
<1>1. m \in Seq(GameCmd) /\ Len(m) = 2 /\ m[1] = c /\ m[2] = d
  OBVIOUS
<1>2. T[0] = {r} /\ T[1] = {q} /\ T[2] = {p}
  OBVIOUS
<1>3. ParseServerMessage(r, c) = q /\ ParseServerMessage(q, d) = p
  OBVIOUS
<1> HIDE DEF T, q, p, m
<1>4. ASSUME NEW i \in 1..Len(m), NEW t \in T[i - 1]
      PROVE  ParseServerMessage(t, m[i]) \in T[i]
  <2>1. i = 1 \/ i = 2
    BY <1>1
  <2> QED
    BY <1>1, <1>2, <1>3, <1>4, <2>1
<1>5. ParseServerMessages(r, m) \in T[Len(m)]
  BY <1>1, <1>2, <1>4, ParseAllReaches
<1> QED
  BY <1>1, <1>2, <1>5 DEF p, q, m

LEMMA PrintsAreParsed ==
  ASSUME NEW c, NEW b, NEW m \in Seq({Printed})
  PROVE  ParseServerMessages(Parsing(c, b), m) = Parsing(c, b)
<1> DEFINE r == Parsing(c, b)
           T == [i \in 0..Len(m) |-> {r}]
<1>1. m \in Seq(GameCmd) /\ Len(m) \in Nat
      /\ \A i \in 1..Len(m) : m[i] = Printed
  <2>1. m \in Seq(ServerCmd)
    BY BodiesAre
  <2>2. m \in Seq(GameCmd) /\ Len(m) \in Nat
    BY <2>1, BodiesAre
  <2>3. \A i \in 1..Len(m) : m[i] = Printed
    OBVIOUS
  <2> QED
    BY <2>2, <2>3
<1>2. \A i \in 0..Len(m) : T[i] = {r}
  OBVIOUS
<1>3. 0 \in 0..Len(m) /\ Len(m) \in 0..Len(m)
      /\ \A i \in 1..Len(m) : i \in 0..Len(m) /\ i - 1 \in 0..Len(m)
  BY <1>1
<1> HIDE DEF T
<1>4. ParseServerMessage(r, Printed) = r
  BY PrintIs
<1> HIDE DEF r
<1>5. /\ r \in T[0]
      /\ \A i \in 1..Len(m) : \A t \in T[i - 1] :
           ParseServerMessage(t, m[i]) \in T[i]
  BY <1>1, <1>2, <1>3, <1>4
<1>6. ParseServerMessages(r, m) \in T[Len(m)]
  BY <1>1, <1>5, ParseAllReaches
<1>7. ParseServerMessages(r, m) = r
  BY <1>2, <1>3, <1>6
<1> QED
  BY <1>7 DEF r

\* The message of a stage that is to come.
LEMMA StageIsParsed ==
  ASSUME NEW c \in PlayerType, NEW b, NEW k \in 1..3, NEW l \in Nat,
         c.signon < k
  PROVE  ParseServerMessages(Parsing(c, b), StageOf(k, l)) =
           Parsing(IF k = 1 THEN PlayerOf(1, <<CL_SignonReply(1)>>, l)
                   ELSE PlayerOf(k, Append(c.message, CL_SignonReply(k)),
                                 c.level), b)
<1> DEFINE s == Signonnum(k)
           v == Cmd("serverinfo", l)
<1>1. s \in GameCmd /\ v \in GameCmd
  BY CommandsAre DEF GameCmd
<1>2. CASE k = 1
  <2> DEFINE d == PlayerOf(c.signon, <<>>, l)
  <2>1. StageOf(k, l) = <<v, s>>
    BY <1>2 DEF StageOf
  <2>2. /\ d \in PlayerType /\ d.signon = c.signon /\ d.message = <<>>
        /\ d.level = l
    <3> DEFINE none == <<>>
               n == c.signon
    <3>1. n \in 0..4 /\ none \in Seq(ClientCmd) /\ l \in Nat
      BY PlayerIs
    <3> HIDE DEF none, n
    <3>2. /\ PlayerOf(n, none, l) \in PlayerType
          /\ PlayerOf(n, none, l).signon = n
          /\ PlayerOf(n, none, l).message = none
          /\ PlayerOf(n, none, l).level = l
      BY <3>1, IsPlayer
    <3> QED
      BY <3>2 DEF none, n
  <2>3. ParseServerMessage(Parsing(c, b), v) = Parsing(d, b)
    BY ServerinfoIs
  <2> HIDE DEF d
  <2>4. ParseServerMessage(Parsing(d, b), s) =
          Parsing(PlayerOf(k, Append(d.message, CL_SignonReply(k)), d.level), b)
    BY <2>2, SignonnumIs
  <2>5. Append(<<>>, CL_SignonReply(1)) = <<CL_SignonReply(1)>>
    OBVIOUS
  <2> HIDE DEF s, v
  <2>6. ParseServerMessages(Parsing(c, b), <<v, s>>) =
          Parsing(PlayerOf(1, <<CL_SignonReply(1)>>, l), b)
    BY <1>1, <1>2, <2>2, <2>3, <2>4, <2>5, TwoAreParsed
  <2> QED
    BY <1>2, <2>1, <2>6
<1>3. CASE k # 1
  <2>1. StageOf(k, l) = <<s>>
    BY <1>3 DEF StageOf
  <2>2. ParseServerMessage(Parsing(c, b), s) =
          Parsing(PlayerOf(k, Append(c.message, CL_SignonReply(k)), c.level), b)
    BY SignonnumIs
  <2> HIDE DEF s
  <2> QED
    BY <1>1, <1>3, <2>1, <2>2, OneIsParsed
<1> QED
  BY <1>2, <1>3

-----------------------------------------------------------------------------
(* The command buffer.                                                     *)

Plain == {"say", "wait"}
CommandText == {"say", "wait", "changelevel", "reconnect"}
Waits(cs) == Count(cs, "wait")

\* A reconnect waits in it, if any, behind at most n waits.
Reconnects(cs, n) ==
  \/ cs \in Seq(Plain)
  \/ \E before, after \in Seq(Plain) :
       /\ cs = before \o (<<"reconnect">> \o after)
       /\ Waits(before) <= n

\* The level is to change, at once, and at most three waits follow.
ChangesLevel(cs) ==
  \E before \in Seq({"say"}), after \in Seq(Plain) :
    /\ cs = before \o (<<"changelevel">> \o after)
    /\ Waits(after) <= 3

LEMMA TailOfBoth ==
  ASSUME NEW X, NEW a \in Seq(X), NEW b \in Seq(X), a # <<>>
  PROVE  Head(a \o b) = Head(a) /\ Tail(a \o b) = Tail(a) \o b
<1>1. /\ Len(a) \in Nat /\ Len(b) \in Nat /\ Len(a) # 0
      /\ Tail(a) \in Seq(X) /\ Len(Tail(a)) = Len(a) - 1
      /\ \A i \in 1..Len(a) - 1 : Tail(a)[i] = a[i + 1]
  OBVIOUS
<1>2. /\ a \o b \in Seq(X) /\ Len(a \o b) = Len(a) + Len(b)
      /\ \A i \in 1..Len(a) + Len(b) :
           (a \o b)[i] = IF i <= Len(a) THEN a[i] ELSE b[i - Len(a)]
  BY ConcatProperties
<1> DEFINE c == a \o b
           t == Tail(a)
<1> HIDE DEF c, t
<1>3. /\ c \in Seq(X) /\ Len(c) = Len(a) + Len(b) /\ t \in Seq(X)
      /\ Len(t) = Len(a) - 1
      /\ \A i \in 1..Len(a) + Len(b) :
           c[i] = IF i <= Len(a) THEN a[i] ELSE b[i - Len(a)]
      /\ \A i \in 1..Len(a) - 1 : t[i] = a[i + 1]
  BY <1>1, <1>2 DEF c, t
<1>4. /\ t \o b \in Seq(X) /\ Len(t \o b) = Len(t) + Len(b)
      /\ \A i \in 1..Len(t) + Len(b) :
           (t \o b)[i] = IF i <= Len(t) THEN t[i] ELSE b[i - Len(t)]
  <2>1. t \in Seq(X) /\ b \in Seq(X)
    BY <1>3
  <2> QED
    BY ONLY <2>1, ConcatProperties
<1>5. /\ Tail(c) \in Seq(X) /\ Len(Tail(c)) = Len(c) - 1
      /\ \A i \in 1..Len(c) - 1 : Tail(c)[i] = c[i + 1]
      /\ Head(c) = c[1]
  <2>1. c \in Seq(X) /\ Len(c) > 0
    BY <1>1, <1>3
  <2> QED
    BY ONLY <2>1
<1>6. Head(c) = Head(a)
  <2>1. Head(a) = a[1]
    BY <1>1
  <2>2. c[1] = a[1]
    BY <1>1, <1>3
  <2> QED
    BY <1>5, <2>1, <2>2
<1> DEFINE u == t \o b
           v == Tail(c)
<1> SUFFICES v = u
  BY <1>6 DEF c, t
<1>7. /\ u \in Seq(X) /\ v \in Seq(X) /\ Len(u) = Len(a) + Len(b) - 1
      /\ Len(v) = Len(a) + Len(b) - 1
      /\ \A i \in 1..Len(a) + Len(b) - 1 : v[i] = c[i + 1]
      /\ \A i \in 1..Len(a) + Len(b) - 1 :
           u[i] = IF i <= Len(a) - 1 THEN t[i] ELSE b[i - (Len(a) - 1)]
  <2>1. (Len(a) - 1) + Len(b) = Len(a) + Len(b) - 1
    BY <1>1
  <2> HIDE DEF u, v
  <2>2. /\ u \in Seq(X) /\ Len(u) = Len(t) + Len(b)
        /\ \A i \in 1..Len(t) + Len(b) :
             u[i] = IF i <= Len(t) THEN t[i] ELSE b[i - Len(t)]
    BY <1>4 DEF u
  <2>3. /\ v \in Seq(X) /\ Len(v) = Len(c) - 1
        /\ \A i \in 1..Len(c) - 1 : v[i] = c[i + 1]
    BY <1>5 DEF v
  <2> QED
    BY <1>3, <2>1, <2>2, <2>3
<1> HIDE DEF u, v
<1>8. ASSUME NEW i \in 1..Len(a) + Len(b) - 1
      PROVE  v[i] = u[i]
  <2>1. i \in Nat /\ i + 1 \in 1..Len(a) + Len(b)
    BY <1>1
  <2>2. CASE i <= Len(a) - 1
    <3>1. i \in 1..Len(a) - 1 /\ i + 1 <= Len(a)
      BY <1>1, <2>1, <2>2
    <3> QED
      BY <1>3, <1>7, <2>1, <2>2, <3>1
  <2>3. CASE ~(i <= Len(a) - 1)
    <3>1. ~(i + 1 <= Len(a)) /\ (i + 1) - Len(a) = i - (Len(a) - 1)
      BY <1>1, <2>1, <2>3
    <3> QED
      BY <1>3, <1>7, <2>1, <2>3, <3>1
  <2> QED
    BY <2>2, <2>3
<1> QED
  BY <1>7, <1>8, SeqEqual

\* A sequence and its first element.
LEMMA HeadAndTail ==
  ASSUME NEW X, NEW s \in Seq(X), s # <<>>
  PROVE  /\ Head(s) \in X /\ Tail(s) \in Seq(X) /\ s = <<Head(s)>> \o Tail(s)
         /\ Count(s, "wait") = (IF Head(s) = "wait" THEN 1 ELSE 0)
                                 + Count(Tail(s), "wait")
<1>1. Head(s) \in X /\ Tail(s) \in Seq(X) /\ <<Head(s)>> \in Seq(X)
  OBVIOUS
<1>2. s = <<Head(s)>> \o Tail(s)
  OBVIOUS
<1> DEFINE a == <<Head(s)>>
           b == Tail(s)
           w == "wait"
<1>5. a \in Seq(X) /\ b \in Seq(X)
  BY <1>1
<1> HIDE DEF b, w
<1>4. Count(a, w) = IF Head(s) = w THEN 1 ELSE 0
  BY <1>5, CountIs
<1> HIDE DEF a
<1>3. Count(a \o b, w) = Count(a, w) + Count(b, w)
  BY <1>5, CountIs
<1> QED
  BY <1>1, <1>2, <1>3, <1>4 DEF a, b, w

\* The first command when a stands in the midst.
StandsIn(cs, before, a, after) ==
  /\ cs # <<>>
  /\ before = <<>> => Head(cs) = a /\ Tail(cs) = after
  /\ before # <<>> => /\ Head(cs) = Head(before)
                     /\ Tail(cs) = Tail(before) \o (<<a>> \o after)

LEMMA HeadOfThree ==
  ASSUME NEW X, NEW before \in Seq(X), NEW after \in Seq(X), NEW a \in X,
         NEW cs, cs = before \o (<<a>> \o after)
  PROVE  cs \in Seq(X) /\ StandsIn(cs, before, a, after)
<1> DEFINE r == <<a>> \o after
<1>1. r \in Seq(X) /\ Len(r) = 1 + Len(after) /\ Head(r) = a
      /\ Tail(r) = after /\ Len(after) \in Nat
  <2>1. /\ <<a>> \in Seq(X) /\ <<a>> # <<>>
        /\ Head(<<a>>) = a /\ Tail(<<a>>) = <<>>
    OBVIOUS
  <2>2. Head(r) = a /\ Tail(r) = <<>> \o after
    BY <2>1, TailOfBoth
  <2>3. <<>> \o after = after
    BY ConcatEmptySeq
  <2> QED
    BY <2>1, <2>2, <2>3
<1> HIDE DEF r
<1>2. cs \in Seq(X) /\ Len(cs) = Len(before) + Len(r)
  BY <1>1 DEF r
<1>3. cs # <<>>
  BY <1>1, <1>2
<1>4. before = <<>> => cs = r
  <2>1. <<>> \o r = r
    BY <1>1, ConcatEmptySeq
  <2> QED
    BY <2>1 DEF r
<1>5. before # <<>> => Head(cs) = Head(before) /\ Tail(cs) = Tail(before) \o r
  BY <1>1, TailOfBoth DEF r
<1> QED
  BY <1>1, <1>2, <1>3, <1>4, <1>5 DEF r, StandsIn

LEMMA WaitsAre ==
  ASSUME NEW X, NEW s \in Seq(X)
  PROVE  Waits(s) \in Nat /\ Waits(<<>>) = 0
BY CountIs DEF Waits

\* Cbuf_Execute takes the first command.
LEMMA ReconnectsTail ==
  ASSUME NEW cs, NEW n \in Int, Reconnects(cs, n), cs # <<>>
  PROVE  /\ Head(cs) \in Plain \cup {"reconnect"}
         /\ Head(cs) = "wait" => Reconnects(Tail(cs), n - 1)
         /\ Head(cs) = "say" => Reconnects(Tail(cs), n)
         /\ Head(cs) = "reconnect" => Tail(cs) \in Seq(Plain)
<1>1. CASE cs \in Seq(Plain)
  <2>1. Head(cs) \in Plain /\ Tail(cs) \in Seq(Plain)
    BY <1>1, HeadAndTail
  <2> QED
    BY <2>1 DEF Reconnects
<1>2. CASE \E before, after \in Seq(Plain) :
             /\ cs = before \o (<<"reconnect">> \o after)
             /\ Waits(before) <= n
  <2> DEFINE X == Plain \cup {"reconnect"}
  <2>1. PICK before \in Seq(Plain), after \in Seq(Plain) :
          /\ cs = before \o (<<"reconnect">> \o after)
          /\ Waits(before) <= n
    BY <1>2
  <2>2. before \in Seq(X) /\ after \in Seq(X) /\ "reconnect" \in X
    OBVIOUS
  <2>3. /\ before = <<>> => Head(cs) = "reconnect" /\ Tail(cs) = after
        /\ before # <<>> =>
             /\ Head(cs) = Head(before)
             /\ Tail(cs) = Tail(before) \o (<<"reconnect">> \o after)
    <3> DEFINE a == "reconnect"
    <3>1. a \in X /\ cs = before \o (<<a>> \o after)
      BY <2>1
    <3> HIDE DEF a, X
    <3>2. StandsIn(cs, before, a, after)
      BY <2>2, <3>1, HeadOfThree
    <3> QED
      BY <3>2 DEF a, StandsIn
  <2>4. CASE before = <<>>
    BY <2>3, <2>4
  <2>5. CASE before # <<>>
    <3>1. /\ Head(before) \in Plain /\ Tail(before) \in Seq(Plain)
          /\ Waits(before) = (IF Head(before) = "wait" THEN 1 ELSE 0)
                               + Waits(Tail(before))
      BY <2>5, HeadAndTail DEF Waits
    <3>2. Waits(Tail(before)) \in Nat /\ Waits(before) \in Nat
      BY <3>1, WaitsAre
    <3>3. /\ Head(before) = "wait" => Waits(Tail(before)) <= n - 1
          /\ Waits(Tail(before)) <= n
      BY <2>1, <3>1, <3>2
    <3>4. Tail(cs) = Tail(before) \o (<<"reconnect">> \o after)
      BY <2>3, <2>5
    <3>5. /\ Head(before) = "wait" => Reconnects(Tail(cs), n - 1)
          /\ Reconnects(Tail(cs), n)
      BY <3>1, <3>3, <3>4 DEF Reconnects
    <3> QED
      BY <2>3, <2>5, <3>1, <3>5 DEF Plain
  <2> QED
    BY <2>4, <2>5
<1> QED
  BY <1>1, <1>2 DEF Reconnects

LEMMA ReconnectsLater ==
  ASSUME NEW cs, NEW n \in Int, NEW m \in Int, n <= m, Reconnects(cs, n)
  PROVE  Reconnects(cs, m)
<1>1. ASSUME NEW before \in Seq(Plain), Waits(before) <= n
      PROVE  Waits(before) <= m
  BY <1>1, WaitsAre
<1> QED
  BY <1>1 DEF Reconnects

\* None is left to wait for.
LEMMA NoMoreWaits ==
  ASSUME NEW cs, NEW n \in Int, n < 0, Reconnects(cs, n)
  PROVE  cs \in Seq(Plain)
<1>1. ASSUME NEW before \in Seq(Plain), Waits(before) <= n
      PROVE  FALSE
  BY <1>1, WaitsAre
<1> QED
  BY <1>1 DEF Reconnects

\* Text is put behind it, or the reconnect of the server.
LEMMA ReconnectsMore ==
  ASSUME NEW cs, NEW n, Reconnects(cs, n), NEW t \in Seq(Plain)
  PROVE  Reconnects(cs \o t, n)
<1>1. CASE cs \in Seq(Plain)
  BY <1>1 DEF Reconnects
<1>2. CASE \E before, after \in Seq(Plain) :
             /\ cs = before \o (<<"reconnect">> \o after)
             /\ Waits(before) <= n
  <2>1. PICK before \in Seq(Plain), after \in Seq(Plain) :
          /\ cs = before \o (<<"reconnect">> \o after)
          /\ Waits(before) <= n
    BY <1>2
  <2> DEFINE X == Plain \cup {"reconnect"}
             c == <<"reconnect">>
  <2>2. before \in Seq(X) /\ after \in Seq(X) /\ c \in Seq(X) /\ t \in Seq(X)
        /\ c \o after \in Seq(X)
    OBVIOUS
  <2>3. after \o t \in Seq(Plain)
    OBVIOUS
  <2> HIDE DEF c, X
  <2>4. (c \o after) \o t = c \o (after \o t)
    BY ONLY <2>2, ConcatAssociative
  <2>5. (before \o (c \o after)) \o t = before \o ((c \o after) \o t)
    BY ONLY <2>2, ConcatAssociative, SMTT(20)
  <2>6. cs \o t = before \o (c \o (after \o t))
    BY <2>1, <2>4, <2>5 DEF c
  <2> QED
    BY <2>1, <2>3, <2>6 DEF Reconnects, c
<1> QED
  BY <1>1, <1>2 DEF Reconnects

LEMMA ReconnectWaits ==
  ASSUME NEW cs \in Seq(Plain), NEW n \in Int, Waits(cs) <= n
  PROVE  Reconnects(Append(cs, "reconnect"), n)
<1> DEFINE X == Plain \cup {"reconnect"}
           c == <<"reconnect">>
           e == <<>>
<1>1. cs \in Seq(X) /\ c \in Seq(X) /\ "reconnect" \in X /\ e \in Seq(Plain)
  OBVIOUS
<1>2. Append(cs, "reconnect") = cs \o c
  BY <1>1, AppendIsConcat
<1>3. c \o e = c
  BY <1>1, ConcatEmptySeq
<1> HIDE DEF e
<1> QED
  BY <1>1, <1>2, <1>3 DEF Reconnects

LEMMA ReconnectsTyped ==
  ASSUME NEW cs, NEW n, Reconnects(cs, n)
  PROVE  cs \in Seq(CommandText)
<1>1. Seq(Plain) \subseteq Seq(CommandText)
  <2>1. Plain \subseteq CommandText
    BY DEF Plain, CommandText
  <2> QED
    BY <2>1
<1>2. ASSUME NEW before \in Seq(Plain), NEW after \in Seq(Plain),
             cs = before \o (<<"reconnect">> \o after)
      PROVE  cs \in Seq(CommandText)
  <2>1. before \in Seq(CommandText) /\ after \in Seq(CommandText)
        /\ "reconnect" \in CommandText
    BY <1>1 DEF CommandText
  <2> QED
    BY <1>2, <2>1, HeadOfThree
<1> QED
  BY <1>1, <1>2 DEF Reconnects

LEMMA ChangesTail ==
  ASSUME NEW cs, ChangesLevel(cs)
  PROVE  /\ cs \in Seq(CommandText) /\ cs # <<>>
         /\ Head(cs) \in {"say", "changelevel"}
         /\ Head(cs) = "say" => ChangesLevel(Tail(cs))
         /\ Head(cs) = "changelevel" =>
              Tail(cs) \in Seq(Plain) /\ Waits(Tail(cs)) <= 3
<1>1. PICK before \in Seq({"say"}), after \in Seq(Plain) :
        /\ cs = before \o (<<"changelevel">> \o after)
        /\ Waits(after) <= 3
  BY DEF ChangesLevel
<1>2. before \in Seq(CommandText) /\ after \in Seq(CommandText)
      /\ "changelevel" \in CommandText
  <2>1. Plain \subseteq CommandText /\ {"say"} \subseteq CommandText
        /\ "changelevel" \in CommandText
    BY DEF Plain, CommandText
  <2> QED
    BY <2>1
<1>3. /\ cs \in Seq(CommandText) /\ cs # <<>>
      /\ before = <<>> => Head(cs) = "changelevel" /\ Tail(cs) = after
      /\ before # <<>> =>
           /\ Head(cs) = Head(before)
           /\ Tail(cs) = Tail(before) \o (<<"changelevel">> \o after)
  <2> DEFINE a == "changelevel"
  <2>1. a \in CommandText /\ cs = before \o (<<a>> \o after)
    BY <1>1, <1>2
  <2> HIDE DEF a
  <2>2. cs \in Seq(CommandText) /\ StandsIn(cs, before, a, after)
    BY <1>2, <2>1, HeadOfThree
  <2> QED
    BY <2>2 DEF a, StandsIn
<1>4. before # <<>> => Head(before) = "say" /\ Tail(before) \in Seq({"say"})
  BY HeadAndTail
<1> QED
  BY <1>1, <1>3, <1>4 DEF ChangesLevel

\* Text without "changelevel" is plain.
LEMMA ChangesCounted ==
  ASSUME NEW cs, ChangesLevel(cs)
  PROVE  Changes(cs) > 0
<1>1. PICK before \in Seq({"say"}), after \in Seq(Plain) :
        cs = before \o (<<"changelevel">> \o after)
  BY DEF ChangesLevel
<1> DEFINE w == "changelevel"
           c == <<w>>
           X == CommandText
           r == c \o after
<1>2. before \in Seq(X) /\ after \in Seq(X) /\ c \in Seq(X)
      /\ r \in Seq(X)
  <2>1. Plain \subseteq CommandText /\ {"say"} \subseteq CommandText
        /\ "changelevel" \in CommandText
    BY DEF Plain, CommandText
  <2> QED
    BY <2>1
<1> HIDE DEF w, X
<1>3. Count(c, w) = 1
  BY <1>2, CountIs
<1> HIDE DEF c
<1>4. Count(r, w) = Count(c, w) + Count(after, w)
  BY <1>2, CountIs
<1> HIDE DEF r
<1>5. Count(before \o r, w) = Count(before, w) + Count(r, w)
  BY <1>2, CountIs
<1>6. Count(before, w) \in Nat /\ Count(after, w) \in Nat
  BY <1>2, CountIs
<1>7. Count(before \o r, w) > 0
  BY <1>3, <1>4, <1>5, <1>6
<1> QED
  BY <1>1, <1>7 DEF Changes, w, r, c

-----------------------------------------------------------------------------
(* The steps of the driver.                                                *)

Wire == Driver(sock, sent, delivered)
HeldBy(e) == Held(sock[e].receiveMessage)

\* What a step does to the numbers of the reliable messages.
Sending(e) ==
  /\ delivered[Peer(e)] = sent[e]
  /\ sent' = [sent EXCEPT ![e] = Append(sent[e], Len(sent[e]) + 1)]
  /\ delivered' = delivered
Taking(e) ==
  /\ sent[Peer(e)] = Append(delivered[e], Len(sent[Peer(e)]))
  /\ delivered' = [delivered EXCEPT
                     ![e] = Append(delivered[e], Len(sent[Peer(e)]))]
  /\ sent' = sent
Numbered ==
  \/ UNCHANGED <<sent, delivered>>
  \/ \E e \in Endpoint : Sending(e) \/ Taking(e)

LEMMA WireKept ==
  ASSUME Wire, UNCHANGED driverVars
  PROVE  /\ Wire' /\ sock' = sock
         /\ \A e : HeldBy(e)' = HeldBy(e)
BY DEF Wire, driverVars, HeldBy

\* An end whose buffer is empty lets the other send.
LEMMA WireHolds ==
  ASSUME Wire, NEW e \in Endpoint
  PROVE  /\ HeldBy(e) = {} <=> ~Waiting(e)
         /\ HeldBy(e) = {} => sock[Peer(e)].canSend
         /\ sock[Peer(e)].canSend => \A m \in HeldBy(e) : m.type = 2
         /\ \A m \in HeldBy(e) : m \in LoopMessage
<1>1. /\ sock[e].receiveMessageLength = 0 => HeldBy(e) = {}
      /\ HeldBy(e) = {} => sock[e].receiveMessageLength = 0
      /\ ~sock[Peer(e)].canSend => \E m \in HeldBy(e) : m.type = 1
      /\ sock[Peer(e)].canSend => \A m \in HeldBy(e) : m.type # 1
      /\ \A m \in HeldBy(e) : m \in LoopMessage
  <2> DEFINE k == sock
             s == sent
             d == delivered
  <2>1. Driver(k, s, d)
    BY DEF Wire
  <2> HIDE DEF k, s, d
  <2>2. /\ k[e].receiveMessageLength = 0 => Held(k[e].receiveMessage) = {}
        /\ Held(k[e].receiveMessage) = {} => k[e].receiveMessageLength = 0
        /\ ~k[Peer(e)].canSend =>
             \E m \in Held(k[e].receiveMessage) : m.type = 1
        /\ k[Peer(e)].canSend =>
             \A m \in Held(k[e].receiveMessage) : m.type # 1
        /\ \A m \in Held(k[e].receiveMessage) : m \in LoopMessage
    BY <2>1, EmptyHolds
  <2> QED
    BY <2>2 DEF HeldBy, k
<1>2. \A m \in HeldBy(e) : m.type \in {1, 2}
  BY <1>1 DEF LoopMessage
<1>3. sock[Peer(e)].canSend \in BOOLEAN
  BY EndsAre, SocketIs DEF Wire, Driver
<1> QED
  BY <1>1, <1>2, <1>3 DEF Waiting

LEMMA GetIs ==
  ASSUME Wire, NEW e \in Endpoint, Get(e)
  PROVE  /\ Wire'
         /\ First(e) \in HeldBy(e) /\ HeldBy(e)' \subseteq HeldBy(e)
         /\ HeldBy(Peer(e))' = HeldBy(Peer(e))
         /\ sock'[e].canSend = sock[e].canSend
         /\ First(e).type = 1 =>
              /\ ~sock[Peer(e)].canSend /\ sock'[Peer(e)].canSend
              /\ sent[Peer(e)] = Append(delivered[e], First(e).num)
              /\ First(e).num = Len(sent[Peer(e)])
              /\ delivered' = [delivered EXCEPT
                                 ![e] = Append(delivered[e], First(e).num)]
         /\ First(e).type # 1 =>
              /\ sock'[Peer(e)].canSend = sock[Peer(e)].canSend
              /\ delivered' = delivered
         /\ sent' = sent
<1> DEFINE k == sock
           s == sent
           d == delivered
           m == k[e].receiveMessage[0]
           r == Loop_GetMessage(k, e)
           g == IF m.type = 1 THEN [d EXCEPT ![e] = Append(d[e], m.num)] ELSE d
<1>1. Driver(k, s, d) /\ k[e].receiveMessageLength # 0
  BY DEF Wire, Get, Waiting
<1>2. sock' = r /\ delivered' = g /\ sent' = s /\ First(e) = m
  BY DEF Get, First
<1> HIDE DEF k, s, d
<1>3. /\ Driver(r, s, g)
      /\ m \in Held(k[e].receiveMessage) /\ m \in LoopMessage
      /\ Held(r[e].receiveMessage) \subseteq Held(k[e].receiveMessage)
      /\ r[Peer(e)].receiveMessage = k[Peer(e)].receiveMessage
      /\ r[Peer(e)].receiveMessageLength = k[Peer(e)].receiveMessageLength
      /\ r[e].canSend = k[e].canSend
      /\ m.type = 1 => /\ ~k[Peer(e)].canSend /\ r[Peer(e)].canSend
                       /\ s[Peer(e)] = Append(d[e], m.num)
                       /\ m.num = Len(s[Peer(e)])
      /\ m.type # 1 => r[Peer(e)].canSend = k[Peer(e)].canSend
  BY <1>1, TakeDriver
<1>4. /\ m.type = 1 => g = [d EXCEPT ![e] = Append(d[e], m.num)]
      /\ m.type # 1 => g = d
  OBVIOUS
<1> HIDE DEF m, r, g
<1>5. Wire'
  BY <1>2, <1>3 DEF Wire
<1>6. /\ First(e) \in HeldBy(e) /\ HeldBy(e)' \subseteq HeldBy(e)
      /\ HeldBy(Peer(e))' = HeldBy(Peer(e))
  BY <1>2, <1>3 DEF HeldBy, k
<1> QED
  BY <1>2, <1>3, <1>4, <1>5, <1>6 DEF k, s, d

WasSent(k, e, body) ==
  \/ failure' = "overflow" /\ UNCHANGED driverVars
  \/ /\ failure' = failure
     /\ Wire' /\ sock'[e].canSend = FALSE
     /\ HeldBy(e)' = Held(k[e].receiveMessage)
     /\ HeldBy(Peer(e))' \subseteq
          Held(k[Peer(e)].receiveMessage) \cup
            {[type |-> 1, num |-> Len(sent[e]) + 1, body |-> body]}
     /\ sock'[Peer(e)].canSend = k[Peer(e)].canSend
     /\ sent' = [sent EXCEPT ![e] = Append(sent[e], Len(sent[e]) + 1)]
     /\ delivered' = delivered
     /\ delivered[Peer(e)] = sent[e]

\* What e sends reliably, when its peer has read all before, arrives, or does
\* not fit and ends the program; k is what moves or datagrams have left.
LEMMA SendReliablyIs ==
  ASSUME NEW k, Driver(k, sent, delivered), NEW e \in Endpoint, k[e].canSend,
         NEW body \in Seq(GameCmd), SendReliably(k, e, body),
         NET_MAXMESSAGE % 4 = 0, failure = "none"
  PROVE  WasSent(k, e, body)
<1> DEFINE num == Len(sent[e]) + 1
           p == Peer(e)
           at == k[p].receiveMessageLength
           m == [type |-> 1, num |-> num, body |-> body]
<1>1. CASE Length(body) + 4 > RoomFor(k, e)
  BY <1>1 DEF SendReliably, WasSent
<1>2. CASE ~(Length(body) + 4 > RoomFor(k, e))
  <2>1. /\ sock' = Loop_SendMessage(k, e, num, body)
        /\ sent' = [sent EXCEPT ![e] = Append(sent[e], num)]
        /\ delivered' = delivered /\ failure' = failure
    BY <1>2 DEF SendReliably
  <2>2. /\ k \in LoopSockets /\ LaidOut(k[p].receiveMessage, at)
        /\ ChannelAt(k, sent, delivered, e) /\ sent[e] \in Seq(Nat)
        /\ p \in Endpoint
    BY EndsAre DEF Driver
  <2>3. num \in Nat
    BY <2>2
  <2>4. /\ m \in LoopMessage /\ m.type = 1 /\ m.num = num /\ m.body = body
    <3> HIDE DEF num
    <3> QED
      BY <2>3, ReliableIs
  <2>5. at \in Nat
    BY <2>2, SocketIs
  <2>6. at + Span(m) <= NET_MAXMESSAGE
    <3> DEFINE l == Length(body)
               z == Span(m)
               M == NET_MAXMESSAGE
    <3>1. l \in Nat /\ z \in Nat /\ z % 4 = 0 /\ z <= l + 7
      BY <2>4, SpanIs
    <3>2. at % 4 = 0 /\ at <= M
      BY <2>2 DEF LaidOut
    <3>3. ~(l + 4 > M - at)
      BY <1>2 DEF RoomFor
    <3>4. M \in Nat /\ M % 4 = 0
      BY NET_MAXMESSAGEAssumption
    <3> HIDE DEF l, z, M, at
    <3>5. at + z \in Nat /\ (at + z) % 4 = 0
      BY <2>5, <3>1, <3>2, MultiplesOfFour
    <3>6. at + z <= M + 3
      BY <2>5, <3>1, <3>3, <3>4
    <3>7. at + z <= M
      BY <3>4, <3>5, <3>6, MultiplesOfFour
    <3> QED
      BY <3>7 DEF M, z
  <2> DEFINE r == [Put(k, e, m.type, m.num, m.body) EXCEPT ![e].canSend = FALSE]
  <2>7. sock' = r
    BY <2>1, <2>4 DEF Loop_SendMessage
  <2> HIDE DEF r, m
  <2>8. WasPut(k, r, e, m) /\ r[e].canSend = FALSE
    BY <2>2, <2>4, <2>6, PutTypes, ZenonT(40) DEF r
  <2> DEFINE t == [sent EXCEPT ![e] = Append(sent[e], m.num)]
  <2>9. /\ Driver(r, t, delivered)
        /\ Held(r[p].receiveMessage) \subseteq
             Held(k[p].receiveMessage) \cup {m}
    <3> DEFINE s == sent
               d == delivered
    <3>1. Driver(k, s, d) /\ m.num = Len(s[e]) + 1
      BY <2>4
    <3> HIDE DEF s, d
    <3>2. /\ Driver(r, [s EXCEPT ![e] = Append(s[e], m.num)], d)
          /\ Held(r[p].receiveMessage) \subseteq
               Held(k[p].receiveMessage) \cup {m}
      BY <2>4, <2>6, <2>8, <3>1, PutReliable
    <3> QED
      BY <3>2 DEF s, d
  <2>10. sent' = t
    BY <2>1, <2>4
  <2> HIDE DEF t
  <2>11. Wire'
    BY <2>1, <2>7, <2>9, <2>10 DEF Wire
  <2>12. /\ HeldBy(e)' = Held(k[e].receiveMessage)
         /\ HeldBy(p)' \subseteq Held(k[p].receiveMessage) \cup {m}
         /\ sock'[p].canSend = k[p].canSend
    BY <2>7, <2>8, <2>9 DEF HeldBy, WasPut
  <2>13. delivered[p] = sent[e]
    BY <2>2 DEF ChannelAt
  <2> QED
    BY <2>1, <2>7, <2>8, <2>11, <2>12, <2>13 DEF m, WasSent
<1> QED
  BY <1>1, <1>2

\* The moves of a frame lie behind what the server has not read.
LEMMA MovesAreSent ==
  ASSUME Wire, DatagramsFit, NEW moves \in Nat
  PROVE  LET k == CL_SendLagMove(moves) IN
         /\ Driver(k, sent, delivered) /\ k["client"] = sock["client"]
         /\ k["server"].canSend = sock["server"].canSend
         /\ \A m \in Held(k["server"].receiveMessage) :
              m \in HeldBy("server") \/ (m.type = 2 /\ m.body = Moved)
<1> DEFINE c == "client"
           v == "server"
           s == sent
           d == delivered
           move == [type |-> 2, num |-> 0, body |-> Moved]
           H == HeldBy("server") \cup {move}
           Reached(k) == /\ Driver(k, s, d) /\ k[c] = sock[c]
                         /\ k[v].canSend = sock[v].canSend
                         /\ Held(k[v].receiveMessage) \subseteq H
           S == {k \in LoopSockets : Reached(k)}
           T == [i \in 0..moves |-> S]
<1>1. c \in Endpoint /\ Peer(c) = v
  BY DEF Endpoint, Peer
<1>2. Moved \in Seq(GameCmd) /\ Length(Moved) % 4 # 1
  <2>1. Cmd("move", 0) \in GameCmd
    BY CommandsAre DEF GameCmd
  <2>2. <<>> \in Seq(GameCmd)
    OBVIOUS
  <2>3. Length(<<Cmd("move", 0)>>) = SizeOf(Cmd("move", 0))
    BY <2>1, <2>2, LengthIs
  <2>4. SizeOf(Cmd("move", 0)) = CommandSize["move"]
    BY DEF SizeOf, Kind, Cmd, Signonnum
  <2> QED
    BY <2>1, <2>3, <2>4 DEF Moved, DatagramsFit
<1>3. NET_MAXMESSAGE % 4 = 0
  BY DEF DatagramsFit
<1>4. sock \in S
  BY DEF Wire, Driver, HeldBy
<1>5. ASSUME NEW k \in S
      PROVE  MoveSent(k) \in S
  <2> DEFINE r == MoveSent(k)
             body == Moved
  <2>1. r = Loop_SendUnreliableMessage(k, c, body)
    BY DEF MoveSent, Moved
  <2>2. Driver(k, s, d) /\ k[c] = sock[c] /\ k[v].canSend = sock[v].canSend
        /\ Held(k[v].receiveMessage) \subseteq H
    BY <1>5
  <2> HIDE DEF c, v, s, d, r, body
  <2>3. /\ Driver(r, s, d) /\ r[c] = k[c]
        /\ r[Peer(c)].canSend = k[Peer(c)].canSend
        /\ Held(r[Peer(c)].receiveMessage) \subseteq
             Held(k[Peer(c)].receiveMessage)
               \cup {[type |-> 2, num |-> 0, body |-> body]}
    BY <1>1, <1>2, <1>3, <2>1, <2>2, SendUnreliable DEF body
  <2>4. Held(r[v].receiveMessage) \subseteq H
    BY <1>1, <2>2, <2>3 DEF body
  <2>5. r \in LoopSockets
    BY <2>3 DEF Driver
  <2> QED
    BY <1>1, <2>2, <2>3, <2>4, <2>5 DEF r
<1>6. \A i \in 0..moves : T[i] = S
  OBVIOUS
<1>7. 0 \in 0..moves /\ moves \in 0..moves
      /\ \A i \in 1..moves : i \in 0..moves /\ i - 1 \in 0..moves
  OBVIOUS
<1> HIDE DEF T, S
<1>8. CL_SendLagMove(moves) \in T[moves]
  <2> DEFINE z == sock
  <2>1. z = sock /\ z \in T[0]
    BY <1>4, <1>6, <1>7
  <2>2. \A i \in 1..moves : \A t \in T[i - 1] : MoveSent(t) \in T[i]
    BY <1>5, <1>6, <1>7
  <2> HIDE DEF z
  <2> QED
    BY <2>1, <2>2, LagMovesReach
<1> DEFINE k == CL_SendLagMove(moves)
<1> HIDE DEF k
<1>9. k \in S
  BY <1>6, <1>7, <1>8 DEF k
<1>10. Reached(k)
  BY <1>9 DEF S
<1>11. move.type = 2 /\ move.body = Moved
  OBVIOUS
<1> HIDE DEF move
<1>12. \A m \in Held(k["server"].receiveMessage) :
         m \in HeldBy("server") \/ (m.type = 2 /\ m.body = Moved)
  BY <1>10, <1>11
<1> QED
  BY <1>10, <1>12 DEF k

-----------------------------------------------------------------------------
(* Where the player and the server stand.                                  *)

\* A script changes the level once at most, at once, and keeps what follows
\* back by three frames at most.
OrderlyScripts ==
  \A script \in Scripts : script \in Seq(Plain) \/ ChangesLevel(script)

SaysOnly == \A m \in HeldBy("server") : m.body = Moved \/ m.body \in Talk
AsksOnly(k) ==
  /\ ~sock["client"].canSend
  /\ \A m \in HeldBy("server") : \/ m.type = 2 /\ m.body = Moved
                                 \/ m.type = 1 /\ Requests(k, m.body)
TellsOnly(body) ==
  /\ ~sock["server"].canSend
  /\ \A m \in HeldBy("client") : m.type = 1 /\ m.body = body
Untold == HeldBy("client") = {}

\* The player is in the game.
Game ==
  /\ host_client \in PlayingSlot /\ cls.level = level /\ cls.signon \in {3, 4}
  /\ cls.message \in Talk /\ SaysOnly
  /\ \A m \in HeldBy("client") : m.body = Updated \/ m.body \in Seq({Printed})
  /\ turn # "results" => Untold
  /\ turn \notin {"clients", "messages"} => host_client.message = <<>>
  /\ cbuf \in Seq(Plain) \/ (turn = "commands" /\ ChangesLevel(cbuf))

\* The level has changed in this frame.
Reconnecting ==
  /\ turn # "keys"
  /\ host_client = SlotOf(StageOf(1, level)) /\ cls.signon = 0
  /\ cls.message \in Talk /\ SaysOnly /\ TellsOnly(Recalled)
  /\ cbuf \in Seq(Plain) /\ Waits(cbuf) <= IF turn = "commands" THEN 3 ELSE 2

\* The message of stage k waits in the slot.
InSlot(k) ==
  /\ host_client = SlotOf(StageOf(k, level)) /\ cls.signon \in {0, k - 1}
  /\ cls.message \in Talk /\ (k > 1 => cls.message = <<>> /\ cls.level = level)
  /\ SaysOnly /\ Untold
  /\ k = 1 \/ turn \in {"clients", "messages"}
  /\ Reconnects(cbuf, IF turn \in {"results", "keys", "commands"} THEN 2
                      ELSE 2 - k)

\* It has been sent.
Told(k) ==
  /\ turn = "results"
  /\ host_client = IdleSlot /\ cls.signon \in {0, k - 1}
  /\ cls.message \in Talk /\ (k > 1 => cls.message = <<>> /\ cls.level = level)
  /\ TellsOnly(StageOf(k, level))
  /\ Reconnects(cbuf, 2 - k)

\* The player has read it and is to reply.
Replies(k) ==
  /\ turn \in {"results", "keys", "commands", "move"}
  /\ host_client = IdleSlot
  /\ cls.signon \in {0, k} /\ (k = 3 => cls.signon = 3)
  /\ cls.level = level /\ Requests(k, cls.message)
  /\ Untold
  /\ Reconnects(cbuf, IF turn = "move" THEN 1 - k ELSE 2 - k)

\* It has replied.
Asked(k) ==
  /\ turn = "clients"
  /\ host_client = IdleSlot
  /\ cls.signon \in {0, k} /\ (k = 3 => cls.signon = 3)
  /\ cls.level = level /\ cls.message = <<>>
  /\ AsksOnly(k) /\ Untold
  /\ Reconnects(cbuf, 1 - k)

SignsOn(k) == InSlot(k) \/ Told(k) \/ Replies(k) \/ Asked(k)
Stands == Game \/ Reconnecting \/ \E k \in 1..3 : SignsOn(k)

Runs ==
  /\ failure = "none"
  /\ turn \in {"keys", "commands", "move", "clients", "messages", "results"}
  /\ level \in Nat /\ cls \in PlayerType
  /\ turn # "clients" => HeldBy("server") = {}
  /\ Stands

LocalInv ==
  /\ Wire /\ LocalSpawnedIsSignedOn
  /\ Runs \/ failure = "overflow"

-----------------------------------------------------------------------------
\* A step that leaves everything in order.
LEMMA StaysInOrder ==
  ASSUME Wire', Runs'
  PROVE  LocalInv'
<1>1. Game' => LocalSpawnedIsSignedOn'
  BY DEF Game, LocalSpawnedIsSignedOn, SIGNONS
<1>2. ~IdleSlot.spawned /\ \A body : ~SlotOf(body).spawned
  BY DEF IdleSlot, SlotOf
<1>3. ASSUME ~Game', Stands'
      PROVE  ~host_client'.spawned
  BY <1>2, <1>3 DEF Stands, SignsOn, Reconnecting, InSlot, Told, Replies, Asked
<1>4. Stands'
  BY DEF Runs
<1>5. LocalSpawnedIsSignedOn'
  BY <1>1, <1>3, <1>4 DEF LocalSpawnedIsSignedOn
<1> QED
  BY <1>5 DEF LocalInv

LEMMA PlayerWith ==
  ASSUME NEW c \in PlayerType
  PROVE  /\ \A m \in Seq(ClientCmd) :
              /\ [c EXCEPT !.message = m] \in PlayerType
              /\ [c EXCEPT !.message = m].message = m
              /\ [c EXCEPT !.message = m].signon = c.signon
              /\ [c EXCEPT !.message = m].level = c.level
         /\ [c EXCEPT !.signon = 0] \in PlayerType
         /\ [c EXCEPT !.signon = 0].message = c.message
         /\ [c EXCEPT !.signon = 0].signon = 0
         /\ [c EXCEPT !.signon = 0].level = c.level
BY DEF PlayerType

\* SaysOnly and the others depend on the wire alone.
LEMMA WordsKept ==
  ASSUME sock' = sock
  PROVE  /\ SaysOnly => SaysOnly'
         /\ \A k : AsksOnly(k) => AsksOnly(k)'
         /\ \A body : TellsOnly(body) => TellsOnly(body)'
         /\ Untold => Untold'
         /\ \A e : HeldBy(e)' = HeldBy(e)
BY DEF SaysOnly, AsksOnly, TellsOnly, Untold, HeldBy

-----------------------------------------------------------------------------
(* Commands.                                                               *)

LEMMA KeysInOrder ==
  ASSUME OrderlyScripts, Wire, Runs, Sys_SendKeyEvents
  PROVE  LocalInv'
<1>1. /\ turn = "keys" /\ turn' = "commands" /\ level' = level
      /\ host_client' = host_client /\ cls' = cls /\ sock' = sock
      /\ UNCHANGED driverVars /\ failure' = failure
  BY DEF Sys_SendKeyEvents, driverVars
<1>2. Wire' /\ SaysOnly' = SaysOnly /\ Untold' = Untold
      /\ \A e : HeldBy(e)' = HeldBy(e)
  BY <1>1, WireKept DEF SaysOnly, Untold
<1>3. \/ cbuf' = cbuf
      \/ \E script \in Seq(Plain) : cbuf' = cbuf \o script
      \/ InGame /\ ChangesLevel(cbuf')
  <2>1. CASE UNCHANGED <<cbuf, scripts>>
    BY <2>1
  <2>2. CASE \E script \in Scripts :
               /\ Changes(script) > 0 =>
                    InGame /\ cbuf = <<>> /\ level + Changes(script) <= MaxLevel
               /\ cbuf' = cbuf \o script
    <3>1. PICK script \in Scripts :
            /\ Changes(script) > 0 => InGame /\ cbuf = <<>>
            /\ cbuf' = cbuf \o script
      BY <2>2
    <3>2. CASE script \in Seq(Plain)
      BY <3>1, <3>2
    <3>3. CASE ChangesLevel(script)
      <4>1. InGame /\ cbuf = <<>>
        BY <3>1, <3>3, ChangesCounted
      <4>2. script \in Seq(CommandText)
        BY <3>3, ChangesTail
      <4>3. <<>> \o script = script
        BY <4>2, ConcatEmptySeq
      <4>4. cbuf' = script
        BY <3>1, <4>1, <4>3
      <4> QED
        BY <3>3, <4>1, <4>4
    <3> QED
      BY <3>2, <3>3 DEF OrderlyScripts
  <2> QED
    BY <2>1, <2>2 DEF Sys_SendKeyEvents
<1>4. ASSUME Game
      PROVE  Stands'
  <2>1. cbuf \in Seq(Plain)
    BY <1>1, <1>4 DEF Game
  <2>2. cbuf' \in Seq(Plain) \/ ChangesLevel(cbuf')
    <3>1. \A script \in Seq(Plain) : cbuf \o script \in Seq(Plain)
      BY <2>1
    <3> QED
      BY <1>3, <2>1, <3>1
  <2>3. Game'
    BY <1>1, <1>2, <1>4, <2>2 DEF Game
  <2> QED
    BY <2>3 DEF Stands
<1>5. ASSUME NEW n \in Int, Reconnects(cbuf, n), ~host_client.spawned
      PROVE  Reconnects(cbuf', n)
  BY <1>3, <1>5, ReconnectsMore DEF InGame
<1>6. ~IdleSlot.spawned /\ \A body : ~SlotOf(body).spawned
  BY DEF IdleSlot, SlotOf
<1>7. ASSUME NEW k \in 1..3, InSlot(k)
      PROVE  Stands'
  <2>1. k = 1 /\ Reconnects(cbuf, 2) /\ ~host_client.spawned
    BY <1>1, <1>6, <1>7 DEF InSlot
  <2>2. Reconnects(cbuf', 2)
    BY <1>5, <2>1
  <2>3. InSlot(1)'
    BY <1>1, <1>2, <1>7, <2>1, <2>2 DEF InSlot
  <2> QED
    BY <2>3 DEF Stands, SignsOn
<1>8. ASSUME NEW k \in 1..3, Replies(k)
      PROVE  Stands'
  <2>1. Reconnects(cbuf, 2 - k) /\ ~host_client.spawned
    BY <1>1, <1>6, <1>8 DEF Replies
  <2>2. Reconnects(cbuf', 2 - k)
    BY <1>5, <2>1
  <2>3. Replies(k)'
    BY <1>1, <1>2, <1>8, <2>2 DEF Replies
  <2> QED
    BY <2>3 DEF Stands, SignsOn
<1>9. Stands'
  BY <1>1, <1>4, <1>7, <1>8
     DEF Runs, Stands, SignsOn, Reconnecting, Told, Asked
<1>10. Runs'
  BY <1>1, <1>2, <1>9 DEF Runs
<1> QED
  BY <1>2, <1>10, StaysInOrder

-----------------------------------------------------------------------------
(* What is typed and what a script says.                                   *)

LEMMA OverflowEnds ==
  ASSUME Wire, UNCHANGED driverVars, failure' = "overflow",
         LocalSpawnedIsSignedOn'
  PROVE  LocalInv'
BY WireKept DEF LocalInv

LEMMA PlainIs ==
  ASSUME NEW cs \in Seq(Plain)
  PROVE  /\ Waits(cs) \in Nat /\ Waits(<<>>) = 0 /\ <<>> \in Seq(Plain)
         /\ cs # <<>> =>
              /\ Head(cs) \in Plain /\ Tail(cs) \in Seq(Plain)
              /\ Waits(cs) = (IF Head(cs) = "wait" THEN 1 ELSE 0)
                               + Waits(Tail(cs))
              /\ Waits(Tail(cs)) \in Nat
<1>1. Waits(cs) \in Nat /\ Waits(<<>>) = 0
  BY WaitsAre
<1>2. ASSUME cs # <<>>
      PROVE  /\ Head(cs) \in Plain /\ Tail(cs) \in Seq(Plain)
             /\ Waits(cs) = (IF Head(cs) = "wait" THEN 1 ELSE 0)
                              + Waits(Tail(cs))
  BY <1>2, HeadAndTail DEF Waits
<1>3. ASSUME NEW t \in Seq(Plain)
      PROVE  Waits(t) \in Nat
  BY WaitsAre
<1>4. <<>> \in Seq(Plain)
  OBVIOUS
<1> QED
  BY <1>1, <1>2, <1>3, <1>4

LEMMA AsksMore ==
  ASSUME NEW k \in 1..3, NEW m, Requests(k, m)
  PROVE  Requests(k, Append(m, Say))
<1>1. /\ m \in Seq(ClientCmd) /\ m # <<>> /\ m[1] = CL_SignonReply(k)
      /\ \A i \in 2..Len(m) : m[i] = Say
  BY DEF Requests
<1>2. Say \in ClientCmd
  BY CommandsAre
<1> DEFINE n == Append(m, Say)
           s == Say
<1>3. /\ n \in Seq(ClientCmd) /\ Len(n) = Len(m) + 1 /\ Len(m) \in Nat \ {0}
      /\ \A i \in 1..Len(m) : n[i] = m[i]
      /\ n[Len(m) + 1] = s
  <2> HIDE DEF s
  <2>1. s \in ClientCmd /\ n = Append(m, s)
    BY <1>2 DEF s
  <2> HIDE DEF n
  <2> QED
    BY <1>1, <2>1
<1> HIDE DEF n
<1>4. n # <<>> /\ n[1] = CL_SignonReply(k)
  BY <1>1, <1>3
<1>5. \A i \in 2..Len(n) : n[i] = Say
  BY <1>1, <1>3
<1>6. Requests(k, n)
  BY <1>3, <1>4, <1>5 DEF Requests
<1> QED
  BY <1>6 DEF n

LEMMA SlotsAre ==
  /\ ~IdleSlot.spawned /\ ~IdleSlot.sendsignon /\ IdleSlot.message = <<>>
  /\ \A body : /\ ~SlotOf(body).spawned /\ SlotOf(body).sendsignon
               /\ SlotOf(body).message = body
  /\ \A s \in PlayingSlot : s.spawned /\ s.message \in Seq({Printed})
BY DEF IdleSlot, SlotOf, PlayingSlot

\* Where the player and the server stand while commands are executed.
LEMMA AtCommands ==
  ASSUME Runs, turn = "commands"
  PROVE  /\ \/ Game \/ Reconnecting
            \/ InSlot(1) /\ Reconnects(cbuf, 2)
            \/ \E k \in 1..3 : Replies(k) /\ Reconnects(cbuf, 2 - k)
         /\ ~Game => ~host_client.spawned
<1>1. ASSUME NEW k \in 1..3, SignsOn(k)
      PROVE  \/ InSlot(1) /\ Reconnects(cbuf, 2)
             \/ Replies(k) /\ Reconnects(cbuf, 2 - k)
  <2>1. ~Told(k) /\ ~Asked(k)
    BY DEF Told, Asked
  <2>2. InSlot(k) => k = 1 /\ Reconnects(cbuf, 2)
    BY DEF InSlot
  <2>3. Replies(k) => Reconnects(cbuf, 2 - k)
    BY DEF Replies
  <2> QED
    BY <1>1, <2>1, <2>2, <2>3 DEF SignsOn
<1>2. ASSUME ~Game
      PROVE  ~host_client.spawned
  BY <1>2, SlotsAre
     DEF Runs, Stands, Reconnecting, SignsOn, InSlot, Told, Replies, Asked
<1> QED
  BY <1>1, <1>2 DEF Runs, Stands

LEMMA SayInOrder ==
  ASSUME Wire, Runs, failure = "none", Cmd_ForwardToServer
  PROVE  LocalInv'
<1>1. /\ turn = "commands" /\ cbuf # <<>> /\ Head(cbuf) = "say"
      /\ cbuf' = Tail(cbuf)
      /\ cls' = [cls EXCEPT !.message = Append(cls.message, Say)]
      /\ turn' = turn /\ level' = level /\ host_client' = host_client
      /\ UNCHANGED driverVars /\ failure' = failure
  BY DEF Cmd_ForwardToServer, NextCommand, Say
<1>2. Wire' /\ sock' = sock /\ (\A e : HeldBy(e)' = HeldBy(e))
  BY <1>1, WireKept
<1>3. /\ SaysOnly' = SaysOnly /\ Untold' = Untold
      /\ (\A body : TellsOnly(body)' = TellsOnly(body))
  BY <1>2 DEF SaysOnly, Untold, TellsOnly
<1>4. cls \in PlayerType
  BY DEF Runs
<1>5. Append(cls.message, Say) \in Seq(ClientCmd)
  BY <1>4, CommandsAre DEF PlayerType
<1>6. /\ cls' \in PlayerType /\ cls'.message = Append(cls.message, Say)
      /\ cls'.signon = cls.signon /\ cls'.level = cls.level
  BY <1>1, <1>4, <1>5, PlayerWith
<1>7. cls.message \in Talk => cls'.message \in Talk
  BY <1>6 DEF Talk
<1>8. \A n \in Int : Reconnects(cbuf, n) => Reconnects(cbuf', n)
  BY <1>1, ReconnectsTail
<1>9. cbuf \in Seq(Plain) => cbuf' \in Seq(Plain) /\ Waits(cbuf') = Waits(cbuf)
  <2>1. cbuf \in Seq(Plain) =>
          /\ cbuf' \in Seq(Plain) /\ Waits(cbuf') \in Nat
          /\ Waits(cbuf) = 0 + Waits(cbuf')
    BY <1>1, PlainIs
  <2> QED
    BY <2>1
<1>10. ASSUME Game
       PROVE  Stands'
  <2>1. cbuf' \in Seq(Plain) \/ ChangesLevel(cbuf')
    BY <1>1, <1>9, <1>10, ChangesTail DEF Game
  <2>2. Game'
    BY <1>1, <1>2, <1>3, <1>6, <1>7, <1>10, <2>1 DEF Game
  <2> QED
    BY <2>2 DEF Stands
<1>11. ASSUME Reconnecting
       PROVE  Stands'
  <2>1. Reconnecting'
    BY <1>1, <1>2, <1>3, <1>6, <1>7, <1>9, <1>11 DEF Reconnecting
  <2> QED
    BY <2>1 DEF Stands
<1>12. ASSUME InSlot(1), Reconnects(cbuf, 2)
       PROVE  Stands'
  <2>1. InSlot(1)'
    BY <1>1, <1>2, <1>3, <1>6, <1>7, <1>8, <1>12 DEF InSlot
  <2> QED
    BY <2>1 DEF Stands, SignsOn
<1>13. ASSUME NEW k \in 1..3, Replies(k), Reconnects(cbuf, 2 - k)
       PROVE  Stands'
  <2>1. Reconnects(cbuf', 2 - k)
    BY <1>8, <1>13
  <2>2. Requests(k, cls'.message)
    BY <1>6, <1>13, AsksMore DEF Replies
  <2>3. Replies(k)'
    BY <1>1, <1>2, <1>3, <1>6, <1>13, <2>1, <2>2 DEF Replies
  <2> QED
    BY <2>3 DEF Stands, SignsOn
<1>14. Stands'
  BY <1>1, <1>10, <1>11, <1>12, <1>13, AtCommands
<1>15. Runs'
  BY <1>1, <1>2, <1>6, <1>14 DEF Runs
<1> QED
  BY <1>2, <1>15, StaysInOrder

LEMMA ReconnectInOrder ==
  ASSUME Wire, Runs, failure = "none", Host_Reconnect_f
  PROVE  LocalInv'
<1>1. /\ turn = "commands" /\ cbuf # <<>> /\ Head(cbuf) = "reconnect"
      /\ cbuf' = Tail(cbuf)
      /\ cls' = [cls EXCEPT !.signon = 0]
      /\ turn' = turn /\ level' = level /\ host_client' = host_client
      /\ UNCHANGED driverVars /\ failure' = failure
  BY DEF Host_Reconnect_f, NextCommand
<1>2. Wire' /\ sock' = sock /\ (\A e : HeldBy(e)' = HeldBy(e))
  BY <1>1, WireKept
<1>3. /\ SaysOnly' = SaysOnly /\ Untold' = Untold
      /\ (\A body : TellsOnly(body)' = TellsOnly(body))
  BY <1>2 DEF SaysOnly, Untold, TellsOnly
<1>4. cls \in PlayerType
  BY DEF Runs
<1>5. /\ cls' \in PlayerType /\ cls'.message = cls.message
      /\ cls'.signon = 0 /\ cls'.level = cls.level
  BY <1>1, <1>4, PlayerWith
<1>6. \A n \in Int : Reconnects(cbuf, n) => cbuf' \in Seq(Plain)
  BY <1>1, ReconnectsTail
<1>7. cbuf \notin Seq(Plain) /\ ~ChangesLevel(cbuf)
  <2>1. cbuf \in Seq(Plain) => Head(cbuf) \in Plain
    BY <1>1, PlainIs
  <2> QED
    BY <1>1, <2>1, ChangesTail DEF Plain
<1>8. ~Game /\ ~Reconnecting
  BY <1>7 DEF Game, Reconnecting
<1>9. ASSUME InSlot(1), Reconnects(cbuf, 2)
      PROVE  Stands'
  <2>1. \A n : Reconnects(cbuf', n)
    <3>1. 2 \in Int
      OBVIOUS
    <3>2. cbuf' \in Seq(Plain)
      BY <1>6, <1>9, <3>1
    <3> QED
      BY <3>2 DEF Reconnects
  <2>2. InSlot(1)'
    BY <1>1, <1>2, <1>3, <1>5, <1>9, <2>1 DEF InSlot
  <2> QED
    BY <2>2 DEF Stands, SignsOn
<1>10. ASSUME NEW k \in 1..3, Replies(k), Reconnects(cbuf, 2 - k)
       PROVE  Stands'
  <2>1. k # 3
    <3>1. k = 3 => 2 - k < 0
      OBVIOUS
    <3>2. 2 - k \in Int
      OBVIOUS
    <3> QED
      BY <1>7, <1>10, <3>1, <3>2, NoMoreWaits
  <2>2. \A n : Reconnects(cbuf', n)
    <3>1. 2 - k \in Int
      OBVIOUS
    <3>2. cbuf' \in Seq(Plain)
      BY <1>6, <1>10, <3>1
    <3> QED
      BY <3>2 DEF Reconnects
  <2>3. Replies(k)'
    BY <1>1, <1>2, <1>3, <1>5, <1>10, <2>1, <2>2 DEF Replies
  <2> QED
    BY <2>3 DEF Stands, SignsOn
<1>11. Stands'
  BY <1>1, <1>8, <1>9, <1>10, AtCommands
<1>12. Runs'
  BY <1>1, <1>2, <1>5, <1>11 DEF Runs
<1> QED
  BY <1>2, <1>12, StaysInOrder

LEMMA ExecuteEndsInOrder ==
  ASSUME Wire, Runs, failure = "none", Cbuf_ExecuteEnds
  PROVE  LocalInv'
<1>1. /\ turn = "commands" /\ turn' = "move"
      /\ \/ cbuf = <<>> /\ cbuf' = cbuf
         \/ cbuf # <<>> /\ Head(cbuf) = "wait" /\ cbuf' = Tail(cbuf)
      /\ cls' = cls /\ level' = level /\ host_client' = host_client
      /\ UNCHANGED driverVars /\ failure' = failure
  BY DEF Cbuf_ExecuteEnds, NextCommand
<1>2. Wire' /\ sock' = sock /\ (\A e : HeldBy(e)' = HeldBy(e))
  BY <1>1, WireKept
<1>3. /\ SaysOnly' = SaysOnly /\ Untold' = Untold
      /\ (\A body : TellsOnly(body)' = TellsOnly(body))
  BY <1>2 DEF SaysOnly, Untold, TellsOnly
<1>4. \A n \in Int : Reconnects(cbuf, n) => Reconnects(cbuf', n - 1)
  <2>1. CASE cbuf # <<>> /\ Head(cbuf) = "wait" /\ cbuf' = Tail(cbuf)
    BY <2>1, ReconnectsTail
  <2>2. CASE cbuf = <<>> /\ cbuf' = cbuf
    <3>1. <<>> \in Seq(Plain)
      OBVIOUS
    <3>2. cbuf' \in Seq(Plain)
      BY <2>2, <3>1
    <3> QED
      BY <3>2 DEF Reconnects
  <2> QED
    BY <1>1, <2>1, <2>2
<1>5. cbuf \in Seq(Plain) =>
        cbuf' \in Seq(Plain) /\ (Waits(cbuf) <= 3 => Waits(cbuf') <= 2)
  <2> SUFFICES ASSUME cbuf \in Seq(Plain)
               PROVE  /\ cbuf' \in Seq(Plain)
                      /\ Waits(cbuf) <= 3 => Waits(cbuf') <= 2
    OBVIOUS
  <2>1. CASE cbuf = <<>> /\ cbuf' = cbuf
    <3>1. Waits(<<>>) = 0 /\ <<>> \in Seq(Plain)
      BY PlainIs
    <3> QED
      BY <2>1, <3>1
  <2>2. CASE cbuf # <<>> /\ Head(cbuf) = "wait" /\ cbuf' = Tail(cbuf)
    <3>1. /\ cbuf' \in Seq(Plain) /\ Waits(cbuf') \in Nat
          /\ Waits(cbuf) = 1 + Waits(cbuf')
      BY <2>2, PlainIs
    <3> QED
      BY <3>1
  <2> QED
    BY <1>1, <2>1, <2>2
<1>6. ~ChangesLevel(cbuf)
  BY <1>1, ChangesTail
<1>7. ASSUME Game
      PROVE  Stands'
  <2>1. cbuf' \in Seq(Plain)
    BY <1>5, <1>6, <1>7 DEF Game
  <2>2. Game'
    BY <1>1, <1>2, <1>3, <1>7, <2>1 DEF Game
  <2> QED
    BY <2>2 DEF Stands
<1>8. ASSUME Reconnecting
      PROVE  Stands'
  <2>1. Reconnecting'
    BY <1>1, <1>2, <1>3, <1>5, <1>8 DEF Reconnecting
  <2> QED
    BY <2>1 DEF Stands
<1>9. ASSUME InSlot(1), Reconnects(cbuf, 2)
      PROVE  Stands'
  <2>1. Reconnects(cbuf', 2 - 1)
    BY <1>4, <1>9
  <2>2. InSlot(1)'
    BY <1>1, <1>2, <1>3, <1>9, <2>1 DEF InSlot
  <2> QED
    BY <2>2 DEF Stands, SignsOn
<1>10. ASSUME NEW k \in 1..3, Replies(k), Reconnects(cbuf, 2 - k)
       PROVE  Stands'
  <2>1. 2 - k \in Int /\ (2 - k) - 1 = 1 - k
    OBVIOUS
  <2>2. Reconnects(cbuf', 1 - k)
    BY <1>4, <1>10, <2>1
  <2>3. Replies(k)'
    BY <1>1, <1>2, <1>3, <1>10, <2>2 DEF Replies
  <2> QED
    BY <2>3 DEF Stands, SignsOn
<1>11. Stands'
  BY <1>1, <1>7, <1>8, <1>9, <1>10, AtCommands
<1>12. Runs'
  BY <1>1, <1>2, <1>11 DEF Runs
<1> QED
  BY <1>2, <1>12, StaysInOrder

-----------------------------------------------------------------------------
(* A change of level.                                                      *)

LEMMA WireHoldsNext ==
  ASSUME Wire', NEW e \in Endpoint
  PROVE  sock'[Peer(e)].canSend => \A m \in HeldBy(e)' : m.type = 2
<1> DEFINE k == sock'
           s == sent'
           d == delivered'
<1>1. Driver(k, s, d)
  BY DEF Wire
<1> HIDE DEF k, s, d
<1>2. /\ k[Peer(e)].canSend => \A m \in Held(k[e].receiveMessage) : m.type # 1
      /\ \A m \in Held(k[e].receiveMessage) : m \in LoopMessage
  BY <1>1, EmptyHolds
<1>3. \A m \in Held(k[e].receiveMessage) : m.type \in {1, 2}
  BY <1>2 DEF LoopMessage
<1> QED
  BY <1>2, <1>3 DEF HeldBy, k

LEMMA EndsNamed ==
  /\ "client" \in Endpoint /\ "server" \in Endpoint
  /\ Peer("client") = "server" /\ Peer("server") = "client"
BY DEF Endpoint, Peer

\* A new level's serverinfo in a slot with nothing else to send.
LEMMA ServerinfoSlot ==
  ASSUME NEW s, s.message = <<>>,
         s \in [spawned : BOOLEAN, sendsignon : BOOLEAN, message : {<<>>}],
         NEW l \in Nat
  PROVE  SV_SendServerinfo(s, l) = SlotOf(StageOf(1, l))
<1> DEFINE body == <<Cmd("serverinfo", l), Signonnum(1)>>
<1>1. body \in Seq(ServerCmd)
  <2>1. Cmd("serverinfo", l) \in ServerCmd /\ Signonnum(1) \in ServerCmd
    BY CommandsAre
  <2> QED
    BY <2>1
<1>2. StageOf(1, l) = body
  BY DEF StageOf
<1>3. SV_SendServerinfo(s, l) =
        [s EXCEPT !.message = s.message \o body, !.sendsignon = TRUE,
                  !.spawned = FALSE]
  BY DEF SV_SendServerinfo
<1> HIDE DEF body
<1>4. <<>> \o body = body
  BY <1>1, ConcatEmptySeq
<1>5. [s EXCEPT !.message = body, !.sendsignon = TRUE, !.spawned = FALSE]
        = [spawned |-> FALSE, sendsignon |-> TRUE, message |-> body]
  <2> DEFINE F == {"spawned", "sendsignon", "message"}
             u == [s EXCEPT !.message = body, !.sendsignon = TRUE,
                            !.spawned = FALSE]
             t == [spawned |-> FALSE, sendsignon |-> TRUE, message |-> body]
  <2>1. DOMAIN s = F
    OBVIOUS
  <2>2. /\ DOMAIN u = F /\ u = [x \in F |-> u[x]]
        /\ u.spawned = FALSE /\ u.sendsignon = TRUE /\ u.message = body
    BY <2>1
  <2>3. /\ DOMAIN t = F /\ t = [x \in F |-> t[x]]
        /\ t.spawned = FALSE /\ t.sendsignon = TRUE /\ t.message = body
    OBVIOUS
  <2> HIDE DEF u, t
  <2>4. \A x \in F : u[x] = t[x]
    BY <2>2, <2>3
  <2> HIDE DEF F
  <2>5. u = t
    BY <2>2, <2>3, <2>4
  <2> QED
    BY <2>5 DEF u, t
<1> QED
  BY <1>2, <1>3, <1>4, <1>5 DEF SlotOf

\* Who takes what is there to take, and who leaves the driver alone.
LEMMA GetNumbered ==
  ASSUME Wire, NEW e \in Endpoint, Get(e)
  PROVE  Numbered
<1>1. /\ First(e).type = 1 => Taking(e)
      /\ First(e).type # 1 => UNCHANGED <<sent, delivered>>
  <2>1. /\ First(e).type = 1 =>
             /\ sent[Peer(e)] = Append(delivered[e], First(e).num)
             /\ First(e).num = Len(sent[Peer(e)])
             /\ delivered' = [delivered EXCEPT
                                ![e] = Append(delivered[e], First(e).num)]
        /\ First(e).type # 1 => delivered' = delivered
        /\ sent' = sent
    BY GetIs
  <2> QED
    BY <2>1 DEF Taking
<1> QED
  BY <1>1 DEF Numbered

LEMMA NothingNumbered ==
  ASSUME UNCHANGED driverVars
  PROVE  Numbered
BY DEF driverVars, Numbered

\* What has become of a message of the one or of the other.
ServerSent(k, body) ==
  Numbered /\
  \/ failure' = "overflow" /\ UNCHANGED driverVars
  \/ /\ failure' = "none" /\ Wire' /\ sock'["server"].canSend = FALSE
     /\ HeldBy("server")' = Held(k["server"].receiveMessage)
     /\ \A m \in HeldBy("client")' : \/ m \in Held(k["client"].receiveMessage)
                                     \/ m.type = 1 /\ m.body = body
ClientSent(k, body) ==
  Numbered /\
  \/ failure' = "overflow" /\ UNCHANGED driverVars
  \/ /\ failure' = "none" /\ Wire' /\ sock'["client"].canSend = FALSE
     /\ sock'["server"].canSend = k["server"].canSend
     /\ HeldBy("client")' = Held(k["client"].receiveMessage)
     /\ \A m \in HeldBy("server")' : \/ m \in Held(k["server"].receiveMessage)
                                     \/ m.type = 1 /\ m.body = body

LEMMA ServerSends ==
  ASSUME NEW k, Driver(k, sent, delivered), k["server"].canSend,
         NEW body \in Seq(GameCmd), SendReliably(k, "server", body),
         NET_MAXMESSAGE % 4 = 0, failure = "none"
  PROVE  ServerSent(k, body)
<1>1. ASSUME NEW e \in Endpoint, e = "server"
      PROVE  /\ Peer(e) = "client"
             /\ Numbered
             /\ \/ failure' = "overflow" /\ UNCHANGED driverVars
                \/ /\ failure' = "none" /\ Wire' /\ sock'[e].canSend = FALSE
                   /\ HeldBy(e)' = Held(k[e].receiveMessage)
                   /\ \A m \in HeldBy(Peer(e))' :
                        \/ m \in Held(k[Peer(e)].receiveMessage)
                        \/ m.type = 1 /\ m.body = body
  <2>1. WasSent(k, e, body)
    BY <1>1, SendReliablyIs
  <2> DEFINE m1 == [type |-> 1, num |-> Len(sent[e]) + 1, body |-> body]
  <2>2. m1.type = 1 /\ m1.body = body
    OBVIOUS
  <2>3. \/ failure' = "overflow" /\ UNCHANGED driverVars
        \/ /\ failure' = failure
           /\ Wire' /\ sock'[e].canSend = FALSE
           /\ HeldBy(e)' = Held(k[e].receiveMessage)
           /\ HeldBy(Peer(e))' \subseteq
                Held(k[Peer(e)].receiveMessage) \cup {m1}
           /\ sock'[Peer(e)].canSend = k[Peer(e)].canSend
    BY <2>1 DEF WasSent
  <2>4. Numbered
    <3>1. UNCHANGED driverVars \/ Sending(e)
      BY <2>1 DEF WasSent, Sending
    <3> QED
      BY <3>1, NothingNumbered DEF Numbered
  <2> HIDE DEF m1
  <2> QED
    BY <1>1, <2>2, <2>3, <2>4, EndsNamed
<1> QED
  BY <1>1, EndsNamed DEF ServerSent

LEMMA ClientSends ==
  ASSUME NEW k, Driver(k, sent, delivered), k["client"].canSend,
         NEW body \in Seq(GameCmd), SendReliably(k, "client", body),
         NET_MAXMESSAGE % 4 = 0, failure = "none"
  PROVE  ClientSent(k, body)
<1>1. ASSUME NEW e \in Endpoint, e = "client"
      PROVE  /\ Peer(e) = "server"
             /\ Numbered
             /\ \/ failure' = "overflow" /\ UNCHANGED driverVars
                \/ /\ failure' = "none" /\ Wire' /\ sock'[e].canSend = FALSE
                   /\ sock'[Peer(e)].canSend = k[Peer(e)].canSend
                   /\ HeldBy(e)' = Held(k[e].receiveMessage)
                   /\ \A m \in HeldBy(Peer(e))' :
                        \/ m \in Held(k[Peer(e)].receiveMessage)
                        \/ m.type = 1 /\ m.body = body
  <2>1. WasSent(k, e, body)
    BY <1>1, SendReliablyIs
  <2> DEFINE m1 == [type |-> 1, num |-> Len(sent[e]) + 1, body |-> body]
  <2>2. m1.type = 1 /\ m1.body = body
    OBVIOUS
  <2>3. \/ failure' = "overflow" /\ UNCHANGED driverVars
        \/ /\ failure' = failure
           /\ Wire' /\ sock'[e].canSend = FALSE
           /\ HeldBy(e)' = Held(k[e].receiveMessage)
           /\ HeldBy(Peer(e))' \subseteq
                Held(k[Peer(e)].receiveMessage) \cup {m1}
           /\ sock'[Peer(e)].canSend = k[Peer(e)].canSend
    BY <2>1 DEF WasSent
  <2>4. Numbered
    <3>1. UNCHANGED driverVars \/ Sending(e)
      BY <2>1 DEF WasSent, Sending
    <3> QED
      BY <3>1, NothingNumbered DEF Numbered
  <2> HIDE DEF m1
  <2> QED
    BY <1>1, <2>2, <2>3, <2>4, EndsNamed
<1> QED
  BY <1>1, EndsNamed DEF ClientSent

LEMMA ChangelevelInOrder ==
  ASSUME Wire, Runs, DatagramsFit, failure = "none", Changelevel_f
  PROVE  LocalInv' /\ Numbered /\ Untold
<1> DEFINE recalled == Recalled
<1>1. /\ turn = "commands" /\ turn' = turn
      /\ cbuf # <<>> /\ Head(cbuf) = "changelevel" /\ cbuf' = Tail(cbuf)
      /\ SendReliably(sock, "server", recalled)
      /\ cls' = [cls EXCEPT !.signon = 0] /\ level' = level + 1
      /\ host_client' = SV_SendServerinfo(host_client, level + 1)
  BY DEF Changelevel_f, NextCommand, Recalled
<1>2. cls \in PlayerType /\ level \in Nat /\ HeldBy("server") = {}
  BY <1>1 DEF Runs
<1>3. Game /\ cbuf' \in Seq(Plain) /\ Waits(cbuf') <= 3
  <2>1. cbuf \notin Seq(Plain)
    <3>1. cbuf \in Seq(Plain) => Head(cbuf) \in Plain
      BY <1>1, PlainIs
    <3> QED
      BY <1>1, <3>1 DEF Plain
  <2>2. \A n \in Int : ~Reconnects(cbuf, n)
    <3>1. ASSUME NEW n \in Int, Reconnects(cbuf, n)
          PROVE  FALSE
      <4>1. Head(cbuf) \in Plain \cup {"reconnect"}
        BY <1>1, <3>1, ReconnectsTail
      <4> QED
        BY <1>1, <4>1 DEF Plain
    <3> QED
      BY <3>1
  <2>3. 2 \in Int /\ \A k \in 1..3 : 2 - k \in Int
    OBVIOUS
  <2>4. Game
    BY <1>1, <2>1, <2>2, <2>3, AtCommands DEF Reconnecting
  <2>5. ChangesLevel(cbuf)
    BY <2>1, <2>4 DEF Game
  <2> QED
    BY <1>1, <2>4, <2>5, ChangesTail
<1>4. /\ host_client \in PlayingSlot /\ host_client.message = <<>>
      /\ HeldBy("client") = {} /\ cls.message \in Talk
  BY <1>1, <1>3 DEF Game, Untold
<1>5. host_client' = SlotOf(StageOf(1, level'))
  <2>1. host_client \in [spawned : BOOLEAN, sendsignon : BOOLEAN,
                         message : {<<>>}]
    BY <1>4 DEF PlayingSlot
  <2>2. level + 1 \in Nat
    BY <1>2
  <2> QED
    BY <1>1, <1>4, <2>1, <2>2, ServerinfoSlot
<1>6. /\ cls' \in PlayerType /\ cls'.message = cls.message
      /\ cls'.signon = 0 /\ cls'.level = cls.level
  BY <1>1, <1>2, PlayerWith
<1>7. sock["server"].canSend
  BY <1>4, WireHolds, EndsNamed
<1>8. Numbered /\
      \/ failure' = "overflow" /\ UNCHANGED driverVars
      \/ /\ failure' = "none" /\ Wire' /\ sock'["server"].canSend = FALSE
         /\ HeldBy("server")' = HeldBy("server")
         /\ \A m \in HeldBy("client")' : m.type = 1 /\ m.body = Recalled
  <2> DEFINE k == sock
  <2>1. Driver(k, sent, delivered) /\ k["server"].canSend
        /\ SendReliably(k, "server", recalled)
    BY <1>1, <1>7 DEF Wire
  <2>2. recalled \in Seq(GameCmd) /\ NET_MAXMESSAGE % 4 = 0
    BY BodiesAre DEF DatagramsFit
  <2>3. /\ Held(k["client"].receiveMessage) = {}
        /\ HeldBy("server") = Held(k["server"].receiveMessage)
    BY <1>4 DEF HeldBy
  <2> HIDE DEF k, recalled
  <2>4. ServerSent(k, recalled)
    BY <2>1, <2>2, ServerSends
  <2> QED
    BY <2>3, <2>4 DEF ServerSent, recalled
<1>9. CASE failure' = "overflow" /\ UNCHANGED driverVars
  <2>1. LocalSpawnedIsSignedOn'
    BY <1>5, SlotsAre DEF LocalSpawnedIsSignedOn
  <2> QED
    BY <1>4, <1>8, <1>9, <2>1, OverflowEnds DEF Untold
<1>10. CASE /\ failure' = "none" /\ Wire' /\ sock'["server"].canSend = FALSE
            /\ HeldBy("server")' = HeldBy("server")
            /\ \A m \in HeldBy("client")' : m.type = 1 /\ m.body = Recalled
  <2>1. SaysOnly' /\ TellsOnly(Recalled)'
    BY <1>2, <1>10 DEF SaysOnly, TellsOnly
  <2>2. Reconnecting'
    BY <1>1, <1>3, <1>4, <1>5, <1>6, <2>1 DEF Reconnecting
  <2>3. Runs'
    BY <1>1, <1>2, <1>6, <1>10, <2>2 DEF Runs, Stands
  <2> QED
    BY <1>4, <1>8, <1>10, <2>3, StaysInOrder DEF Untold
<1> QED
  BY <1>8, <1>9, <1>10

-----------------------------------------------------------------------------
(* CL_SendCmd, and what the server reads.                                  *)

LEMMA NothingSent ==
  ASSUME NEW k, Driver(k, sent, delivered), SendNothing(k)
  PROVE  /\ Wire' /\ failure' = failure /\ sock' = k /\ Numbered
         /\ \A e : HeldBy(e)' = Held(k[e].receiveMessage)
BY DEF SendNothing, Wire, HeldBy, Numbered

\* The player's part of a frame leaves moves, and what it had to say.
LEMMA SendCmdIs ==
  ASSUME Wire, Runs, DatagramsFit, failure = "none", NEW moves \in Nat,
         SendCmd(moves)
  PROVE  /\ turn = "move" /\ turn' = "clients" /\ cbuf' = cbuf
         /\ level' = level /\ host_client' = host_client
         /\ cls' \in PlayerType /\ cls'.message = <<>>
         /\ cls'.signon = cls.signon /\ cls'.level = cls.level /\ Numbered
         /\ \/ failure' = "overflow" /\ UNCHANGED driverVars
            \/ /\ failure' = "none" /\ Wire'
               /\ cls.message # <<>> => ~sock'["client"].canSend
               /\ sock'["server"].canSend = sock["server"].canSend
               /\ HeldBy("client")' = HeldBy("client")
               /\ \A m \in HeldBy("server")' :
                    \/ m.type = 2 /\ m.body = Moved
                    \/ m.type = 1 /\ m.body = cls.message
<1> DEFINE k == CL_SendLagMove(moves)
           says == cls.message # <<>>
<1>1. /\ turn = "move" /\ turn' = "clients" /\ cbuf' = cbuf
      /\ level' = level /\ host_client' = host_client
      /\ IF says /\ k["client"].canSend
         THEN /\ SendReliably(k, "client", cls.message)
              /\ cls' = [cls EXCEPT !.message = <<>>]
         ELSE SendNothing(k) /\ cls' = cls
  BY DEF SendCmd
<1>2. cls \in PlayerType /\ HeldBy("server") = {}
  BY <1>1 DEF Runs
<1>3. /\ Driver(k, sent, delivered) /\ k["client"] = sock["client"]
      /\ k["server"].canSend = sock["server"].canSend
      /\ \A m \in Held(k["server"].receiveMessage) :
           m \in HeldBy("server") \/ (m.type = 2 /\ m.body = Moved)
  BY MovesAreSent
<1> HIDE DEF k
<1>4. sock["client"].canSend
  BY <1>2, WireHolds, EndsNamed
<1>5. Held(k["client"].receiveMessage) = HeldBy("client")
  BY <1>3 DEF HeldBy
<1>6. \A m \in Held(k["server"].receiveMessage) : m.type = 2 /\ m.body = Moved
  BY <1>2, <1>3
<1>7. CASE says
  <2>1. /\ SendReliably(k, "client", cls.message)
        /\ cls' = [cls EXCEPT !.message = <<>>]
    BY <1>1, <1>3, <1>4, <1>7
  <2>2. <<>> \in Seq(ClientCmd)
    OBVIOUS
  <2>3. /\ cls' \in PlayerType /\ cls'.message = <<>>
        /\ cls'.signon = cls.signon /\ cls'.level = cls.level
    BY <1>2, <2>1, <2>2, PlayerWith
  <2>4. cls.message \in Seq(ClientCmd)
    BY <1>2 DEF PlayerType
  <2> DEFINE body == cls.message
  <2>5. body \in Seq(GameCmd) /\ NET_MAXMESSAGE % 4 = 0
    BY <2>4, BodiesAre DEF DatagramsFit
  <2>6. SendReliably(k, "client", body) /\ k["client"].canSend
    BY <1>3, <1>4, <2>1
  <2> HIDE DEF body
  <2>7. ClientSent(k, body)
    BY <1>3, <2>5, <2>6, ClientSends
  <2>8. Numbered /\
        \/ failure' = "overflow" /\ UNCHANGED driverVars
        \/ /\ failure' = "none" /\ Wire' /\ ~sock'["client"].canSend
           /\ sock'["server"].canSend = sock["server"].canSend
           /\ HeldBy("client")' = HeldBy("client")
           /\ \A m \in HeldBy("server")' : \/ m.type = 2 /\ m.body = Moved
                                           \/ m.type = 1 /\ m.body = body
    BY <1>3, <1>5, <1>6, <2>7 DEF ClientSent
  <2> QED
    BY <1>1, <2>3, <2>8 DEF body
<1>8. CASE ~says
  <2>1. SendNothing(k) /\ cls' = cls
    BY <1>1, <1>8
  <2>2. /\ Wire' /\ failure' = "none" /\ sock' = k /\ Numbered
        /\ \A e : HeldBy(e)' = Held(k[e].receiveMessage)
    BY <1>3, <2>1, NothingSent
  <2>3. /\ sock'["server"].canSend = sock["server"].canSend
        /\ HeldBy("client")' = HeldBy("client")
        /\ \A m \in HeldBy("server")' : m.type = 2 /\ m.body = Moved
    BY <1>3, <1>5, <1>6, <2>2
  <2> QED
    BY <1>1, <1>2, <1>8, <2>1, <2>2, <2>3
<1> QED
  BY <1>7, <1>8

LEMMA SendCmdInOrder ==
  ASSUME Wire, Runs, LocalSpawnedIsSignedOn, DatagramsFit, failure = "none",
         NEW moves \in Nat, SendCmd(moves)
  PROVE  LocalInv' /\ Numbered
<1>1. /\ turn = "move" /\ turn' = "clients" /\ cbuf' = cbuf
      /\ level' = level /\ host_client' = host_client
      /\ cls' \in PlayerType /\ cls'.message = <<>>
      /\ cls'.signon = cls.signon /\ cls'.level = cls.level /\ Numbered
      /\ \/ failure' = "overflow" /\ UNCHANGED driverVars
         \/ /\ failure' = "none" /\ Wire'
            /\ cls.message # <<>> => ~sock'["client"].canSend
            /\ sock'["server"].canSend = sock["server"].canSend
            /\ HeldBy("client")' = HeldBy("client")
            /\ \A m \in HeldBy("server")' :
                 \/ m.type = 2 /\ m.body = Moved
                 \/ m.type = 1 /\ m.body = cls.message
  BY SendCmdIs
<1>2. CASE failure' = "overflow" /\ UNCHANGED driverVars
  <2>1. LocalSpawnedIsSignedOn'
    BY <1>1 DEF LocalSpawnedIsSignedOn
  <2> QED
    BY <1>1, <1>2, <2>1, OverflowEnds
<1>3. CASE /\ failure' = "none" /\ Wire'
           /\ cls.message # <<>> => ~sock'["client"].canSend
           /\ sock'["server"].canSend = sock["server"].canSend
           /\ HeldBy("client")' = HeldBy("client")
           /\ \A m \in HeldBy("server")' :
                \/ m.type = 2 /\ m.body = Moved
                \/ m.type = 1 /\ m.body = cls.message
  <2>1. /\ Untold' = Untold
        /\ \A body : TellsOnly(body)' = TellsOnly(body)
    BY <1>3 DEF Untold, TellsOnly
  <2>2. cls.message \in Talk => SaysOnly'
    BY <1>3 DEF SaysOnly
  <2>3. cls'.message \in Talk
    BY <1>1 DEF Talk
  <2>4. ASSUME Game
        PROVE  Stands'
    <3>1. Game'
      BY <1>1, <1>3, <2>1, <2>2, <2>3, <2>4 DEF Game
    <3> QED
      BY <3>1 DEF Stands
  <2>5. ASSUME Reconnecting
        PROVE  Stands'
    <3>1. Reconnecting'
      BY <1>1, <2>1, <2>2, <2>3, <2>5 DEF Reconnecting
    <3> QED
      BY <3>1 DEF Stands
  <2>6. ASSUME NEW i \in 1..3, InSlot(i)
        PROVE  Stands'
    <3>1. i = 1
      BY <1>1, <2>6 DEF InSlot
    <3>2. InSlot(1)'
      BY <1>1, <2>1, <2>2, <2>3, <2>6, <3>1 DEF InSlot
    <3> QED
      BY <3>2 DEF Stands, SignsOn
  <2>7. ASSUME NEW i \in 1..3, Replies(i)
        PROVE  Stands'
    <3>1. Requests(i, cls.message)
      BY <2>7 DEF Replies
    <3>2. cls.message # <<>>
      BY <3>1 DEF Requests
    <3>3. AsksOnly(i)'
      BY <1>3, <3>1, <3>2 DEF AsksOnly
    <3>4. Asked(i)'
      BY <1>1, <2>1, <2>7, <3>3 DEF Replies, Asked
    <3> QED
      BY <3>4 DEF Stands, SignsOn
  <2>8. \A i : ~Told(i) /\ ~Asked(i)
    BY <1>1 DEF Told, Asked
  <2>9. Stands'
    BY <2>4, <2>5, <2>6, <2>7, <2>8 DEF Runs, Stands, SignsOn
  <2>10. Runs'
    BY <1>1, <1>3, <2>9 DEF Runs
  <2> QED
    BY <1>1, <1>3, <2>10, StaysInOrder
<1> QED
  BY <1>1, <1>2, <1>3

LEMMA ClientsReadInOrder ==
  ASSUME Wire, Runs, failure = "none", SV_ReadClientMessageEnds
  PROVE  LocalInv'
<1>1. /\ turn = "clients" /\ turn' = "messages" /\ ~Waiting("server")
      /\ cbuf' = cbuf /\ level' = level /\ host_client' = host_client
      /\ cls' = cls /\ UNCHANGED driverVars /\ failure' = failure
  BY DEF SV_ReadClientMessageEnds
<1>2. Wire' /\ sock' = sock /\ (\A e : HeldBy(e)' = HeldBy(e))
  BY <1>1, WireKept
<1>3. /\ SaysOnly' = SaysOnly /\ Untold' = Untold
      /\ (\A body : TellsOnly(body)' = TellsOnly(body))
  BY <1>2 DEF SaysOnly, Untold, TellsOnly
<1>4. HeldBy("server") = {} /\ sock["client"].canSend
  BY <1>1, WireHolds, EndsNamed
<1>5. ASSUME Game
      PROVE  Stands'
  <2>1. Game'
    BY <1>1, <1>2, <1>3, <1>5 DEF Game
  <2> QED
    BY <2>1 DEF Stands
<1>6. ASSUME Reconnecting
      PROVE  Stands'
  <2>1. Reconnecting'
    BY <1>1, <1>3, <1>6 DEF Reconnecting
  <2> QED
    BY <2>1 DEF Stands
<1>7. ASSUME NEW k \in 1..3, InSlot(k)
      PROVE  Stands'
  <2>1. InSlot(k)'
    BY <1>1, <1>3, <1>7 DEF InSlot
  <2> QED
    BY <2>1 DEF Stands, SignsOn
<1>8. \A k : ~Told(k) /\ ~Replies(k) /\ ~Asked(k)
  BY <1>1, <1>4 DEF Told, Replies, Asked, AsksOnly
<1>9. Stands'
  BY <1>5, <1>6, <1>7, <1>8 DEF Runs, Stands, SignsOn
<1>10. Runs'
  BY <1>1, <1>2, <1>4, <1>9 DEF Runs
<1> QED
  BY <1>2, <1>10, StaysInOrder

LEMMA ClientMessageInOrder ==
  ASSUME Wire, Runs, failure = "none", SV_ReadClientMessage
  PROVE  LocalInv'
<1> DEFINE m == First("server")
           body == m.body
<1>1. /\ turn = "clients" /\ turn' = turn /\ Get("server")
      /\ host_client' = ExecuteAll(host_client, body)
      /\ cbuf' = cbuf /\ level' = level /\ cls' = cls /\ failure' = failure
  BY DEF SV_ReadClientMessage
<1>2. /\ Wire' /\ m \in HeldBy("server")
      /\ HeldBy("server")' \subseteq HeldBy("server")
      /\ HeldBy("client")' = HeldBy("client")
      /\ sock'["server"].canSend = sock["server"].canSend
      /\ m.type = 1 => sock'["client"].canSend
      /\ m.type # 1 => sock'["client"].canSend = sock["client"].canSend
  <2>1. ASSUME NEW e \in Endpoint, e = "server"
        PROVE  /\ Wire'
               /\ First(e) \in HeldBy(e) /\ HeldBy(e)' \subseteq HeldBy(e)
               /\ HeldBy(Peer(e))' = HeldBy(Peer(e))
               /\ sock'[e].canSend = sock[e].canSend
               /\ First(e).type = 1 => sock'[Peer(e)].canSend
               /\ First(e).type # 1 =>
                    sock'[Peer(e)].canSend = sock[Peer(e)].canSend
               /\ Peer(e) = "client"
    BY <1>1, <2>1, GetIs, EndsNamed
  <2> QED
    BY <2>1, EndsNamed
<1>3. sock'["client"].canSend => \A p \in HeldBy("server")' : p.type = 2
  BY <1>2, WireHoldsNext, EndsNamed
<1> HIDE DEF m
<1>4. /\ Untold' = Untold
      /\ \A b : TellsOnly(b)' = TellsOnly(b)
      /\ SaysOnly => SaysOnly' /\ (body = Moved \/ body \in Talk)
  BY <1>2 DEF Untold, TellsOnly, SaysOnly
<1> HIDE DEF body
<1>5. ASSUME Game
      PROVE  Stands'
  <2>1. host_client' \in PlayingSlot
    <3>1. CASE body = Moved
      BY <1>1, <1>5, <3>1, TalkIsIgnored DEF Game
    <3>2. CASE body \in Talk
      BY <1>1, <1>5, <3>2, TalkIsPrinted DEF Game
    <3> QED
      BY <1>4, <1>5, <3>1, <3>2 DEF Game
  <2>2. Game'
    BY <1>1, <1>2, <1>4, <1>5, <2>1 DEF Game
  <2> QED
    BY <2>2 DEF Stands
<1>6. ASSUME SaysOnly, ~host_client.spawned
      PROVE  host_client' = host_client
  BY <1>1, <1>4, <1>6, TalkIsIgnored
<1>7. ASSUME Reconnecting
      PROVE  Stands'
  <2>1. SaysOnly /\ ~host_client.spawned
    BY <1>7, SlotsAre DEF Reconnecting
  <2>2. Reconnecting'
    BY <1>1, <1>4, <1>6, <1>7, <2>1 DEF Reconnecting
  <2> QED
    BY <2>2 DEF Stands
<1>8. ASSUME NEW k \in 1..3, InSlot(k)
      PROVE  Stands'
  <2>1. SaysOnly /\ ~host_client.spawned
    BY <1>8, SlotsAre DEF InSlot
  <2>2. InSlot(k)'
    BY <1>1, <1>4, <1>6, <1>8, <2>1 DEF InSlot
  <2> QED
    BY <2>2 DEF Stands, SignsOn
<1>9. ASSUME NEW k \in 1..3, Asked(k)
      PROVE  Stands'
  <2>1. /\ host_client = IdleSlot /\ AsksOnly(k) /\ Untold
        /\ cls.signon \in {0, k} /\ (k = 3 => cls.signon = 3)
        /\ cls.level = level /\ cls.message = <<>> /\ Reconnects(cbuf, 1 - k)
    BY <1>9 DEF Asked
  <2>2. \/ m.type = 2 /\ body = Moved
        \/ m.type = 1 /\ Requests(k, body)
    BY <1>2, <2>1 DEF AsksOnly, body
  <2>3. CASE m.type = 2 /\ body = Moved
    <3>1. host_client' = IdleSlot
      BY <1>1, <2>1, <2>3, TalkIsIgnored
    <3>2. AsksOnly(k)'
      BY <1>2, <2>1, <2>3 DEF AsksOnly
    <3>3. Asked(k)'
      BY <1>1, <1>4, <2>1, <3>1, <3>2 DEF Asked
    <3> QED
      BY <3>3 DEF Stands, SignsOn
  <2>4. CASE m.type = 1 /\ Requests(k, body)
    <3>1. SaysOnly'
      BY <1>2, <1>3, <2>1, <2>4 DEF SaysOnly, AsksOnly
    <3>2. cls'.message \in Talk
      BY <1>1, <2>1 DEF Talk
    <3>3. CASE k = 3
      <4>1. host_client' \in PlayingSlot
        BY <1>1, <2>1, <2>4, <3>3, StageIsServed
      <4>2. cbuf \in Seq(Plain)
        <5>1. 1 - k \in Int /\ 1 - k < 0
          BY <3>3
        <5> QED
          BY <2>1, <5>1, NoMoreWaits
      <4>3. Game'
        BY <1>1, <1>4, <2>1, <3>1, <3>2, <3>3, <4>1, <4>2 DEF Game, Untold
      <4> QED
        BY <4>3 DEF Stands
    <3>4. CASE k < 3
      <4> DEFINE j == k + 1
      <4>1. j \in 1..3 /\ j # 1 /\ j - 1 = k /\ 2 - j = 1 - k /\ j > 1
        BY <3>4
      <4>2. StageOf(j, 0) = StageOf(j, level)
        BY <4>1 DEF StageOf
      <4>3. host_client' = SlotOf(StageOf(j, level))
        BY <1>1, <2>1, <2>4, <3>4, <4>2, StageIsServed
      <4>4. Reconnects(cbuf, 2 - j)
        BY <2>1, <4>1
      <4> HIDE DEF j
      <4>5. InSlot(j)'
        BY <1>1, <1>4, <2>1, <3>1, <3>2, <4>1, <4>3, <4>4 DEF InSlot
      <4> QED
        BY <4>1, <4>5 DEF Stands, SignsOn
    <3> QED
      BY <3>3, <3>4
  <2> QED
    BY <2>2, <2>3, <2>4
<1>10. \A k : ~Told(k) /\ ~Replies(k)
  BY <1>1 DEF Told, Replies
<1>11. Stands'
  BY <1>5, <1>7, <1>8, <1>9, <1>10 DEF Runs, Stands, SignsOn
<1>12. Runs'
  BY <1>1, <1>11 DEF Runs
<1> QED
  BY <1>2, <1>12, StaysInOrder

-----------------------------------------------------------------------------
(* SV_SendClientMessages.                                                  *)

\* The update of a player in the game: nothing lies before it.
LEMMA UpdateIsSent ==
  ASSUME Wire, DatagramsFit, HeldBy("client") = {}
  PROVE  LET k == Loop_SendUnreliableMessage(sock, "server", Updated) IN
         /\ Driver(k, sent, delivered) /\ k["server"] = sock["server"]
         /\ \A m \in Held(k["client"].receiveMessage) : m.body = Updated
<1>1. Updated \in Seq(GameCmd) /\ Length(Updated) + 3 # NET_MAXMESSAGE
  <2>1. Cmd("update", 0) \in GameCmd
    BY CommandsAre DEF GameCmd
  <2>2. <<>> \in Seq(GameCmd)
    OBVIOUS
  <2>3. Length(<<Cmd("update", 0)>>) = SizeOf(Cmd("update", 0))
    BY <2>1, <2>2, LengthIs
  <2>4. SizeOf(Cmd("update", 0)) = CommandSize["update"]
    BY DEF SizeOf, Kind, Cmd, Signonnum
  <2> QED
    BY <2>1, <2>3, <2>4 DEF Updated, DatagramsFit
<1> DEFINE body == Updated
           s == sent
           d == delivered
<1>2. ASSUME NEW e \in Endpoint, e = "server"
      PROVE  LET k == Loop_SendUnreliableMessage(sock, e, body) IN
             /\ Driver(k, s, d) /\ k[e] = sock[e] /\ Peer(e) = "client"
             /\ \A m \in Held(k[Peer(e)].receiveMessage) : m.body = body
  <2> DEFINE j == sock
             k == Loop_SendUnreliableMessage(j, e, body)
             update == [type |-> 2, num |-> 0, body |-> body]
  <2>1. Driver(j, s, d) /\ Peer(e) = "client"
    BY <1>2, EndsNamed DEF Wire
  <2>2. Held(j[Peer(e)].receiveMessage) = {}
    BY <2>1 DEF HeldBy
  <2>3. NET_MAXMESSAGE % 4 = 0
    BY DEF DatagramsFit
  <2>4. update.body = body
    OBVIOUS
  <2> HIDE DEF j, s, d, body
  <2>5. j[Peer(e)].receiveMessageLength = 0
    <3>1. Peer(e) \in Endpoint
      BY EndsAre
    <3> QED
      BY <2>1, <2>2, <3>1, EmptyHolds
  <2>6. /\ Driver(k, s, d) /\ k[e] = j[e]
        /\ Held(k[Peer(e)].receiveMessage) \subseteq
             Held(j[Peer(e)].receiveMessage) \cup {update}
    BY <1>1, <2>1, <2>3, <2>5, SendUnreliable DEF body
  <2> HIDE DEF update, k
  <2>7. /\ Driver(k, s, d) /\ k[e] = j[e] /\ Peer(e) = "client"
        /\ \A m \in Held(k[Peer(e)].receiveMessage) : m.body = body
    BY <2>1, <2>2, <2>4, <2>6
  <2> QED
    BY <2>7 DEF k, j
<1> HIDE DEF body, s, d
<1>3. LET k == Loop_SendUnreliableMessage(sock, "server", body) IN
      /\ Driver(k, s, d) /\ k["server"] = sock["server"]
      /\ \A m \in Held(k["client"].receiveMessage) : m.body = body
  BY <1>2, EndsNamed
<1> QED
  BY <1>3 DEF body, s, d

\* What the player gets: a datagram in the game, and what was to be sent.
LEMMA SendInGame ==
  ASSUME Wire, Runs, DatagramsFit, failure = "none", Game, NEW nop,
         SV_SendClientMessages(nop)
  PROVE  LocalInv' /\ Numbered
<1> DEFINE k == Loop_SendUnreliableMessage(sock, "server", Updated)
           body == host_client.message
<1>1. host_client \in PlayingSlot /\ host_client.spawned
      /\ body \in Seq({Printed})
  BY SlotsAre DEF Game
<1>2. /\ turn = "messages" /\ turn' = "results"
      /\ cbuf' = cbuf /\ level' = level /\ cls' = cls
      /\ IF body # <<>> /\ k["server"].canSend
         THEN /\ SendReliably(k, "server", body)
              /\ host_client' = [host_client EXCEPT !.message = <<>>,
                                                    !.sendsignon = FALSE]
         ELSE SendNothing(k) /\ host_client' = host_client
  BY <1>1 DEF SV_SendClientMessages, Updated
<1>3. HeldBy("client") = {} /\ HeldBy("server") = {}
  BY <1>2 DEF Game, Untold, Runs
<1>4. /\ Driver(k, sent, delivered) /\ k["server"] = sock["server"]
      /\ \A m \in Held(k["client"].receiveMessage) : m.body = Updated
  BY <1>3, UpdateIsSent
<1> HIDE DEF k
<1>5. sock["server"].canSend
  BY <1>3, WireHolds, EndsNamed
<1>6. Held(k["server"].receiveMessage) = {}
  BY <1>3, <1>4 DEF HeldBy
<1>7. body \in Seq(GameCmd) /\ NET_MAXMESSAGE % 4 = 0
  <2>1. body \in Seq(ServerCmd)
    BY <1>1, BodiesAre
  <2> QED
    BY <2>1, BodiesAre DEF DatagramsFit
<1>8. /\ host_client' \in PlayingSlot /\ Numbered
      /\ \/ failure' = "overflow" /\ UNCHANGED driverVars
         \/ /\ failure' = "none" /\ Wire' /\ HeldBy("server")' = {}
            /\ \A m \in HeldBy("client")' : m.body = Updated \/ m.body = body
            /\ host_client'.message = <<>>
  <2>1. CASE body # <<>>
    <3>1. /\ SendReliably(k, "server", body) /\ k["server"].canSend
          /\ host_client' = [host_client EXCEPT !.message = <<>>,
                                                !.sendsignon = FALSE]
      BY <1>2, <1>4, <1>5, <2>1
    <3>2. <<>> \in Seq({Printed})
      OBVIOUS
    <3>3. host_client' \in PlayingSlot /\ host_client'.message = <<>>
      <4> DEFINE none == <<>>
                 S == Seq({Printed})
                 h == host_client
      <4>1. h \in [spawned : {TRUE}, sendsignon : BOOLEAN, message : S]
            /\ none \in S
        BY <1>1, <3>2 DEF PlayingSlot
      <4> HIDE DEF none, S, h
      <4>2. /\ [h EXCEPT !.message = none, !.sendsignon = FALSE] \in
                 [spawned : {TRUE}, sendsignon : BOOLEAN, message : S]
            /\ [h EXCEPT !.message = none, !.sendsignon = FALSE].message = none
        BY <4>1
      <4> QED
        BY <3>1, <4>2 DEF none, S, h, PlayingSlot
    <3> HIDE DEF body
    <3>4. ServerSent(k, body)
      BY <1>4, <1>7, <3>1, ServerSends
    <3>5. Numbered /\
          \/ failure' = "overflow" /\ UNCHANGED driverVars
          \/ /\ failure' = "none" /\ Wire'
             /\ HeldBy("server")' = Held(k["server"].receiveMessage)
             /\ \A m \in HeldBy("client")' :
                  \/ m \in Held(k["client"].receiveMessage)
                  \/ m.type = 1 /\ m.body = body
      BY <3>4 DEF ServerSent
    <3> QED
      BY <1>4, <1>6, <3>3, <3>5
  <2>2. CASE body = <<>>
    <3>1. SendNothing(k) /\ host_client' = host_client
      BY <1>2, <2>2
    <3>2. /\ Wire' /\ failure' = failure /\ Numbered
          /\ \A e : HeldBy(e)' = Held(k[e].receiveMessage)
      BY <1>4, <3>1, NothingSent
    <3> QED
      BY <1>1, <1>4, <1>6, <2>2, <3>1, <3>2
  <2> QED
    BY <2>1, <2>2
<1>9. CASE failure' = "overflow" /\ UNCHANGED driverVars
  <2>1. LocalSpawnedIsSignedOn'
    BY <1>2 DEF Game, LocalSpawnedIsSignedOn, SIGNONS
  <2> QED
    BY <1>8, <1>9, <2>1, OverflowEnds
<1>10. CASE /\ failure' = "none" /\ Wire' /\ HeldBy("server")' = {}
            /\ \A m \in HeldBy("client")' : m.body = Updated \/ m.body = body
            /\ host_client'.message = <<>>
  <2>1. SaysOnly'
    BY <1>10 DEF SaysOnly
  <2>2. \A m \in HeldBy("client")' : m.body = Updated \/ m.body \in Seq({Printed})
    BY <1>1, <1>10
  <2> HIDE DEF body
  <2>3. Game'
    BY <1>2, <1>8, <1>10, <2>1, <2>2 DEF Game
  <2>4. Runs'
    BY <1>2, <1>10, <2>3 DEF Runs, Stands
  <2> QED
    BY <1>8, <1>10, <2>4, StaysInOrder
<1> QED
  BY <1>8, <1>9, <1>10

LEMMA SlotSent ==
  ASSUME NEW body
  PROVE  [SlotOf(body) EXCEPT !.message = <<>>, !.sendsignon = FALSE] = IdleSlot
<1> DEFINE F == {"spawned", "sendsignon", "message"}
           s == [spawned |-> FALSE, sendsignon |-> TRUE, message |-> body]
           u == [s EXCEPT !.message = <<>>, !.sendsignon = FALSE]
           t == [spawned |-> FALSE, sendsignon |-> FALSE, message |-> <<>>]
<1>1. DOMAIN s = F /\ s.spawned = FALSE
  OBVIOUS
<1> HIDE DEF s
<1>2. /\ DOMAIN u = F /\ u = [x \in F |-> u[x]]
      /\ u.spawned = FALSE /\ u.sendsignon = FALSE /\ u.message = <<>>
  BY <1>1
<1>3. /\ DOMAIN t = F /\ t = [x \in F |-> t[x]]
      /\ t.spawned = FALSE /\ t.sendsignon = FALSE /\ t.message = <<>>
  OBVIOUS
<1> HIDE DEF u, t
<1>4. \A x \in F : u[x] = t[x]
  BY <1>2, <1>3
<1> HIDE DEF F
<1>5. u = t
  BY <1>2, <1>3, <1>4
<1> QED
  BY <1>5 DEF u, t, s, SlotOf, IdleSlot

LEMMA SendStage ==
  ASSUME Wire, Runs, DatagramsFit, failure = "none", NEW i \in 1..3, InSlot(i),
         NEW nop \in BOOLEAN, SV_SendClientMessages(nop)
  PROVE  LocalInv' /\ Numbered
<1> DEFINE body == StageOf(i, level)
           k == sock
<1>1. /\ host_client = SlotOf(body) /\ ~host_client.spawned
      /\ host_client.sendsignon /\ host_client.message = body
  BY SlotsAre DEF InSlot
<1>2. /\ turn = "messages" /\ HeldBy("client") = {} /\ HeldBy("server") = {}
      /\ level \in Nat
  <2>1. turn = "messages"
    BY DEF SV_SendClientMessages
  <2> QED
    BY <2>1 DEF InSlot, Untold, Runs
<1>3. sock["server"].canSend
  BY <1>2, WireHolds, EndsNamed
<1>4. body # <<>> /\ body \in Seq(GameCmd) /\ NET_MAXMESSAGE % 4 = 0
  <2>1. body \in Seq(ServerCmd)
    BY <1>2, BodiesAre
  <2>2. body # <<>>
    BY DEF StageOf
  <2> QED
    BY <2>1, <2>2, BodiesAre DEF DatagramsFit
<1>5. /\ turn' = "results" /\ cbuf' = cbuf /\ level' = level /\ cls' = cls
      /\ SendReliably(k, "server", body)
      /\ host_client' = [host_client EXCEPT !.message = <<>>,
                                            !.sendsignon = FALSE]
  <2> HIDE DEF body
  <2>1. ~nop
    BY <1>1 DEF SV_SendClientMessages
  <2> QED
    BY <1>1, <1>3, <1>4, <2>1 DEF SV_SendClientMessages
<1>6. host_client' = IdleSlot
  BY <1>1, <1>5, SlotSent
<1>7. Numbered /\
      \/ failure' = "overflow" /\ UNCHANGED driverVars
      \/ /\ failure' = "none" /\ Wire' /\ ~sock'["server"].canSend
         /\ HeldBy("server")' = {}
         /\ \A m \in HeldBy("client")' : m.type = 1 /\ m.body = body
  <2>1. Driver(k, sent, delivered) /\ k["server"].canSend
    BY <1>3 DEF Wire
  <2>2. Held(k["client"].receiveMessage) = {}
        /\ Held(k["server"].receiveMessage) = {}
    BY <1>2 DEF HeldBy
  <2> HIDE DEF body, k
  <2>3. ServerSent(k, body)
    BY <1>4, <1>5, <2>1, ServerSends
  <2> QED
    BY <2>2, <2>3 DEF ServerSent
<1>8. CASE failure' = "overflow" /\ UNCHANGED driverVars
  <2>1. LocalSpawnedIsSignedOn'
    BY <1>6, SlotsAre DEF LocalSpawnedIsSignedOn
  <2> QED
    BY <1>7, <1>8, <2>1, OverflowEnds
<1>9. CASE /\ failure' = "none" /\ Wire' /\ ~sock'["server"].canSend
           /\ HeldBy("server")' = {}
           /\ \A m \in HeldBy("client")' : m.type = 1 /\ m.body = body
  <2>1. TellsOnly(StageOf(i, level))'
    BY <1>5, <1>9 DEF TellsOnly
  <2>2. Reconnects(cbuf, 2 - i)
    BY <1>2 DEF InSlot
  <2> HIDE DEF body
  <2>3. Told(i)'
    BY <1>5, <1>6, <2>1, <2>2 DEF InSlot, Told
  <2>4. Runs'
    BY <1>5, <1>9, <2>3 DEF Runs, Stands, SignsOn
  <2> QED
    BY <1>7, <1>9, <2>4, StaysInOrder
<1> QED
  BY <1>7, <1>8, <1>9

LEMMA SendAfterReconnect ==
  ASSUME Wire, Runs, failure = "none", Reconnecting,
         NEW nop \in BOOLEAN, SV_SendClientMessages(nop)
  PROVE  LocalInv' /\ Numbered
<1>1. ~host_client.spawned /\ host_client.sendsignon
      /\ ~sock["server"].canSend
  BY SlotsAre DEF Reconnecting, TellsOnly
<1>2. /\ turn = "messages" /\ turn' = "results"
      /\ cbuf' = cbuf /\ level' = level /\ cls' = cls
      /\ host_client' = host_client /\ SendNothing(sock)
  BY <1>1 DEF SV_SendClientMessages
<1>3. UNCHANGED driverVars /\ failure' = failure
  BY <1>2 DEF SendNothing, driverVars
<1>4. Wire' /\ sock' = sock /\ (\A e : HeldBy(e)' = HeldBy(e))
  BY <1>3, WireKept
<1>5. /\ SaysOnly' = SaysOnly
      /\ (\A body : TellsOnly(body)' = TellsOnly(body))
  BY <1>4 DEF SaysOnly, TellsOnly
<1>6. Reconnecting'
  BY <1>2, <1>5 DEF Reconnecting
<1>7. Runs'
  BY <1>2, <1>3, <1>4, <1>6 DEF Runs, Stands
<1> QED
  BY <1>3, <1>4, <1>7, StaysInOrder, NothingNumbered

LEMMA SendClientMessagesInOrder ==
  ASSUME Wire, Runs, DatagramsFit, failure = "none",
         NEW nop \in BOOLEAN, SV_SendClientMessages(nop)
  PROVE  LocalInv' /\ Numbered
<1>1. turn = "messages"
  BY DEF SV_SendClientMessages
<1>2. \A k : ~Told(k) /\ ~Replies(k) /\ ~Asked(k)
  BY <1>1 DEF Told, Replies, Asked
<1>3. Game \/ Reconnecting \/ \E k \in 1..3 : InSlot(k)
  BY <1>2 DEF Runs, Stands, SignsOn
<1>4. CASE Game
  BY <1>4, SendInGame
<1>5. CASE Reconnecting
  BY <1>5, SendAfterReconnect
<1>6. CASE \E k \in 1..3 : InSlot(k)
  BY <1>6, SendStage
<1> QED
  BY <1>3, <1>4, <1>5, <1>6

-----------------------------------------------------------------------------
(* CL_ReadFromServer.                                                      *)

LEMMA ReplyAsks ==
  ASSUME NEW k \in 1..3
  PROVE  /\ Requests(k, <<CL_SignonReply(k)>>)
         /\ Append(<<>>, CL_SignonReply(k)) = <<CL_SignonReply(k)>>
<1> DEFINE c == CL_SignonReply(k)
           m == <<c>>
<1>1. c \in ClientCmd
  BY CommandsAre
<1> HIDE DEF c
<1>2. m \in Seq(ClientCmd) /\ m # <<>> /\ m[1] = c /\ Len(m) = 1
      /\ Append(<<>>, c) = m
  BY <1>1
<1> HIDE DEF m
<1>3. \A i \in 2..Len(m) : m[i] = Say
  BY <1>2
<1>4. m[1] = CL_SignonReply(k)
  BY <1>2 DEF c
<1>5. Requests(k, m)
  BY <1>2, <1>3, <1>4 DEF Requests
<1> QED
  BY <1>2, <1>5 DEF m, c

\* The player reads a message of the server's, m: what is left in the buffer
\* was there, and after a reliable one the server may send again.
LEMMA PlayerReads ==
  ASSUME Wire, Runs, failure = "none", CL_ReadFromServer
  PROVE  LET m == First("client")
             r == ParseServerMessages(Parsing(cls, cbuf), m.body)
         IN
         /\ turn = "results" /\ turn' = turn /\ level' = level
         /\ host_client' = host_client
         /\ cls' = r.cls /\ cbuf' = r.cbuf /\ failure' = r.failure
         /\ Wire' /\ m \in HeldBy("client")
         /\ HeldBy("client")' \subseteq HeldBy("client")
         /\ HeldBy("server")' = HeldBy("server")
         /\ sock'["client"].canSend = sock["client"].canSend
         /\ m.type = 1 => \A p \in HeldBy("client")' : p.type = 2
<1> DEFINE m == First("client")
           r == ParseServerMessages(Parsing(cls, cbuf), m.body)
<1>1. /\ turn = "results" /\ turn' = turn /\ Get("client")
      /\ level' = level /\ host_client' = host_client
      /\ cls' = r.cls /\ cbuf' = r.cbuf /\ failure' = r.failure
  BY DEF CL_ReadFromServer, Parsing
<1>2. /\ Wire' /\ m \in HeldBy("client")
      /\ HeldBy("client")' \subseteq HeldBy("client")
      /\ HeldBy("server")' = HeldBy("server")
      /\ sock'["client"].canSend = sock["client"].canSend
      /\ m.type = 1 => sock'["server"].canSend
  <2>1. ASSUME NEW e \in Endpoint, e = "client"
        PROVE  /\ Wire'
               /\ First(e) \in HeldBy(e) /\ HeldBy(e)' \subseteq HeldBy(e)
               /\ HeldBy(Peer(e))' = HeldBy(Peer(e))
               /\ sock'[e].canSend = sock[e].canSend
               /\ First(e).type = 1 => sock'[Peer(e)].canSend
               /\ Peer(e) = "server"
    BY <1>1, <2>1, GetIs, EndsNamed
  <2> QED
    BY <2>1, EndsNamed
<1>3. sock'["server"].canSend => \A p \in HeldBy("client")' : p.type = 2
  BY <1>2, WireHoldsNext, EndsNamed
<1> QED
  BY <1>1, <1>2, <1>3

LEMMA ReadInGame ==
  ASSUME NEW body, NEW c \in PlayerType, c.signon \in {3, 4}, NEW b,
         body = Updated \/ body \in Seq({Printed})
  PROVE  LET r == ParseServerMessages(Parsing(c, b), body) IN
         /\ r.cbuf = b /\ r.failure = "none" /\ r.cls \in PlayerType
         /\ r.cls.signon \in {3, 4} /\ r.cls.message = c.message
         /\ r.cls.level = c.level
<1>1. CASE body \in Seq({Printed})
  <2>1. ParseServerMessages(Parsing(c, b), body) = Parsing(c, b)
    BY <1>1, PrintsAreParsed
  <2> QED
    BY <2>1, ParsingIs
<1>2. CASE body = Updated
  <2> DEFINE n == CL_ParseUpdate(c.signon)
             p == PlayerOf(n, c.message, c.level)
             u == Cmd("update", 0)
  <2>1. u \in GameCmd
    BY CommandsAre DEF GameCmd
  <2>2. n \in 0..4 /\ n \in {3, 4}
    BY DEF CL_ParseUpdate, SIGNONS
  <2>3. c.message \in Seq(ClientCmd) /\ c.level \in Nat
    BY PlayerIs
  <2>4. ParseServerMessage(Parsing(c, b), u) = Parsing(p, b)
    BY UpdateIs
  <2> HIDE DEF u, n
  <2>5. ParseServerMessages(Parsing(c, b), <<u>>) =
          ParseServerMessage(Parsing(c, b), u)
    BY <2>1, OneIsParsed
  <2>6. /\ p \in PlayerType /\ p.signon = n /\ p.message = c.message
        /\ p.level = c.level
    BY <2>2, <2>3, IsPlayer
  <2>7. body = <<u>>
    BY <1>2 DEF Updated, u
  <2> HIDE DEF p
  <2>8. ParseServerMessages(Parsing(c, b), body) = Parsing(p, b)
    BY <2>4, <2>5, <2>7
  <2> QED
    BY <2>2, <2>6, <2>8, ParsingIs
<1> QED
  BY <1>1, <1>2

LEMMA ReadFromServerInOrder ==
  ASSUME Wire, Runs, failure = "none", CL_ReadFromServer
  PROVE  LocalInv' /\ failure' = "none"
<1> DEFINE m == First("client")
           body == m.body
           r == ParseServerMessages(Parsing(cls, cbuf), body)
<1>1. /\ turn = "results" /\ turn' = turn /\ level' = level
      /\ host_client' = host_client
      /\ cls' = r.cls /\ cbuf' = r.cbuf /\ failure' = r.failure
      /\ Wire' /\ m \in HeldBy("client")
      /\ HeldBy("client")' \subseteq HeldBy("client")
      /\ HeldBy("server")' = HeldBy("server")
      /\ sock'["client"].canSend = sock["client"].canSend
      /\ m.type = 1 => \A p \in HeldBy("client")' : p.type = 2
  BY PlayerReads
<1>2. cls \in PlayerType /\ level \in Nat /\ HeldBy("server") = {}
  BY <1>1 DEF Runs
<1>3. SaysOnly'
  BY <1>1, <1>2 DEF SaysOnly
<1> HIDE DEF m
<1>4. \A b : TellsOnly(b) => m.type = 1 /\ body = b /\ Untold'
  BY <1>1 DEF TellsOnly, Untold
<1> HIDE DEF body, r
<1>5. ASSUME Game
      PROVE  Stands' /\ cls' \in PlayerType /\ failure' = "none"
  <2>1. cls.signon \in {3, 4} /\ (body = Updated \/ body \in Seq({Printed}))
    BY <1>1, <1>5 DEF Game, body
  <2>2. /\ r.cbuf = cbuf /\ r.failure = "none" /\ r.cls \in PlayerType
        /\ r.cls.signon \in {3, 4} /\ r.cls.message = cls.message
        /\ r.cls.level = cls.level
    BY <1>2, <2>1, ReadInGame DEF r
  <2>3. Game'
    BY <1>1, <1>3, <1>5, <2>2 DEF Game
  <2> QED
    BY <1>1, <2>2, <2>3 DEF Stands
<1>6. ASSUME Reconnecting
      PROVE  Stands' /\ cls' \in PlayerType /\ failure' = "none"
  <2>1. body = Recalled /\ Untold'
    BY <1>4, <1>6 DEF Reconnecting
  <2>2. /\ host_client = SlotOf(StageOf(1, level)) /\ cls.signon = 0
        /\ cls.message \in Talk /\ cbuf \in Seq(Plain) /\ Waits(cbuf) <= 2
    BY <1>1, <1>6 DEF Reconnecting
  <2> DEFINE c == Cmd("reconnect", 0)
  <2>3. c \in GameCmd
    BY CommandsAre DEF GameCmd
  <2>4. ParseServerMessage(Parsing(cls, cbuf), c) =
          Parsing(cls, Append(cbuf, "reconnect"))
    BY <1>2, ReconnectIs
  <2> HIDE DEF c
  <2>5. ParseServerMessages(Parsing(cls, cbuf), <<c>>) =
          ParseServerMessage(Parsing(cls, cbuf), c)
    BY <2>3, OneIsParsed
  <2>6. r = Parsing(cls, Append(cbuf, "reconnect"))
    BY <2>1, <2>4, <2>5 DEF r, Recalled, c
  <2>7. cls' = cls /\ cbuf' = Append(cbuf, "reconnect") /\ failure' = "none"
    <3> DEFINE b == Append(cbuf, "reconnect")
    <3>1. r = Parsing(cls, b)
      BY <2>6
    <3> HIDE DEF b
    <3>2. cls' = cls /\ cbuf' = b /\ failure' = "none"
      BY <1>1, <3>1, ParsingIs
    <3> QED
      BY <3>2 DEF b
  <2>8. Reconnects(cbuf', 2)
    BY <2>2, <2>7, ReconnectWaits
  <2>9. InSlot(1)'
    BY <1>1, <1>3, <2>1, <2>2, <2>7, <2>8 DEF InSlot
  <2> QED
    BY <1>2, <2>7, <2>9 DEF Stands, SignsOn
<1>7. ASSUME NEW k \in 1..3, Told(k)
      PROVE  Stands' /\ cls' \in PlayerType /\ failure' = "none"
  <2>1. /\ host_client = IdleSlot /\ cls.signon \in {0, k - 1}
        /\ (k > 1 => cls.message = <<>> /\ cls.level = level)
        /\ Reconnects(cbuf, 2 - k) /\ TellsOnly(StageOf(k, level))
    BY <1>7 DEF Told
  <2>2. body = StageOf(k, level) /\ Untold'
    BY <1>4, <2>1
  <2> DEFINE p == IF k = 1 THEN PlayerOf(1, <<CL_SignonReply(1)>>, level)
                  ELSE PlayerOf(k, Append(cls.message, CL_SignonReply(k)),
                                cls.level)
  <2>3. r = Parsing(p, cbuf)
    <3>1. cls.signon < k
      BY <2>1
    <3> QED
      BY <1>2, <2>2, <3>1, StageIsParsed DEF r
  <2> DEFINE reply == <<CL_SignonReply(k)>>
  <2>4. p = PlayerOf(k, reply, level)
    <3>1. CASE k = 1
      BY <3>1
    <3>2. CASE k # 1
      <4>1. cls.message = <<>> /\ cls.level = level
        BY <2>1, <3>2
      <4>2. p = PlayerOf(k, Append(cls.message, CL_SignonReply(k)), cls.level)
        BY <3>2
      <4>3. Append(<<>>, CL_SignonReply(k)) = reply
        BY ReplyAsks
      <4> QED
        BY <4>1, <4>2, <4>3
    <3> QED
      BY <3>1, <3>2
  <2> HIDE DEF p, reply
  <2>5. Requests(k, reply)
    BY ReplyAsks DEF reply
  <2>6. /\ p \in PlayerType /\ p.signon = k /\ p.message = reply
        /\ p.level = level
    <3>1. reply \in Seq(ClientCmd) /\ k \in 0..4
      BY <2>5 DEF Requests
    <3> QED
      BY <1>2, <2>4, <3>1, IsPlayer
  <2>7. cls' = p /\ cbuf' = cbuf /\ failure' = "none"
    BY <1>1, <2>3, ParsingIs
  <2>8. Replies(k)'
    BY <1>1, <2>1, <2>2, <2>5, <2>6, <2>7 DEF Replies
  <2> QED
    BY <2>6, <2>7, <2>8 DEF Stands, SignsOn
<1>8. ~Untold
  BY <1>1 DEF Untold
<1>9. \A k : ~InSlot(k) /\ ~Replies(k) /\ ~Asked(k)
  BY <1>8 DEF InSlot, Replies, Asked
<1>10. Stands' /\ cls' \in PlayerType /\ failure' = "none"
  BY <1>5, <1>6, <1>7, <1>9 DEF Runs, Stands, SignsOn
<1>11. Runs'
  BY <1>1, <1>2, <1>10 DEF Runs
<1> QED
  BY <1>1, <1>10, <1>11, StaysInOrder

LEMMA ServerReadInOrder ==
  ASSUME Wire, Runs, failure = "none", CL_ReadFromServerEnds
  PROVE  LocalInv'
<1>1. /\ turn = "results" /\ turn' = "keys" /\ ~Waiting("client")
      /\ cbuf' = cbuf /\ level' = level /\ host_client' = host_client
      /\ cls' = cls /\ UNCHANGED driverVars /\ failure' = failure
  BY DEF CL_ReadFromServerEnds
<1>2. Wire' /\ sock' = sock /\ (\A e : HeldBy(e)' = HeldBy(e))
  BY <1>1, WireKept
<1>3. SaysOnly' = SaysOnly /\ Untold' = Untold
  BY <1>2 DEF SaysOnly, Untold
<1>4. HeldBy("client") = {} /\ sock["server"].canSend /\ Untold'
  <2>1. HeldBy("client") = {} /\ sock["server"].canSend
    BY <1>1, WireHolds, EndsNamed
  <2> QED
    BY <1>3, <2>1 DEF Untold
<1>5. ASSUME Game
      PROVE  Stands'
  <2>1. Game'
    BY <1>1, <1>2, <1>3, <1>4, <1>5 DEF Game
  <2> QED
    BY <2>1 DEF Stands
<1>6. ASSUME NEW k \in 1..3, InSlot(k)
      PROVE  Stands'
  <2>1. InSlot(k)'
    BY <1>1, <1>3, <1>6 DEF InSlot
  <2> QED
    BY <2>1 DEF Stands, SignsOn
<1>7. ASSUME NEW k \in 1..3, Replies(k)
      PROVE  Stands'
  <2>1. Replies(k)'
    BY <1>1, <1>4, <1>7 DEF Replies
  <2> QED
    BY <2>1 DEF Stands, SignsOn
<1>8. ~Reconnecting /\ \A k : ~Told(k) /\ ~Asked(k)
  BY <1>1, <1>4 DEF Reconnecting, Told, Asked, TellsOnly
<1>9. Stands'
  BY <1>5, <1>6, <1>7, <1>8 DEF Runs, Stands, SignsOn
<1>10. Runs'
  BY <1>1, <1>2, <1>9 DEF Runs
<1> QED
  BY <1>2, <1>10, StaysInOrder

-----------------------------------------------------------------------------
(* Every step.                                                             *)

LEMMA InitInOrder == LocalInit => LocalInv
<1> SUFFICES ASSUME LocalInit
             PROVE  LocalInv
  OBVIOUS
<1> DEFINE none == [canSend |-> TRUE, receiveMessageLength |-> 0,
                    receiveMessage |-> <<>>]
<1>1. none \in LoopSocket
  <2> DEFINE b == <<>>
  <2>1. b \in LoopBuffer
    <3>1. b \in [{} -> LoopMessage]
      OBVIOUS
    <3>2. {} \in SUBSET Nat
      OBVIOUS
    <3> HIDE DEF b
    <3> QED
      BY <3>1, <3>2, IsBuffer
  <2> HIDE DEF b
  <2>2. [canSend |-> TRUE, receiveMessageLength |-> 0, receiveMessage |-> b]
          \in LoopSocket
    BY <2>1, IsSocket
  <2> QED
    BY <2>2 DEF b
<1>2. LaidOut(<<>>, 0) /\ NoneReliable(<<>>) /\ Held(<<>>) = {}
  BY NET_MAXMESSAGEAssumption DEF LaidOut, NoneReliable, Held
<1>3. /\ sock = [e \in Endpoint |-> none]
      /\ sent = [e \in Endpoint |-> <<>>]
      /\ delivered = [e \in Endpoint |-> <<>>]
  BY DEF LocalInit
<1>4. Wire
  <2>1. sock \in LoopSockets
    BY <1>1, <1>3 DEF LoopSockets
  <2>2. <<>> \in Seq(Nat)
    OBVIOUS
  <2>3. sent \in [Endpoint -> Seq(Nat)] /\ delivered \in [Endpoint -> Seq(Nat)]
    BY <1>3, <2>2
  <2>4. ASSUME NEW e \in Endpoint
        PROVE  /\ LaidOut(sock[e].receiveMessage, sock[e].receiveMessageLength)
               /\ ChannelAt(sock, sent, delivered, e)
    BY <1>2, <1>3, <2>4, EndsAre DEF ChannelAt
  <2> QED
    BY <2>1, <2>3, <2>4 DEF Wire, Driver
<1>5. \A e \in Endpoint : HeldBy(e) = {}
  BY <1>2, <1>3 DEF HeldBy
<1>6. host_client = SlotOf(StageOf(1, 1))
  <2> DEFINE s == [spawned |-> FALSE, sendsignon |-> FALSE, message |-> <<>>]
  <2>1. s \in [spawned : BOOLEAN, sendsignon : BOOLEAN, message : {<<>>}]
        /\ s.message = <<>>
    OBVIOUS
  <2>2. host_client = SV_SendServerinfo(s, 1)
    BY DEF LocalInit
  <2> HIDE DEF s
  <2> QED
    BY <2>1, <2>2, ServerinfoSlot
<1>7. cls \in PlayerType /\ cls.signon = 0 /\ cls.message \in Talk
  <2>1. <<Nop>> \in Talk
    BY DEF Talk
  <2>2. <<Nop>> \in Seq(ClientCmd)
    BY <2>1, BodiesAre
  <2>3. cls = [signon |-> 0, message |-> <<Nop>>, level |-> 0]
    BY DEF LocalInit
  <2> DEFINE m == <<Nop>>
  <2> HIDE DEF m
  <2>4. [signon |-> 0, message |-> m, level |-> 0] \in PlayerType
    BY <2>2 DEF PlayerType, m
  <2> QED
    BY <2>1, <2>3, <2>4 DEF m
<1>8. turn = "clients" /\ cbuf = <<>> /\ level = 1 /\ failure = "none"
  BY DEF LocalInit
<1>9. SaysOnly /\ Untold
  BY <1>5, EndsNamed DEF SaysOnly, Untold
<1>10. Reconnects(cbuf, 2 - 1)
  <2>1. <<>> \in Seq(Plain)
    OBVIOUS
  <2> QED
    BY <1>8, <2>1 DEF Reconnects
<1>11. InSlot(1)
  BY <1>6, <1>7, <1>8, <1>9, <1>10 DEF InSlot
<1>12. Runs
  BY <1>7, <1>8, <1>11 DEF Runs, Stands, SignsOn
<1>13. LocalSpawnedIsSignedOn
  BY <1>6, SlotsAre DEF LocalSpawnedIsSignedOn
<1> QED
  BY <1>4, <1>12, <1>13 DEF LocalInv

LEMMA NextInOrder ==
  ASSUME OrderlyScripts, DatagramsFit, LocalInv, [LocalNext]_localVars
  PROVE  LocalInv' /\ Numbered
<1>1. CASE LocalNext
  <2>1. failure = "none" /\ Wire /\ Runs /\ LocalSpawnedIsSignedOn /\ Frame
    BY <1>1 DEF LocalNext, LocalInv
  <2>2. ASSUME NEW moves \in 0..MaxMoves, SendCmd(moves)
        PROVE  LocalInv' /\ Numbered
    BY <2>1, <2>2, LocalBoundsAssumption, SendCmdInOrder
  <2>3. ASSUME NEW nop \in BOOLEAN, SV_SendClientMessages(nop)
        PROVE  LocalInv' /\ Numbered
    BY <2>1, <2>3, SendClientMessagesInOrder
  <2>4. CASE Sys_SendKeyEvents
    <3>1. UNCHANGED driverVars
      BY <2>4 DEF Sys_SendKeyEvents
    <3> QED
      BY <2>1, <2>4, <3>1, NothingNumbered, KeysInOrder
  <2>5. CASE Cmd_ForwardToServer
    <3>1. UNCHANGED driverVars
      BY <2>5 DEF Cmd_ForwardToServer
    <3> QED
      BY <2>1, <2>5, <3>1, NothingNumbered, SayInOrder
  <2>6. CASE Host_Reconnect_f
    <3>1. UNCHANGED driverVars
      BY <2>6 DEF Host_Reconnect_f
    <3> QED
      BY <2>1, <2>6, <3>1, NothingNumbered, ReconnectInOrder
  <2>7. CASE Changelevel_f
    BY <2>1, <2>7, ChangelevelInOrder
  <2>8. CASE Cbuf_ExecuteEnds
    <3>1. UNCHANGED driverVars
      BY <2>8 DEF Cbuf_ExecuteEnds
    <3> QED
      BY <2>1, <2>8, <3>1, NothingNumbered, ExecuteEndsInOrder
  <2>9. CASE SV_ReadClientMessage
    <3>1. ASSUME NEW e \in Endpoint, e = "server"
          PROVE  Numbered
      <4>1. Get(e)
        BY <2>9, <3>1 DEF SV_ReadClientMessage
      <4> QED
        BY <2>1, <4>1, GetNumbered
    <3> QED
      BY <2>1, <2>9, <3>1, EndsNamed, ClientMessageInOrder
  <2>10. CASE SV_ReadClientMessageEnds
    <3>1. UNCHANGED driverVars
      BY <2>10 DEF SV_ReadClientMessageEnds
    <3> QED
      BY <2>1, <2>10, <3>1, NothingNumbered, ClientsReadInOrder
  <2>11. CASE CL_ReadFromServer
    <3>1. ASSUME NEW e \in Endpoint, e = "client"
          PROVE  Numbered
      <4>1. Get(e)
        BY <2>11, <3>1 DEF CL_ReadFromServer
      <4> QED
        BY <2>1, <4>1, GetNumbered
    <3> QED
      BY <2>1, <2>11, <3>1, EndsNamed, ReadFromServerInOrder
  <2>12. CASE CL_ReadFromServerEnds
    <3>1. UNCHANGED driverVars
      BY <2>12 DEF CL_ReadFromServerEnds
    <3> QED
      BY <2>1, <2>12, <3>1, NothingNumbered, ServerReadInOrder
  <2> QED
    BY <2>1, <2>2, <2>3, <2>4, <2>5, <2>6, <2>7, <2>8, <2>9, <2>10, <2>11,
       <2>12 DEF Frame
<1>2. CASE UNCHANGED localVars
  <2>1. /\ UNCHANGED driverVars /\ turn' = turn /\ cbuf' = cbuf
        /\ level' = level /\ host_client' = host_client /\ cls' = cls
        /\ failure' = failure /\ sock' = sock
    BY <1>2 DEF localVars, gameVars, driverVars
  <2>2. Wire' /\ LocalSpawnedIsSignedOn'
    BY <2>1, WireKept DEF LocalInv, LocalSpawnedIsSignedOn
  <2>3. Runs => Runs'
    BY <2>1 DEF Runs, Stands, SignsOn, Game, Reconnecting, InSlot, Told,
       Replies, Asked, SaysOnly, AsksOnly, TellsOnly, Untold, HeldBy
  <2> QED
    BY <2>1, <2>2, <2>3, NothingNumbered DEF LocalInv
<1> QED
  BY <1>1, <1>2

\* Where a listen server and its player stand in every state, while nothing has
\* overflowed: the player is in the game, or the level has changed and it has yet
\* to hear of it, or one of the three stages of the sign-on is under way and its
\* message is in one place only (_Host_Frame, net_loop.c).
THEOREM LocalInvAlways ==
  ASSUME OrderlyScripts, DatagramsFit
  PROVE  LocalSpec => []LocalInv
<1>1. LocalInv /\ [LocalNext]_localVars => LocalInv'
  BY NextInOrder
<1> QED
  BY <1>1, InitInOrder, PTL DEF LocalSpec

-----------------------------------------------------------------------------
(* Room in the buffers.                                                    *)

\* What meets in a buffer in one frame fits into it: the moves and what the
\* player has to say, the update and what he is to be told.
FrameFits ==
  /\ CommandSize["reconnect"] + 4 <= NET_MAXMESSAGE
  /\ MaxMoves * IntAlign(CommandSize["move"] + 4)
       + Length(cls.message) + 4 <= NET_MAXMESSAGE
  /\ (IF host_client.spawned THEN IntAlign(CommandSize["update"] + 4) ELSE 0)
       + Length(host_client.message) + 4 <= NET_MAXMESSAGE

LEMMA LengthOfOne ==
  /\ Length(Moved) = CommandSize["move"] /\ Length(Moved) \in Nat
  /\ Length(Updated) = CommandSize["update"] /\ Length(Updated) \in Nat
  /\ Length(Recalled) = CommandSize["reconnect"] /\ Length(Recalled) \in Nat
<1>1. ASSUME NEW c \in GameCmd
      PROVE  Length(<<c>>) = SizeOf(c) /\ SizeOf(c) \in Nat
  <2>1. <<>> \in Seq(GameCmd)
    OBVIOUS
  <2> QED
    BY <2>1, LengthIs, SizeType
<1>2. /\ Cmd("move", 0) \in GameCmd /\ Cmd("update", 0) \in GameCmd
      /\ Cmd("reconnect", 0) \in GameCmd
  BY CommandsAre DEF GameCmd
<1>3. /\ SizeOf(Cmd("move", 0)) = CommandSize["move"]
      /\ SizeOf(Cmd("update", 0)) = CommandSize["update"]
      /\ SizeOf(Cmd("reconnect", 0)) = CommandSize["reconnect"]
  BY DEF SizeOf, Kind, Cmd, Signonnum
<1> QED
  BY <1>1, <1>2, <1>3 DEF Moved, Updated, Recalled

LEMMA UnreliableLength ==
  ASSUME NEW k, NEW s, NEW d, Driver(k, s, d), NEW e \in Endpoint,
         NEW body \in Seq(GameCmd)
  PROVE  LET r == Loop_SendUnreliableMessage(k, e, body) IN
         r[Peer(e)].receiveMessageLength <=
           k[Peer(e)].receiveMessageLength + IntAlign(Length(body) + 4)
<1> DEFINE p == Peer(e)
           at == k[p].receiveMessageLength
           m == [type |-> 2, num |-> 0, body |-> body]
           z == IntAlign(Length(body) + 4)
           r == Loop_SendUnreliableMessage(k, e, body)
<1>1. k \in LoopSockets /\ p \in Endpoint /\ LaidOut(k[p].receiveMessage, at)
  BY EndsAre DEF Driver
<1>2. at \in Nat /\ at % 4 = 0
  BY <1>1, SocketIs DEF LaidOut
<1>3. m \in LoopMessage /\ m.body = body
  <2>1. 0 \in Nat /\ 2 \in {1, 2}
    OBVIOUS
  <2> QED
    BY <2>1, ReliableIs
<1>4. z = Span(m) /\ z \in Nat /\ IntAlign(at + Length(body) + 4) = at + z
  <2>1. Span(m) \in Nat /\ IntAlign(at + Length(m.body) + 4) = at + Span(m)
    <3> HIDE DEF m, at
    <3> QED
      BY <1>2, <1>3, SpanIs
  <2> QED
    BY <1>3, <2>1 DEF Span
<1> HIDE DEF at, z, m
<1>5. CASE Length(body) + 3 > RoomFor(k, e)
  <2>1. r = k
    BY <1>5 DEF Loop_SendUnreliableMessage
  <2> QED
    BY <1>2, <1>4, <2>1 DEF at, z
<1>6. CASE ~(Length(body) + 3 > RoomFor(k, e))
  <2> DEFINE w == Put(k, e, 2, 0, body)
  <2>1. r = w
    BY <1>6 DEF Loop_SendUnreliableMessage
  <2> HIDE DEF w, r
  <2>2. w[p].receiveMessageLength = IntAlign(at + Length(body) + 4)
    <3> DEFINE type == 2
               num == 0
    <3>1. w = Put(k, e, type, num, body)
      BY DEF w
    <3> HIDE DEF type, num
    <3> DEFINE n == [type |-> type, num |-> num, body |-> body]
               x == IntAlign(k[p].receiveMessageLength + Length(body) + 4)
               y == With(k[p].receiveMessage, k[p].receiveMessageLength, n)
               q == k[p].canSend
    <3>2. w[p] = [canSend |-> q, receiveMessageLength |-> x,
                  receiveMessage |-> y]
      BY <1>1, <3>1, PutIs
    <3> HIDE DEF x, y, q
    <3>3. w[p].receiveMessageLength = x
      BY <3>2
    <3> QED
      BY <3>3 DEF x, at
  <2>3. r[p].receiveMessageLength = at + z
    BY <1>4, <2>1, <2>2
  <2>4. at + z <= at + z
    BY <1>2, <1>4
  <2> QED
    BY <2>3, <2>4 DEF at, z, r
<1> QED
  BY <1>5, <1>6

LEMMA TimesIs ==
  ASSUME NEW a \in Nat, NEW b \in Nat, NEW c \in Nat, a <= b
  PROVE  /\ a * c \in Nat /\ a * c <= b * c /\ 0 * c = 0
         /\ a > 0 => (a - 1) * c + c = a * c
OBVIOUS

\* The moves of a frame are all that lies before what the player has to say.
LEMMA MovesLength ==
  ASSUME Wire, DatagramsFit, HeldBy("server") = {}, NEW moves \in Nat
  PROVE  CL_SendLagMove(moves)["server"].receiveMessageLength <=
           moves * IntAlign(CommandSize["move"] + 4)
<1> DEFINE c == "client"
           v == "server"
           s == sent
           d == delivered
           z == IntAlign(CommandSize["move"] + 4)
           Reached(k, i) == /\ Driver(k, s, d)
                            /\ k[v].receiveMessageLength <= i * z
           S(i) == {k \in LoopSockets : Reached(k, i)}
           T == [i \in 0..moves |-> S(i)]
<1>1. c \in Endpoint /\ Peer(c) = v /\ v \in Endpoint
  BY DEF Endpoint, Peer
<1>2. /\ Moved \in Seq(GameCmd) /\ Length(Moved) % 4 # 1
      /\ IntAlign(Length(Moved) + 4) = z /\ z \in Nat
  <2>1. Moved \in Seq(ClientCmd)
    BY BodiesAre
  <2>2. Length(Moved) = CommandSize["move"] /\ Length(Moved) \in Nat
    BY LengthOfOne
  <2>3. CommandSize["move"] + 4 \in Nat
    BY <2>2
  <2>4. z \in Nat
    BY <2>3, AlignIs
  <2> QED
    BY <2>1, <2>2, <2>4, BodiesAre DEF DatagramsFit
<1>3. NET_MAXMESSAGE % 4 = 0
  BY DEF DatagramsFit
<1>4. \A i \in 1..moves : (i - 1) * z + z = i * z
  <2>1. ASSUME NEW i \in 1..moves
        PROVE  (i - 1) * z + z = i * z
    <3> HIDE DEF z
    <3>1. i \in Nat /\ i > 0 /\ z \in Nat /\ i <= i
      BY <1>2
    <3> QED
      BY <3>1, TimesIs
  <2> QED
    BY <2>1
<1> HIDE DEF z
<1>5. sock \in S(0)
  <2>1. sock[v].receiveMessageLength = 0
    BY <1>1, WireHolds DEF Waiting
  <2>2. 0 * z = 0
    BY <1>2
  <2>3. Driver(sock, s, d) /\ sock \in LoopSockets
    BY DEF Wire, Driver
  <2> QED
    BY <2>1, <2>2, <2>3
<1>6. ASSUME NEW i \in 1..moves, NEW k \in S(i - 1)
      PROVE  MoveSent(k) \in S(i)
  <2> DEFINE r == MoveSent(k)
             body == Moved
             at == k[v].receiveMessageLength
  <2>1. r = Loop_SendUnreliableMessage(k, c, body)
    BY DEF MoveSent, Moved
  <2>2. Driver(k, s, d) /\ at <= (i - 1) * z /\ k \in LoopSockets
    BY <1>6
  <2>3. at \in Nat
    BY <1>1, <2>2, SocketIs
  <2> HIDE DEF c, v, s, d, r, body
  <2>4. Driver(r, s, d)
    BY <1>1, <1>2, <1>3, <2>1, <2>2, SendUnreliable DEF body
  <2>5. r[Peer(c)].receiveMessageLength <=
          k[Peer(c)].receiveMessageLength + IntAlign(Length(body) + 4)
    BY <1>1, <1>2, <2>1, <2>2, UnreliableLength DEF body
  <2>6. r \in LoopSockets
    BY <2>4 DEF Driver
  <2>7. r[v].receiveMessageLength \in Nat
    BY <1>1, <2>6, SocketIs
  <2>8. r[v].receiveMessageLength <= at + z
    BY <1>1, <1>2, <2>5 DEF body
  <2> HIDE DEF at
  <2>9. i - 1 \in Nat /\ (i - 1) * z \in Nat
    <3>1. i - 1 \in Nat /\ i - 1 <= i - 1
      OBVIOUS
    <3> QED
      BY <1>2, <3>1, TimesIs
  <2>10. r[v].receiveMessageLength <= i * z
    <3> DEFINE x == r[v].receiveMessageLength
               y == (i - 1) * z
               t == i * z
    <3>1. x \in Nat /\ y \in Nat /\ x <= at + z /\ at <= y /\ y + z = t
      BY <1>4, <2>2, <2>7, <2>8, <2>9
    <3> HIDE DEF x, y, t
    <3>2. x <= t
      BY <1>2, <2>3, <3>1
    <3> QED
      BY <3>2 DEF x, t
  <2> QED
    BY <2>4, <2>6, <2>10 DEF r
<1>7. \A i \in 0..moves : T[i] = S(i)
  OBVIOUS
<1>8. 0 \in 0..moves /\ moves \in 0..moves
      /\ \A i \in 1..moves : i \in 0..moves /\ i - 1 \in 0..moves
  OBVIOUS
<1> HIDE DEF T, S
<1>9. CL_SendLagMove(moves) \in T[moves]
  <2> DEFINE j == sock
  <2>1. j = sock /\ j \in T[0]
    BY <1>5, <1>7, <1>8
  <2>2. \A i \in 1..moves : \A t \in T[i - 1] : MoveSent(t) \in T[i]
    BY <1>6, <1>7, <1>8
  <2> HIDE DEF j
  <2> QED
    BY <2>1, <2>2, LagMovesReach
<1>10. CL_SendLagMove(moves) \in S(moves)
  BY <1>7, <1>8, <1>9
<1> QED
  BY <1>10 DEF S, z

LEMMA SendCmdFits ==
  ASSUME Wire, Runs, DatagramsFit, FrameFits, NEW moves \in 0..MaxMoves,
         SendCmd(moves)
  PROVE  failure' = failure
<1> DEFINE k == CL_SendLagMove(moves)
           z == IntAlign(CommandSize["move"] + 4)
           l == Length(cls.message)
           at == k["server"].receiveMessageLength
<1>1. HeldBy("server") = {} /\ moves \in Nat /\ cls \in PlayerType
  BY DEF SendCmd, Runs
<1>2. at <= moves * z
  BY <1>1, MovesLength
<1>3. Driver(k, sent, delivered)
  BY <1>1, MovesAreSent
<1>4. at \in Nat
  BY <1>3, EndsNamed, SocketIs DEF Driver
<1>5. l \in Nat
  <2>1. cls.message \in Seq(ClientCmd)
    BY <1>1 DEF PlayerType
  <2>2. cls.message \in Seq(GameCmd)
    BY <2>1, BodiesAre
  <2> QED
    BY <2>2, LengthIs
<1>6. z \in Nat
  <2>1. CommandSize["move"] + 4 \in Nat
    BY LengthOfOne
  <2> QED
    BY <2>1, AlignIs
<1>7. moves * z \in Nat /\ moves * z <= MaxMoves * z /\ MaxMoves * z \in Nat
  <2> HIDE DEF z
  <2>1. MaxMoves \in Nat /\ moves \in Nat /\ moves <= MaxMoves
        /\ MaxMoves <= MaxMoves
    BY LocalBoundsAssumption
  <2> QED
    BY <1>6, <2>1, TimesIs
<1>8. MaxMoves * z + l + 4 <= NET_MAXMESSAGE
  BY DEF FrameFits
<1>9. SendNothing(k) \/ SendReliably(k, "client", cls.message)
  BY DEF SendCmd
<1> HIDE DEF k, z, l, at
<1>10. ~(l + 4 > NET_MAXMESSAGE - at)
  <2> DEFINE x == moves * z
             y == MaxMoves * z
             M == NET_MAXMESSAGE
  <2>1. x \in Nat /\ y \in Nat /\ M \in Nat /\ at <= x /\ x <= y
        /\ y + l + 4 <= M
    BY <1>2, <1>7, <1>8, NET_MAXMESSAGEAssumption
  <2> HIDE DEF x, y, M
  <2>2. ~(l + 4 > M - at)
    BY <1>4, <1>5, <2>1
  <2> QED
    BY <2>2 DEF M
<1>11. RoomFor(k, "client") = NET_MAXMESSAGE - at
  BY EndsNamed DEF RoomFor, at
<1>12. SendReliably(k, "client", cls.message) => failure' = failure
  BY <1>10, <1>11 DEF SendReliably, l
<1> QED
  BY <1>9, <1>12 DEF SendNothing

LEMMA ServerFits ==
  ASSUME Wire, Runs, DatagramsFit, FrameFits, NEW nop \in BOOLEAN,
         SV_SendClientMessages(nop)
  PROVE  failure' = failure
<1> DEFINE body == host_client.message
           l == Length(body)
           z == IF host_client.spawned
                THEN IntAlign(CommandSize["update"] + 4) ELSE 0
           u == Loop_SendUnreliableMessage(sock, "server", Updated)
           k == IF host_client.spawned THEN u ELSE sock
           at == k["client"].receiveMessageLength
<1>1. z + l + 4 <= NET_MAXMESSAGE
  BY DEF FrameFits
<1>2. turn = "messages"
  BY DEF SV_SendClientMessages
<1>3. CASE Reconnecting
  <2>1. ~host_client.spawned /\ host_client.sendsignon
        /\ ~sock["server"].canSend
    BY <1>3, SlotsAre DEF Reconnecting, TellsOnly
  <2>2. SendNothing(sock)
    BY <2>1 DEF SV_SendClientMessages
  <2> QED
    BY <2>2 DEF SendNothing
<1>4. CASE Game \/ \E i \in 1..3 : InSlot(i)
  <2>1. HeldBy("client") = {}
    BY <1>2, <1>4 DEF Game, InSlot, Untold
  <2>2. sock["client"].receiveMessageLength = 0
    BY <2>1, WireHolds, EndsNamed DEF Waiting
  <2>3. Driver(sock, sent, delivered)
    BY DEF Wire
  <2>4. body \in Seq(GameCmd)
    <3>1. CASE Game
      <4>1. body \in Seq({Printed})
        BY <3>1, SlotsAre DEF Game
      <4>2. body \in Seq(ServerCmd)
        BY <4>1, BodiesAre
      <4> QED
        BY <4>2, BodiesAre
    <3>2. CASE \E i \in 1..3 : InSlot(i)
      <4>1. PICK i \in 1..3 : InSlot(i)
        BY <3>2
      <4>2. body = StageOf(i, level) /\ level \in Nat
        BY <4>1, SlotsAre DEF InSlot, Runs
      <4>3. body \in Seq(ServerCmd)
        BY <4>2, BodiesAre
      <4> QED
        BY <4>3, BodiesAre
    <3> QED
      BY <1>4, <3>1, <3>2
  <2>5. l \in Nat
    BY <2>4, LengthIs
  <2>6. at \in Nat /\ at <= z /\ z \in Nat
    <3>1. CASE host_client.spawned
      <4>1. Updated \in Seq(GameCmd) /\ Length(Updated) = CommandSize["update"]
            /\ Length(Updated) \in Nat
        <5>1. Updated \in Seq(ServerCmd)
          BY BodiesAre
        <5> QED
          BY <5>1, BodiesAre, LengthOfOne
      <4>2. Driver(u, sent, delivered)
        BY <2>1, UpdateIsSent
      <4>3. u["client"].receiveMessageLength \in Nat
        BY <4>2, EndsNamed, SocketIs DEF Driver
      <4> DEFINE b == Updated
                 j == sock
                 s == sent
                 d == delivered
      <4>4. Driver(j, s, d) /\ b \in Seq(GameCmd)
        BY <2>3, <4>1
      <4>5. ASSUME NEW e \in Endpoint, e = "server"
            PROVE  Loop_SendUnreliableMessage(j, e, b)[Peer(e)]
                     .receiveMessageLength <=
                     j[Peer(e)].receiveMessageLength + IntAlign(Length(b) + 4)
        <5> HIDE DEF b, j, s, d
        <5> QED
          BY <4>4, <4>5, UnreliableLength
      <4>6. u["client"].receiveMessageLength <=
              0 + IntAlign(CommandSize["update"] + 4)
        BY <2>2, <4>1, <4>5, EndsNamed
      <4>7. CommandSize["update"] + 4 \in Nat
        BY <4>1
      <4>8. IntAlign(CommandSize["update"] + 4) \in Nat
        BY <4>7, AlignIs
      <4> QED
        BY <3>1, <4>3, <4>6, <4>8
    <3>2. CASE ~host_client.spawned
      BY <2>2, <3>2
    <3> QED
      BY <3>1, <3>2
  <2>7. ~(l + 4 > NET_MAXMESSAGE - at)
    <3> HIDE DEF l, at, z
    <3> QED
      BY <1>1, <2>5, <2>6, NET_MAXMESSAGEAssumption
  <2>8. SendReliably(k, "server", body) \/ failure' = failure
    <3>1. CASE nop
      BY <3>1 DEF SV_SendClientMessages, SendNothing
    <3>2. CASE ~nop
      BY <3>2 DEF SV_SendClientMessages, SendNothing, Updated
    <3> QED
      BY <3>1, <3>2
  <2>9. RoomFor(k, "server") = NET_MAXMESSAGE - at
    BY EndsNamed DEF RoomFor
  <2> HIDE DEF k, at
  <2>10. SendReliably(k, "server", body) => failure' = failure
    BY <2>7, <2>9 DEF SendReliably
  <2> QED
    BY <2>8, <2>10
<1>5. \A i : ~Told(i) /\ ~Replies(i) /\ ~Asked(i)
  BY <1>2 DEF Told, Replies, Asked
<1> QED
  BY <1>3, <1>4, <1>5 DEF Runs, Stands, SignsOn

LEMMA ChangelevelFits ==
  ASSUME Wire, Runs, FrameFits, Untold, Changelevel_f
  PROVE  failure' = failure
<1>1. sock["client"].receiveMessageLength = 0
  BY WireHolds, EndsNamed DEF Waiting, Untold
<1>2. RoomFor(sock, "server") = NET_MAXMESSAGE
  BY <1>1, EndsNamed, NET_MAXMESSAGEAssumption DEF RoomFor
<1>3. Length(Recalled) = CommandSize["reconnect"] /\ Length(Recalled) \in Nat
  BY LengthOfOne
<1>4. ~(Length(Recalled) + 4 > RoomFor(sock, "server"))
  BY <1>2, <1>3, NET_MAXMESSAGEAssumption DEF FrameFits
<1>5. SendReliably(sock, "server", Recalled)
  BY DEF Changelevel_f, Recalled
<1> QED
  BY <1>4, <1>5 DEF SendReliably

\* The two buffers of the loop driver are laid out as their readers take them
\* apart, one message behind the other up to receiveMessageLength, and a client
\* is spawned only if its player has loaded the level and been through the
\* stages of its sign-on (Loop_GetMessage, Loop_SendMessage, Host_Spawn_f).
THEOREM LocalIsWholeAlways ==
  ASSUME OrderlyScripts, DatagramsFit
  PROVE  LocalSpec => []LocalIsWhole
<1>1. LocalInv => LocalIsWhole
  <2> SUFFICES ASSUME LocalInv
               PROVE  LocalIsWhole
    OBVIOUS
  <2>1. ASSUME NEW e \in Endpoint
        PROVE  LaidOut(sock[e].receiveMessage, sock[e].receiveMessageLength)
    BY DEF LocalInv, Wire, Driver
  <2>2. RingIsWhole
    BY <2>1 DEF RingIsWhole, LaidOut, Span
  <2> QED
    BY <2>2 DEF LocalInv, LocalIsWhole
<1> QED
  BY <1>1, LocalInvAlways, PTL

-----------------------------------------------------------------------------
(* Nothing fails.                                                          *)

LEMMA NothingFailsNext ==
  ASSUME OrderlyScripts, DatagramsFit, LocalInv, FrameFits, NothingFails,
         [LocalNext]_localVars
  PROVE  NothingFails'
<1>1. Wire /\ Runs
  BY DEF LocalInv, NothingFails
<1>2. CASE LocalNext
  <2>1. Frame /\ failure = "none"
    BY <1>2 DEF LocalNext
  <2>2. ASSUME NEW moves \in 0..MaxMoves, SendCmd(moves)
        PROVE  failure' = failure
    BY <1>1, <2>2, SendCmdFits
  <2>3. ASSUME NEW nop \in BOOLEAN, SV_SendClientMessages(nop)
        PROVE  failure' = failure
    BY <1>1, <2>3, ServerFits
  <2>4. ASSUME Changelevel_f
        PROVE  failure' = failure
    <3>1. Untold
      BY <1>1, <2>1, <2>4, ChangelevelInOrder
    <3> QED
      BY <1>1, <2>4, <3>1, ChangelevelFits
  <2>5. ASSUME CL_ReadFromServer
        PROVE  failure' = failure
    BY <1>1, <2>1, <2>5, ReadFromServerInOrder
  <2>6. ASSUME \/ Sys_SendKeyEvents \/ Cmd_ForwardToServer
               \/ Host_Reconnect_f \/ Cbuf_ExecuteEnds
               \/ SV_ReadClientMessage \/ SV_ReadClientMessageEnds
               \/ CL_ReadFromServerEnds
        PROVE  failure' = failure
    <3>1. CASE Sys_SendKeyEvents \/ Cmd_ForwardToServer
      BY <3>1 DEF Sys_SendKeyEvents, Cmd_ForwardToServer
    <3>2. CASE Host_Reconnect_f \/ Cbuf_ExecuteEnds
      BY <3>2 DEF Host_Reconnect_f, Cbuf_ExecuteEnds
    <3>3. CASE SV_ReadClientMessage \/ SV_ReadClientMessageEnds
      BY <3>3 DEF SV_ReadClientMessage, SV_ReadClientMessageEnds
    <3>4. CASE CL_ReadFromServerEnds
      BY <3>4 DEF CL_ReadFromServerEnds
    <3> QED
      BY <2>6, <3>1, <3>2, <3>3, <3>4
  <2>7. failure' = failure
    BY <2>1, <2>2, <2>3, <2>4, <2>5, <2>6 DEF Frame
  <2> QED
    BY <2>1, <2>7 DEF NothingFails
<1>3. CASE UNCHANGED localVars
  BY <1>3 DEF localVars, NothingFails
<1> QED
  BY <1>2, <1>3

\* Loop_SendMessage never ends the program for want of room, and a sign-on number
\* never comes twice (CL_ParseServerMessage's Host_Error), if what one frame
\* writes into a buffer fits into it: nothing is left over from the frames
\* before, whatever else happened in them.
THEOREM NothingFailsWhileItFits ==
  ASSUME OrderlyScripts, DatagramsFit
  PROVE  LocalSpec /\ []FrameFits => []NothingFails
<1>1. LocalInit => NothingFails
  BY DEF LocalInit, NothingFails
<1>2. LocalInv /\ FrameFits /\ NothingFails /\ [LocalNext]_localVars
        => NothingFails'
  BY NothingFailsNext
<1>3. LocalSpec => []LocalInv
  BY LocalInvAlways
<1> QED
  BY <1>1, <1>2, <1>3, PTL DEF LocalSpec

-----------------------------------------------------------------------------
(* The channel.                                                            *)

\* The numbers the messages may have, without the bound of the run.
AnyChannel == INSTANCE ReliableChannel WITH Message <- Nat \ {0}

LEMMA ChannelInit ==
  /\ LocalInit => AnyChannel!Init
  /\ LocalInit => Channel!Init
BY DEF LocalInit, AnyChannel!Init, AnyChannel!Endpoint, Channel!Init,
       Channel!Endpoint, Endpoint

\* What a step does to the numbers, it does to those of one message.
LEMMA NumberedIs ==
  ASSUME sent \in [Endpoint -> Seq(Nat)], delivered \in [Endpoint -> Seq(Nat)],
         Numbered
  PROVE  \/ sent' = sent /\ delivered' = delivered
         \/ \E e \in Endpoint, m \in Nat \ {0} :
              /\ \E x \in Endpoint : m <= Len(sent'[x])
              /\ \/ /\ delivered[Peer(e)] = sent[e]
                    /\ sent' = [sent EXCEPT ![e] = Append(sent[e], m)]
                    /\ delivered' = delivered
                 \/ /\ sent[Peer(e)] = Append(delivered[e], m)
                    /\ delivered' =
                         [delivered EXCEPT ![e] = Append(delivered[e], m)]
                    /\ sent' = sent
<1>1. ASSUME NEW e \in Endpoint, Sending(e)
      PROVE  /\ Len(sent[e]) + 1 \in Nat \ {0}
             /\ Len(sent[e]) + 1 <= Len(sent'[e])
  <2>1. sent[e] \in Seq(Nat)
    OBVIOUS
  <2>2. sent'[e] = Append(sent[e], Len(sent[e]) + 1)
    BY <1>1 DEF Sending
  <2> DEFINE s == sent[e]
  <2> HIDE DEF s
  <2>3. Len(s) + 1 \in Nat \ {0} /\ Len(Append(s, Len(s) + 1)) = Len(s) + 1
    <3>1. s \in Seq(Nat)
      BY <2>1 DEF s
    <3>2. Len(s) + 1 \in Nat
      BY <3>1
    <3> QED
      BY <3>1, <3>2
  <2> QED
    BY <2>2, <2>3 DEF s
<1>2. ASSUME NEW e \in Endpoint, Taking(e)
      PROVE  /\ Len(sent[Peer(e)]) \in Nat \ {0} /\ Peer(e) \in Endpoint
             /\ Len(sent[Peer(e)]) <= Len(sent'[Peer(e)])
  <2>1. Peer(e) \in Endpoint
    BY EndsAre
  <2> DEFINE s == sent[Peer(e)]
             d == delivered[e]
             n == Len(sent[Peer(e)])
  <2>2. s \in Seq(Nat) /\ d \in Seq(Nat) /\ sent' = sent
    BY <1>2, <2>1 DEF Taking
  <2>3. s = Append(d, n) /\ n = Len(s)
    BY <1>2 DEF Taking
  <2> HIDE DEF s, d, n
  <2>4. n \in Nat
    BY <2>2, <2>3
  <2>5. n = Len(d) + 1 /\ Len(d) \in Nat
    BY <2>2, <2>3, <2>4
  <2>6. n # 0 /\ n <= n
    BY <2>5
  <2> QED
    BY <2>1, <2>2, <2>4, <2>6 DEF n
<1>3. CASE UNCHANGED <<sent, delivered>>
  BY <1>3
<1>4. CASE \E e \in Endpoint : Sending(e)
  BY <1>1, <1>4 DEF Sending
<1>5. CASE \E e \in Endpoint : Taking(e)
  BY <1>2, <1>5 DEF Taking
<1> QED
  BY <1>3, <1>4, <1>5 DEF Numbered

LEMMA ChannelNext ==
  ASSUME OrderlyScripts, DatagramsFit, LocalInv, [LocalNext]_localVars
  PROVE  /\ [AnyChannel!Next]_(AnyChannel!vars)
         /\ (\A e \in Endpoint : Len(sent'[e]) <= MaxMessages) =>
              [Channel!Next]_(Channel!vars)
<1>1. Numbered
  BY NextInOrder
<1>2. sent \in [Endpoint -> Seq(Nat)] /\ delivered \in [Endpoint -> Seq(Nat)]
  BY DEF LocalInv, Wire, Driver
<1>3. \/ sent' = sent /\ delivered' = delivered
      \/ \E e \in Endpoint, m \in Nat \ {0} :
           /\ \E x \in Endpoint : m <= Len(sent'[x])
           /\ \/ /\ delivered[Peer(e)] = sent[e]
                 /\ sent' = [sent EXCEPT ![e] = Append(sent[e], m)]
                 /\ delivered' = delivered
              \/ /\ sent[Peer(e)] = Append(delivered[e], m)
                 /\ delivered' =
                      [delivered EXCEPT ![e] = Append(delivered[e], m)]
                 /\ sent' = sent
  BY <1>1, <1>2, NumberedIs
<1>4. CASE sent' = sent /\ delivered' = delivered
  BY <1>4 DEF AnyChannel!vars, Channel!vars
<1>5. ASSUME NEW e \in Endpoint, NEW m \in Nat \ {0},
             \E x \in Endpoint : m <= Len(sent'[x]),
             \/ /\ delivered[Peer(e)] = sent[e]
                /\ sent' = [sent EXCEPT ![e] = Append(sent[e], m)]
                /\ delivered' = delivered
             \/ /\ sent[Peer(e)] = Append(delivered[e], m)
                /\ delivered' =
                     [delivered EXCEPT ![e] = Append(delivered[e], m)]
                /\ sent' = sent
      PROVE  /\ AnyChannel!Next
             /\ (\A x \in Endpoint : Len(sent'[x]) <= MaxMessages) =>
                  Channel!Next
  <2>1. AnyChannel!Send(e, m) \/ AnyChannel!Deliver(e, m)
    BY <1>5 DEF AnyChannel!Send, AnyChannel!Deliver, AnyChannel!Peer, Peer
  <2>2. Channel!Send(e, m) \/ Channel!Deliver(e, m)
    BY <1>5 DEF Channel!Send, Channel!Deliver, Channel!Peer, Peer
  <2>3. e \in AnyChannel!Endpoint /\ e \in Channel!Endpoint
    BY DEF Endpoint, AnyChannel!Endpoint, Channel!Endpoint
  <2>4. ASSUME \A x \in Endpoint : Len(sent'[x]) <= MaxMessages
        PROVE  m \in 1..MaxMessages
    <3>1. PICK x \in Endpoint : m <= Len(sent'[x])
      BY <1>5
    <3>2. Len(sent'[x]) <= MaxMessages
      BY <2>4
    <3>3. Len(sent'[x]) \in Nat
      <4>1. Wire'
        BY NextInOrder DEF LocalInv
      <4>2. sent'[x] \in Seq(Nat)
        BY <4>1 DEF Wire, Driver
      <4> QED
        BY <4>2
    <3> QED
      BY <3>1, <3>2, <3>3, LocalBoundsAssumption
  <2>5. AnyChannel!Next
    BY <2>1, <2>3 DEF AnyChannel!Next
  <2>6. ASSUME \A x \in Endpoint : Len(sent'[x]) <= MaxMessages
        PROVE  Channel!Next
    BY <2>2, <2>3, <2>4, <2>6 DEF Channel!Next
  <2> QED
    BY <2>5, <2>6
<1> QED
  BY <1>3, <1>4, <1>5

\* What the two hosts send reliably over the loop driver is delivered once each
\* and in order, and the next is sent when the last has been taken
\* (Loop_SendMessage, Loop_GetMessage), however many are sent.
THEOREM LocalGameIsAChannel ==
  ASSUME OrderlyScripts, DatagramsFit
  PROVE  LocalSpec => AnyChannel!Spec
<1>1. LocalInit => AnyChannel!Init
  BY ChannelInit
<1>2. LocalInv /\ [LocalNext]_localVars
        => [AnyChannel!Next]_(AnyChannel!vars)
  BY ChannelNext
<1>3. LocalSpec => []LocalInv
  BY LocalInvAlways
<1> QED
  BY <1>1, <1>2, <1>3, PTL DEF LocalSpec, AnyChannel!Spec

\* As far as the run counts.
Counted == \A e \in Endpoint : Len(sent[e]) <= MaxMessages

\* The same of the bounded channel that the run checks, as far as it counts.
THEOREM LocalGameImplementsChannel ==
  ASSUME OrderlyScripts, DatagramsFit
  PROVE  LocalSpec /\ []Counted => ImplementsReliableChannel
<1>1. LocalInit => Channel!Init
  BY ChannelInit
<1>2. LocalInv /\ [LocalNext]_localVars /\ Counted'
        => [Channel!Next]_(Channel!vars)
  <2> SUFFICES ASSUME LocalInv, [LocalNext]_localVars, Counted'
               PROVE  [Channel!Next]_(Channel!vars)
    OBVIOUS
  <2>1. \A e \in Endpoint : Len(sent'[e]) <= MaxMessages
    BY DEF Counted
  <2> QED
    BY <2>1, ChannelNext
<1>3. LocalSpec => []LocalInv
  BY LocalInvAlways
<1> QED
  BY <1>1, <1>2, <1>3, PTL DEF LocalSpec, ImplementsReliableChannel,
     Channel!Spec
=============================================================================
