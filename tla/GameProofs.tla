----------------------------- MODULE GameProofs -----------------------------
(***************************************************************************)
(* Proofs about the game a server plays: about the world of a level, and   *)
(* about the machine that runs the programs of the game.                   *)
(*                                                                         *)
(* The world: the lists of a level are whole, for any number of edicts,    *)
(* whatever programs do to them, and a walk stays in its list where no     *)
(* program moves what is linked while it goes on and no edict comes back   *)
(* in the first two seconds.  The invariant says which sequence of edicts  *)
(* each of the six lists is.  The places of a list are numbered: 0 is its  *)
(* head, then come the edicts, and the place after the last one is the     *)
(* head again.                                                             *)
(*                                                                         *)
(* The machine: its stacks neither overflow nor underflow, and it keeps    *)
(* what an activation of a function is promised, for any functions, sizes  *)
(* of the stacks and number of players.  The invariant says which          *)
(* functions are active, where each of them has saved what it stepped on,  *)
(* and how deep the programs inside programs began.                        *)
(***************************************************************************)
EXTENDS World, Progs, Loops, FiniteSetTheorems, SequenceTheorems

-----------------------------------------------------------------------------
(* THE WORLD                                                               *)

Link == Edict \cup Head_links
LinkFields == [next : [Link -> Link \cup {NULL_LINK}],
               prev : [Link -> Link \cup {NULL_LINK}]]

\* What lies in place i of the list s with the head h.
Place(s, h, i) == IF i \in 1..Len(s) THEN s[i] ELSE h

\* The links of k make the list s a ring, both ways.
IsRing(k, h, s) ==
  \A i \in 0..Len(s) : /\ k.next[Place(s, h, i)] = Place(s, h, i + 1)
                       /\ k.prev[Place(s, h, i + 1)] = Place(s, h, i)

\* No edict is in two places of the lists r.
Apart(r) ==
  \A g, h \in Head_links : \A i \in 1..Len(r[g]), j \in 1..Len(r[h]) :
    r[g][i] = r[h][j] => g = h /\ i = j

MembersOf(s) == {s[i] : i \in 1..Len(s)}
Listed(r, e) == \E h \in Head_links : e \in MembersOf(r[h])

\* The links of k make the lists r.
Rings(k, r) ==
  /\ r \in [Head_links -> Seq(Edict)]
  /\ Apart(r)
  /\ \A h \in Head_links : IsRing(k, h, r[h])
  /\ \A e \in Edict :
       ~Listed(r, e) => k.next[e] = NULL_LINK /\ k.prev[e] = NULL_LINK

\* The inductive invariant: the lists are rings, of edicts in use.
WorldTypes ==
  /\ edicts \in [Edict -> [free : {"no", "now", "later"},
                           solid : {"not", "trigger", "solid"}, box : Box]]
  /\ num_edicts \in 0..max_edicts
  /\ link \in LinkFields
InUseAndNotFree(r) ==
  \A h \in Head_links : \A e \in MembersOf(r[h]) :
    edicts[e].free = "no" /\ e \in InUse
ListsAreRings == \E r : Rings(link, r) /\ InUseAndNotFree(r)
WorldInv == WorldTypes /\ ListsAreRings

Node == {"root", "left", "right"}
WalkRecord == [ent : Edict, node : Node, l : Link \cup {NULL_LINK},
               next : Link \cup {NULL_LINK}, calls : Int]

\* x is in the list of the triggers of a node or its end, or was taken out of
\* it and may not be linked again during the walk.
Stays(k, eds, x, node) ==
  \/ x \in {Trigger_edicts(node), NULL_LINK}
  \/ x \in Members(k, Trigger_edicts(node))
  \/ x \in Edict /\ eds[x].free = "later"
GoodWalk(k, eds, w) ==
  /\ Stays(k, eds, w.l, w.node) /\ Stays(k, eds, w.next, w.node)
  /\ w.calls # NoFunction => w.l \in Edict

\* The inductive invariant of the walks, where ~Relinks and ~Early.
WalksInv ==
  /\ walks \in Seq(WalkRecord)
  /\ sv_time \in {"late", "over"}
  /\ \A e \in Edict \ InUse : edicts[e].free = "no"
  /\ \A i \in 1..Len(walks) : GoodWalk(link, edicts, walks[i])

-----------------------------------------------------------------------------
(* Places.                                                                 *)

LEMMA EdictsAreNoHeads ==
  /\ max_edicts \in Nat
  /\ \A e \in Edict : e \notin Head_links /\ e # NULL_LINK /\ e \in Nat
  /\ NULL_LINK \notin Head_links
BY WorldAssumption DEF Edict, Head_links, NULL_LINK

\* The places of the lists, and what may lie in them.
LEMMA PlaceIs ==
  ASSUME NEW h \in Head_links, NEW s \in Seq(Edict)
  PROVE  /\ Len(s) \in Nat
         /\ \A i \in 1..Len(s) : Place(s, h, i) = s[i] /\ s[i] \in Edict
         /\ Place(s, h, 0) = h /\ Place(s, h, Len(s) + 1) = h
         /\ \A i \in Int : /\ Place(s, h, i) \in Link
                           /\ \/ Place(s, h, i) = h
                              \/ Place(s, h, i) \in MembersOf(s)
         /\ MembersOf(s) \subseteq Edict
<1>1. Len(s) \in Nat /\ \A i \in 1..Len(s) : s[i] \in Edict
  OBVIOUS
<1>2. MembersOf(s) \subseteq Edict
  BY <1>1 DEF MembersOf
<1> QED
  BY <1>1, <1>2 DEF Place, Link, MembersOf

\* From the head on, and up to the head, the places are different ones.
LEMMA PlacesDiffer ==
  ASSUME NEW r \in [Head_links -> Seq(Edict)], Apart(r), NEW h \in Head_links,
         NEW i \in 0..Len(r[h]) + 1, NEW j \in 0..Len(r[h]) + 1,
         Place(r[h], h, i) = Place(r[h], h, j)
  PROVE  \/ i = j
         \/ i = 0 /\ j = Len(r[h]) + 1
         \/ j = 0 /\ i = Len(r[h]) + 1
<1> DEFINE s == r[h]
<1>1. s \in Seq(Edict) /\ Len(s) \in Nat
  OBVIOUS
<1>2. \A m \in 1..Len(s), n \in 1..Len(s) : s[m] = s[n] => m = n
  BY DEF Apart
<1>3. /\ \A m \in 1..Len(s) : Place(s, h, m) = s[m] /\ s[m] \in Edict
      /\ Place(s, h, 0) = h /\ Place(s, h, Len(s) + 1) = h
  BY <1>1, PlaceIs
<1>4. \A e \in Edict : e # h
  BY EdictsAreNoHeads
<1>5. \A m \in 0..Len(s) + 1 : m \in 1..Len(s) \/ m \in {0, Len(s) + 1}
  BY <1>1
<1> HIDE DEF s
<1>6. /\ Place(s, h, i) = Place(s, h, j)
      /\ i \in 0..Len(s) + 1 /\ j \in 0..Len(s) + 1
  BY DEF s
<1>7. CASE i \in 1..Len(s) /\ j \in 1..Len(s)
  BY <1>2, <1>3, <1>6, <1>7
<1>8. CASE i \in 1..Len(s) /\ j \in {0, Len(s) + 1}
  BY <1>3, <1>4, <1>6, <1>8
<1>9. CASE j \in 1..Len(s) /\ i \in {0, Len(s) + 1}
  BY <1>3, <1>4, <1>6, <1>9
<1>10. CASE i \in {0, Len(s) + 1} /\ j \in {0, Len(s) + 1}
  BY <1>10 DEF s
<1> QED
  BY <1>5, <1>6, <1>7, <1>8, <1>9, <1>10

\* Two lists have no place in common.
LEMMA ListsDiffer ==
  ASSUME NEW r \in [Head_links -> Seq(Edict)], Apart(r),
         NEW g \in Head_links, NEW h \in Head_links, g # h,
         NEW i \in Int, NEW j \in Int
  PROVE  Place(r[g], g, i) # Place(r[h], h, j)
<1>1. r[g] \in Seq(Edict) /\ r[h] \in Seq(Edict)
  OBVIOUS
<1>2. /\ Place(r[g], g, i) = g \/ Place(r[g], g, i) \in MembersOf(r[g])
      /\ Place(r[h], h, j) = h \/ Place(r[h], h, j) \in MembersOf(r[h])
      /\ MembersOf(r[g]) \subseteq Edict /\ MembersOf(r[h]) \subseteq Edict
  BY <1>1, PlaceIs
<1>3. \A e \in Edict : e # g /\ e # h
  BY EdictsAreNoHeads
<1>4. \A x \in MembersOf(r[g]), y \in MembersOf(r[h]) : x # y
  BY DEF MembersOf, Apart
<1> QED
  BY <1>2, <1>3, <1>4

-----------------------------------------------------------------------------
(* Unlinking and linking.                                                  *)

\* s without what lies in place j.
Without(s, j) == [i \in 1..Len(s) - 1 |-> IF i < j THEN s[i] ELSE s[i + 1]]

LEMMA WithoutIs ==
  ASSUME NEW h \in Head_links, NEW s \in Seq(Edict), NEW j \in 1..Len(s)
  PROVE  LET t == Without(s, j) IN
         /\ t \in Seq(Edict) /\ Len(t) = Len(s) - 1 /\ Len(t) \in Nat
         /\ \A i \in 1..Len(t) :
              t[i] = s[IF i < j THEN i ELSE i + 1]
         /\ \A i \in 0..Len(s) :
              Place(t, h, i) = Place(s, h, IF i < j THEN i ELSE i + 1)
<1> DEFINE t == Without(s, j)
           n == Len(s)
<1>1. n \in Nat /\ n - 1 \in Nat /\ j \in Int
  OBVIOUS
<1>2. \A i \in 1..n - 1 :
        (IF i < j THEN s[i] ELSE s[i + 1]) = s[IF i < j THEN i ELSE i + 1]
        /\ s[IF i < j THEN i ELSE i + 1] \in Edict
  OBVIOUS
<1>3. t \in [1..n - 1 -> Edict]
      /\ \A i \in 1..n - 1 : t[i] = s[IF i < j THEN i ELSE i + 1]
  BY <1>2 DEF Without
<1> HIDE DEF t
<1>4. t \in Seq(Edict) /\ Len(t) = n - 1
  BY <1>1, <1>3
<1>5. ASSUME NEW i \in 0..n
      PROVE  Place(t, h, i) = Place(s, h, IF i < j THEN i ELSE i + 1)
  <2>1. CASE i = 0 \/ i = n
    <3>1. Place(t, h, i) = h
      BY <1>1, <1>4, <2>1 DEF Place
    <3>2. (IF i < j THEN i ELSE i + 1) \notin 1..n
      BY <1>1, <2>1
    <3> QED
      BY <3>1, <3>2 DEF Place
  <2>2. CASE i \in 1..n - 1
    <3>1. (IF i < j THEN i ELSE i + 1) \in 1..n
      BY <1>1, <2>2
    <3> QED
      BY <1>3, <1>4, <2>2, <3>1 DEF Place
  <2> QED
    BY <1>1, <2>1, <2>2
<1> QED
  BY <1>1, <1>3, <1>4, <1>5 DEF t

\* The lists r without the edict in place j of the list h.
LEMMA RemoveLinkIs ==
  ASSUME NEW k \in LinkFields, NEW r, Rings(k, r),
         NEW h \in Head_links, NEW j \in 1..Len(r[h]),
         NEW e \in Edict, r[h][j] = e
  PROVE  LET out == RemoveLink(k, e)
             u == [next |-> [out.next EXCEPT ![e] = NULL_LINK],
                   prev |-> [out.prev EXCEPT ![e] = NULL_LINK]]
         IN  /\ u \in LinkFields
             /\ Rings(u, [r EXCEPT ![h] = Without(r[h], j)])
<1> DEFINE s == r[h]
           n == Len(s)
           t == Without(s, j)
           q == [r EXCEPT ![h] = t]
           Spot(i) == Place(s, h, i)
           a == Spot(j - 1)
           b == Spot(j + 1)
           out == RemoveLink(k, e)
           u == [next |-> [out.next EXCEPT ![e] = NULL_LINK],
                 prev |-> [out.prev EXCEPT ![e] = NULL_LINK]]
<1>1. /\ r \in [Head_links -> Seq(Edict)] /\ Apart(r)
      /\ s \in Seq(Edict) /\ n \in Nat /\ j \in 1..n /\ j - 1 \in 0..n
      /\ j + 1 \in 1..n + 1
  BY DEF Rings
<1>2. /\ \A i \in Int : Spot(i) \in Link
      /\ Spot(j) = e /\ Spot(0) = h /\ Spot(n + 1) = h
      /\ \A i \in 1..n : Spot(i) \in Edict
  BY <1>1, PlaceIs
<1>3. ASSUME NEW i \in 0..n + 1, NEW m \in 0..n + 1, Spot(i) = Spot(m)
      PROVE  i = m \/ (i = 0 /\ m = n + 1) \/ (m = 0 /\ i = n + 1)
  BY <1>1, <1>3, PlacesDiffer
<1>4. \A i \in 0..n : /\ k.next[Spot(i)] = Spot(i + 1)
                      /\ k.prev[Spot(i + 1)] = Spot(i)
  BY DEF Rings, IsRing
<1>5. k.next[e] = b /\ k.prev[e] = a
  BY <1>1, <1>2, <1>4
<1>6. a # e /\ b # e /\ e \in Link /\ a \in Link /\ b \in Link
  <2>1. j - 1 # j /\ j + 1 # j /\ j # 0 /\ j # n + 1
    BY <1>1
  <2>2. j \in 0..n + 1 /\ j - 1 \in 0..n + 1 /\ j + 1 \in 0..n + 1
        /\ j - 1 \in Int /\ j + 1 \in Int
    BY <1>1
  <2> HIDE DEF s, n, Spot
  <2>3. a # e
    BY <1>2, <1>3, <2>1, <2>2
  <2>4. b # e
    BY <1>2, <1>3, <2>1, <2>2
  <2> QED
    BY <1>2, <2>2, <2>3, <2>4 DEF Link
<1>7. /\ u \in LinkFields
      /\ \A x \in Link : u.next[x] = IF x = e THEN NULL_LINK
                                     ELSE IF x = a THEN b ELSE k.next[x]
      /\ \A x \in Link : u.prev[x] = IF x = e THEN NULL_LINK
                                     ELSE IF x = b THEN a ELSE k.prev[x]
  <2> HIDE DEF a, b
  <2>1. /\ k.next \in [Link -> Link \cup {NULL_LINK}]
        /\ k.prev \in [Link -> Link \cup {NULL_LINK}]
    BY DEF LinkFields
  <2>2. out = [next |-> [k.next EXCEPT ![a] = b],
               prev |-> [k.prev EXCEPT ![b] = a]]
    BY <1>5 DEF RemoveLink
  <2>3. /\ u.next = [[k.next EXCEPT ![a] = b] EXCEPT ![e] = NULL_LINK]
        /\ u.prev = [[k.prev EXCEPT ![b] = a] EXCEPT ![e] = NULL_LINK]
    BY <2>2
  <2>4. u = [next |-> u.next, prev |-> u.prev]
    OBVIOUS
  <2> HIDE DEF u, out
  <2>5. /\ u.next \in [Link -> Link \cup {NULL_LINK}]
        /\ u.prev \in [Link -> Link \cup {NULL_LINK}]
    BY <1>6, <2>1, <2>3
  <2>6. /\ \A x \in Link : u.next[x] = IF x = e THEN NULL_LINK
                                       ELSE IF x = a THEN b ELSE k.next[x]
        /\ \A x \in Link : u.prev[x] = IF x = e THEN NULL_LINK
                                       ELSE IF x = b THEN a ELSE k.prev[x]
    BY <1>6, <2>1, <2>3
  <2>7. u \in LinkFields
    BY <2>4, <2>5 DEF LinkFields
  <2> QED
    BY <2>6, <2>7
<1>8. /\ t \in Seq(Edict) /\ Len(t) = n - 1 /\ Len(t) \in Nat
      /\ \A i \in 1..Len(t) : t[i] = s[IF i < j THEN i ELSE i + 1]
      /\ \A i \in 0..n : Place(t, h, i) = Spot(IF i < j THEN i ELSE i + 1)
  BY <1>1, WithoutIs
<1>9. /\ q \in [Head_links -> Seq(Edict)] /\ q[h] = t
      /\ \A g \in Head_links \ {h} : q[g] = r[g]
  BY <1>1, <1>8
<1>10. IsRing(u, h, t)
  <2> SUFFICES ASSUME NEW i \in 0..n - 1
               PROVE  /\ u.next[Place(t, h, i)] = Place(t, h, i + 1)
                      /\ u.prev[Place(t, h, i + 1)] = Place(t, h, i)
    BY <1>8 DEF IsRing
  <2> HIDE DEF s, n, t, u, Spot
  <2>1. i \in 0..n /\ i + 1 \in 0..n /\ i \in Int
    BY <1>1
  <2>2. CASE i + 1 < j
    <3>1. Place(t, h, i) = Spot(i) /\ Place(t, h, i + 1) = Spot(i + 1)
      <4>1. i < j /\ i + 1 < j
        BY <1>1, <2>1, <2>2
      <4> QED
        BY <1>8, <2>1, <4>1
    <3>2. /\ Spot(i) # e /\ Spot(i) # a /\ Spot(i + 1) # e /\ Spot(i + 1) # b
      <4>1. /\ i # j /\ i # j - 1 /\ i + 1 # j /\ i + 1 # j + 1
            /\ j # 0 /\ j # n + 1 /\ j - 1 # n + 1 /\ i # n + 1
            /\ i + 1 # 0 /\ i + 1 # n + 1 /\ j + 1 # 0
        BY <1>1, <2>1, <2>2
      <4>2. /\ i \in 0..n + 1 /\ i + 1 \in 0..n + 1 /\ j \in 0..n + 1
            /\ j - 1 \in 0..n + 1 /\ j + 1 \in 0..n + 1
        BY <1>1, <2>1
      <4> QED
        BY <1>2, <1>3, <4>1, <4>2
    <3>3. Spot(i) \in Link /\ Spot(i + 1) \in Link
      BY <1>2, <2>1
    <3> QED
      BY <1>4, <1>7, <2>1, <3>1, <3>2, <3>3
  <2>3. CASE i + 1 = j
    <3>1. Place(t, h, i) = a /\ Place(t, h, i + 1) = b
      BY <1>1, <1>8, <2>1, <2>3
    <3> QED
      BY <1>6, <1>7, <3>1
  <2>4. CASE i >= j
    <3>1. Place(t, h, i) = Spot(i + 1) /\ Place(t, h, i + 1) = Spot(i + 2)
      BY <1>1, <1>8, <2>1, <2>4
    <3>2. /\ Spot(i + 1) # e /\ Spot(i + 1) # a
          /\ Spot(i + 2) # e /\ Spot(i + 2) # b
      <4>1. /\ i + 1 # j /\ i + 1 # j - 1 /\ i + 2 # j /\ i + 2 # j + 1
            /\ j # 0 /\ j # n + 1 /\ j - 1 # n + 1 /\ i + 1 # 0
            /\ i + 1 # n + 1 /\ i + 2 # 0 /\ j + 1 # 0
        BY <1>1, <2>1, <2>4
      <4>2. /\ i + 1 \in 0..n + 1 /\ i + 2 \in 0..n + 1 /\ j \in 0..n + 1
            /\ j - 1 \in 0..n + 1 /\ j + 1 \in 0..n + 1
        BY <1>1, <2>1
      <4> QED
        BY <1>2, <1>3, <4>1, <4>2
    <3>3. /\ Spot(i + 1) \in Link /\ Spot(i + 2) \in Link
          /\ i + 1 \in 0..n /\ i + 2 = (i + 1) + 1
      BY <1>2, <2>1
    <3> QED
      BY <1>4, <1>7, <3>1, <3>2, <3>3
  <2> QED
    BY <1>1, <2>1, <2>2, <2>3, <2>4
<1>11. ASSUME NEW g \in Head_links, g # h
       PROVE  IsRing(u, g, q[g])
  <2>1. q[g] = r[g] /\ r[g] \in Seq(Edict) /\ Len(r[g]) \in Nat
    BY <1>1, <1>9, <1>11
  <2>2. IsRing(k, g, r[g])
    BY DEF Rings
  <2> DEFINE Its(i) == Place(r[g], g, i)
  <2>3. \A i \in Int : Its(i) \in Link
    BY <2>1, PlaceIs
  <2>4. ASSUME NEW i \in Int
        PROVE  Its(i) # a /\ Its(i) # b /\ Its(i) # e
    BY <1>1, <1>2, <1>11, ListsDiffer
  <2>5. \A i \in 0..Len(r[g]) : i \in Int /\ i + 1 \in Int
    BY <2>1
  <2> HIDE DEF a, b, u, q, s, n
  <2> QED
    BY <1>7, <2>1, <2>2, <2>3, <2>4, <2>5 DEF IsRing
<1>12. Apart(q)
  <2> DEFINE In(g, i) == IF g = h /\ i >= j THEN i + 1 ELSE i
  <2>1. ASSUME NEW g \in Head_links, NEW i \in 1..Len(q[g])
        PROVE  q[g][i] = r[g][In(g, i)] /\ In(g, i) \in 1..Len(r[g])
    <3>1. CASE g = h
      BY <1>1, <1>8, <1>9, <3>1
    <3>2. CASE g # h
      BY <1>9, <3>2
    <3> QED
      BY <3>1, <3>2
  <2>2. ASSUME NEW g \in Head_links, NEW f \in Head_links,
               NEW i \in 1..Len(q[g]), NEW m \in 1..Len(q[f]),
               q[g][i] = q[f][m]
        PROVE  g = f /\ i = m
    <3>1. g = f /\ In(g, i) = In(f, m)
      <4>1. /\ In(g, i) \in 1..Len(r[g]) /\ In(f, m) \in 1..Len(r[f])
            /\ r[g][In(g, i)] = r[f][In(f, m)]
        BY <2>1, <2>2
      <4> HIDE DEF In
      <4> QED
        BY <1>1, <4>1 DEF Apart
    <3>2. i \in Int /\ m \in Int /\ j \in Int
      BY <1>1, <1>8, <1>9
    <3> QED
      BY <3>1, <3>2
  <2> QED
    BY <2>2 DEF Apart
<1>13. ASSUME NEW x \in Edict, ~Listed(q, x)
       PROVE  u.next[x] = NULL_LINK /\ u.prev[x] = NULL_LINK
  <2>1. CASE x = e
    BY <1>6, <1>7, <2>1
  <2>2. CASE x # e
    <3>1. ~Listed(r, x)
      <4> SUFFICES ASSUME NEW g \in Head_links, NEW i \in 1..Len(r[g]),
                          r[g][i] = x
                   PROVE  FALSE
        BY DEF Listed, MembersOf
      <4>1. \E m \in 1..Len(q[g]) : q[g][m] = x
        <5>1. CASE g # h
          BY <1>9, <5>1
        <5>2. CASE g = h
          <6>1. i # j /\ i \in 1..n
            BY <2>2, <5>2
          <6>2. CASE i < j
            BY <1>1, <1>8, <1>9, <5>2, <6>1, <6>2
          <6>3. CASE i > j
            <7>1. i - 1 \in 1..Len(t) /\ ~(i - 1 < j) /\ (i - 1) + 1 = i
              BY <1>1, <1>8, <6>1, <6>3
            <7>2. t[i - 1] = s[i]
              BY <1>8, <7>1
            <7> QED
              BY <1>9, <5>2, <7>1, <7>2
          <6> QED
            BY <1>1, <6>1, <6>2, <6>3
        <5> QED
          BY <5>1, <5>2
      <4> QED
        BY <4>1, <1>13 DEF Listed, MembersOf
    <3>2. k.next[x] = NULL_LINK /\ k.prev[x] = NULL_LINK
      BY <3>1 DEF Rings
    <3>3. x # a /\ x # b
      <4>1. ASSUME NEW i \in 0..n + 1
            PROVE  x # Spot(i)
        <5>1. Spot(i) = h \/ (i \in 1..n /\ Spot(i) = s[i])
          BY DEF Place
        <5>2. x # h
          BY EdictsAreNoHeads
        <5>3. i \in 1..n => x # s[i]
          BY <3>1 DEF Listed, MembersOf
        <5> QED
          BY <5>1, <5>2, <5>3
      <4>2. j - 1 \in 0..n + 1 /\ j + 1 \in 0..n + 1
        BY <1>1
      <4> QED
        BY <4>1, <4>2
    <3> QED
      BY <1>7, <2>2, <3>2, <3>3 DEF Link
  <2> QED
    BY <2>1, <2>2
<1>14. Rings(u, q)
  <2> HIDE DEF q, u, t
  <2>1. \A g \in Head_links : IsRing(u, g, q[g])
    BY <1>9, <1>10, <1>11
  <2> QED
    BY <1>9, <1>12, <1>13, <2>1 DEF Rings
<1> QED
  BY <1>7, <1>14

LEMMA InsertLinkBeforeIs ==
  ASSUME NEW k \in LinkFields, NEW r, Rings(k, r),
         NEW h \in Head_links, NEW e \in Edict, ~Listed(r, e)
  PROVE  LET u == InsertLinkBefore(k, e, h) IN
         /\ u \in LinkFields
         /\ Rings(u, [r EXCEPT ![h] = Append(r[h], e)])
<1> DEFINE s == r[h]
           n == Len(s)
           t == Append(s, e)
           q == [r EXCEPT ![h] = t]
           a == Place(s, h, n)
           u == InsertLinkBefore(k, e, h)
<1>1. /\ r \in [Head_links -> Seq(Edict)] /\ Apart(r)
      /\ s \in Seq(Edict) /\ n \in Nat
  BY DEF Rings
<1>2. /\ \A i \in Int : Place(s, h, i) \in Link
      /\ Place(s, h, 0) = h /\ Place(s, h, n + 1) = h
      /\ \A i \in 1..n : Place(s, h, i) = s[i] /\ s[i] \in Edict
  BY <1>1, PlaceIs
<1>3. /\ t \in Seq(Edict) /\ Len(t) = n + 1 /\ t[n + 1] = e
      /\ \A i \in 1..n : t[i] = s[i]
  BY <1>1
<1>4. /\ \A i \in 0..n : Place(t, h, i) = Place(s, h, i)
      /\ Place(t, h, n + 1) = e /\ Place(t, h, n + 2) = h
  <2>1. \A i \in 0..n : i \in 1..n + 1 <=> i \in 1..n
    BY <1>1
  <2>2. n + 1 \in 1..n + 1 /\ n + 2 \notin 1..n + 1
    BY <1>1
  <2> HIDE DEF s, t
  <2> QED
    BY <1>3, <2>1, <2>2 DEF Place
<1>5. \A i \in 0..n : /\ k.next[Place(s, h, i)] = Place(s, h, i + 1)
                      /\ k.prev[Place(s, h, i + 1)] = Place(s, h, i)
  BY DEF Rings, IsRing
<1>6. k.prev[h] = a /\ n \in 0..n
  BY <1>1, <1>2, <1>5
<1>7. ASSUME NEW g \in Head_links, NEW i \in Int
      PROVE  Place(r[g], g, i) # e
  <2>1. r[g] \in Seq(Edict)
    BY <1>1
  <2>2. Place(r[g], g, i) = g \/ Place(r[g], g, i) \in MembersOf(r[g])
    BY <2>1, PlaceIs
  <2> QED
    BY <2>2, EdictsAreNoHeads DEF Listed
<1>8. e # h /\ e # a /\ e \in Link /\ h \in Link /\ a \in Link
  BY <1>1, <1>2, <1>7, EdictsAreNoHeads DEF Link
<1>9. /\ u \in LinkFields
      /\ \A x \in Link : u.next[x] = IF x = a THEN e
                                     ELSE IF x = e THEN h ELSE k.next[x]
      /\ \A x \in Link : u.prev[x] = IF x = h THEN e
                                     ELSE IF x = e THEN a ELSE k.prev[x]
  <2> HIDE DEF a
  <2>1. /\ k.next \in [Link -> Link \cup {NULL_LINK}]
        /\ k.prev \in [Link -> Link \cup {NULL_LINK}]
    BY DEF LinkFields
  <2>2. /\ u.next = [[k.next EXCEPT ![e] = h] EXCEPT ![a] = e]
        /\ u.prev = [[k.prev EXCEPT ![e] = a] EXCEPT ![h] = e]
        /\ u = [next |-> u.next, prev |-> u.prev]
    BY <1>6 DEF InsertLinkBefore
  <2> HIDE DEF u
  <2>3. /\ u.next \in [Link -> Link \cup {NULL_LINK}]
        /\ u.prev \in [Link -> Link \cup {NULL_LINK}]
    BY <1>8, <2>1, <2>2
  <2>4. u \in LinkFields
    BY <2>2, <2>3 DEF LinkFields
  <2>5. /\ \A x \in Link : u.next[x] = IF x = a THEN e
                                       ELSE IF x = e THEN h ELSE k.next[x]
        /\ \A x \in Link : u.prev[x] = IF x = h THEN e
                                       ELSE IF x = e THEN a ELSE k.prev[x]
    BY <1>8, <2>1, <2>2
  <2> QED
    BY <2>4, <2>5
<1>10. /\ q \in [Head_links -> Seq(Edict)] /\ q[h] = t
       /\ \A g \in Head_links \ {h} : q[g] = r[g]
  BY <1>1, <1>3
<1>11. IsRing(u, h, t)
  <2> SUFFICES ASSUME NEW i \in 0..n + 1
               PROVE  /\ u.next[Place(t, h, i)] = Place(t, h, i + 1)
                      /\ u.prev[Place(t, h, i + 1)] = Place(t, h, i)
    BY <1>3 DEF IsRing
  <2> DEFINE Spot(i_1) == Place(s, h, i_1)
  <2>1. CASE i = n + 1
    <3>1. Place(t, h, i) = e /\ Place(t, h, i + 1) = h
      <4>1. i + 1 = n + 2
        BY <1>1, <2>1
      <4> QED
        BY <1>4, <2>1, <4>1
    <3> QED
      BY <1>8, <1>9, <3>1
  <2>2. CASE i = n
    <3>1. Place(t, h, i) = a /\ Place(t, h, i + 1) = e
      BY <1>1, <1>4, <2>2
    <3> QED
      BY <1>8, <1>9, <3>1
  <2>3. CASE i < n
    <3>1. i \in 0..n /\ i + 1 \in 0..n /\ i \in Int /\ i + 1 \in Int
      BY <1>1, <2>3
    <3>2. Place(t, h, i) = Spot(i) /\ Place(t, h, i + 1) = Spot(i + 1)
      BY <1>4, <3>1
    <3>3. Spot(i) # a
      <4>1. /\ i \in 0..n + 1 /\ n \in 0..n + 1
            /\ i # n /\ i # n + 1 /\ n # n + 1
        BY <1>1, <2>3, <3>1
      <4> QED
        BY <1>1, <4>1, PlacesDiffer
    <3>4. Spot(i + 1) # h
      <4>1. /\ i + 1 \in 0..n + 1 /\ 0 \in 0..n + 1
            /\ i + 1 # 0 /\ i + 1 # n + 1
        BY <1>1, <2>3, <3>1
      <4> QED
        BY <1>1, <1>2, <4>1, PlacesDiffer
    <3>5. /\ Spot(i) # e /\ Spot(i + 1) # e
          /\ Spot(i) \in Link /\ Spot(i + 1) \in Link
      BY <1>2, <1>7, <3>1
    <3>6. k.next[Spot(i)] = Spot(i + 1) /\ k.prev[Spot(i + 1)] = Spot(i)
      BY <1>5, <3>1
    <3> HIDE DEF Spot, u, a
    <3> QED
      BY <1>9, <3>2, <3>3, <3>4, <3>5, <3>6
  <2> QED
    BY <1>1, <2>1, <2>2, <2>3
<1>12. ASSUME NEW g \in Head_links, g # h
       PROVE  IsRing(u, g, q[g])
  <2>1. q[g] = r[g] /\ r[g] \in Seq(Edict) /\ Len(r[g]) \in Nat
    BY <1>1, <1>10, <1>12
  <2>2. IsRing(k, g, r[g])
    BY DEF Rings
  <2> DEFINE Its(i) == Place(r[g], g, i)
  <2>3. \A i \in Int : Its(i) \in Link
    BY <2>1, PlaceIs
  <2>4. ASSUME NEW i \in Int
        PROVE  Its(i) # a /\ Its(i) # h /\ Its(i) # e
    <3>1. Its(i) # a /\ Its(i) # Place(s, h, 0)
      BY <1>1, <1>12, ListsDiffer
    <3> QED
      BY <1>2, <1>7, <3>1
  <2>5. \A i \in 0..Len(r[g]) : i \in Int /\ i + 1 \in Int
    BY <2>1
  <2> HIDE DEF a, u, q, s, n
  <2> QED
    BY <1>9, <2>1, <2>2, <2>3, <2>4, <2>5 DEF IsRing
<1>13. Apart(q)
  <2>1. ASSUME NEW g \in Head_links, NEW i \in 1..Len(q[g])
        PROVE  \/ i \in 1..Len(r[g]) /\ q[g][i] = r[g][i]
               \/ g = h /\ i = n + 1 /\ q[g][i] = e
    <3>1. CASE g = h
      BY <1>1, <1>3, <1>10, <3>1
    <3>2. CASE g # h
      BY <1>10, <3>2
    <3> QED
      BY <3>1, <3>2
  <2>2. \A g \in Head_links : \A i \in 1..Len(r[g]) : r[g][i] # e
    BY DEF Listed, MembersOf
  <2> SUFFICES ASSUME NEW g \in Head_links, NEW f \in Head_links,
                      NEW i \in 1..Len(q[g]), NEW m \in 1..Len(q[f]),
                      q[g][i] = q[f][m]
               PROVE  g = f /\ i = m
    BY DEF Apart
  <2>3. \/ i \in 1..Len(r[g]) /\ q[g][i] = r[g][i]
        \/ g = h /\ i = n + 1 /\ q[g][i] = e
    BY <2>1
  <2>4. \/ m \in 1..Len(r[f]) /\ q[f][m] = r[f][m]
        \/ f = h /\ m = n + 1 /\ q[f][m] = e
    BY <2>1
  <2> HIDE DEF q, n
  <2> QED
    BY <1>1, <2>2, <2>3, <2>4 DEF Apart
<1>14. ASSUME NEW x \in Edict, ~Listed(q, x)
       PROVE  u.next[x] = NULL_LINK /\ u.prev[x] = NULL_LINK
  <2>1. x # e
    <3>1. n + 1 \in 1..Len(t)
      BY <1>1, <1>3
    <3> QED
      BY <1>3, <1>10, <1>14, <3>1 DEF Listed, MembersOf
  <2>2. ~Listed(r, x)
    <3> SUFFICES ASSUME NEW g \in Head_links, NEW i \in 1..Len(r[g]),
                        r[g][i] = x
                 PROVE  Listed(q, x)
      BY <1>14 DEF Listed, MembersOf
    <3>1. i \in 1..Len(q[g]) /\ q[g][i] = x
      <4>1. CASE g = h
        BY <1>1, <1>3, <1>10, <4>1
      <4>2. CASE g # h
        BY <1>10, <4>2
      <4> QED
        BY <4>1, <4>2
    <3> HIDE DEF q
    <3> QED
      BY <3>1 DEF Listed, MembersOf
  <2>3. k.next[x] = NULL_LINK /\ k.prev[x] = NULL_LINK
    BY <2>2 DEF Rings
  <2>4. x # a /\ x # h
    <3>1. a = h \/ a \in MembersOf(s)
      BY <1>1, PlaceIs
    <3>2. x \notin MembersOf(s)
      BY <2>2 DEF Listed
    <3> QED
      BY <3>1, <3>2, EdictsAreNoHeads
  <2> HIDE DEF u, a
  <2> QED
    BY <1>9, <2>1, <2>3, <2>4 DEF Link
<1>15. Rings(u, q)
  <2> HIDE DEF q, u, t
  <2>1. \A g \in Head_links : IsRing(u, g, q[g])
    BY <1>10, <1>11, <1>12
  <2> QED
    BY <1>10, <1>13, <1>14, <2>1 DEF Rings
<1> QED
  BY <1>9, <1>15

-----------------------------------------------------------------------------
(* The lists, operation by operation.                                      *)

\* What a list has in common with one it has become.
LEMMA SV_UnlinkEdictIs ==
  ASSUME NEW k \in LinkFields, NEW r, Rings(k, r), NEW e \in Edict
  PROVE  LET u == SV_UnlinkEdict(k, e) IN
         /\ u \in LinkFields
         /\ \E q : /\ Rings(u, q)
                  /\ \A h \in Head_links :
                       MembersOf(q[h]) = MembersOf(r[h]) \ {e}
<1> DEFINE u == SV_UnlinkEdict(k, e)
<1>1. r \in [Head_links -> Seq(Edict)] /\ Apart(r)
  BY DEF Rings
<1>2. CASE ~Listed(r, e)
  <2>1. k.prev[e] = NULL_LINK
    BY <1>2 DEF Rings
  <2>2. u = k
    BY <2>1 DEF SV_UnlinkEdict, IsLinked
  <2>3. \A h \in Head_links : MembersOf(r[h]) = MembersOf(r[h]) \ {e}
    BY <1>2 DEF Listed
  <2> QED
    BY <2>2, <2>3
<1>3. CASE Listed(r, e)
  <2>0. PICK h \in Head_links : \E j \in 1..Len(r[h]) : r[h][j] = e
    BY <1>3 DEF Listed, MembersOf
  <2>1. PICK j \in 1..Len(r[h]) : r[h][j] = e
    BY <2>0
  <2> DEFINE q == [r EXCEPT ![h] = Without(r[h], j)]
             s == r[h]
             t == Without(s, j)
  <2>2. s \in Seq(Edict) /\ Len(s) \in Nat /\ j \in 1..Len(s) /\ j \in Int
    BY <1>1, <2>1
  <2>3. k.prev[e] # NULL_LINK
    <3>1. IsRing(k, h, s) /\ Place(s, h, j) = e
      BY <2>1, <2>2, PlaceIs DEF Rings
    <3>2. j - 1 \in 0..Len(s) /\ (j - 1) + 1 = j /\ j - 1 \in Int
      BY <2>2
    <3>3. k.prev[e] = Place(s, h, j - 1)
      BY <3>1, <3>2 DEF IsRing
    <3>4. Place(s, h, j - 1) \in Link
      BY <2>2, <3>2, PlaceIs
    <3> QED
      BY <3>3, <3>4, EdictsAreNoHeads DEF Link
  <2>4. u \in LinkFields /\ Rings(u, q)
    BY <2>1, <2>3, RemoveLinkIs DEF SV_UnlinkEdict, IsLinked
  <2>5. /\ t \in Seq(Edict) /\ Len(t) = Len(s) - 1 /\ Len(t) \in Nat
        /\ \A i \in 1..Len(t) : t[i] = s[IF i < j THEN i ELSE i + 1]
    BY <2>2, WithoutIs
  <2>6. q[h] = t /\ \A g \in Head_links \ {h} : q[g] = r[g]
    BY <1>1
  <2>7. \A i \in 1..Len(s) : (s[i] = e) <=> (i = j)
    BY <1>1, <2>1 DEF Apart
  <2>8. MembersOf(t) = MembersOf(s) \ {e}
    <3> HIDE DEF t, s
    <3>1. ASSUME NEW i \in 1..Len(t)
          PROVE  t[i] \in MembersOf(s) /\ t[i] # e
      <4>1. /\ (IF i < j THEN i ELSE i + 1) \in 1..Len(s)
            /\ (IF i < j THEN i ELSE i + 1) # j
        BY <2>2, <2>5
      <4>2. t[i] = s[IF i < j THEN i ELSE i + 1]
        BY <2>5
      <4> QED
        BY <2>7, <4>1, <4>2 DEF MembersOf
    <3>2. ASSUME NEW i \in 1..Len(s), s[i] # e
          PROVE  s[i] \in MembersOf(t)
      <4>1. i # j
        BY <2>7, <3>2
      <4>2. CASE i < j
        <5>1. i \in 1..Len(t) /\ t[i] = s[i]
          BY <2>2, <2>5, <4>2
        <5> QED
          BY <5>1 DEF MembersOf
      <4>3. CASE i > j
        <5>1. i - 1 \in 1..Len(t) /\ ~(i - 1 < j) /\ (i - 1) + 1 = i
          BY <2>2, <2>5, <4>3
        <5>2. t[i - 1] = s[i]
          BY <2>5, <5>1
        <5> QED
          BY <5>1, <5>2 DEF MembersOf
      <4> QED
        BY <2>2, <4>1, <4>2, <4>3
    <3> QED
      BY <3>1, <3>2 DEF MembersOf
  <2>9. ASSUME NEW g \in Head_links
        PROVE  MembersOf(q[g]) = MembersOf(r[g]) \ {e}
    <3>1. CASE g = h
      BY <2>6, <2>8, <3>1
    <3>2. CASE g # h
      <4>1. e \notin MembersOf(r[g])
        BY <1>1, <2>1, <3>2 DEF Apart, MembersOf
      <4> QED
        BY <2>6, <3>2, <4>1
    <3> QED
      BY <3>1, <3>2
  <2> QED
    BY <2>4, <2>9
<1> QED
  BY <1>2, <1>3

\* Relinked moves one edict: into a list if it is not free, or out of all.
LEMMA RelinkedIs ==
  ASSUME link \in LinkFields, NEW r, Rings(link, r),
         NEW e \in Edict, NEW ent, ent.box \in Box
  PROVE  LET u == Relinked(e, ent) IN
         /\ u \in LinkFields
         /\ \E q : /\ Rings(u, q)
                  /\ \A h \in Head_links :
                       /\ MembersOf(q[h]) \ {e} = MembersOf(r[h]) \ {e}
                       /\ ent.free # "no" => e \notin MembersOf(q[h])
<1> DEFINE out == SV_UnlinkEdict(link, e)
           u == Relinked(e, ent)
<1>1. out \in LinkFields
  BY SV_UnlinkEdictIs
<1>2. PICK q : /\ Rings(out, q)
               /\ \A h \in Head_links : MembersOf(q[h]) = MembersOf(r[h]) \ {e}
  BY SV_UnlinkEdictIs
<1> HIDE DEF out
<1>3. CASE ent.free # "no" \/ ent.solid = "not"
  <2>1. u = out
    BY <1>3 DEF Relinked, out
  <2> QED
    BY <1>1, <1>2, <2>1
<1>4. CASE ~(ent.free # "no" \/ ent.solid = "not")
  <2>1. PICK h \in Head_links : u = InsertLinkBefore(out, e, h)
    <3>1. /\ Trigger_edicts(NodeOf(ent.box)) \in Head_links
          /\ Solid_edicts(NodeOf(ent.box)) \in Head_links
      BY DEF Trigger_edicts, Solid_edicts, NodeOf, Box, Head_links
    <3> QED
      BY <1>4, <3>1 DEF Relinked, out
  <2>2. ~Listed(q, e)
    BY <1>2 DEF Listed
  <2> DEFINE p == [q EXCEPT ![h] = Append(q[h], e)]
  <2>3. u \in LinkFields /\ Rings(u, p)
    BY <1>1, <1>2, <2>1, <2>2, InsertLinkBeforeIs
  <2>4. MembersOf(Append(q[h], e)) = MembersOf(q[h]) \cup {e}
    <3> DEFINE s == q[h]
    <3>1. s \in Seq(Edict) /\ Len(s) \in Nat
      BY <1>2 DEF Rings
    <3>2. /\ Len(Append(s, e)) = Len(s) + 1 /\ Append(s, e)[Len(s) + 1] = e
          /\ \A i \in 1..Len(s) : Append(s, e)[i] = s[i]
      BY <3>1
    <3>3. \A i : (i \in 1..Len(s) + 1) <=> (i \in 1..Len(s) \/ i = Len(s) + 1)
      BY <3>1
    <3> HIDE DEF s
    <3>4. MembersOf(Append(s, e)) = MembersOf(s) \cup {e}
      BY <3>2, <3>3 DEF MembersOf
    <3> QED
      BY <3>4 DEF s
  <2>5. \A g \in Head_links : MembersOf(p[g]) \ {e} = MembersOf(r[g]) \ {e}
    <3>1. q \in [Head_links -> Seq(Edict)]
      BY <1>2 DEF Rings
    <3>2. \A g \in Head_links :
            p[g] = IF g = h THEN Append(q[h], e) ELSE q[g]
      BY <3>1
    <3> HIDE DEF p
    <3> QED
      BY <1>2, <2>4, <3>2
  <2> QED
    BY <1>4, <2>3, <2>5
<1> QED
  BY <1>3, <1>4

-----------------------------------------------------------------------------
(* What one comes by from a head on.                                       *)

\* A list is not longer than there are edicts.
LEMMA ListFits ==
  ASSUME NEW r \in [Head_links -> Seq(Edict)], Apart(r), NEW h \in Head_links
  PROVE  Len(r[h]) <= max_edicts
<1> DEFINE s == r[h]
           n == Len(s)
<1>1. s \in Seq(Edict) /\ n \in Nat /\ s \in [1..n -> Edict]
  OBVIOUS
<1>2. \A i \in 1..n, j \in 1..n : s[i] = s[j] => i = j
  BY DEF Apart
<1> HIDE DEF s, n
<1>3. s \in Injection(1..n, Edict)
  BY <1>1, <1>2 DEF Injection, IsInjective
<1>4. IsFiniteSet(Edict) /\ Cardinality(Edict) = max_edicts
  <2>1. max_edicts \in Nat \ {0}
    BY WorldAssumption
  <2> QED
    BY <2>1, FS_Interval DEF Edict
<1>5. Cardinality(1..n) = n
  BY <1>1, FS_Interval
<1>6. Cardinality(1..n) <= Cardinality(Edict)
  BY <1>3, <1>4, FS_Injection
<1> QED
  BY <1>4, <1>5, <1>6 DEF n, s

LEMMA FromIs ==
  ASSUME NEW k \in LinkFields, NEW r, Rings(k, r), NEW h \in Head_links
  PROVE  \A n \in 0..max_edicts :
           From(k, h)[n] = IF n < Len(r[h]) THEN r[h][n + 1] ELSE h
<1> DEFINE s == r[h]
           N == max_edicts
           g == [n \in 0..N |-> IF n < Len(s) THEN s[n + 1] ELSE h]
           Is(c) == c = [n \in 0..N |->
                           IF n = 0 THEN k.next[h]
                           ELSE IF c[n - 1] \in Edict
                                THEN k.next[c[n - 1]] ELSE c[n - 1]]
           f == CHOOSE c : Is(c)
<1>1. /\ r \in [Head_links -> Seq(Edict)] /\ Apart(r)
      /\ s \in Seq(Edict) /\ Len(s) \in Nat /\ N \in Nat
      /\ \A i \in 1..Len(s) : s[i] \in Edict
  BY EdictsAreNoHeads DEF Rings
<1>2. Len(s) <= N
  BY <1>1, ListFits
<1>3. From(k, h) = f
  BY DEF From
<1>4. \A i \in 0..Len(s) : k.next[Place(s, h, i)] = Place(s, h, i + 1)
  BY DEF Rings, IsRing
<1>5. /\ \A i \in 1..Len(s) : Place(s, h, i) = s[i]
      /\ Place(s, h, 0) = h /\ Place(s, h, Len(s) + 1) = h
  BY <1>1, PlaceIs
<1>6. \A n \in 0..N : g[n] = IF n < Len(s) THEN s[n + 1] ELSE h
  OBVIOUS
<1> HIDE DEF s, N
<1>7. g[0] = k.next[h]
  <2>1. 0 \in 0..N /\ 0 \in 0..Len(s) /\ 0 + 1 = 1
    BY <1>1
  <2>2. CASE 0 < Len(s)
    BY <1>1, <1>4, <1>5, <1>6, <2>1, <2>2
  <2>3. CASE Len(s) = 0
    BY <1>4, <1>5, <1>6, <2>1, <2>3
  <2> QED
    BY <1>1, <2>2, <2>3
<1>8. ASSUME NEW n \in 1..N
      PROVE  g[n] = IF g[n - 1] \in Edict THEN k.next[g[n - 1]] ELSE g[n - 1]
  <2>1. n \in 0..N /\ n - 1 \in 0..N /\ n \in Nat /\ (n - 1) + 1 = n
    BY <1>1
  <2>2. CASE n <= Len(s)
    <3>1. n \in 1..Len(s) /\ n - 1 < Len(s) /\ n \in 0..Len(s)
      BY <1>1, <2>1, <2>2
    <3>2. g[n - 1] = s[n] /\ s[n] \in Edict
      BY <1>1, <1>6, <2>1, <3>1
    <3>3. k.next[s[n]] = Place(s, h, n + 1)
      BY <1>4, <1>5, <3>1
    <3>4. Place(s, h, n + 1) = g[n]
      <4>1. CASE n < Len(s)
        <5>1. n + 1 \in 1..Len(s)
          BY <1>1, <2>1, <4>1
        <5> QED
          BY <1>5, <1>6, <2>1, <4>1, <5>1
      <4>2. CASE n = Len(s)
        <5>1. ~(n < Len(s))
          BY <1>1, <4>2
        <5> QED
          BY <1>5, <1>6, <2>1, <4>2, <5>1
      <4> QED
        BY <1>1, <2>1, <2>2, <4>1, <4>2
    <3> QED
      BY <3>2, <3>3, <3>4
  <2>3. CASE n > Len(s)
    <3>1. ~(n - 1 < Len(s)) /\ ~(n < Len(s))
      BY <1>1, <2>1, <2>3
    <3>2. g[n - 1] = h /\ g[n] = h
      BY <1>6, <2>1, <3>1
    <3> QED
      BY <3>2, EdictsAreNoHeads
  <2> QED
    BY <1>1, <2>1, <2>2, <2>3
<1>9. Is(f)
  <2>1. Is(g)
    <3>1. \A n \in 0..N : n # 0 => n \in 1..N
      BY <1>1
    <3>2. g = [n \in 0..N |-> g[n]]
      OBVIOUS
    <3> HIDE DEF g
    <3>3. \A n \in 0..N : g[n] = IF n = 0 THEN k.next[h]
                                 ELSE IF g[n - 1] \in Edict
                                      THEN k.next[g[n - 1]] ELSE g[n - 1]
      BY <1>7, <1>8, <3>1
    <3> QED
      BY <3>2, <3>3
  <2> HIDE DEF Is, g
  <2> QED
    BY <2>1
<1>10. /\ f[0] = k.next[h]
       /\ \A n \in 1..N : f[n] = IF f[n - 1] \in Edict
                                THEN k.next[f[n - 1]] ELSE f[n - 1]
  <2> HIDE DEF f
  <2>1. 0 \in 0..N /\ \A n \in 1..N : n \in 0..N /\ n # 0
    BY <1>1
  <2> QED
    BY <1>9, <2>1
<1> DEFINE S == {n \in 0..N : f[n] = g[n]}
<1>11. 0..N \subseteq S
  <2> HIDE DEF f, g
  <2>1. 0 \in S
    BY <1>1, <1>7, <1>10
  <2>2. ASSUME NEW n \in 1..N, n - 1 \in S
        PROVE  n \in S
    <3>1. n \in 0..N /\ f[n - 1] = g[n - 1]
      BY <1>1, <2>2
    <3> QED
      BY <1>8, <1>10, <3>1
  <2> HIDE DEF S
  <2> QED
    BY <1>1, <2>1, <2>2, AfterEveryTurn
<1>12. \A n \in 0..N : f[n] = g[n]
  BY <1>11
<1> HIDE DEF f, g
<1>13. \A n \in 0..N : From(k, h)[n] = IF n < Len(s) THEN s[n + 1] ELSE h
  BY <1>3, <1>6, <1>12
<1> QED
  BY <1>13 DEF s, N

\* The walk from a head comes by the edicts of its list and back.
LEMMA MembersAre ==
  ASSUME NEW k \in LinkFields, NEW r, Rings(k, r), NEW h \in Head_links
  PROVE  From(k, h)[max_edicts] = h /\ Members(k, h) = MembersOf(r[h])
<1> DEFINE s == r[h]
<1>1. /\ r \in [Head_links -> Seq(Edict)] /\ Apart(r)
      /\ s \in Seq(Edict) /\ Len(s) \in Nat
      /\ \A i \in 1..Len(s) : s[i] \in Edict
  BY DEF Rings
<1>2. Len(s) <= max_edicts /\ max_edicts \in Nat
  BY <1>1, ListFits, EdictsAreNoHeads
<1>3. \A n \in 0..max_edicts :
        From(k, h)[n] = IF n < Len(s) THEN s[n + 1] ELSE h
  BY FromIs
<1>4. h \notin Edict
  BY EdictsAreNoHeads
<1> HIDE DEF s
<1>5. From(k, h)[max_edicts] = h
  <2>1. max_edicts \in 0..max_edicts /\ ~(max_edicts < Len(s))
    BY <1>1, <1>2
  <2> QED
    BY <1>3, <2>1
<1>6. Members(k, h) = MembersOf(s)
  <2>1. ASSUME NEW n \in 0..max_edicts, From(k, h)[n] \in Edict
        PROVE  From(k, h)[n] \in MembersOf(s)
    <3>1. n < Len(s) /\ From(k, h)[n] = s[n + 1]
      BY <1>3, <1>4, <2>1
    <3>2. n + 1 \in 1..Len(s)
      BY <1>1, <3>1
    <3> QED
      BY <3>1, <3>2 DEF MembersOf
  <2>2. ASSUME NEW i \in 1..Len(s)
        PROVE  \E n \in 0..max_edicts : From(k, h)[n] = s[i]
    <3>1. i - 1 \in 0..max_edicts /\ i - 1 < Len(s) /\ (i - 1) + 1 = i
      BY <1>1, <1>2
    <3>2. From(k, h)[i - 1] = s[i]
      BY <1>3, <3>1
    <3> QED
      BY <3>1, <3>2
  <2> QED
    BY <1>1, <2>1, <2>2 DEF Members, MembersOf
<1> QED
  BY <1>5, <1>6 DEF s

-----------------------------------------------------------------------------
(* The invariant.                                                          *)

LEMMA WorldInvInit ==
  ASSUME WorldInit
  PROVE  WorldInv
<1> DEFINE r == [h \in Head_links |-> <<>>]
<1>1. WorldTypes
  <2>1. edicts \in [Edict -> [free : {"no", "now", "later"},
                           solid : {"not", "trigger", "solid"}, box : Box]]
    BY DEF WorldInit, Box
  <2>2. num_edicts \in 0..max_edicts
    BY EdictsAreNoHeads DEF WorldInit
  <2>3. link \in LinkFields
    BY DEF WorldInit, LinkFields, Link
  <2> QED
    BY <2>1, <2>2, <2>3 DEF WorldTypes
<1>2. \A h \in Head_links : /\ link.next[h] = h /\ link.prev[h] = h
  BY EdictsAreNoHeads DEF WorldInit
<1>3. \A e \in Edict : link.next[e] = NULL_LINK /\ link.prev[e] = NULL_LINK
  BY DEF WorldInit
<1>4. \A h \in Head_links : r[h] = <<>> /\ Len(r[h]) = 0
  OBVIOUS
<1>5. Rings(link, r)
  <2>1. r \in [Head_links -> Seq(Edict)]
    OBVIOUS
  <2> HIDE DEF r
  <2>2. Apart(r)
    BY <1>4 DEF Apart
  <2>3. \A h \in Head_links : IsRing(link, h, r[h])
    BY <1>2, <1>4 DEF IsRing, Place
  <2> QED
    BY <1>3, <2>1, <2>2, <2>3 DEF Rings
<1>6. InUseAndNotFree(r)
  <2> HIDE DEF r
  <2> QED
    BY <1>4 DEF InUseAndNotFree, MembersOf
<1> QED
  BY <1>1, <1>5, <1>6 DEF WorldInv, ListsAreRings

\* An edict may be taken where it is in no list.
LEMMA SpawnKeepsWorld ==
  ASSUME WorldInv, NEW solid \in {"trigger", "solid"}, PF_Spawn(solid)
  PROVE  WorldInv'
<1> DEFINE free == {e \in InUse : Reusable(e)}
           new == IF free # {} THEN CHOOSE e \in free : \A x \in free : e <= x
                  ELSE num_edicts + 1
<1>1. link' = link
  BY DEF PF_Spawn
<1>2. \/ /\ new \in Edict
         /\ edicts' = [edicts EXCEPT ![new] =
                         [free |-> "no", solid |-> solid, box |-> "both"]]
         /\ num_edicts' = IF new > num_edicts THEN new ELSE num_edicts
      \/ UNCHANGED <<edicts, num_edicts>>
  BY DEF PF_Spawn
<1> HIDE DEF new
<1>3. CASE UNCHANGED <<edicts, num_edicts>>
  BY <1>1, <1>3 DEF WorldInv, WorldTypes, ListsAreRings, InUseAndNotFree, InUse
<1>4. CASE /\ new \in Edict
           /\ edicts' = [edicts EXCEPT ![new] =
                           [free |-> "no", solid |-> solid, box |-> "both"]]
           /\ num_edicts' = IF new > num_edicts THEN new ELSE num_edicts
  <2>1. WorldTypes'
    <3>1. edicts' \in [Edict -> [free : {"no", "now", "later"},
                           solid : {"not", "trigger", "solid"}, box : Box]]
      BY <1>4 DEF WorldInv, WorldTypes, Box
    <3>2. num_edicts' \in 0..max_edicts
      BY <1>4, EdictsAreNoHeads DEF WorldInv, WorldTypes, Edict
    <3> QED
      BY <1>1, <3>1, <3>2 DEF WorldInv, WorldTypes
  <2>2. PICK r : Rings(link, r) /\ InUseAndNotFree(r)
    BY DEF WorldInv, ListsAreRings
  <2>3. ASSUME NEW h \in Head_links, NEW e \in MembersOf(r[h])
        PROVE  edicts'[e].free = "no" /\ e \in InUse'
    <3>1. edicts[e].free = "no" /\ e \in InUse
      BY <2>2 DEF InUseAndNotFree
    <3>2. e \in Edict
      <4>1. r[h] \in Seq(Edict)
        BY <2>2 DEF Rings
      <4> QED
        BY <4>1, PlaceIs
    <3>3. edicts'[e].free = "no"
      BY <1>4, <3>1, <3>2 DEF WorldInv, WorldTypes
    <3>4. e \in InUse'
      BY <1>4, <3>1, EdictsAreNoHeads DEF WorldInv, WorldTypes, InUse, Edict
    <3> QED
      BY <3>3, <3>4
  <2> QED
    BY <1>1, <2>1, <2>2, <2>3 DEF WorldInv, ListsAreRings, InUseAndNotFree
<1> QED
  BY <1>2, <1>3, <1>4

\* An edict that is freed is in no list any more.
LEMMA FreeKeepsWorld ==
  ASSUME WorldInv, NEW e \in InUse, ED_Free(e), UNCHANGED num_edicts
  PROVE  WorldInv'
<1>1. e \in Edict
  BY EdictsAreNoHeads DEF WorldInv, WorldTypes, InUse, Edict
<1>2. PICK r : Rings(link, r) /\ InUseAndNotFree(r)
  BY DEF WorldInv, ListsAreRings
<1>3. link \in LinkFields
  BY DEF WorldInv, WorldTypes
<1>4. /\ link' \in LinkFields
      /\ \E q : /\ Rings(link', q)
               /\ \A h \in Head_links : MembersOf(q[h]) = MembersOf(r[h]) \ {e}
  BY <1>1, <1>2, <1>3, SV_UnlinkEdictIs DEF ED_Free
<1>5. /\ edicts' \in [Edict -> [free : {"no", "now", "later"},
                           solid : {"not", "trigger", "solid"}, box : Box]]
      /\ \A x \in Edict \ {e} : edicts'[x] = edicts[x]
  <2>1. edicts \in [Edict -> [free : {"no", "now", "later"},
                           solid : {"not", "trigger", "solid"}, box : Box]]
    BY DEF WorldInv, WorldTypes
  <2>2. PICK f \in {"now", "later"} :
          edicts' = [edicts EXCEPT ![e].free = f, ![e].solid = "not"]
    BY DEF ED_Free
  <2> QED
    BY <1>1, <2>1, <2>2
<1>6. PICK q : /\ Rings(link', q)
               /\ \A h \in Head_links : MembersOf(q[h]) = MembersOf(r[h]) \ {e}
  BY <1>4
<1>7. InUseAndNotFree(q)'
  <2> SUFFICES ASSUME NEW h \in Head_links, NEW x \in MembersOf(q[h])
               PROVE  edicts'[x].free = "no" /\ x \in InUse'
    BY DEF InUseAndNotFree
  <2>1. x \in MembersOf(r[h]) /\ x # e
    BY <1>6
  <2>2. edicts[x].free = "no" /\ x \in InUse
    BY <1>2, <2>1 DEF InUseAndNotFree
  <2>3. x \in Edict
    BY <2>2, EdictsAreNoHeads DEF WorldInv, WorldTypes, InUse, Edict
  <2> QED
    BY <1>5, <2>1, <2>2, <2>3 DEF InUse
<1> QED
  BY <1>4, <1>5, <1>6, <1>7 DEF WorldInv, WorldTypes, ListsAreRings

\* An edict that is moved gets into another list, if it is not free.
LEMMA MoveKeepsWorld ==
  ASSUME WorldInv, NEW e \in InUse, NEW box \in Box,
         edicts' = [edicts EXCEPT ![e] = [edicts[e] EXCEPT !.box = box]],
         link' = Relinked(e, [edicts[e] EXCEPT !.box = box]),
         UNCHANGED num_edicts
  PROVE  WorldInv'
<1>1. e \in Edict
  BY EdictsAreNoHeads DEF WorldInv, WorldTypes, InUse, Edict
<1>2. PICK r : Rings(link, r) /\ InUseAndNotFree(r)
  BY DEF WorldInv, ListsAreRings
<1>3. /\ link \in LinkFields
      /\ edicts \in [Edict -> [free : {"no", "now", "later"},
                           solid : {"not", "trigger", "solid"}, box : Box]]
  BY DEF WorldInv, WorldTypes
<1>4. PICK moved \in [free : {"no", "now", "later"},
                     solid : {"not", "trigger", "solid"}, box : Box] :
        moved = [edicts[e] EXCEPT !.box = box]
  BY <1>1, <1>3
<1>5. /\ edicts' = [edicts EXCEPT ![e] = moved] /\ link' = Relinked(e, moved)
      /\ moved.box \in Box /\ moved.free = edicts[e].free
  BY <1>1, <1>3, <1>4
<1>6. /\ link' \in LinkFields
      /\ \E q : /\ Rings(link', q)
               /\ \A h \in Head_links :
                    /\ MembersOf(q[h]) \ {e} = MembersOf(r[h]) \ {e}
                    /\ moved.free # "no" => e \notin MembersOf(q[h])
  <2>1. moved.box \in Box /\ Rings(link, r) /\ link \in LinkFields
    BY <1>2, <1>3, <1>5
  <2>2. LET u == Relinked(e, moved) IN
         /\ u \in LinkFields
         /\ \E q : /\ Rings(u, q)
                  /\ \A h \in Head_links :
                       /\ MembersOf(q[h]) \ {e} = MembersOf(r[h]) \ {e}
                       /\ moved.free # "no" => e \notin MembersOf(q[h])
    BY <1>1, <2>1, RelinkedIs
  <2> QED
    BY <1>5, <2>2
<1>7. PICK q : /\ Rings(link', q)
               /\ \A h \in Head_links :
                    /\ MembersOf(q[h]) \ {e} = MembersOf(r[h]) \ {e}
                    /\ moved.free # "no" => e \notin MembersOf(q[h])
  BY <1>6
<1>8. InUseAndNotFree(q)'
  <2> SUFFICES ASSUME NEW h \in Head_links, NEW x \in MembersOf(q[h])
               PROVE  edicts'[x].free = "no" /\ x \in InUse'
    BY DEF InUseAndNotFree
  <2>1. CASE x = e
    BY <1>1, <1>3, <1>5, <1>7, <2>1 DEF InUse
  <2>2. CASE x # e
    <3>1. x \in MembersOf(r[h])
      BY <1>7, <2>2
    <3>2. edicts[x].free = "no" /\ x \in InUse
      BY <1>2, <3>1 DEF InUseAndNotFree
    <3>3. x \in Edict
      BY <3>2, EdictsAreNoHeads DEF WorldInv, WorldTypes, InUse, Edict
    <3> QED
      BY <1>3, <1>5, <2>2, <3>2, <3>3 DEF InUse
  <2> QED
    BY <2>1, <2>2
<1>9. edicts' \in [Edict -> [free : {"no", "now", "later"},
                           solid : {"not", "trigger", "solid"}, box : Box]]
  BY <1>3, <1>4, <1>5
<1> QED
  BY <1>6, <1>7, <1>8, <1>9 DEF WorldInv, WorldTypes, ListsAreRings

LEMMA WorldInvNext ==
  ASSUME WorldInv, [WorldNext]_worldVars
  PROVE  WorldInv'
<1>1. CASE UNCHANGED <<edicts, num_edicts, link>>
  BY <1>1 DEF WorldInv, WorldTypes, ListsAreRings, InUseAndNotFree, InUse
<1>2. CASE NodeDone \/ Skip \/ Touch \/ TouchReturns \/ UNCHANGED worldVars
  BY <1>1, <1>2 DEF NodeDone, Skip, Touch, TouchReturns, worldVars
<1>3. ASSUME NEW solid \in {"trigger", "solid"}, PF_Spawn(solid)
      PROVE  WorldInv'
  BY <1>3, SpawnKeepsWorld
<1>4. ASSUME NEW e \in InUse, PF_Remove(e)
      PROVE  WorldInv'
  BY <1>4, FreeKeepsWorld DEF PF_Remove
<1>5. ASSUME NEW e \in InUse, NEW solid \in Assigned, SetSolid(e, solid)
      PROVE  WorldInv'
  <2>1. /\ solid \in {"not", "trigger", "solid"}
        /\ edicts' = [edicts EXCEPT ![e].solid = solid]
        /\ UNCHANGED <<num_edicts, link>>
    BY <1>5, WorldAssumption DEF SetSolid
  <2>2. /\ edicts' \in [Edict -> [free : {"no", "now", "later"},
                             solid : {"not", "trigger", "solid"}, box : Box]]
        /\ \A x \in Edict : edicts'[x].free = edicts[x].free
    BY <2>1 DEF WorldInv, WorldTypes
  <2>3. InUse \subseteq Edict
    BY EdictsAreNoHeads DEF WorldInv, WorldTypes, InUse, Edict
  <2> QED
    BY <2>1, <2>2, <2>3
       DEF WorldInv, WorldTypes, ListsAreRings, InUseAndNotFree, InUse
<1>6. ASSUME NEW e \in InUse, NEW box \in Box, PF_setorigin(e, box)
      PROVE  WorldInv'
  BY <1>6, MoveKeepsWorld DEF PF_setorigin
<1>7. ASSUME NEW e \in InUse, NEW box \in Box, SV_LinkEdict(e, box)
      PROVE  WorldInv'
  BY <1>7, MoveKeepsWorld DEF SV_LinkEdict
<1>8. CASE TimePasses
  <2>1. /\ edicts' = [e \in Edict |-> IF edicts[e].free = "later"
                                      THEN [edicts[e] EXCEPT !.free = "now"]
                                      ELSE edicts[e]]
        /\ UNCHANGED <<num_edicts, link>>
    BY <1>8 DEF TimePasses
  <2>2. /\ edicts' \in [Edict -> [free : {"no", "now", "later"},
                             solid : {"not", "trigger", "solid"}, box : Box]]
        /\ \A x \in Edict : edicts[x].free = "no" => edicts'[x].free = "no"
    BY <2>1 DEF WorldInv, WorldTypes
  <2>3. InUse \subseteq Edict
    BY EdictsAreNoHeads DEF WorldInv, WorldTypes, InUse, Edict
  <2> QED
    BY <2>1, <2>2, <2>3
       DEF WorldInv, WorldTypes, ListsAreRings, InUseAndNotFree, InUse
<1> QED
  BY <1>2, <1>3, <1>4, <1>5, <1>6, <1>7, <1>8 DEF WorldNext

LEMMA WorldInvIsWhole ==
  ASSUME WorldInv
  PROVE  WorldIsWhole
<1>1. PICK r : Rings(link, r) /\ InUseAndNotFree(r)
  BY DEF WorldInv, ListsAreRings
<1>2. link \in LinkFields
  BY DEF WorldInv, WorldTypes
<1>3. \A h \in Head_links : /\ From(link, h)[max_edicts] = h
                           /\ Members(link, h) = MembersOf(r[h])
  BY <1>1, <1>2, MembersAre
<1>4. ASSUME NEW l \in Edict \cup Head_links, link.next[l] # NULL_LINK
      PROVE  link.prev[link.next[l]] = l
  <2>1. PICK h \in Head_links : \E i \in 0..Len(r[h]) : l = Place(r[h], h, i)
    <3>1. CASE l \in Head_links
      <4>1. r[l] \in Seq(Edict)
        BY <1>1, <3>1 DEF Rings
      <4>2. l = Place(r[l], l, 0) /\ 0 \in 0..Len(r[l])
        BY <3>1, <4>1, PlaceIs
      <4> QED
        BY <3>1, <4>2
    <3>2. CASE l \in Edict
      <4>1. Listed(r, l)
        BY <1>1, <1>4, <3>2 DEF Rings
      <4>2. PICK h \in Head_links : l \in MembersOf(r[h])
        BY <4>1 DEF Listed
      <4>3. PICK i \in 1..Len(r[h]) : l = r[h][i]
        BY <4>2 DEF MembersOf
      <4>4. r[h] \in Seq(Edict)
        BY <1>1 DEF Rings
      <4>5. l = Place(r[h], h, i) /\ i \in 0..Len(r[h])
        BY <4>3, <4>4, PlaceIs
      <4> QED
        BY <4>5
    <3> QED
      BY <3>1, <3>2
  <2>2. PICK i \in 0..Len(r[h]) : l = Place(r[h], h, i)
    BY <2>1
  <2>3. IsRing(link, h, r[h])
    BY <1>1 DEF Rings
  <2> QED
    BY <2>2, <2>3 DEF IsRing
<1>5. ASSUME NEW e \in Edict
      PROVE  IsLinked(link, e) <=> Listed(r, e)
  <2>1. CASE ~Listed(r, e)
    BY <1>1, <2>1 DEF Rings, IsLinked
  <2>2. CASE Listed(r, e)
    <3>1. PICK h \in Head_links : e \in MembersOf(r[h])
      BY <2>2 DEF Listed
    <3>2. PICK i \in 1..Len(r[h]) : e = r[h][i]
      BY <3>1 DEF MembersOf
    <3>3. r[h] \in Seq(Edict) /\ IsRing(link, h, r[h])
      BY <1>1 DEF Rings
    <3>4. /\ e = Place(r[h], h, i) /\ i - 1 \in 0..Len(r[h])
          /\ (i - 1) + 1 = i /\ i - 1 \in Int
      BY <3>2, <3>3, PlaceIs
    <3>5. link.prev[e] = Place(r[h], h, i - 1)
      BY <3>3, <3>4 DEF IsRing
    <3>6. Place(r[h], h, i - 1) \in Link
      BY <3>3, <3>4, PlaceIs
    <3> QED
      BY <2>2, <3>5, <3>6, EdictsAreNoHeads DEF IsLinked, Link
  <2> QED
    BY <2>1, <2>2
<1> QED
  BY <1>1, <1>3, <1>4, <1>5 DEF WorldIsWhole, InUseAndNotFree, Listed

\* The edicts and the lists keep their invariant.
THEOREM WorldInvAlways == WorldSpec => []WorldInv
<1>1. WorldInit => WorldInv
  BY WorldInvInit
<1>2. WorldInv /\ [WorldNext]_worldVars => WorldInv'
  BY WorldInvNext
<1> QED
  BY <1>1, <1>2, PTL DEF WorldSpec

\* Whatever programs do to each other's edicts, while lists are walked or
\* between the walks, the lists of the tree of areas are rings of edicts that
\* are not free, and none is in two of them.
THEOREM WorldIsAlwaysWhole == WorldSpec => []WorldIsWhole
<1>1. WorldInv => WorldIsWhole
  BY WorldInvIsWhole
<1> QED
  BY <1>1, WorldInvAlways, PTL

-----------------------------------------------------------------------------
(* The walks.                                                              *)

LEMMA NodeHeads ==
  ASSUME NEW node \in Node
  PROVE  Trigger_edicts(node) \in Head_links
BY DEF Node, Trigger_edicts, Head_links

\* What comes behind a head.
LEMMA HeadNextIs ==
  ASSUME NEW k \in LinkFields, NEW r, Rings(k, r), NEW h \in Head_links
  PROVE  k.next[h] \in {h} \cup Members(k, h)
<1>1. r[h] \in Seq(Edict) /\ IsRing(k, h, r[h]) /\ Len(r[h]) \in Nat
  BY DEF Rings
<1>2. 0 \in 0..Len(r[h]) /\ Place(r[h], h, 0) = h /\ 0 + 1 \in Int
  BY <1>1, PlaceIs
<1>3. k.next[h] = Place(r[h], h, 0 + 1)
  BY <1>1, <1>2 DEF IsRing
<1>4. Place(r[h], h, 0 + 1) \in {h} \cup MembersOf(r[h])
  BY <1>1, <1>2, PlaceIs
<1> QED
  BY <1>3, <1>4, MembersAre

\* What WorldInv says of what one comes by.
LEMMA NextIs ==
  ASSUME WorldInv, NEW node \in Node
  PROVE  LET head == Trigger_edicts(node) IN
         /\ link.next[head] \in {head} \cup Members(link, head)
         /\ \A e \in Members(link, head) :
              link.next[e] \in {head} \cup Members(link, head)
         /\ \A e \in Edict :
              /\ edicts[e].free # "no" => link.next[e] = NULL_LINK
              /\ edicts[e].free # "no" => ~IsLinked(link, e)
         /\ \A l \in Link : link.next[l] \in Link \cup {NULL_LINK}
<1> DEFINE h == Trigger_edicts(node)
<1>1. PICK r : Rings(link, r) /\ InUseAndNotFree(r)
  BY DEF WorldInv, ListsAreRings
<1>2. link \in LinkFields
  BY DEF WorldInv, WorldTypes
<1>3. h \in Head_links
  BY NodeHeads
<1> HIDE DEF h
<1>4. Members(link, h) = MembersOf(r[h])
  BY <1>1, <1>2, <1>3, MembersAre
<1>5. r[h] \in Seq(Edict) /\ IsRing(link, h, r[h]) /\ Len(r[h]) \in Nat
  BY <1>1, <1>3 DEF Rings
<1>6. \A i \in 0..Len(r[h]) :
        link.next[Place(r[h], h, i)] \in {h} \cup MembersOf(r[h])
  <2> TAKE i \in 0..Len(r[h])
  <2>1. i + 1 \in Int
    BY <1>5
  <2>2. Place(r[h], h, i + 1) \in {h} \cup MembersOf(r[h])
    BY <1>3, <1>5, <2>1, PlaceIs
  <2> QED
    BY <1>5, <2>2 DEF IsRing
<1>7. link.next[h] \in {h} \cup MembersOf(r[h])
  BY <1>1, <1>2, <1>3, <1>4, HeadNextIs
<1>8. ASSUME NEW e \in MembersOf(r[h])
      PROVE  link.next[e] \in {h} \cup MembersOf(r[h])
  <2>1. PICK i \in 1..Len(r[h]) : e = r[h][i]
    BY DEF MembersOf
  <2>2. Place(r[h], h, i) = e /\ i \in 0..Len(r[h])
    BY <1>3, <1>5, <2>1, PlaceIs
  <2> QED
    BY <1>6, <2>2
<1>9. ASSUME NEW e \in Edict, edicts[e].free # "no"
      PROVE  link.next[e] = NULL_LINK /\ link.prev[e] = NULL_LINK
  <2>1. ~Listed(r, e)
    BY <1>1, <1>9 DEF InUseAndNotFree, Listed
  <2> QED
    BY <1>1, <2>1 DEF Rings
<1>10. \A l \in Link : link.next[l] \in Link \cup {NULL_LINK}
  BY <1>2 DEF LinkFields
<1> QED
  BY <1>4, <1>7, <1>8, <1>9, <1>10 DEF h, IsLinked

\* A walk that goes on from an edict stays in its list.
LEMMA NextStays ==
  ASSUME WorldInv, NEW node \in Node, NEW x \in Edict,
         Stays(link, edicts, x, node)
  PROVE  Stays(link, edicts, link.next[x], node)
<1>1. x # Trigger_edicts(node) /\ x # NULL_LINK
  BY NodeHeads, EdictsAreNoHeads
<1>2. CASE x \in Members(link, Trigger_edicts(node))
  <2>1. link.next[x] \in {Trigger_edicts(node)}
                        \cup Members(link, Trigger_edicts(node))
    BY <1>2, NextIs
  <2> QED
    BY <2>1 DEF Stays
<1>3. CASE edicts[x].free = "later"
  <2>1. link.next[x] = NULL_LINK
    BY <1>3, NextIs
  <2> QED
    BY <2>1 DEF Stays
<1> QED
  BY <1>1, <1>2, <1>3 DEF Stays

\* Where a walk begins.
LEMMA HeadStays ==
  ASSUME WorldInv, NEW node \in Node
  PROVE  /\ Stays(link, edicts, link.next[Trigger_edicts(node)], node)
         /\ Stays(link, edicts, NULL_LINK, node)
         /\ link.next[Trigger_edicts(node)] \in Link \cup {NULL_LINK}
<1>1. Trigger_edicts(node) \in Link
  BY NodeHeads DEF Link
<1> QED
  BY <1>1, NextIs DEF Stays

\* Only the innermost walk is changed.
LEMMA TopKeepsWalks ==
  ASSUME WalksInv, walks # <<>>, NEW w \in WalkRecord,
         GoodWalk(link, edicts, w),
         walks' = [walks EXCEPT ![Len(walks)] = w],
         UNCHANGED <<edicts, num_edicts, link, sv_time>>
  PROVE  WalksInv'
<1> DEFINE n == Len(walks)
<1>1. n \in Nat /\ n \in 1..n
  BY DEF WalksInv
<1>2. /\ walks' \in Seq(WalkRecord) /\ Len(walks') = n
      /\ \A i \in 1..n : walks'[i] = IF i = n THEN w ELSE walks[i]
  BY <1>1 DEF WalksInv
<1>3. \A i \in 1..n : GoodWalk(link', edicts', walks'[i])
  BY <1>2 DEF WalksInv
<1> QED
  BY <1>2, <1>3 DEF WalksInv, InUse

\* The innermost walk ends.
LEMMA EndKeepsWalks ==
  ASSUME WalksInv, walks # <<>>,
         walks' = SubSeq(walks, 1, Len(walks) - 1),
         UNCHANGED <<edicts, num_edicts, link, sv_time>>
  PROVE  WalksInv'
<1> DEFINE n == Len(walks)
<1>1. n \in Nat /\ n - 1 \in Nat
  BY DEF WalksInv
<1>2. /\ walks' \in Seq(WalkRecord) /\ Len(walks') = n - 1
      /\ \A i \in 1..n - 1 : walks'[i] = walks[i] /\ i \in 1..n
  <2>1. walks \in Seq(WalkRecord)
    BY DEF WalksInv
  <2>2. /\ 1 \in Int /\ n - 1 \in Int
        /\ \A i \in 1..n - 1 : walks[i] \in WalkRecord
    BY <1>1, <2>1
  <2> DEFINE t == SubSeq(walks, 1, n - 1)
  <2>3. /\ t \in Seq(WalkRecord)
        /\ Len(t) = IF 1 <= n - 1 THEN n - 1 - 1 + 1 ELSE 0
        /\ \A i \in 1..n - 1 - 1 + 1 : t[i] = walks[1 + i - 1]
    BY <2>2, SubSeqProperties
  <2>4. walks' = t
    OBVIOUS
  <2> HIDE DEF t
  <2>5. /\ t \in Seq(WalkRecord) /\ Len(t) = n - 1
        /\ \A i \in 1..n - 1 : t[i] = walks[i] /\ i \in 1..n
    <3> HIDE DEF n
    <3>1. Len(t) = n - 1
      BY <1>1, <2>3
    <3>2. \A i \in 1..n - 1 : /\ i \in 1..n - 1 - 1 + 1 /\ 1 + i - 1 = i
                             /\ i \in 1..n
      BY <1>1
    <3>3. \A i \in 1..n - 1 : t[i] = walks[i] /\ i \in 1..n
      BY <2>3, <3>2
    <3> QED
      BY <2>3, <3>1, <3>3
  <2> QED
    BY <2>4, <2>5
<1>3. \A i \in 1..n - 1 : GoodWalk(link', edicts', walks'[i])
  BY <1>2 DEF WalksInv
<1> QED
  BY <1>2, <1>3 DEF WalksInv, InUse

\* What a program may do to the lists while they are walked: what was in one
\* is still there, or may not be linked again.
KeepsLists ==
  /\ \A h \in Head_links : \A e \in Members(link, h) :
       e \in Members(link', h) \/ edicts'[e].free = "later"
  /\ \A e \in Edict : edicts[e].free = "later" => edicts'[e].free = "later"

LEMMA KeptStays ==
  ASSUME KeepsLists, NEW x, NEW node \in Node, Stays(link, edicts, x, node)
  PROVE  Stays(link', edicts', x, node)
<1>1. Members(link, Trigger_edicts(node)) \subseteq Edict
  BY DEF Members
<1> QED
  BY <1>1, NodeHeads DEF Stays, KeepsLists

\* A program that is called leaves the walks where they are.
LEMMA CalledKeepsWalks ==
  ASSUME WalksInv, walks # <<>> => KeepsLists,
         walks # <<>> => Walk.calls > 0
  PROVE  /\ Called \in Seq(WalkRecord) /\ Len(Called) = Len(walks)
         /\ \A i \in 1..Len(walks) : GoodWalk(link', edicts', Called[i])
<1> DEFINE n == Len(walks)
           w == [walks[n] EXCEPT !.calls = @ - 1]
<1>1. CASE walks = <<>>
  BY <1>1 DEF Called, WalksInv
<1>2. CASE walks # <<>>
  <2>1. n \in Nat /\ n \in 1..n /\ walks[n] \in WalkRecord
        /\ Called = [walks EXCEPT ![n] = w]
    BY <1>2 DEF WalksInv, Called
  <2>2. /\ w \in WalkRecord /\ w.l = walks[n].l /\ w.next = walks[n].next
        /\ w.node = walks[n].node /\ walks[n].calls # NoFunction
    BY <1>2, <2>1 DEF WalkRecord, Walk, NoFunction
  <2> HIDE DEF w
  <2>3. /\ Called \in Seq(WalkRecord) /\ Len(Called) = n
        /\ \A i \in 1..n : Called[i] = IF i = n THEN w ELSE walks[i]
    BY <2>1, <2>2 DEF WalksInv
  <2>4. ASSUME NEW i \in 1..n
        PROVE  GoodWalk(link', edicts', Called[i])
    <3>1. /\ GoodWalk(link, edicts, walks[i]) /\ walks[i] \in WalkRecord
          /\ walks[i].node \in Node
      <4>1. GoodWalk(link, edicts, walks[i]) /\ walks[i] \in WalkRecord
        BY <2>1 DEF WalksInv
      <4> QED
        BY <4>1 DEF WalkRecord
    <3>2. /\ Stays(link', edicts', walks[i].l, walks[i].node)
          /\ Stays(link', edicts', walks[i].next, walks[i].node)
      BY <1>2, <3>1, KeptStays DEF GoodWalk
    <3>3. CASE i = n
      BY <2>2, <2>3, <3>1, <3>2, <3>3 DEF GoodWalk
    <3>4. CASE i # n
      BY <2>3, <3>1, <3>2, <3>4 DEF GoodWalk
    <3> QED
      BY <3>3, <3>4
  <2> QED
    BY <2>3, <2>4
<1> QED
  BY <1>1, <1>2

\* The walk that runs.
LEMMA WalkIs ==
  ASSUME WalksInv, walks # <<>>
  PROVE  /\ Walk \in WalkRecord /\ GoodWalk(link, edicts, Walk)
         /\ Walk.node \in Node
<1>1. walks \in Seq(WalkRecord) /\ Len(walks) \in 1..Len(walks)
  BY DEF WalksInv
<1>2. Walk \in WalkRecord /\ GoodWalk(link, edicts, Walk)
  BY <1>1 DEF WalksInv, Walk
<1> QED
  BY <1>2 DEF WalkRecord

LEMMA WalkStepKeepsWalks ==
  ASSUME WorldInv, WalksInv, NodeDone \/ Skip \/ Touch \/ TouchReturns
  PROVE  WalksInv'
<1>1. walks # <<>> /\ UNCHANGED <<edicts, num_edicts, link, sv_time>>
  BY DEF NodeDone, Skip, Touch, TouchReturns, Walking, TouchRuns
<1>2. PICK w \in WalkRecord : w = Walk
  BY <1>1, WalkIs
<1>3. GoodWalk(link, edicts, w) /\ w.node \in Node
  BY <1>1, <1>2, WalkIs
<1>4. /\ w = [ent |-> w.ent, node |-> w.node, l |-> w.l, next |-> w.next,
              calls |-> w.calls]
      /\ w.ent \in Edict /\ w.l \in Link \cup {NULL_LINK}
      /\ w.next \in Link \cup {NULL_LINK} /\ w.calls \in Int
  BY DEF WalkRecord
<1>5. ASSUME NEW v \in WalkRecord, Top(v), GoodWalk(link, edicts, v)
      PROVE  WalksInv'
  BY <1>1, <1>5, TopKeepsWalks DEF Top
<1>6. Stays(link, edicts, NULL_LINK, w.node)
  BY DEF Stays
<1>7. w.l \in Edict => /\ Stays(link, edicts, link.next[w.l], w.node)
                      /\ link.next[w.l] \in Link \cup {NULL_LINK}
  BY <1>3, NextStays, NextIs DEF GoodWalk, Link
<1>8. CASE NodeDone
  <2>1. CASE walks' = SubSeq(walks, 1, Len(walks) - 1)
    BY <1>1, <2>1, EndKeepsWalks
  <2>2. CASE \E node \in {"left", "right"} : Top(Enter(w.ent, node))
    <3>1. PICK node \in {"left", "right"} : Top(Enter(w.ent, node))
      BY <2>2
    <3>2. node \in Node
      BY DEF Node
    <3>3. PICK v : v = Enter(w.ent, node)
      OBVIOUS
    <3>4. /\ v \in WalkRecord /\ v.node = node
          /\ v.l = link.next[Trigger_edicts(node)] /\ v.next = NULL_LINK
          /\ v.calls = NoFunction
      BY <1>4, <3>2, <3>3, HeadStays DEF Enter, WalkRecord, NoFunction
    <3>5. GoodWalk(link, edicts, v)
      BY <3>2, <3>4, HeadStays DEF GoodWalk
    <3> QED
      BY <1>5, <3>1, <3>3, <3>4, <3>5
  <2> QED
    BY <1>2, <1>8, <2>1, <2>2 DEF NodeDone
<1>9. CASE Skip
  <2>1. PICK v : v = [w EXCEPT !.l = link.next[w.l]]
    OBVIOUS
  <2>2. w.l \in Edict /\ Top(v) /\ w.calls = NoFunction
    BY <1>2, <1>9, <2>1 DEF Skip, Walking
  <2>3. /\ v \in WalkRecord /\ v.node = w.node /\ v.next = w.next
        /\ v.l = link.next[w.l] /\ v.calls = NoFunction
    BY <1>7, <2>1, <2>2 DEF WalkRecord
  <2>4. GoodWalk(link, edicts, v)
    BY <1>3, <1>7, <2>2, <2>3 DEF GoodWalk
  <2> QED
    BY <1>5, <2>2, <2>3, <2>4
<1>10. CASE Touch
  <2>1. PICK v : v = [w EXCEPT !.next = link.next[w.l], !.calls = MaxCalls]
    OBVIOUS
  <2>2. w.l \in Edict /\ Top(v)
    BY <1>2, <1>10, <2>1 DEF Touch
  <2> DEFINE next == link.next[w.l]
  <2>3. /\ v \in WalkRecord /\ v.node = w.node /\ v.l = w.l
        /\ v.next = next
    <3>1. MaxCalls \in Int /\ next \in Link \cup {NULL_LINK}
      BY <1>7, <2>2, WorldAssumption
    <3> HIDE DEF next
    <3>2. v = [ent |-> w.ent, node |-> w.node, l |-> w.l, next |-> next,
               calls |-> MaxCalls]
      BY <1>4, <2>1 DEF next
    <3> QED
      BY <1>3, <1>4, <3>1, <3>2 DEF WalkRecord
  <2>4. GoodWalk(link, edicts, v)
    BY <1>3, <1>7, <2>2, <2>3 DEF GoodWalk
  <2> QED
    BY <1>5, <2>2, <2>3, <2>4
<1>11. CASE TouchReturns
  <2> DEFINE l == IF link.next[w.l] # NULL_LINK THEN link.next[w.l] ELSE w.next
  <2>1. PICK v : v = [w EXCEPT !.l = l, !.next = NULL_LINK,
                               !.calls = NoFunction]
    OBVIOUS
  <2>2. Top(v) /\ w.calls # NoFunction
    BY <1>2, <1>11, <2>1 DEF TouchReturns, TouchRuns
  <2>3. w.l \in Edict
    BY <1>3, <2>2 DEF GoodWalk
  <2>4. l \in Link \cup {NULL_LINK} /\ Stays(link, edicts, l, w.node)
    BY <1>3, <1>4, <1>7, <2>3 DEF GoodWalk
  <2> HIDE DEF l
  <2>5. /\ v \in WalkRecord /\ v.node = w.node /\ v.l = l
        /\ v.next = NULL_LINK /\ v.calls = NoFunction
    <3>1. v = [ent |-> w.ent, node |-> w.node, l |-> l, next |-> NULL_LINK,
               calls |-> NoFunction]
      BY <1>4, <2>1
    <3>2. NoFunction \in Int
      BY DEF NoFunction
    <3> QED
      BY <1>3, <1>4, <2>4, <3>1, <3>2 DEF WalkRecord
  <2>6. GoodWalk(link, edicts, v)
    BY <1>6, <2>4, <2>5 DEF GoodWalk
  <2> QED
    BY <1>5, <2>2, <2>5, <2>6
<1> QED
  BY <1>8, <1>9, <1>10, <1>11

\* Programs keep the lists that are walked, and so does what calls them.
LEMMA CallKeepsLists ==
  ASSUME WorldInv, WalksInv, ~Relinks, walks # <<>>,
         \/ \E solid \in {"trigger", "solid"} : PF_Spawn(solid)
         \/ \E e \in InUse : PF_Remove(e)
         \/ \E e \in InUse, solid \in Assigned : SetSolid(e, solid)
         \/ \E e \in InUse, box \in Box : PF_setorigin(e, box)
         \/ \E e \in InUse, box \in Box : SV_LinkEdict(e, box)
  PROVE  KeepsLists
<1>1. /\ edicts \in [Edict -> [free : {"no", "now", "later"},
                           solid : {"not", "trigger", "solid"}, box : Box]]
      /\ link \in LinkFields /\ InUse \subseteq Edict
  BY EdictsAreNoHeads DEF WorldInv, WorldTypes, InUse, Edict
<1>2. PICK r : Rings(link, r) /\ InUseAndNotFree(r)
  BY DEF WorldInv, ListsAreRings
<1>3. \A h \in Head_links : Members(link, h) = MembersOf(r[h])
  BY <1>1, <1>2, MembersAre
<1>4. CASE /\ link' = link
           /\ \A e \in Edict :
                edicts[e].free = "later" => edicts'[e].free = "later"
  BY <1>4 DEF KeepsLists
<1>5. ASSUME NEW solid \in {"trigger", "solid"}, PF_Spawn(solid)
      PROVE  KeepsLists
  <2> DEFINE free == {e \in InUse : Reusable(e)}
             new == IF free # {}
                    THEN CHOOSE e \in free : \A x \in free : e <= x
                    ELSE num_edicts + 1
  <2>1. /\ link' = link
        /\ \/ edicts' = [edicts EXCEPT ![new] =
                           [free |-> "no", solid |-> solid, box |-> "both"]]
           \/ edicts' = edicts
    BY <1>5 DEF PF_Spawn
  <2>2. new \in Edict => edicts[new].free # "later"
    <3>1. CASE free # {}
      <4>1. \E e \in free : \A x \in free : e <= x
        <5>1. free \in SUBSET Nat
          BY EdictsAreNoHeads DEF WorldInv, WorldTypes, InUse
        <5> HIDE DEF free
        <5> QED
          BY <3>1, <5>1, LeastOfSet
      <4>2. new \in free
        BY <3>1, <4>1
      <4> HIDE DEF new
      <4>3. edicts[new].free = "now"
        BY <4>2 DEF Reusable
      <4> QED
        BY <4>3
    <3>2. CASE free = {}
      <4>1. new = num_edicts + 1
        BY <3>2
      <4>2. new \notin InUse
        BY <4>1, EdictsAreNoHeads DEF WorldInv, WorldTypes, InUse
      <4> HIDE DEF new
      <4>3. new \in Edict => edicts[new].free = "no"
        BY <4>2 DEF WalksInv
      <4> QED
        BY <4>3
    <3> QED
      BY <3>1, <3>2
  <2> HIDE DEF new
  <2>3. \A e \in Edict : edicts[e].free = "later" => edicts'[e].free = "later"
    BY <1>1, <2>1, <2>2
  <2> QED
    BY <1>4, <2>1, <2>3
<1>6. ASSUME NEW e \in InUse, PF_Remove(e)
      PROVE  KeepsLists
  <2>1. /\ edicts' = [edicts EXCEPT
               ![e].free = IF sv_time = "early" THEN "now" ELSE "later",
               ![e].solid = "not"]
        /\ link' = SV_UnlinkEdict(link, e) /\ sv_time # "early"
    BY <1>6 DEF PF_Remove, ED_Free, WalksInv
  <2>2. /\ edicts'[e].free = "later"
        /\ \A x \in Edict \ {e} : edicts'[x] = edicts[x]
    BY <1>1, <2>1
  <2>3. /\ link' \in LinkFields
        /\ \E q : /\ Rings(link', q)
                 /\ \A h \in Head_links :
                      MembersOf(q[h]) = MembersOf(r[h]) \ {e}
    <3>1. e \in Edict /\ link \in LinkFields /\ Rings(link, r)
      BY <1>1, <1>2
    <3> QED
      BY <2>1, <3>1, SV_UnlinkEdictIs
  <2>4. PICK q : /\ Rings(link', q)
                 /\ \A h \in Head_links :
                      MembersOf(q[h]) = MembersOf(r[h]) \ {e}
    BY <2>3
  <2>5. \A h \in Head_links : Members(link', h) = MembersOf(q[h])
    BY <2>3, <2>4, MembersAre
  <2> QED
    BY <1>1, <1>3, <2>2, <2>4, <2>5 DEF KeepsLists
<1>7. ASSUME NEW e \in InUse, NEW solid \in Assigned, SetSolid(e, solid)
      PROVE  KeepsLists
  <2>1. link' = link /\ edicts' = [edicts EXCEPT ![e].solid = solid]
    BY <1>7 DEF SetSolid
  <2>2. \A x \in Edict : edicts'[x].free = edicts[x].free
    BY <1>1, <2>1
  <2> QED
    BY <1>4, <2>1, <2>2
<1>8. ASSUME NEW e \in InUse, NEW box \in Box, MayMove(e),
             edicts' = [edicts EXCEPT ![e] = [edicts[e] EXCEPT !.box = box]],
             link' = Relinked(e, [edicts[e] EXCEPT !.box = box])
      PROVE  KeepsLists
  <2>1. e \in Edict
    BY <1>1
  <2>2. PICK moved \in [free : {"no", "now", "later"},
                       solid : {"not", "trigger", "solid"}, box : Box] :
          moved = [edicts[e] EXCEPT !.box = box]
    BY <1>1, <2>1
  <2>3. /\ edicts' = [edicts EXCEPT ![e] = moved] /\ link' = Relinked(e, moved)
        /\ moved.box \in Box /\ moved.free = edicts[e].free
    BY <1>1, <1>8, <2>1, <2>2
  <2>4. LET u == Relinked(e, moved) IN
        /\ u \in LinkFields
        /\ \E q : /\ Rings(u, q)
                 /\ \A h \in Head_links :
                      /\ MembersOf(q[h]) \ {e} = MembersOf(r[h]) \ {e}
                      /\ moved.free # "no" => e \notin MembersOf(q[h])
    <3>1. /\ moved.box \in Box /\ Rings(link, r) /\ link \in LinkFields
          /\ e \in Edict
      BY <1>1, <1>2, <2>1, <2>3
    <3> QED
      BY <3>1, RelinkedIs
  <2>5. PICK q : /\ Rings(link', q)
                 /\ \A h \in Head_links :
                      MembersOf(q[h]) \ {e} = MembersOf(r[h]) \ {e}
    BY <2>3, <2>4
  <2>6. link' \in LinkFields
    BY <2>3, <2>4
  <2>7. \A h \in Head_links : Members(link', h) = MembersOf(q[h])
    BY <2>5, <2>6, MembersAre
  <2>8. \A h \in Head_links : e \notin MembersOf(r[h])
    <3>1. ~IsLinked(link, e)
      BY <1>8 DEF MayMove
    <3>2. \A h \in Head_links : e \notin Members(link, h)
      BY <2>1, <3>1, WorldInvIsWhole DEF WorldIsWhole
    <3> QED
      BY <1>3, <3>2
  <2>9. \A x \in Edict : edicts'[x].free = edicts[x].free
    BY <1>1, <2>1, <2>3
  <2> QED
    BY <1>3, <2>5, <2>7, <2>8, <2>9 DEF KeepsLists
<1>9. ASSUME NEW e \in InUse, NEW box \in Box,
             PF_setorigin(e, box) \/ SV_LinkEdict(e, box)
      PROVE  KeepsLists
  BY <1>8, <1>9 DEF PF_setorigin, SV_LinkEdict
<1> QED
  BY <1>5, <1>6, <1>7, <1>9

\* An edict above num_edicts was never used, and so was never freed.
LEMMA UnusedIsNotFree ==
  ASSUME WorldInv, WalksInv, WorldNext
  PROVE  \A e \in Edict \ InUse' : edicts'[e].free = "no"
<1>1. /\ edicts \in [Edict -> [free : {"no", "now", "later"},
                           solid : {"not", "trigger", "solid"}, box : Box]]
      /\ num_edicts \in 0..max_edicts /\ max_edicts \in Nat
      /\ \A e \in Edict \ InUse : edicts[e].free = "no"
  BY EdictsAreNoHeads DEF WorldInv, WorldTypes, WalksInv
<1>2. InUse \subseteq Edict
  BY <1>1 DEF InUse, Edict
<1>3. CASE UNCHANGED <<edicts, num_edicts>>
  BY <1>1, <1>3 DEF InUse
<1>4. ASSUME NEW e \in InUse, num_edicts' = num_edicts,
             \A x \in Edict \ {e} : edicts'[x] = edicts[x]
      PROVE  \A x \in Edict \ InUse' : edicts'[x].free = "no"
  BY <1>1, <1>4 DEF InUse
<1>5. ASSUME NEW solid \in {"trigger", "solid"}, PF_Spawn(solid)
      PROVE  \A x \in Edict \ InUse' : edicts'[x].free = "no"
  <2> DEFINE free == {e \in InUse : Reusable(e)}
             new == IF free # {}
                    THEN CHOOSE e \in free : \A x \in free : e <= x
                    ELSE num_edicts + 1
  <2>1. CASE UNCHANGED <<edicts, num_edicts>>
    BY <1>3, <2>1
  <2>2. CASE /\ new \in Edict
             /\ edicts' = [edicts EXCEPT ![new] =
                             [free |-> "no", solid |-> solid, box |-> "both"]]
             /\ num_edicts' = IF new > num_edicts THEN new ELSE num_edicts
    <3>1. \A x \in Edict : edicts[x].free = "no" => edicts'[x].free = "no"
      <4> HIDE DEF new
      <4> QED
        BY <1>1, <2>2
    <3>2. InUse \subseteq InUse'
      <4> HIDE DEF new
      <4>1. /\ num_edicts \in Int /\ num_edicts' \in Int
            /\ num_edicts <= num_edicts'
        BY <1>1, <2>2 DEF Edict
      <4> QED
        BY <4>1 DEF InUse
    <3> QED
      BY <1>1, <3>1, <3>2
  <2> QED
    BY <1>5, <2>1, <2>2 DEF PF_Spawn
<1>6. ASSUME NEW e \in InUse, PF_Remove(e)
      PROVE  \A x \in Edict \ InUse' : edicts'[x].free = "no"
  <2>1. PICK f \in {"now", "later"} :
          edicts' = [edicts EXCEPT ![e].free = f, ![e].solid = "not"]
    BY <1>6 DEF PF_Remove, ED_Free
  <2>2. \A x \in Edict \ {e} : edicts'[x] = edicts[x]
    BY <1>1, <1>2, <2>1
  <2>3. num_edicts' = num_edicts
    BY <1>6 DEF PF_Remove
  <2> QED
    BY <1>4, <2>2, <2>3
<1>7. ASSUME NEW e \in InUse, NEW solid \in Assigned, SetSolid(e, solid)
      PROVE  \A x \in Edict \ InUse' : edicts'[x].free = "no"
  <2>1. /\ edicts' = [edicts EXCEPT ![e].solid = solid]
        /\ num_edicts' = num_edicts
    BY <1>7 DEF SetSolid
  <2>2. \A x \in Edict \ {e} : edicts'[x] = edicts[x]
    BY <1>1, <1>2, <2>1
  <2> QED
    BY <1>4, <2>1, <2>2
<1>8. ASSUME NEW e \in InUse, NEW box \in Box,
             PF_setorigin(e, box) \/ SV_LinkEdict(e, box)
      PROVE  \A x \in Edict \ InUse' : edicts'[x].free = "no"
  <2>1. /\ edicts' = [edicts EXCEPT ![e] = [edicts[e] EXCEPT !.box = box]]
        /\ num_edicts' = num_edicts
    BY <1>8 DEF PF_setorigin, SV_LinkEdict
  <2>2. \A x \in Edict \ {e} : edicts'[x] = edicts[x]
    BY <1>1, <1>2, <2>1
  <2> QED
    BY <1>4, <2>1, <2>2
<1>9. CASE TimePasses
  <2>1. /\ edicts' = [e \in Edict |-> IF edicts[e].free = "later"
                                      THEN [edicts[e] EXCEPT !.free = "now"]
                                      ELSE edicts[e]]
        /\ num_edicts' = num_edicts
    BY <1>9 DEF TimePasses
  <2>2. \A e \in Edict : edicts[e].free = "no" => edicts'[e].free = "no"
    BY <2>1
  <2> QED
    BY <1>1, <2>1, <2>2 DEF InUse
<1>10. CASE NodeDone \/ Skip \/ Touch \/ TouchReturns
  BY <1>3, <1>10 DEF NodeDone, Skip, Touch, TouchReturns
<1> QED
  BY <1>5, <1>6, <1>7, <1>8, <1>9, <1>10 DEF WorldNext

\* What programs call keeps the walks.
LEMMA CallKeepsWalks ==
  ASSUME WorldInv, WorldInv', WalksInv, ~Relinks,
         \/ \E solid \in {"trigger", "solid"} : PF_Spawn(solid)
         \/ \E e \in InUse : PF_Remove(e)
         \/ \E e \in InUse, solid \in Assigned : SetSolid(e, solid)
         \/ \E e \in InUse, box \in Box : PF_setorigin(e, box)
         \/ \E e \in InUse, box \in Box : SV_LinkEdict(e, box)
  PROVE  WalksInv'
<1>1. \A e \in Edict \ InUse' : edicts'[e].free = "no"
  BY UnusedIsNotFree DEF WorldNext
<1>2. sv_time' \in {"late", "over"}
  BY DEF WalksInv, PF_Spawn, PF_Remove, SetSolid, PF_setorigin, SV_LinkEdict
<1>3. walks # <<>> => KeepsLists
  BY CallKeepsLists
<1>4. walks # <<>> => Walk.calls > 0
  BY DEF PF_Spawn, PF_Remove, SetSolid, PF_setorigin, SV_LinkEdict, MayMove,
         MayCall
<1>5. PICK c : c = Called
  OBVIOUS
<1>6. /\ c \in Seq(WalkRecord) /\ Len(c) \in Nat
      /\ \A i \in 1..Len(c) : GoodWalk(link', edicts', c[i])
  <2>1. Len(walks) \in Nat
    BY DEF WalksInv
  <2> QED
    BY <1>3, <1>4, <1>5, <2>1, CalledKeepsWalks
<1>7. CASE walks' = c
  BY <1>1, <1>2, <1>6, <1>7 DEF WalksInv
<1>8. CASE UNCHANGED <<edicts, num_edicts, link, walks>>
  BY <1>2, <1>8 DEF WalksInv, InUse
<1>9. ASSUME NEW e \in InUse, NEW box \in Box, SV_LinkEdict(e, box)
      PROVE  WalksInv'
  <2>1. PICK head : head = Trigger_edicts("root")
    OBVIOUS
  <2>2. PICK w : w = [ent |-> e, node |-> "root", l |-> link'.next[head],
                      next |-> NULL_LINK, calls |-> NoFunction]
    OBVIOUS
  <2>3. walks' = Append(c, w)
    BY <1>5, <1>9, <2>1, <2>2 DEF SV_LinkEdict
  <2>4. /\ link'.next[head] \in Link \cup {NULL_LINK}
        /\ link'.next[head] \in {head} \cup Members(link', head)
    <3>1. head \in Head_links /\ head \in Link
      BY <2>1, NodeHeads DEF Node, Link
    <3>2. PICK r : Rings(link', r)
      BY DEF WorldInv, ListsAreRings
    <3>3. link' \in LinkFields
      BY DEF WorldInv, WorldTypes
    <3>4. link'.next[head] \in Link \cup {NULL_LINK}
      BY <3>1, <3>3 DEF LinkFields
    <3> QED
      BY <3>1, <3>2, <3>3, <3>4, HeadNextIs
  <2>5. e \in Edict
    BY EdictsAreNoHeads DEF WorldInv, WorldTypes, InUse, Edict
  <2>6. w \in WalkRecord
    BY <2>2, <2>4, <2>5 DEF WalkRecord, Node, NoFunction
  <2>7. GoodWalk(link', edicts', w)
    BY <2>1, <2>2, <2>4 DEF GoodWalk, Stays
  <2>8. /\ walks' \in Seq(WalkRecord) /\ Len(walks') = Len(c) + 1
        /\ \A i \in 1..Len(c) + 1 :
             walks'[i] = IF i = Len(c) + 1 THEN w ELSE c[i]
    BY <1>6, <2>3, <2>6
  <2>9. \A i \in 1..Len(walks') : GoodWalk(link', edicts', walks'[i])
    <3> TAKE i \in 1..Len(walks')
    <3>1. i \in 1..Len(c) + 1 /\ (i = Len(c) + 1 \/ i \in 1..Len(c))
      BY <1>6, <2>8
    <3>2. CASE i = Len(c) + 1
      BY <2>7, <2>8, <3>1, <3>2
    <3>3. CASE i # Len(c) + 1
      BY <1>6, <2>8, <3>1, <3>3
    <3> QED
      BY <3>2, <3>3
  <2> QED
    BY <1>1, <1>2, <2>8, <2>9 DEF WalksInv
<1> QED
  BY <1>5, <1>7, <1>8, <1>9
     DEF PF_Spawn, PF_Remove, SetSolid, PF_setorigin, SV_LinkEdict

LEMMA WalksInvNext ==
  ASSUME WorldInv, WorldInv', WalksInv, ~Relinks, [WorldNext]_worldVars
  PROVE  WalksInv'
<1>1. CASE UNCHANGED worldVars
  BY <1>1 DEF worldVars, WalksInv, InUse
<1>2. CASE TimePasses
  <2>1. \A e \in Edict \ InUse' : edicts'[e].free = "no"
    BY <1>2, UnusedIsNotFree DEF WorldNext
  <2>2. walks' = <<>> /\ sv_time' \in {"late", "over"}
    BY <1>2 DEF TimePasses, WalksInv
  <2> QED
    BY <2>1, <2>2 DEF WalksInv
<1>3. CASE NodeDone \/ Skip \/ Touch \/ TouchReturns
  BY <1>3, WalkStepKeepsWalks
<1>4. CASE \/ \E solid \in {"trigger", "solid"} : PF_Spawn(solid)
           \/ \E e \in InUse : PF_Remove(e)
           \/ \E e \in InUse, solid \in Assigned : SetSolid(e, solid)
           \/ \E e \in InUse, box \in Box : PF_setorigin(e, box)
           \/ \E e \in InUse, box \in Box : SV_LinkEdict(e, box)
  BY <1>4, CallKeepsWalks
<1> QED
  BY <1>1, <1>2, <1>3, <1>4 DEF WorldNext

LEMMA WalksInvStays ==
  ASSUME WorldInv, WalksInv
  PROVE  WalkStaysInList
<1> SUFFICES ASSUME Walking
             PROVE  LET head == Trigger_edicts(Walk.node) IN
                    \/ Walk.l \in {head, NULL_LINK} \cup Members(link, head)
                    \/ Walk.l \in Edict /\ ~IsLinked(link, Walk.l)
  BY DEF WalkStaysInList
<1>1. walks # <<>>
  BY DEF Walking
<1>2. PICK w \in WalkRecord : w = Walk
  BY <1>1, WalkIs
<1>3. Stays(link, edicts, w.l, w.node) /\ w.node \in Node
  BY <1>1, <1>2, WalkIs DEF GoodWalk
<1>4. w.l \in Edict /\ edicts[w.l].free = "later" => ~IsLinked(link, w.l)
  BY <1>3, NextIs
<1> QED
  BY <1>2, <1>3, <1>4 DEF Stays

\* As long as touch functions do not move edicts that are linked, and edicts
\* are not freed in the first two seconds (when they could be used again at
\* once), SV_TouchLinks does not leave the list it walks, however deep the
\* walks inside it.
THEOREM WalksStayInLists ==
  ASSUME ~Relinks, ~Early
  PROVE  WorldSpec => []WalkStaysInList
<1>1. WorldInit => WalksInv
  <2> SUFFICES ASSUME WorldInit
               PROVE  WalksInv
    OBVIOUS
  <2>1. walks \in Seq(WalkRecord) /\ Len(walks) = 0
    BY DEF WorldInit
  <2>2. sv_time \in {"late", "over"} /\ \A e \in Edict : edicts[e].free = "no"
    BY DEF WorldInit
  <2> QED
    BY <2>1, <2>2 DEF WalksInv
<1>2. WorldInv /\ WorldInv' /\ WalksInv /\ [WorldNext]_worldVars => WalksInv'
  BY WalksInvNext
<1>3. WorldInv /\ WalksInv => WalkStaysInList
  BY WalksInvStays
<1> QED
  BY <1>1, <1>2, <1>3, WorldInvAlways, PTL DEF WorldSpec

-----------------------------------------------------------------------------
(* THE MACHINE                                                             *)

(* The inductive invariant.                                                *)

\* What the thread n is at, where the machine is p: a shutdown is the first
\* thing there is, or the first since an error; programs inside programs began
\* on deeper stacks; and one that drops a player is in no other, and the
\* player is still there.
Nested(n, p, players) ==
  /\ \A i \in DOMAIN n : n[i].at = "shutdown" => i = 1 \/ n[i - 1].at = "error"
  /\ \A i \in Since(n) :
       /\ n[i].exitdepth < Len(p.stack)
       /\ \A j \in Since(n) : i < j => n[i].exitdepth < n[j].exitdepth
       /\ n[i].drops => players > 0 /\ \A j \in Since(n) : i <= j

LocalsOf(f) == pr_functions[f].locals

\* The activations of cs have saved what they stepped on in localstack one
\* after the other, that of cs[k] from b[k] on.
Fits(p, cs, b) ==
  /\ cs \in Seq(Func)
  /\ b \in [1..Len(cs) + 1 -> Nat]
  /\ \A k \in 1..Len(cs) : b[k + 1] = b[k] + LocalsOf(cs[k])
  /\ b[Len(cs) + 1] = Len(p.localstack)

ProgsInv ==
  /\ ProgsTypeOK
  /\ Nested(nest, pr, server.players)
  /\ \E b : Fits(pr, Callees(pr, nest), b)

-----------------------------------------------------------------------------
(* Sequences.                                                              *)

LEMMA SequenceOf ==
  ASSUME NEW n \in Nat, NEW X, NEW s \in [1..n -> X]
  PROVE  s \in Seq(X) /\ Len(s) = n
<1>1. s \in Seq(X)
  BY SeqDef
<1>2. Len(s) \in Nat /\ DOMAIN s = 1..Len(s)
  BY <1>1, LenProperties
<1>3. 1..n = 1..Len(s)
  BY <1>2
<1>4. Len(s) = n
  <2> DEFINE m == Len(s)
  <2>1. m \in Nat /\ 1..n = 1..m
    BY <1>2, <1>3
  <2> SUFFICES m = n
    OBVIOUS
  <2> HIDE DEF m
  <2>2. ~(m < n)
    <3>1. m < n => n \in 1..n /\ n \notin 1..m
      BY <2>1
    <3> QED
      BY <2>1, <3>1
  <2>3. ~(n < m)
    <3>1. n < m => m \in 1..m /\ m \notin 1..n
      BY <2>1
    <3> QED
      BY <2>1, <3>1
  <2> QED
    BY <2>1, <2>2, <2>3
<1> QED
  BY <1>1, <1>4

\* All but the last.
LEMMA WithoutLast ==
  ASSUME NEW X, NEW s \in Seq(X), s # <<>>
  PROVE  LET m == SubSeq(s, 1, Len(s) - 1) IN
         /\ Len(s) \in Nat /\ Len(s) \in 1..Len(s)
         /\ m \in Seq(X) /\ Len(m) = Len(s) - 1
         /\ \A i \in 1..Len(s) - 1 : m[i] = s[i]
<1> DEFINE l == Len(s)
           m == SubSeq(s, 1, l - 1)
<1>1. l \in Nat /\ l # 0 /\ \A i \in 1..l : s[i] \in X
  OBVIOUS
<1> SUFFICES /\ l \in Nat /\ l \in 1..l /\ m \in Seq(X) /\ Len(m) = l - 1
             /\ \A i \in 1..l - 1 : m[i] = s[i]
  OBVIOUS
<1> HIDE DEF l
<1>2. \A i \in 1..l - 1 : s[i] \in X
  BY <1>1
<1>3. /\ m \in Seq(X) /\ Len(m) = IF 1 <= l - 1 THEN l - 1 - 1 + 1 ELSE 0
      /\ \A i \in 1..l - 1 - 1 + 1 : m[i] = s[1 + i - 1]
  BY <1>1, <1>2, SubSeqProperties
<1> HIDE DEF m
<1>4. Len(m) = l - 1
  BY <1>1, <1>3
<1>5. \A i \in 1..l - 1 : m[i] = s[i]
  <2>1. \A i \in 1..l - 1 : i \in 1..l - 1 - 1 + 1 /\ 1 + i - 1 = i
    BY <1>1
  <2> QED
    BY <1>3, <2>1
<1> QED
  BY <1>1, <1>3, <1>4, <1>5

-----------------------------------------------------------------------------
(* The machine.                                                            *)

\* Functions have their locals in cells of pr_globals.
LEMMA FunctionsAre ==
  ASSUME NEW f \in Func
  PROVE  /\ LocalsOf(f) \in Nat
         /\ pr_functions[f].locals = LocalsOf(f)
         /\ pr_functions[f].parm_start \in Nat
         /\ Locals(f) = pr_functions[f].parm_start
                          ..(pr_functions[f].parm_start + LocalsOf(f) - 1)
         /\ Parms(f) \subseteq Locals(f)
         /\ Locals(f) \subseteq GlobalCell
<1> DEFINE q == pr_functions[f]
<1>1. /\ {q.parm_start, q.locals, q.numparms} \subseteq Nat
      /\ q.numparms <= q.locals
  BY ProgsAssumption
<1>2. Parms(f) \subseteq Locals(f)
  BY <1>1 DEF Parms, Locals
<1>3. Locals(f) \subseteq GlobalCell
  BY DEF GlobalCell
<1> QED
  BY <1>1, <1>2, <1>3 DEF LocalsOf, Locals

\* What is saved is saved in order.
LEMMA FitsGrows ==
  ASSUME NEW p, NEW cs, NEW b, Fits(p, cs, b)
  PROVE  /\ Len(cs) \in Nat
         /\ \A k \in 1..Len(cs) : cs[k] \in Func /\ LocalsOf(cs[k]) \in Nat
         /\ \A k \in 1..Len(cs) + 1 : b[k] \in Nat
         /\ \A k, m \in 1..Len(cs) + 1 : k <= m => b[k] <= b[m]
<1> DEFINE n == Len(cs)
<1>1. n \in Nat /\ \A k \in 1..n : cs[k] \in Func /\ LocalsOf(cs[k]) \in Nat
  BY FunctionsAre DEF Fits
<1>2. \A k \in 1..n + 1 : b[k] \in Nat
  BY DEF Fits
<1>3. \A k \in 1..n : b[k + 1] = b[k] + LocalsOf(cs[k])
  BY DEF Fits
<1> HIDE DEF n
<1>4. ASSUME NEW k \in 1..n + 1
      PROVE  \A m \in 1..n + 1 : k <= m => b[k] <= b[m]
  <2> DEFINE S == {i \in 0..n : i + 1 >= k => b[k] <= b[i + 1]}
  <2>1. 0 \in S
    BY <1>1, <1>2
  <2>2. ASSUME NEW i \in 1..n, i - 1 \in S
        PROVE  i \in S
    <3>1. i \in 0..n /\ (i - 1) + 1 = i /\ i \in 1..n + 1 /\ i + 1 \in 1..n + 1
      BY <1>1
    <3>2. b[i + 1] = b[i] + LocalsOf(cs[i]) /\ LocalsOf(cs[i]) \in Nat
      BY <1>1, <1>3
    <3>3. b[k] \in Nat /\ b[i] \in Nat
      BY <1>2, <3>1
    <3>4. i >= k => b[k] <= b[i]
      BY <2>2, <3>1
    <3>5. i + 1 >= k => i >= k \/ k = i + 1
      BY <1>1
    <3>6. i + 1 >= k => b[k] <= b[i + 1]
      BY <3>2, <3>3, <3>4, <3>5
    <3> QED
      BY <3>1, <3>6
  <2>3. 0..n \subseteq S
    <3> HIDE DEF S
    <3> QED
      BY <1>1, <2>1, <2>2, AfterEveryTurn
  <2> SUFFICES ASSUME NEW m \in 1..n + 1, k <= m
               PROVE  b[k] <= b[m]
    OBVIOUS
  <2>4. m - 1 \in S /\ (m - 1) + 1 = m
    BY <1>1, <2>3
  <2> QED
    BY <2>4
<1> QED
  BY <1>1, <1>2, <1>4 DEF n

\* SavedAt finds what was saved.
LEMMA SavedAtIs ==
  ASSUME NEW p, NEW cs, NEW b, Fits(p, cs, b), NEW k \in 1..Len(cs) + 1
  PROVE  SavedAt(p, cs, k) = b[k]
<1> DEFINE n == Len(cs)
           size(m) == pr_functions[cs[n + 1 - m]].locals
           g == [m \in 0..n |-> b[n + 1 - m]]
           Is(c) == c = [m \in 0..n |-> IF m = 0 THEN Len(p.localstack)
                                        ELSE c[m - 1] - size(m)]
           f == CHOOSE c : Is(c)
<1>1. /\ n \in Nat
      /\ \A i \in 1..n : cs[i] \in Func /\ LocalsOf(cs[i]) \in Nat
      /\ \A i \in 1..n + 1 : b[i] \in Nat
  BY FitsGrows
<1>2. /\ \A i \in 1..n : b[i + 1] = b[i] + LocalsOf(cs[i])
      /\ b[n + 1] = Len(p.localstack)
  BY DEF Fits
<1>3. SavedAt(p, cs, k) = f[n + 1 - k]
  BY DEF SavedAt
<1>4. \A m \in 1..n : n + 1 - m \in 1..n /\ size(m) = LocalsOf(cs[n + 1 - m])
  BY <1>1 DEF LocalsOf
<1>5. \A m \in 0..n : g[m] = b[n + 1 - m]
  OBVIOUS
<1> HIDE DEF n, size
<1>6. g[0] = Len(p.localstack)
  BY <1>1, <1>2, <1>5
<1>7. ASSUME NEW m \in 1..n
      PROVE  g[m] = g[m - 1] - size(m)
  <2> DEFINE i == n + 1 - m
  <2>1. /\ i \in 1..n /\ i \in 1..n + 1 /\ i + 1 = n + 1 - (m - 1)
        /\ m \in 0..n /\ m - 1 \in 0..n
    BY <1>1
  <2>2. g[m] = b[i] /\ g[m - 1] = b[i + 1] /\ size(m) = LocalsOf(cs[i])
    BY <1>4, <1>5, <2>1
  <2>3. b[i] \in Nat /\ LocalsOf(cs[i]) \in Nat
        /\ b[i + 1] = b[i] + LocalsOf(cs[i])
    BY <1>1, <1>2, <2>1
  <2> QED
    BY <2>2, <2>3
<1>8. Is(f)
  <2>1. Is(g)
    <3>1. \A m \in 0..n : m # 0 => m \in 1..n
      BY <1>1
    <3>2. g = [m \in 0..n |-> g[m]]
      OBVIOUS
    <3> HIDE DEF g
    <3>3. \A m \in 0..n : g[m] = IF m = 0 THEN Len(p.localstack)
                                 ELSE g[m - 1] - size(m)
      BY <1>6, <1>7, <3>1
    <3> QED
      BY <3>2, <3>3
  <2> HIDE DEF Is, g
  <2> QED
    BY <2>1
<1>9. /\ f[0] = Len(p.localstack)
      /\ \A m \in 1..n : f[m] = f[m - 1] - size(m)
  <2> HIDE DEF f
  <2>1. 0 \in 0..n /\ \A m \in 1..n : m \in 0..n /\ m # 0
    BY <1>1
  <2> QED
    BY <1>8, <2>1
<1> DEFINE S == {m \in 0..n : f[m] = g[m]}
<1>10. 0..n \subseteq S
  <2> HIDE DEF f, g
  <2>1. 0 \in S
    BY <1>1, <1>6, <1>9
  <2>2. ASSUME NEW m \in 1..n, m - 1 \in S
        PROVE  m \in S
    <3>1. m \in 0..n /\ f[m - 1] = g[m - 1]
      BY <1>1, <2>2
    <3> QED
      BY <1>7, <1>9, <3>1
  <2> HIDE DEF S
  <2> QED
    BY <1>1, <2>1, <2>2, AfterEveryTurn
<1>11. n + 1 - k \in 0..n /\ n + 1 - (n + 1 - k) = k
  BY <1>1 DEF n
<1>12. f[n + 1 - k] = g[n + 1 - k]
  BY <1>10, <1>11
<1> HIDE DEF f, g
<1> QED
  BY <1>3, <1>5, <1>11, <1>12

\* A cell that an activation from k on has is where the first of them saved
\* it, and in pr_globals if none has it.
LEMMA CellBeforeIs ==
  ASSUME NEW p, NEW cs, NEW b, Fits(p, cs, b), NEW k \in 1..Len(cs) + 1, NEW a
  PROVE  \/ /\ \A j \in k..Len(cs) : a \notin Locals(cs[j])
            /\ CellBefore(p, cs, k, a) = p.globals[a]
         \/ \E j \in k..Len(cs) :
              /\ a \in Locals(cs[j])
              /\ \A i \in k..j - 1 : a \notin Locals(cs[i])
              /\ CellBefore(p, cs, k, a)
                   = p.localstack[b[j] + a - pr_functions[cs[j]].parm_start + 1]
<1> DEFINE later == {j \in k..Len(cs) : a \in Locals(cs[j])}
           First(j) == j \in later /\ \A h \in later : j <= h
           m == CHOOSE j \in later : \A h \in later : j <= h
<1>1. Len(cs) \in Nat
  BY FitsGrows
<1>2. later \in SUBSET Nat
  BY <1>1
<1>3. CellBefore(p, cs, k, a)
        = IF later = {} THEN p.globals[a]
          ELSE p.localstack[SavedAt(p, cs, m)
                              + a - pr_functions[cs[m]].parm_start + 1]
  BY DEF CellBefore
<1>4. CASE later = {}
  BY <1>3, <1>4
<1>5. CASE later # {}
  <2>1. First(m)
    <3>1. \E j \in later : \A h \in later : j <= h
      <4> HIDE DEF later
      <4> QED
        BY <1>2, <1>5, LeastOfSet
    <3> HIDE DEF later
    <3> QED
      BY <3>1
  <2> HIDE DEF m
  <2>2. m \in k..Len(cs) /\ a \in Locals(cs[m])
    BY <2>1
  <2>3. \A i \in k..m - 1 : a \notin Locals(cs[i])
    BY <1>1, <2>1
  <2>4. SavedAt(p, cs, m) = b[m]
    BY <1>1, <2>2, SavedAtIs
  <2> QED
    BY <1>3, <1>5, <2>2, <2>3, <2>4
<1> QED
  BY <1>4, <1>5

\* q has one activation more than p, of f, and has saved what p has in the
\* locals of f.
EntersFrom(p, cs, b, q, f, c) ==
  /\ Fits(p, cs, b) /\ Fits(q, Append(cs, f), c)
  /\ \A k \in 1..Len(cs) + 1 : b[k] = c[k]
  /\ \A i \in 1..b[Len(cs) + 1] : p.localstack[i] = q.localstack[i]
  /\ \A a \in GlobalCell :
       p.globals[a] =
         IF a \in Locals(f)
         THEN q.localstack[c[Len(cs) + 1] + a - pr_functions[f].parm_start + 1]
         ELSE q.globals[a]

LEMMA GreatestOfSet ==
  ASSUME NEW n \in Nat, NEW S \in SUBSET (0..n), S # {}
  PROVE  \E m \in S : \A k \in S : k <= m
<1> DEFINE T == {n - k : k \in S}
<1>1. T \in SUBSET Nat /\ T # {}
  <2>1. \A k \in S : n - k \in Nat
    OBVIOUS
  <2> QED
    BY <2>1
<1>2. PICK t \in T : \A u \in T : t <= u
  <2> HIDE DEF T
  <2> QED
    BY <1>1, LeastOfSet
<1>3. PICK m \in S : t = n - m
  BY <1>2
<1>4. \A k \in S : n - m <= n - k
  BY <1>2, <1>3
<1> QED
  BY <1>3, <1>4

LEMMA PartIs ==
  ASSUME NEW x \in Nat, NEW first \in Nat, NEW l \in Nat,
         NEW a \in first..(first + l - 1)
  PROVE  x + a - first + 1 \in x + 1..x + l
OBVIOUS

\* One activation more does not change what those below find.
LEMMA CellsOfOthers ==
  ASSUME NEW p, NEW cs, NEW b, NEW q, NEW f \in Func, NEW c,
         EntersFrom(p, cs, b, q, f, c),
         NEW k \in 1..Len(cs) + 1, NEW a \in GlobalCell
  PROVE  CellBefore(q, Append(cs, f), k, a) = CellBefore(p, cs, k, a)
<1> DEFINE n == Len(cs)
           ds == Append(cs, f)
<1> SUFFICES CellBefore(q, ds, k, a) = CellBefore(p, cs, k, a)
  OBVIOUS
<1>1. Fits(p, cs, b) /\ Fits(q, ds, c)
  BY DEF EntersFrom
<1>2. /\ n \in Nat
      /\ \A i \in 1..n : cs[i] \in Func /\ LocalsOf(cs[i]) \in Nat
      /\ \A i \in 1..n + 1 : b[i] \in Nat
      /\ \A i, j \in 1..n + 1 : i <= j => b[i] <= b[j]
  <2> HIDE DEF n
  <2> QED
    BY <1>1, FitsGrows DEF n
<1>3. Len(ds) = n + 1 /\ ds[n + 1] = f /\ \A i \in 1..n : ds[i] = cs[i]
  <2>1. cs \in Seq(Func)
    BY <1>1 DEF Fits
  <2> QED
    BY <2>1
<1>4. \A i \in 1..n : b[i + 1] = b[i] + LocalsOf(cs[i])
  BY <1>1 DEF Fits
<1>5. /\ \A i \in 1..n + 1 : b[i] = c[i]
      /\ \A i \in 1..b[n + 1] : p.localstack[i] = q.localstack[i]
      /\ p.globals[a] =
           IF a \in Locals(f)
           THEN q.localstack[c[n + 1] + a - pr_functions[f].parm_start + 1]
           ELSE q.globals[a]
  BY DEF EntersFrom
<1> HIDE DEF n, ds
<1>6. k \in 1..Len(ds) + 1 /\ k \in 1..Len(cs) + 1
  BY <1>2, <1>3 DEF n
<1>7. \/ /\ \A j \in k..Len(ds) : a \notin Locals(ds[j])
         /\ CellBefore(q, ds, k, a) = q.globals[a]
      \/ \E j \in k..Len(ds) :
           /\ a \in Locals(ds[j])
           /\ \A i \in k..j - 1 : a \notin Locals(ds[i])
           /\ CellBefore(q, ds, k, a)
                = q.localstack[c[j] + a - pr_functions[ds[j]].parm_start + 1]
  BY <1>1, <1>6, CellBeforeIs
<1>8. \/ /\ \A j \in k..n : a \notin Locals(cs[j])
         /\ CellBefore(p, cs, k, a) = p.globals[a]
      \/ \E j \in k..n :
           /\ a \in Locals(cs[j])
           /\ \A i \in k..j - 1 : a \notin Locals(cs[i])
           /\ CellBefore(p, cs, k, a)
                = p.localstack[b[j] + a - pr_functions[cs[j]].parm_start + 1]
  BY <1>1, <1>6, CellBeforeIs DEF n
<1>9. k \in Nat /\ k >= 1 /\ k <= n + 1
  BY <1>2, <1>6 DEF n
<1>10. CASE \A j \in k..n : a \notin Locals(cs[j])
  <2>1. CellBefore(p, cs, k, a) = p.globals[a]
    BY <1>8, <1>10
  <2>2. \A j \in k..n : a \notin Locals(ds[j])
    BY <1>2, <1>3, <1>9, <1>10
  <2>3. CASE a \in Locals(f)
    <3>1. PICK j \in k..n + 1 :
            /\ a \in Locals(ds[j])
            /\ CellBefore(q, ds, k, a)
                 = q.localstack[c[j] + a - pr_functions[ds[j]].parm_start + 1]
      BY <1>2, <1>3, <1>7, <1>9, <2>3
    <3>2. j = n + 1
      BY <1>2, <1>9, <2>2, <3>1
    <3> QED
      BY <1>3, <1>5, <2>1, <2>3, <3>1, <3>2
  <2>4. CASE a \notin Locals(f)
    <3>1. \A j \in k..n + 1 : a \notin Locals(ds[j])
      BY <1>2, <1>3, <1>9, <2>2, <2>4
    <3> QED
      BY <1>3, <1>5, <1>7, <2>1, <2>4, <3>1
  <2> QED
    BY <2>3, <2>4
<1>11. CASE \E j \in k..n : a \in Locals(cs[j])
  <2>1. PICK j \in k..n :
          /\ a \in Locals(cs[j])
          /\ \A i \in k..j - 1 : a \notin Locals(cs[i])
          /\ CellBefore(p, cs, k, a)
               = p.localstack[b[j] + a - pr_functions[cs[j]].parm_start + 1]
    BY <1>8, <1>11
  <2>2. j \in 1..n /\ j \in k..n + 1 /\ j \in 1..n + 1 /\ j + 1 \in 1..n + 1
    BY <1>2, <1>9
  <2>3. a \in Locals(ds[j]) /\ \A i \in k..j - 1 : a \notin Locals(ds[i])
    <3>1. \A i \in k..j - 1 : i \in 1..n
      BY <1>2, <1>9, <2>2
    <3> QED
      BY <1>3, <2>1, <2>2, <3>1
  <2>4. PICK m \in k..n + 1 :
          /\ a \in Locals(ds[m])
          /\ \A i \in k..m - 1 : a \notin Locals(ds[i])
          /\ CellBefore(q, ds, k, a)
               = q.localstack[c[m] + a - pr_functions[ds[m]].parm_start + 1]
    BY <1>3, <1>7, <2>2, <2>3
  <2>5. m = j
    <3>1. ~(m < j)
      <4>1. m < j => m \in k..j - 1
        BY <1>2, <1>9, <2>2
      <4> QED
        BY <2>3, <2>4, <4>1
    <3>2. ~(j < m)
      <4>1. j < m => j \in k..m - 1
        BY <1>2, <1>9, <2>2
      <4> QED
        BY <2>3, <2>4, <4>1
    <3> QED
      BY <1>2, <1>9, <2>2, <3>1, <3>2
  <2> DEFINE i == b[j] + a - pr_functions[cs[j]].parm_start + 1
  <2>6. i \in 1..b[n + 1]
    <3>1. cs[j] \in Func
      BY <1>2, <2>2
    <3>2. /\ pr_functions[cs[j]].parm_start \in Nat
          /\ a \in pr_functions[cs[j]].parm_start
                     ..(pr_functions[cs[j]].parm_start + LocalsOf(cs[j]) - 1)
      BY <2>1, <3>1, FunctionsAre
    <3>3. b[j + 1] = b[j] + LocalsOf(cs[j]) /\ b[j + 1] <= b[n + 1]
      <4>1. j + 1 <= n + 1 /\ n + 1 \in 1..n + 1
        BY <1>2, <2>2
      <4> QED
        BY <1>2, <1>4, <2>2, <4>1
    <3>4. b[j] \in Nat /\ b[n + 1] \in Nat /\ LocalsOf(cs[j]) \in Nat
      <4>1. n + 1 \in 1..n + 1
        BY <1>2
      <4> QED
        BY <1>2, <2>2, <4>1
    <3>5. i \in b[j] + 1..b[j] + LocalsOf(cs[j])
      BY <3>2, <3>4, PartIs
    <3> QED
      BY <3>3, <3>4, <3>5
  <2>7. p.localstack[i] = q.localstack[i]
    <3> HIDE DEF i
    <3> QED
      BY <1>5, <2>6
  <2>8. ds[m] = cs[j] /\ c[m] = b[j]
    BY <1>3, <1>5, <2>2, <2>5
  <2>9. CellBefore(q, ds, k, a) = q.localstack[i]
    BY <2>4, <2>8
  <2> QED
    BY <2>1, <2>7, <2>9
<1> QED
  BY <1>10, <1>11

LEMMA SavedIs ==
  ASSUME NEW p \in Machine, NEW f \in Func
  PROVE  /\ Saved(p, f) \in Seq(GlobalValue)
         /\ Len(Saved(p, f)) = LocalsOf(f)
         /\ \A i \in 1..LocalsOf(f) :
              Saved(p, f)[i] = p.globals[pr_functions[f].parm_start + i - 1]
<1> DEFINE l == LocalsOf(f)
           first == pr_functions[f].parm_start
<1>1. l \in Nat /\ pr_functions[f].locals = l /\ first \in Nat
      /\ Locals(f) = first..(first + l - 1) /\ Locals(f) \subseteq GlobalCell
  BY FunctionsAre
<1>2. p.globals \in [GlobalCell -> GlobalValue]
  BY DEF Machine
<1>3. Saved(p, f) = [i \in 1..l |-> p.globals[first + i - 1]]
  BY <1>1 DEF Saved
<1> HIDE DEF l, first
<1>4. \A i \in 1..l : first + i - 1 \in Locals(f)
  BY <1>1
<1>5. Saved(p, f) \in [1..l -> GlobalValue]
  BY <1>1, <1>2, <1>3, <1>4
<1>6. Saved(p, f) \in Seq(GlobalValue) /\ Len(Saved(p, f)) = l
  BY <1>1, <1>5, SequenceOf
<1> QED
  BY <1>3, <1>6 DEF l, first

\* PR_EnterFunction: what it leaves.
LEMMA EnterIs ==
  ASSUME NEW p \in Machine, NEW f \in Func,
         NEW given \in [Parms(f) -> GlobalValue]
  PROVE  LET q == PR_EnterFunction(p, f, given) IN
         /\ q \in Machine
         /\ q.xfunction = f
         /\ q.stack = Append(p.stack, p.xfunction)
         /\ Len(q.stack) = Len(p.stack) + 1
         /\ Len(q.localstack) = Len(p.localstack) + LocalsOf(f)
         /\ \A i \in 1..Len(p.localstack) : q.localstack[i] = p.localstack[i]
         /\ \A i \in 1..LocalsOf(f) :
              q.localstack[Len(p.localstack) + i]
                = p.globals[pr_functions[f].parm_start + i - 1]
         /\ \A a \in GlobalCell :
              q.globals[a] = IF a \in Parms(f) THEN given[a] ELSE p.globals[a]
<1> DEFINE q == PR_EnterFunction(p, f, given)
           s == Saved(p, f)
           globals == [a \in GlobalCell |-> IF a \in Parms(f) THEN given[a]
                                            ELSE p.globals[a]]
<1>1. /\ p.globals \in [GlobalCell -> GlobalValue]
      /\ p.stack \in Seq(Func \cup {NoFunc})
      /\ p.localstack \in Seq(GlobalValue)
      /\ p.xfunction \in Func \cup {NoFunc}
  BY DEF Machine
<1>2. /\ s \in Seq(GlobalValue) /\ Len(s) = LocalsOf(f)
      /\ \A i \in 1..LocalsOf(f) :
           s[i] = p.globals[pr_functions[f].parm_start + i - 1]
  BY SavedIs
<1>3. q = [globals |-> globals, stack |-> Append(p.stack, p.xfunction),
           localstack |-> p.localstack \o s, xfunction |-> f]
  BY DEF PR_EnterFunction
<1>4. LocalsOf(f) \in Nat
  BY FunctionsAre
<1> HIDE DEF s, q
<1>5. globals \in [GlobalCell -> GlobalValue]
  BY <1>1
<1>6. \A a \in GlobalCell :
        globals[a] = IF a \in Parms(f) THEN given[a] ELSE p.globals[a]
  OBVIOUS
<1> HIDE DEF globals
<1>7. /\ Append(p.stack, p.xfunction) \in Seq(Func \cup {NoFunc})
      /\ Len(Append(p.stack, p.xfunction)) = Len(p.stack) + 1
  BY <1>1
<1>8. /\ p.localstack \o s \in Seq(GlobalValue)
      /\ Len(p.localstack \o s) = Len(p.localstack) + LocalsOf(f)
      /\ \A i \in 1..Len(p.localstack) : (p.localstack \o s)[i] = p.localstack[i]
      /\ \A i \in 1..LocalsOf(f) :
           (p.localstack \o s)[Len(p.localstack) + i] = s[i]
  <2> DEFINE ls == p.localstack
             t == ls \o s
  <2>1. ls \in Seq(GlobalValue) /\ Len(ls) \in Nat
    BY <1>1
  <2>2. /\ t \in Seq(GlobalValue) /\ Len(t) = Len(ls) + Len(s)
        /\ \A i \in 1..Len(ls) + Len(s) :
             t[i] = IF i <= Len(ls) THEN ls[i] ELSE s[i - Len(ls)]
    <3> HIDE DEF ls
    <3> QED
      BY <1>2, <2>1, ConcatProperties
  <2> HIDE DEF ls, t
  <2>3. \A i \in 1..Len(ls) : t[i] = ls[i]
    BY <1>2, <1>4, <2>1, <2>2
  <2>4. \A i \in 1..LocalsOf(f) : t[Len(ls) + i] = s[i]
    <3> SUFFICES ASSUME NEW i \in 1..LocalsOf(f)
                 PROVE  t[Len(ls) + i] = s[i]
      OBVIOUS
    <3>1. /\ Len(ls) + i \in 1..Len(ls) + Len(s) /\ ~(Len(ls) + i <= Len(ls))
          /\ Len(ls) + i - Len(ls) = i
      BY <1>2, <1>4, <2>1
    <3> QED
      BY <2>2, <3>1
  <2> QED
    BY <1>2, <2>2, <2>3, <2>4 DEF t, ls
<1>9. q \in Machine
  BY <1>3, <1>5, <1>7, <1>8 DEF Machine
<1> SUFFICES /\ q \in Machine
             /\ q.xfunction = f
             /\ q.stack = Append(p.stack, p.xfunction)
             /\ Len(q.stack) = Len(p.stack) + 1
             /\ Len(q.localstack) = Len(p.localstack) + LocalsOf(f)
             /\ \A i \in 1..Len(p.localstack) : q.localstack[i] = p.localstack[i]
             /\ \A i \in 1..LocalsOf(f) :
                  q.localstack[Len(p.localstack) + i]
                    = p.globals[pr_functions[f].parm_start + i - 1]
             /\ \A a \in GlobalCell :
                  q.globals[a] = IF a \in Parms(f) THEN given[a]
                                 ELSE p.globals[a]
  BY DEF q
<1>10. /\ q.xfunction = f /\ q.stack = Append(p.stack, p.xfunction)
       /\ q.localstack = p.localstack \o s /\ q.globals = globals
  BY <1>3
<1> QED
  BY <1>2, <1>6, <1>7, <1>8, <1>9, <1>10

\* PR_LeaveFunction: the same, where neither stack underflows.
LEMMA LeaveIs ==
  ASSUME NEW p \in Machine, p.xfunction \in Func, ~StackUnderflows(p)
  PROVE  LET q == PR_LeaveFunction(p)
             f == p.xfunction IN
         /\ q \in Machine
         /\ Len(p.stack) \in Nat /\ Len(p.stack) > 0
         /\ q.xfunction = p.stack[Len(p.stack)]
         /\ q.stack = SubSeq(p.stack, 1, Len(p.stack) - 1)
         /\ Len(q.stack) = Len(p.stack) - 1
         /\ Len(q.localstack) = Len(p.localstack) - LocalsOf(f)
         /\ Len(q.localstack) \in Nat /\ Len(p.localstack) \in Nat
         /\ \A i \in 1..Len(q.localstack) : q.localstack[i] = p.localstack[i]
         /\ \A a \in GlobalCell :
              q.globals[a] =
                IF a \in Locals(f)
                THEN p.localstack[Len(q.localstack)
                                    + a - pr_functions[f].parm_start + 1]
                ELSE p.globals[a]
<1> DEFINE f == p.xfunction
           q == PR_LeaveFunction(p)
           kept == Len(p.localstack) - LocalsOf(f)
           first == pr_functions[f].parm_start
           globals == [a \in GlobalCell |->
                         IF a \in Locals(f)
                         THEN p.localstack[kept + a - first + 1]
                         ELSE p.globals[a]]
<1>1. /\ p.globals \in [GlobalCell -> GlobalValue]
      /\ p.stack \in Seq(Func \cup {NoFunc})
      /\ p.localstack \in Seq(GlobalValue)
  BY DEF Machine
<1>2. /\ LocalsOf(f) \in Nat /\ pr_functions[f].locals = LocalsOf(f)
      /\ first \in Nat /\ Locals(f) = first..(first + LocalsOf(f) - 1)
  BY FunctionsAre
<1>3. /\ Len(p.stack) \in Nat /\ Len(p.stack) > 0
      /\ Len(p.localstack) \in Nat /\ kept \in Nat
  <2>1. p.stack # <<>> /\ ~(Len(p.localstack) < LocalsOf(f))
    BY <1>2 DEF StackUnderflows
  <2>2. Len(p.stack) \in Nat /\ Len(p.localstack) \in Nat
    BY <1>1
  <2>3. Len(p.stack) # 0
    BY <1>1, <2>1
  <2> QED
    BY <1>2, <2>1, <2>2, <2>3
<1>4. q = [globals |-> globals, stack |-> SubSeq(p.stack, 1, Len(p.stack) - 1),
           localstack |-> SubSeq(p.localstack, 1, kept),
           xfunction |-> p.stack[Len(p.stack)]]
  BY <1>2 DEF PR_LeaveFunction
<1>5. /\ SubSeq(p.stack, 1, Len(p.stack) - 1) \in Seq(Func \cup {NoFunc})
      /\ Len(SubSeq(p.stack, 1, Len(p.stack) - 1)) = Len(p.stack) - 1
      /\ p.stack[Len(p.stack)] \in Func \cup {NoFunc}
  BY <1>1, <1>3
<1>6. kept <= Len(p.localstack)
  BY <1>2, <1>3
<1>7. \A a \in Locals(f) : kept + a - first + 1 \in 1..Len(p.localstack)
  <2> SUFFICES ASSUME NEW a \in Locals(f)
               PROVE  kept + a - first + 1 \in 1..Len(p.localstack)
    OBVIOUS
  <2>1. kept + LocalsOf(f) = Len(p.localstack)
    BY <1>2, <1>3
  <2> HIDE DEF kept, first, f
  <2>2. kept + a - first + 1 \in kept + 1..kept + LocalsOf(f)
    BY <1>2, <1>3, PartIs
  <2> QED
    BY <1>3, <2>1, <2>2
<1>8. globals \in [GlobalCell -> GlobalValue]
  <2> HIDE DEF kept, first, f
  <2> QED
    BY <1>1, <1>7
<1>9. \A a \in GlobalCell :
        globals[a] = IF a \in Locals(f) THEN p.localstack[kept + a - first + 1]
                     ELSE p.globals[a]
  OBVIOUS
<1> HIDE DEF q, globals, kept, first
<1>10. /\ SubSeq(p.localstack, 1, kept) \in Seq(GlobalValue)
       /\ Len(SubSeq(p.localstack, 1, kept)) = kept
       /\ \A i \in 1..kept : SubSeq(p.localstack, 1, kept)[i] = p.localstack[i]
  BY <1>1, <1>3, <1>6
<1>11. q \in Machine
  BY <1>4, <1>5, <1>8, <1>10 DEF Machine
<1>12. /\ q.xfunction = p.stack[Len(p.stack)] /\ q.globals = globals
       /\ q.stack = SubSeq(p.stack, 1, Len(p.stack) - 1)
       /\ q.localstack = SubSeq(p.localstack, 1, kept)
  BY <1>4
<1>13. /\ Len(q.localstack) = kept /\ Len(q.stack) = Len(p.stack) - 1
       /\ \A i \in 1..kept : q.localstack[i] = p.localstack[i]
  BY <1>5, <1>10, <1>12
<1> SUFFICES /\ q \in Machine
             /\ Len(p.stack) \in Nat /\ Len(p.stack) > 0
             /\ q.xfunction = p.stack[Len(p.stack)]
             /\ q.stack = SubSeq(p.stack, 1, Len(p.stack) - 1)
             /\ Len(q.stack) = Len(p.stack) - 1
             /\ Len(q.localstack) = Len(p.localstack) - LocalsOf(f)
             /\ Len(q.localstack) \in Nat /\ Len(p.localstack) \in Nat
             /\ \A i \in 1..Len(q.localstack) : q.localstack[i] = p.localstack[i]
             /\ \A a \in GlobalCell :
                  q.globals[a] =
                    IF a \in Locals(f)
                    THEN p.localstack[Len(q.localstack) + a - first + 1]
                    ELSE p.globals[a]
  BY DEF q, first
<1>14. Len(q.localstack) = Len(p.localstack) - LocalsOf(f)
  BY <1>13 DEF kept
<1> QED
  BY <1>3, <1>9, <1>11, <1>12, <1>13, <1>14

\* One function more.
LEMMA AppendFits ==
  ASSUME NEW p, NEW cs, NEW b, Fits(p, cs, b), NEW f \in Func, NEW q,
         Len(q.localstack) = Len(p.localstack) + LocalsOf(f)
  PROVE  LET c == [k \in 1..Len(cs) + 2 |->
                     IF k = Len(cs) + 2 THEN b[Len(cs) + 1] + LocalsOf(f)
                     ELSE b[k]] IN
         /\ Fits(q, Append(cs, f), c)
         /\ \A k \in 1..Len(cs) + 1 : b[k] = c[k]
<1> DEFINE n == Len(cs)
           ds == Append(cs, f)
           c == [k \in 1..n + 2 |-> IF k = n + 2 THEN b[n + 1] + LocalsOf(f)
                                    ELSE b[k]]
<1>1. /\ n \in Nat /\ LocalsOf(f) \in Nat
      /\ \A k \in 1..n + 1 : b[k] \in Nat
  BY FitsGrows, FunctionsAre
<1>2. /\ cs \in Seq(Func)
      /\ \A k \in 1..n : b[k + 1] = b[k] + LocalsOf(cs[k])
      /\ b[n + 1] = Len(p.localstack)
  BY DEF Fits
<1>3. /\ ds \in Seq(Func) /\ Len(ds) = n + 1 /\ ds[n + 1] = f
      /\ \A k \in 1..n : ds[k] = cs[k]
  BY <1>2
<1> SUFFICES Fits(q, ds, c) /\ \A k \in 1..n + 1 : b[k] = c[k]
  OBVIOUS
<1> HIDE DEF n, ds
<1>4. /\ c \in [1..n + 2 -> Nat]
      /\ c[n + 2] = b[n + 1] + LocalsOf(f)
      /\ \A k \in 1..n + 1 : c[k] = b[k]
  <2>1. \A k \in 1..n + 2 : k # n + 2 => k \in 1..n + 1
    BY <1>1
  <2>2. n + 1 \in 1..n + 1 /\ n + 2 \in 1..n + 2
        /\ \A k \in 1..n + 1 : k # n + 2 /\ k \in 1..n + 2
    BY <1>1
  <2>3. b[n + 1] + LocalsOf(f) \in Nat
    BY <1>1, <2>2
  <2> QED
    BY <1>1, <2>1, <2>2, <2>3
<1> HIDE DEF c
<1>5. \A k \in 1..n + 1 : c[k + 1] = c[k] + LocalsOf(ds[k])
  <2> SUFFICES ASSUME NEW k \in 1..n + 1
               PROVE  c[k + 1] = c[k] + LocalsOf(ds[k])
    OBVIOUS
  <2>1. CASE k = n + 1
    <3>1. k + 1 = n + 2
      BY <1>1, <2>1
    <3> QED
      BY <1>3, <1>4, <2>1, <3>1
  <2>2. CASE k # n + 1
    <3>1. k \in 1..n /\ k + 1 \in 1..n + 1
      BY <1>1, <2>2
    <3> QED
      BY <1>2, <1>3, <1>4, <3>1
  <2> QED
    BY <2>1, <2>2
<1>6. (n + 1) + 1 = n + 2
  BY <1>1
<1>7. c[n + 2] = Len(q.localstack)
  BY <1>2, <1>4
<1> QED
  BY <1>3, <1>4, <1>5, <1>6, <1>7 DEF Fits

\* One function less.
LEMMA FrontFits ==
  ASSUME NEW p, NEW cs \in Seq(Func), NEW f \in Func, NEW c,
         Fits(p, Append(cs, f), c), NEW q,
         Len(p.localstack) \in Nat, Len(q.localstack) \in Nat,
         Len(q.localstack) = Len(p.localstack) - LocalsOf(f)
  PROVE  LET b == [k \in 1..Len(cs) + 1 |-> c[k]] IN Fits(q, cs, b)
<1> DEFINE n == Len(cs)
           ds == Append(cs, f)
           b == [k \in 1..n + 1 |-> c[k]]
<1>1. /\ n \in Nat /\ Len(ds) = n + 1 /\ ds[n + 1] = f
      /\ \A k \in 1..n : ds[k] = cs[k]
  OBVIOUS
<1>2. Fits(p, ds, c)
  OBVIOUS
<1> HIDE DEF ds
<1>3. \A k \in 1..Len(ds) + 1 : c[k] \in Nat
  BY <1>2, FitsGrows
<1>4. /\ \A k \in 1..n + 1 : c[k + 1] = c[k] + LocalsOf(ds[k])
      /\ c[n + 1 + 1] = Len(p.localstack)
  BY <1>1, <1>2 DEF Fits
<1>5. LocalsOf(f) \in Nat
  BY FunctionsAre
<1> SUFFICES Fits(q, cs, b)
  OBVIOUS
<1> HIDE DEF n
<1>6. b \in [1..n + 1 -> Nat] /\ \A k \in 1..n + 1 : b[k] = c[k]
  BY <1>1, <1>3
<1> HIDE DEF b
<1>7. b[n + 1] = Len(q.localstack)
  <2>1. n + 1 \in 1..n + 1 /\ n + 1 \in 1..Len(ds) + 1
    BY <1>1
  <2>2. c[n + 1] \in Nat /\ c[n + 1 + 1] = c[n + 1] + LocalsOf(f)
    BY <1>1, <1>3, <1>4, <2>1
  <2> QED
    BY <1>4, <1>5, <1>6, <2>1, <2>2
<1>8. ASSUME NEW k \in 1..n
      PROVE  b[k + 1] = b[k] + LocalsOf(cs[k])
  <2>1. k \in 1..n + 1 /\ k + 1 \in 1..n + 1
    BY <1>1
  <2>2. c[k + 1] = c[k] + LocalsOf(cs[k])
    BY <1>1, <1>4, <2>1
  <2> QED
    BY <1>6, <2>1, <2>2
<1> QED
  BY <1>6, <1>7, <1>8 DEF Fits, n

LEMMA EnterEntersFrom ==
  ASSUME NEW p \in Machine, NEW cs, NEW b, Fits(p, cs, b), NEW f \in Func,
         NEW given \in [Parms(f) -> GlobalValue]
  PROVE  \E c : EntersFrom(p, cs, b, PR_EnterFunction(p, f, given), f, c)
<1> DEFINE n == Len(cs)
           q == PR_EnterFunction(p, f, given)
           first == pr_functions[f].parm_start
           c == [k \in 1..n + 2 |-> IF k = n + 2 THEN b[n + 1] + LocalsOf(f)
                                    ELSE b[k]]
<1>1. /\ Len(q.localstack) = Len(p.localstack) + LocalsOf(f)
      /\ \A i \in 1..Len(p.localstack) : q.localstack[i] = p.localstack[i]
      /\ \A i \in 1..LocalsOf(f) :
           q.localstack[Len(p.localstack) + i] = p.globals[first + i - 1]
      /\ \A a \in GlobalCell :
           q.globals[a] = IF a \in Parms(f) THEN given[a] ELSE p.globals[a]
  BY EnterIs
<1> HIDE DEF q
<1>2. Fits(q, Append(cs, f), c) /\ \A k \in 1..n + 1 : b[k] = c[k]
  BY <1>1, AppendFits
<1> HIDE DEF c
<1>3. b[n + 1] = Len(p.localstack) /\ c[n + 1] = Len(p.localstack)
  <2>1. n \in Nat
    BY FitsGrows
  <2>2. n + 1 \in 1..n + 1
    BY <2>1
  <2> QED
    BY <1>2, <2>2 DEF Fits
<1>4. Len(p.localstack) \in Nat
  BY DEF Machine
<1>5. ASSUME NEW a \in GlobalCell
      PROVE  p.globals[a] =
               IF a \in Locals(f) THEN q.localstack[c[n + 1] + a - first + 1]
               ELSE q.globals[a]
  <2>1. /\ LocalsOf(f) \in Nat /\ first \in Nat
        /\ Locals(f) = first..(first + LocalsOf(f) - 1)
        /\ Parms(f) \subseteq Locals(f)
    BY FunctionsAre
  <2> HIDE DEF first
  <2>2. CASE a \in Locals(f)
    <3> DEFINE i == a - first + 1
    <3>1. i \in 1..LocalsOf(f) /\ first + i - 1 = a
          /\ c[n + 1] + a - first + 1 = Len(p.localstack) + i
      BY <1>3, <1>4, <2>1, <2>2
    <3> HIDE DEF i
    <3>2. q.localstack[Len(p.localstack) + i] = p.globals[a]
      BY <1>1, <3>1 DEF first
    <3> QED
      BY <2>2, <3>1, <3>2
  <2>3. CASE a \notin Locals(f)
    BY <1>1, <2>1, <2>3
  <2> QED
    BY <2>2, <2>3
<1>6. EntersFrom(p, cs, b, q, f, c)
  BY <1>1, <1>2, <1>3, <1>5 DEF EntersFrom
<1> QED
  BY <1>6 DEF q

LEMMA LeaveEntersFrom ==
  ASSUME NEW p \in Machine, p.xfunction \in Func, ~StackUnderflows(p),
         NEW cs \in Seq(Func), NEW c, Fits(p, Append(cs, p.xfunction), c)
  PROVE  \E b : EntersFrom(PR_LeaveFunction(p), cs, b, p, p.xfunction, c)
<1> DEFINE n == Len(cs)
           f == p.xfunction
           q == PR_LeaveFunction(p)
           first == pr_functions[f].parm_start
           b == [k \in 1..n + 1 |-> c[k]]
<1>1. /\ Len(q.localstack) = Len(p.localstack) - LocalsOf(f)
      /\ Len(q.localstack) \in Nat /\ Len(p.localstack) \in Nat
      /\ \A i \in 1..Len(q.localstack) : q.localstack[i] = p.localstack[i]
      /\ \A a \in GlobalCell :
           q.globals[a] =
             IF a \in Locals(f)
             THEN p.localstack[Len(q.localstack) + a - first + 1]
             ELSE p.globals[a]
  BY LeaveIs
<1> HIDE DEF q
<1>2. Fits(q, cs, b)
  BY <1>1, FrontFits
<1>3. n \in Nat /\ \A k \in 1..n + 1 : b[k] = c[k]
  OBVIOUS
<1> HIDE DEF b
<1>4. b[n + 1] = Len(q.localstack) /\ c[n + 1] = Len(q.localstack)
  <2>1. n + 1 \in 1..n + 1
    BY <1>3
  <2> QED
    BY <1>2, <1>3, <2>1 DEF Fits
<1>5. EntersFrom(q, cs, b, p, f, c)
  BY <1>1, <1>2, <1>3, <1>4 DEF EntersFrom
<1> QED
  BY <1>5 DEF q

\* No activation has saved what the innermost sees.
LEMMA LastCells ==
  ASSUME NEW p, NEW cs, NEW b, Fits(p, cs, b), NEW a
  PROVE  CellBefore(p, cs, Len(cs) + 1, a) = p.globals[a]
<1>1. Len(cs) \in Nat
  BY FitsGrows
<1>2. Len(cs) + 1 \in 1..Len(cs) + 1 /\ ~\E j \in Len(cs) + 1..Len(cs) : TRUE
  BY <1>1
<1> QED
  BY <1>2, CellBeforeIs

\* What the activations are, and what their cells were before them.
LEMMA ActiveIs ==
  ASSUME NEW p, NEW cs \in Seq(Func)
  PROVE  LET active == ActiveOf(p, cs) IN
         /\ \E X : active \in Seq(X)
         /\ Len(active) = Len(cs) /\ DOMAIN active = 1..Len(cs)
         /\ \A k \in 1..Len(cs) :
              /\ active[k].f = cs[k]
              /\ DOMAIN active[k].own = Locals(cs[k])
              /\ \A a \in Locals(cs[k]) :
                   active[k].own[a] = CellBefore(p, cs, k + 1, a)
<1> DEFINE active == ActiveOf(p, cs)
           own(k) == [a \in Locals(cs[k]) |-> CellBefore(p, cs, k + 1, a)]
           X == {active[k] : k \in 1..Len(cs)}
<1>1. active = [k \in 1..Len(cs) |-> [f |-> cs[k], own |-> own(k)]]
  BY DEF ActiveOf
<1>2. Len(cs) \in Nat
  OBVIOUS
<1> HIDE DEF own, active
<1>3. active \in [1..Len(cs) -> X]
  BY <1>1
<1>4. active \in Seq(X) /\ Len(active) = Len(cs)
  <2> HIDE DEF X
  <2> QED
    BY <1>2, <1>3, SequenceOf
<1>5. \A k \in 1..Len(cs) :
        /\ active[k].f = cs[k]
        /\ DOMAIN active[k].own = Locals(cs[k])
        /\ \A a \in Locals(cs[k]) :
             active[k].own[a] = CellBefore(p, cs, k + 1, a)
  BY <1>1 DEF own
<1> HIDE DEF X
<1>6. DOMAIN active = 1..Len(cs)
  BY <1>3
<1> QED
  BY <1>4, <1>5, <1>6 DEF active

\* What a function that is entered finds in its locals is in pr_globals.
LEMMA InnermostIs ==
  ASSUME NEW p, NEW cs, NEW b, Fits(p, cs, b), NEW a \in GlobalCell
  PROVE  LET active == ActiveOf(p, cs)
             has == {i \in DOMAIN active : a \in DOMAIN active[i].own} IN
         p.globals[a] =
           IF has = {} THEN BaseOf(p, cs)[a]
           ELSE LET i == CHOOSE j \in has : \A h \in has : h <= j
                IN  active[i].own[a]
<1> DEFINE active == ActiveOf(p, cs)
           has == {i \in DOMAIN active : a \in DOMAIN active[i].own}
           m == CHOOSE j \in has : \A h \in has : h <= j
<1> SUFFICES p.globals[a] = IF has = {} THEN BaseOf(p, cs)[a]
                            ELSE active[m].own[a]
  OBVIOUS
<1>2. /\ cs \in Seq(Func) /\ Len(cs) \in Nat
      /\ \A k \in 1..Len(cs) : cs[k] \in Func
  BY FitsGrows DEF Fits
<1>3. /\ DOMAIN active = 1..Len(cs)
      /\ \A k \in 1..Len(cs) :
           /\ DOMAIN active[k].own = Locals(cs[k])
           /\ \A x \in Locals(cs[k]) :
                active[k].own[x] = CellBefore(p, cs, k + 1, x)
  BY <1>2, ActiveIs
<1> HIDE DEF active
<1>4. has = {i \in 1..Len(cs) : a \in Locals(cs[i])}
  BY <1>3
<1>5. ASSUME NEW k \in 0..Len(cs),
             \A i \in k + 1..Len(cs) : a \notin Locals(cs[i])
      PROVE  CellBefore(p, cs, k + 1, a) = p.globals[a]
  <2>1. k + 1 \in 1..Len(cs) + 1
    BY <1>2
  <2> QED
    BY <1>5, <2>1, CellBeforeIs
<1>6. CASE has = {}
  <2>1. BaseOf(p, cs)[a] = CellBefore(p, cs, 1, a)
    BY DEF BaseOf
  <2>2. 0 \in 0..Len(cs) /\ 0 + 1 = 1
    BY <1>2
  <2> HIDE DEF has
  <2>3. \A i \in 0 + 1..Len(cs) : a \notin Locals(cs[i])
    BY <1>4, <1>6, <2>2
  <2>4. CellBefore(p, cs, 0 + 1, a) = p.globals[a]
    BY <1>5, <2>2, <2>3
  <2> QED
    BY <1>6, <2>1, <2>2, <2>4
<1>7. CASE has # {}
  <2>1. m \in has /\ \A j \in has : j <= m
    <3>1. has \in SUBSET (0..Len(cs))
      BY <1>2, <1>4
    <3> HIDE DEF has
    <3>2. \E i \in has : \A j \in has : j <= i
      BY <1>2, <1>7, <3>1, GreatestOfSet
    <3> QED
      BY <3>2
  <2> HIDE DEF m, has
  <2>2. m \in 1..Len(cs) /\ a \in Locals(cs[m]) /\ m \in 0..Len(cs)
    BY <1>2, <1>4, <2>1
  <2>3. \A i \in m + 1..Len(cs) : a \notin Locals(cs[i])
    <3>1. \A i \in m + 1..Len(cs) : i \in 1..Len(cs) /\ ~(i <= m)
      BY <1>2, <2>2
    <3> QED
      BY <1>4, <2>1, <3>1
  <2>4. CellBefore(p, cs, m + 1, a) = p.globals[a]
    BY <1>5, <2>2, <2>3
  <2> QED
    BY <1>3, <1>7, <2>2, <2>4
<1> QED
  BY <1>6, <1>7

LEMMA SeenIs ==
  ASSUME NEW b, Fits(pr, Callees(pr, nest), b), NEW a \in GlobalCell
  PROVE  Promised!Seen(a) = pr.globals[a]
BY InnermostIs DEF Promised!Seen

-----------------------------------------------------------------------------
(* What the thread is at.                                                  *)

LEMMA TaskIs ==
  ASSUME NEW x \in Tasks
  PROVE  /\ x.at \in {"program", "shutdown", "error"}
         /\ x.at = "program" =>
              /\ x \in [at : {"program"}, exitdepth : 0..MAX_STACK_DEPTH - 1,
                        runaway : 1..MaxStatements, drops : BOOLEAN]
              /\ x.exitdepth \in Nat
BY ProgsAssumption DEF Tasks, Shutdown, Error

LEMMA ProgramIs ==
  ASSUME NEW d \in 0..MAX_STACK_DEPTH - 1, NEW drops \in BOOLEAN
  PROVE  /\ Program(d, drops) \in Tasks
         /\ Program(d, drops).at = "program"
         /\ Program(d, drops).exitdepth = d
         /\ Program(d, drops).drops = drops
BY ProgsAssumption DEF Tasks, Program

LEMMA SinceIs ==
  ASSUME NEW n \in Seq(Tasks)
  PROVE  /\ Len(n) \in Nat
         /\ Since(n) \subseteq 1..Len(n)
         /\ \A i \in Since(n) :
              n[i] \in Tasks /\ n[i].at = "program" /\ n[i].exitdepth \in Nat
         /\ \A i \in 1..Len(n) :
              i \in Since(n) <=> /\ n[i].at = "program"
                                 /\ \A j \in i..Len(n) : n[j].at # "error"
<1>1. Len(n) \in Nat /\ DOMAIN n = 1..Len(n)
      /\ \A i \in 1..Len(n) : n[i] \in Tasks
  OBVIOUS
<1>2. /\ Since(n) \subseteq 1..Len(n)
      /\ \A i \in Since(n) : n[i].at = "program"
      /\ \A i \in 1..Len(n) :
           i \in Since(n) <=> /\ n[i].at = "program"
                              /\ \A j \in i..Len(n) : n[j].at # "error"
  BY <1>1 DEF Since
<1> QED
  BY <1>1, <1>2, TaskIs

\* The first program since the last error.
LEMMA BottomIs ==
  ASSUME NEW n \in Seq(Tasks), Since(n) # {}
  PROVE  \E i \in Since(n) : /\ \A j \in Since(n) : i <= j
                             /\ Bottom(n) = n[i].exitdepth
<1> DEFINE S == Since(n)
           first == CHOOSE i \in S : \A j \in S : i <= j
<1>1. S \in SUBSET Nat
  BY SinceIs
<1>2. Bottom(n) = n[first].exitdepth
  BY DEF Bottom
<1> HIDE DEF S
<1>3. \E i \in S : \A j \in S : i <= j
  BY <1>1, LeastOfSet DEF S
<1>4. first \in S /\ \A j \in S : first <= j
  BY <1>3
<1> HIDE DEF first
<1> QED
  BY <1>2, <1>4 DEF S

\* The same bottom, if the first program is the same.
LEMMA SameBottom ==
  ASSUME NEW n \in Seq(Tasks), NEW m \in Seq(Tasks),
         Since(n) # {}, Since(n) \subseteq Since(m),
         \A i \in Since(n), j \in Since(m) \ Since(n) : i <= j,
         \A i \in Since(n) : m[i].exitdepth = n[i].exitdepth
  PROVE  Bottom(m) = Bottom(n)
<1>1. PICK i \in Since(n) : /\ \A j \in Since(n) : i <= j
                            /\ Bottom(n) = n[i].exitdepth
  BY BottomIs
<1>2. PICK k \in Since(m) : /\ \A j \in Since(m) : k <= j
                            /\ Bottom(m) = m[k].exitdepth
  BY BottomIs
<1>3. i \in Nat /\ k \in Nat
  BY SinceIs
<1>4. k <= i /\ i <= k
  BY <1>1, <1>2
<1> QED
  BY <1>1, <1>2, <1>3, <1>4

\* A statement is counted.
LEMMA CountedIs ==
  ASSUME NEW n \in Seq(Tasks), n # <<>>, n[Len(n)].at = "program",
         n[Len(n)].runaway > 1
  PROVE  LET m == [n EXCEPT ![Len(n)].runaway = @ - 1] IN
         /\ m \in Seq(Tasks)
         /\ Len(m) = Len(n)
         /\ \A i \in 1..Len(n) : m[i].at = n[i].at
         /\ Since(m) = Since(n)
         /\ \A i \in Since(n) : m[i].exitdepth = n[i].exitdepth
                                /\ m[i].drops = n[i].drops
         /\ Since(n) # {} => Bottom(m) = Bottom(n)
<1> DEFINE l == Len(n)
           x == n[l]
           m == [n EXCEPT ![l].runaway = @ - 1]
           y == [x EXCEPT !.runaway = @ - 1]
<1>1. /\ l \in 1..l /\ l \in Nat /\ x \in Tasks
      /\ \A i \in 1..l : n[i] \in Tasks
  <2>1. l \in Nat /\ l # 0
    OBVIOUS
  <2> QED
    BY <2>1
<1>2. y \in Tasks /\ y.at = x.at /\ y.exitdepth = x.exitdepth
      /\ y.drops = x.drops
  <2> HIDE DEF x
  <2>1. x \in [at : {"program"}, exitdepth : 0..MAX_STACK_DEPTH - 1,
               runaway : 1..MaxStatements, drops : BOOLEAN]
    BY <1>1, TaskIs DEF x
  <2>2. x.runaway > 1
    BY DEF x
  <2>3. MaxStatements \in Nat
    BY ProgsAssumption
  <2>4. x.runaway - 1 \in 1..MaxStatements
    BY <2>1, <2>2, <2>3
  <2> QED
    BY <2>1, <2>4 DEF Tasks
<1>3. m = [n EXCEPT ![l] = y]
  OBVIOUS
<1> HIDE DEF y, m
<1>4. m \in Seq(Tasks) /\ Len(m) = l
      /\ m[l] = y /\ \A i \in 1..l : i # l => m[i] = n[i]
  BY <1>1, <1>2, <1>3
<1>5. \A i \in 1..l : /\ m[i].at = n[i].at
                      /\ n[i].at = "program" =>
                           m[i].exitdepth = n[i].exitdepth
                           /\ m[i].drops = n[i].drops
  BY <1>2, <1>4
<1>6. Since(m) = Since(n)
  <2> HIDE DEF l
  <2>1. DOMAIN m = 1..l /\ DOMAIN n = 1..l /\ Len(m) = l /\ Len(n) = l
    BY <1>4 DEF l
  <2>2. \A i \in 1..l : \A j \in i..l : j \in 1..l
    BY <1>1
  <2> QED
    BY <1>5, <2>1, <2>2 DEF Since
<1>7. \A i \in Since(n) : m[i].exitdepth = n[i].exitdepth
                          /\ m[i].drops = n[i].drops
  BY <1>5, SinceIs
<1>8. Since(n) # {} => Bottom(m) = Bottom(n)
  BY <1>4, <1>6, <1>7, SameBottom
<1> QED
  BY <1>4, <1>5, <1>6, <1>7, <1>8 DEF m

\* A program begins.
LEMMA PushIs ==
  ASSUME NEW n \in Seq(Tasks), NEW x \in Tasks, x.at = "program"
  PROVE  LET m == Append(n, x) IN
         /\ m \in Seq(Tasks)
         /\ Len(m) = Len(n) + 1
         /\ m[Len(n) + 1] = x /\ \A i \in 1..Len(n) : m[i] = n[i]
         /\ Since(m) = Since(n) \cup {Len(n) + 1}
         /\ Bottom(m) = IF Since(n) = {} THEN x.exitdepth ELSE Bottom(n)
<1> DEFINE l == Len(n)
           m == Append(n, x)
<1>1. /\ l \in Nat /\ m \in Seq(Tasks) /\ Len(m) = l + 1
      /\ m[l + 1] = x /\ \A i \in 1..l : m[i] = n[i]
  OBVIOUS
<1> HIDE DEF m
<1>2. Since(m) = Since(n) \cup {l + 1}
  <2>1. DOMAIN m = 1..l + 1 /\ DOMAIN n = 1..l /\ Len(m) = l + 1
    BY <1>1
  <2>2. ASSUME NEW i \in 1..l
        PROVE  i \in Since(m) <=> i \in Since(n)
    <3>1. \A j \in i..l + 1 : j \in i..l \/ j = l + 1
      BY <1>1
    <3>2. \A j \in i..l : j \in i..l + 1 /\ j \in 1..l
      BY <1>1
    <3>3. m[l + 1].at # "error"
      BY <1>1
    <3>4. (\A j \in i..l + 1 : m[j].at # "error")
            <=> (\A j \in i..l : n[j].at # "error")
      BY <1>1, <3>1, <3>2, <3>3
    <3> QED
      BY <1>1, <2>1, <3>4 DEF Since
  <2>3. l + 1 \in Since(m)
    <3>1. l + 1 \in 1..l + 1 /\ \A j \in l + 1..l + 1 : j = l + 1
      BY <1>1
    <3> QED
      BY <1>1, <2>1, <3>1 DEF Since
  <2>4. Since(m) \subseteq 1..l + 1 /\ Since(n) \subseteq 1..l
    BY <1>1, SinceIs
  <2>5. \A i \in 1..l + 1 : i \in 1..l \/ i = l + 1
    BY <1>1
  <2> QED
    BY <2>2, <2>3, <2>4, <2>5
<1>3. Bottom(m) = IF Since(n) = {} THEN x.exitdepth ELSE Bottom(n)
  <2>1. CASE Since(n) = {}
    <3>1. PICK i \in Since(m) : Bottom(m) = m[i].exitdepth
      BY <1>1, <1>2, BottomIs
    <3> QED
      BY <1>1, <1>2, <2>1, <3>1
  <2>2. CASE Since(n) # {}
    <3>1. \A i \in Since(n) : i \in 1..l /\ i <= l + 1
      BY <1>1, SinceIs
    <3>2. \A i \in Since(n), j \in Since(m) \ Since(n) : i <= j
      BY <1>2, <3>1
    <3>3. \A i \in Since(n) : m[i].exitdepth = n[i].exitdepth
      BY <1>1, <3>1
    <3>4. Bottom(m) = Bottom(n)
      BY <1>1, <1>2, <2>2, <3>2, <3>3, SameBottom
    <3> QED
      BY <2>2, <3>4
  <2> QED
    BY <2>1, <2>2
<1> QED
  BY <1>1, <1>2, <1>3 DEF m

\* An error ends all programs.
WithError(n) == {Append(n, Error), n \o <<Error, Shutdown>>}
LEMMA ErrorIs ==
  ASSUME NEW n \in Seq(Tasks),
         NEW m \in WithError(n)
  PROVE  /\ m \in Seq(Tasks)
         /\ Since(m) = {}
         /\ \A i \in 1..Len(n) : m[i] = n[i]
         /\ Len(m) \in Len(n) + 1..Len(n) + 2
         /\ m[Len(n) + 1].at = "error"
<1> DEFINE l == Len(n)
<1>1. /\ l \in Nat /\ m \in Seq(Tasks) /\ Len(m) \in l + 1..l + 2
      /\ m[l + 1] = Error /\ \A i \in 1..l : m[i] = n[i]
      /\ Len(m) = l + 2 => m[l + 2] = Shutdown
  <2>1. Error \in Tasks /\ Shutdown \in Tasks
    BY DEF Tasks
  <2>2. CASE m = Append(n, Error)
    BY <2>1, <2>2
  <2>3. CASE m = n \o <<Error, Shutdown>>
    <3> DEFINE e == <<Error, Shutdown>>
    <3>1. e \in Seq(Tasks) /\ Len(e) = 2 /\ e[1] = Error /\ e[2] = Shutdown
      BY <2>1
    <3>2. l \in Nat /\ m = n \o e
      BY <2>3
    <3> HIDE DEF e
    <3>3. /\ m \in Seq(Tasks) /\ Len(m) = l + 2
          /\ \A i \in 1..l + 2 : m[i] = IF i <= l THEN n[i] ELSE e[i - l]
      <4>1. /\ n \o e \in Seq(Tasks) /\ Len(n \o e) = Len(n) + Len(e)
            /\ \A i \in 1..Len(n) + Len(e) :
                 (n \o e)[i] = IF i <= Len(n) THEN n[i] ELSE e[i - Len(n)]
        BY <3>1, ConcatProperties
      <4> QED
        BY <3>1, <3>2, <4>1
    <3>4. /\ l + 1 \in 1..l + 2 /\ ~(l + 1 <= l) /\ (l + 1) - l = 1
          /\ l + 2 \in 1..l + 2 /\ ~(l + 2 <= l) /\ (l + 2) - l = 2
          /\ \A i \in 1..l : i \in 1..l + 2 /\ i <= l
          /\ l + 2 \in l + 1..l + 2
      BY <3>2
    <3> QED
      BY <3>1, <3>2, <3>3, <3>4
  <2> QED
    BY <2>2, <2>3 DEF WithError
<1>2. Since(m) = {}
  <2> SUFFICES ASSUME NEW i \in Since(m)
               PROVE  FALSE
    OBVIOUS
  <2>1. /\ i \in 1..Len(m) /\ m[i].at = "program"
        /\ \A j \in i..Len(m) : m[j].at # "error"
    BY <1>1, SinceIs
  <2>2. CASE i = l + 2
    BY <1>1, <2>1, <2>2 DEF Shutdown
  <2>3. CASE i # l + 2
    <3>1. l + 1 \in i..Len(m)
      BY <1>1, <2>1, <2>3
    <3> QED
      BY <1>1, <2>1, <3>1 DEF Error
  <2> QED
    BY <2>2, <2>3
<1> QED
  BY <1>1, <1>2 DEF Error

\* The innermost comes to its end.
LEMMA PopIs ==
  ASSUME NEW n \in Seq(Tasks), n # <<>>, n[Len(n)].at # "error"
  PROVE  LET m == SubSeq(n, 1, Len(n) - 1) IN
         /\ m \in Seq(Tasks)
         /\ Len(m) = Len(n) - 1
         /\ Len(n) \in 1..Len(n)
         /\ \A i \in 1..Len(m) : m[i] = n[i]
         /\ Since(m) = Since(n) \ {Len(n)}
         /\ Since(m) # {} => Bottom(m) = Bottom(n)
         /\ Len(n) \in Since(n) <=> n[Len(n)].at = "program"
<1> DEFINE l == Len(n)
           m == SubSeq(n, 1, l - 1)
<1>1. l \in Nat /\ l \in 1..l
  BY WithoutLast
<1>2. m \in Seq(Tasks) /\ Len(m) = l - 1 /\ \A i \in 1..l - 1 : m[i] = n[i]
  BY WithoutLast
<1> HIDE DEF m
<1>3. Since(m) = Since(n) \ {l}
  <2>1. DOMAIN m = 1..l - 1 /\ DOMAIN n = 1..l /\ Len(m) = l - 1
    BY <1>1, <1>2
  <2>2. ASSUME NEW i \in 1..l - 1
        PROVE  i \in Since(m) <=> i \in Since(n)
    <3>1. i \in 1..l /\ \A j \in i..l : j \in i..l - 1 \/ j = l
      BY <1>1
    <3>2. \A j \in i..l - 1 : j \in i..l /\ j \in 1..l - 1
      BY <1>1
    <3>3. (\A j \in i..l - 1 : m[j].at # "error")
            <=> (\A j \in i..l : n[j].at # "error")
      BY <1>2, <3>1, <3>2
    <3> QED
      BY <1>2, <2>1, <3>1, <3>3 DEF Since
  <2>3. Since(m) \subseteq 1..l - 1 /\ Since(n) \subseteq 1..l
    BY <1>2, SinceIs
  <2>4. \A i \in 1..l : i \in 1..l - 1 <=> i # l
    BY <1>1
  <2>5. \A i \in 1..l - 1 : i \in 1..l
    BY <1>1
  <2> QED
    BY <2>2, <2>3, <2>4, <2>5
<1>4. Since(m) # {} => Bottom(n) = Bottom(m)
  <2> SUFFICES ASSUME Since(m) # {}
               PROVE  Bottom(n) = Bottom(m)
    OBVIOUS
  <2>1. \A i \in Since(m) : i \in 1..l - 1 /\ i <= l
    BY <1>1, <1>2, SinceIs
  <2>2. \A i \in Since(m), j \in Since(n) \ Since(m) : i <= j
    BY <1>3, <2>1
  <2>3. \A i \in Since(m) : n[i].exitdepth = m[i].exitdepth
    BY <1>2, <2>1
  <2> QED
    BY <1>2, <1>3, <2>2, <2>3, SameBottom
<1>5. l \in Since(n) <=> n[l].at = "program"
  <2>1. \A j \in l..l : j = l
    BY <1>1
  <2> QED
    BY <1>1, <2>1, SinceIs
<1> QED
  BY <1>1, <1>2, <1>3, <1>4, <1>5 DEF m

-----------------------------------------------------------------------------
(* Nested.                                                                 *)

\* Where the innermost is no program, no program has begun since the error.
LEMMA NoProgramSince ==
  ASSUME NEW n \in Seq(Tasks), NEW p, NEW k, Nested(n, p, k),
         n = <<>> \/ n[Len(n)].at # "program"
  PROVE  Since(n) = {}
<1> DEFINE l == Len(n)
<1>1. l \in Nat /\ DOMAIN n = 1..l
  OBVIOUS
<1> SUFFICES ASSUME NEW i \in Since(n)
             PROVE  FALSE
  OBVIOUS
<1>2. /\ i \in 1..l /\ n[i].at = "program"
      /\ \A j \in i..l : n[j].at # "error"
  BY SinceIs
<1>3. l \in 1..l /\ l \in i..l /\ n # <<>> /\ n[l] \in Tasks
  BY <1>1, <1>2
<1>4. n[l].at = "shutdown"
  BY <1>2, <1>3, TaskIs
<1>5. l = 1 \/ n[l - 1].at = "error"
  BY <1>1, <1>3, <1>4 DEF Nested
<1>6. i # l
  BY <1>2, <1>4
<1>7. l # 1 /\ l - 1 \in i..l
  <2> HIDE DEF l
  <2> QED
    BY <1>1, <1>2, <1>6
<1> QED
  BY <1>2, <1>5, <1>7

LEMMA CountedKeepsNested ==
  ASSUME NEW n \in Seq(Tasks), n # <<>>, n[Len(n)].at = "program",
         n[Len(n)].runaway > 1, NEW p, NEW k, Nested(n, p, k)
  PROVE  Nested([n EXCEPT ![Len(n)].runaway = @ - 1], p, k)
<1> DEFINE m == [n EXCEPT ![Len(n)].runaway = @ - 1]
<1>1. /\ m \in Seq(Tasks) /\ Len(m) = Len(n)
      /\ \A i \in 1..Len(n) : m[i].at = n[i].at
      /\ Since(m) = Since(n)
      /\ \A i \in Since(n) : m[i].exitdepth = n[i].exitdepth
                             /\ m[i].drops = n[i].drops
  BY CountedIs
<1> HIDE DEF m
<1>2. DOMAIN m = 1..Len(n) /\ DOMAIN n = 1..Len(n) /\ Len(n) \in Nat
  BY <1>1
<1>3. \A i \in 1..Len(n) : i = 1 \/ i - 1 \in 1..Len(n)
  BY <1>2
<1>4. Nested(m, p, k)
  BY <1>1, <1>2, <1>3 DEF Nested
<1> QED
  BY <1>4 DEF m

\* A deeper stack.
LEMMA DeeperKeepsNested ==
  ASSUME NEW n \in Seq(Tasks), NEW p, NEW k, Nested(n, p, k), NEW q,
         Len(p.stack) \in Nat, Len(q.stack) \in Nat,
         Len(p.stack) <= Len(q.stack)
  PROVE  Nested(n, q, k)
<1>1. \A i \in Since(n) : n[i].exitdepth \in Nat
  BY SinceIs
<1>2. \A i \in Since(n) : n[i].exitdepth < Len(q.stack)
  BY <1>1 DEF Nested
<1> QED
  BY <1>2 DEF Nested

LEMMA PushKeepsNested ==
  ASSUME NEW n \in Seq(Tasks), NEW p, NEW k, Nested(n, p, k), NEW q,
         Len(p.stack) \in Nat, Len(q.stack) = Len(p.stack) + 1,
         NEW x \in Tasks, x.at = "program", x.exitdepth = Len(p.stack),
         x.drops => k > 0 /\ Since(n) = {}
  PROVE  Nested(Append(n, x), q, k)
<1> DEFINE l == Len(n)
           m == Append(n, x)
<1>1. /\ m \in Seq(Tasks) /\ Len(m) = l + 1
      /\ m[l + 1] = x /\ \A i \in 1..l : m[i] = n[i]
      /\ Since(m) = Since(n) \cup {l + 1}
  BY PushIs
<1> HIDE DEF m
<1>2. /\ l \in Nat /\ DOMAIN n = 1..l /\ DOMAIN m = 1..l + 1
      /\ Since(n) \subseteq 1..l
      /\ \A i \in Since(n) : n[i].exitdepth \in Nat
  BY <1>1, SinceIs
<1>3. ASSUME NEW i \in DOMAIN m, m[i].at = "shutdown"
      PROVE  i = 1 \/ m[i - 1].at = "error"
  <2>1. i \in 1..l /\ (i # 1 => i - 1 \in 1..l)
    BY <1>1, <1>2, <1>3
  <2> QED
    BY <1>1, <1>2, <1>3, <2>1 DEF Nested
<1>4. ASSUME NEW i \in Since(m)
      PROVE  /\ m[i].exitdepth < Len(q.stack)
             /\ \A j \in Since(m) : i < j => m[i].exitdepth < m[j].exitdepth
             /\ m[i].drops => k > 0 /\ \A j \in Since(m) : i <= j
  <2>1. CASE i = l + 1
    <3>1. \A j \in Since(m) : ~(i < j)
      BY <1>1, <1>2, <2>1
    <3>2. m[i].drops => k > 0 /\ Since(m) = {i}
      BY <1>1, <2>1
    <3> QED
      BY <1>1, <1>2, <2>1, <3>1, <3>2
  <2>2. CASE i \in Since(n)
    <3>1. i \in 1..l /\ i <= l + 1 /\ m[i] = n[i]
      BY <1>1, <1>2, <2>2
    <3>2. n[i].exitdepth < Len(p.stack) /\ n[i].exitdepth \in Nat
      BY <1>2, <2>2 DEF Nested
    <3>3. \A j \in Since(n) : j \in 1..l /\ m[j] = n[j]
      BY <1>1, <1>2
    <3>4. \A j \in Since(m) : j \in Since(n) \/ j = l + 1
      BY <1>1
    <3>5. \A j \in Since(m) : i < j => m[i].exitdepth < m[j].exitdepth
      BY <1>1, <2>2, <3>1, <3>2, <3>3, <3>4 DEF Nested
    <3>6. m[i].drops => k > 0 /\ \A j \in Since(m) : i <= j
      BY <2>2, <3>1, <3>4 DEF Nested
    <3> QED
      BY <3>1, <3>2, <3>5, <3>6
  <2> QED
    BY <1>1, <2>1, <2>2
<1>5. Nested(m, q, k)
  BY <1>3, <1>4 DEF Nested
<1> QED
  BY <1>5 DEF m

LEMMA ErrorKeepsNested ==
  ASSUME NEW n \in Seq(Tasks), NEW p, NEW k, Nested(n, p, k), NEW q,
         NEW m \in WithError(n)
  PROVE  Nested(m, q, k)
<1> DEFINE l == Len(n)
<1>1. /\ m \in Seq(Tasks) /\ Since(m) = {}
      /\ \A i \in 1..l : m[i] = n[i]
      /\ Len(m) \in l + 1..l + 2 /\ m[l + 1].at = "error"
  BY ErrorIs
<1>2. l \in Nat /\ DOMAIN n = 1..l /\ DOMAIN m = 1..Len(m)
  BY <1>1
<1>3. ASSUME NEW i \in DOMAIN m, m[i].at = "shutdown"
      PROVE  i = 1 \/ m[i - 1].at = "error"
  <2>1. i # l + 1 /\ i \in 1..l + 2
    <3>1. Len(m) \in l + 1..l + 2 /\ i \in 1..Len(m)
      BY <1>1, <1>2
    <3> HIDE DEF l
    <3> QED
      BY <1>1, <1>2, <1>3, <3>1
  <2>2. CASE i \in 1..l
    <3>1. i # 1 => i - 1 \in 1..l
      <4> HIDE DEF l
      <4> QED
        BY <1>2, <2>2
    <3> QED
      BY <1>1, <1>2, <1>3, <2>2, <3>1 DEF Nested
  <2>3. CASE i = l + 2
    <3>1. i - 1 = l + 1
      <4> HIDE DEF l
      <4> QED
        BY <1>2, <2>3
    <3> QED
      BY <1>1, <3>1
  <2>4. i \in 1..l \/ i = l + 1 \/ i = l + 2
    <3> HIDE DEF l
    <3> QED
      BY <1>2, <2>1
  <2> QED
    BY <2>1, <2>2, <2>3, <2>4
<1> QED
  BY <1>1, <1>3 DEF Nested

\* A program is done, on the stack it began on, and its player is dropped; or
\* the shutdown is done.
LEMMA PopKeepsNested ==
  ASSUME NEW n \in Seq(Tasks), NEW p, NEW k, Nested(n, p, k), n # <<>>,
         NEW q, NEW k2,
         \/ n[Len(n)].at = "shutdown"
         \/ /\ n[Len(n)].at = "program"
            /\ Len(q.stack) = n[Len(n)].exitdepth
            /\ ~n[Len(n)].drops => k2 = k
  PROVE  Nested(SubSeq(n, 1, Len(n) - 1), q, k2)
<1> DEFINE l == Len(n)
           m == SubSeq(n, 1, l - 1)
<1>1. /\ m \in Seq(Tasks) /\ Len(m) = l - 1 /\ l \in 1..l
      /\ \A i \in 1..Len(m) : m[i] = n[i]
      /\ Since(m) = Since(n) \ {l}
      /\ l \in Since(n) <=> n[l].at = "program"
  BY PopIs
<1> HIDE DEF m
<1>2. /\ l \in Nat /\ DOMAIN n = 1..l /\ DOMAIN m = 1..l - 1
      /\ Since(m) \subseteq 1..l - 1
  BY <1>1, SinceIs
<1>3. ASSUME NEW i \in DOMAIN m, m[i].at = "shutdown"
      PROVE  i = 1 \/ m[i - 1].at = "error"
  <2>1. i \in 1..l /\ i \in 1..l - 1 /\ (i # 1 => i - 1 \in 1..l - 1)
    BY <1>1, <1>2
  <2> QED
    BY <1>1, <1>2, <1>3, <2>1 DEF Nested
<1>4. CASE n[l].at = "shutdown"
  <2>1. Since(n) = {}
    BY <1>4, NoProgramSince
  <2>2. Since(m) = {}
    BY <1>1, <2>1
  <2>3. Nested(m, q, k2)
    BY <1>3, <2>2 DEF Nested
  <2> QED
    BY <2>3 DEF m
<1>5. CASE n[l].at = "program"
  <2>1. l \in Since(n)
    BY <1>1, <1>5
  <2>2. /\ Len(q.stack) = n[l].exitdepth /\ (~n[l].drops => k2 = k)
    BY <1>5
  <2>3. ASSUME NEW i \in Since(m)
        PROVE  /\ m[i].exitdepth < Len(q.stack)
               /\ \A j \in Since(m) : i < j => m[i].exitdepth < m[j].exitdepth
               /\ m[i].drops => k2 > 0 /\ \A j \in Since(m) : i <= j
    <3>1. i \in Since(n) /\ i < l /\ ~(l <= i)
      BY <1>1, <1>2
    <3>2. \A j \in Since(m) : j \in Since(n) /\ m[j] = n[j]
      BY <1>1, <1>2
    <3>3. ~n[l].drops
      BY <2>1, <3>1 DEF Nested
    <3>4. k2 = k
      BY <2>2, <3>3
    <3> QED
      BY <2>1, <2>2, <3>1, <3>2, <3>4 DEF Nested
  <2>4. Nested(m, q, k2)
    BY <1>3, <2>3 DEF Nested
  <2> QED
    BY <2>4 DEF m
<1> QED
  BY <1>4, <1>5

-----------------------------------------------------------------------------
(* Callees.                                                                *)

LEMMA TailOfAppend ==
  ASSUME NEW X, NEW s \in Seq(X), NEW x \in X, NEW a \in 1..Len(s) + 1
  PROVE  SubSeq(Append(s, x), a, Len(s) + 1) = Append(SubSeq(s, a, Len(s)), x)
<1> DEFINE l == Len(s)
           t == Append(s, x)
           u == SubSeq(t, a, l + 1)
           v == SubSeq(s, a, l)
           w == Append(v, x)
<1>1. /\ l \in Nat /\ t[l + 1] = x
      /\ \A i \in 1..l : t[i] = s[i] /\ s[i] \in X
  OBVIOUS
<1>2. a \in 1..l + 1
  OBVIOUS
<1> SUFFICES u = w
  OBVIOUS
<1> HIDE DEF l, t
<1>3. \A i \in a..l + 1 : t[i] \in X
  BY <1>1, <1>2
<1>4. \A i \in a..l : s[i] \in X
  BY <1>1, <1>2
<1>5. /\ u \in Seq(X) /\ Len(u) = IF a <= l + 1 THEN l + 1 - a + 1 ELSE 0
      /\ \A i \in 1..l + 1 - a + 1 : u[i] = t[a + i - 1]
  BY <1>1, <1>2, <1>3, SubSeqProperties
<1>6. /\ v \in Seq(X) /\ Len(v) = IF a <= l THEN l - a + 1 ELSE 0
      /\ \A i \in 1..l - a + 1 : v[i] = s[a + i - 1]
  BY <1>1, <1>2, <1>4, SubSeqProperties
<1> HIDE DEF u, v
<1>7. Len(u) = l - a + 2 /\ Len(v) = l - a + 1
  BY <1>1, <1>2, <1>5, <1>6
<1>8. /\ w \in Seq(X) /\ Len(w) = l - a + 2 /\ w[l - a + 2] = x
      /\ \A i \in 1..l - a + 1 : w[i] = v[i]
  <2>1. /\ w \in Seq(X) /\ Len(w) = Len(v) + 1 /\ w[Len(v) + 1] = x
        /\ \A i \in 1..Len(v) : w[i] = v[i]
    BY <1>6
  <2>2. (l - a + 1) + 1 = l - a + 2
    BY <1>1, <1>2
  <2> HIDE DEF w
  <2> QED
    BY <1>7, <2>1, <2>2
<1> HIDE DEF w
<1>9. ASSUME NEW i \in 1..Len(u)
      PROVE  u[i] = w[i]
  <2>1. u[i] = t[a + i - 1]
    BY <1>1, <1>2, <1>5, <1>7
  <2>2. CASE i = l - a + 2
    <3>1. a + i - 1 = l + 1
      BY <1>1, <1>2, <2>2
    <3> QED
      BY <1>1, <1>8, <2>1, <2>2, <3>1
  <2>3. CASE i # l - a + 2
    <3>1. i \in 1..l - a + 1 /\ a + i - 1 \in 1..l
      BY <1>1, <1>2, <1>7, <2>3
    <3> QED
      BY <1>1, <1>6, <1>8, <2>1, <3>1
  <2> QED
    BY <2>2, <2>3
<1> QED
  BY <1>5, <1>7, <1>8, <1>9, SeqEqual

\* From p to q a function has been entered, or from q to p it was left: there
\* is one more that is called.
LEMMA CalleesGrow ==
  ASSUME NEW p \in Machine, NEW q \in Machine, NEW n, NEW m,
         q.stack = Append(p.stack, p.xfunction),
         Since(m) # {},
         Since(n) = {} => Bottom(m) = Len(p.stack),
         Since(n) # {} => /\ Bottom(m) = Bottom(n)
                          /\ Bottom(n) \in Nat /\ Bottom(n) < Len(p.stack)
  PROVE  Callees(q, m) = Append(Callees(p, n), q.xfunction)
<1> DEFINE X == Func \cup {NoFunc}
           s == p.stack
           l == Len(s)
           x == p.xfunction
<1>1. s \in Seq(X) /\ x \in X /\ l \in Nat
  BY DEF Machine
<1>2. q.stack = Append(s, x) /\ Len(q.stack) = l + 1
  BY <1>1
<1> HIDE DEF X, s, x
<1>3. Callees(q, m)
        = Append(SubSeq(Append(s, x), Bottom(m) + 2, l + 1), q.xfunction)
  BY <1>2 DEF Callees
<1>4. CASE Since(n) = {}
  <2>1. Bottom(m) = l
    BY <1>4 DEF s
  <2>2. l + 2 \in Int /\ l + 1 \in Int /\ l + 1 < l + 2
    BY <1>1
  <2>3. SubSeq(Append(s, x), l + 2, l + 1) = <<>>
    BY <2>2, SubSeqEmpty
  <2>4. Callees(p, n) = <<>>
    BY <1>4 DEF Callees
  <2> QED
    BY <1>3, <2>1, <2>3, <2>4
<1>5. CASE Since(n) # {}
  <2> DEFINE b == Bottom(n)
  <2>1. Bottom(m) = b /\ b \in Nat /\ b < l
    BY <1>5 DEF s
  <2>2. Callees(p, n) = Append(SubSeq(s, b + 2, l), x)
    BY <1>5 DEF Callees, s, x
  <2> HIDE DEF b
  <2>3. b + 2 \in 1..l + 1
    BY <1>1, <2>1
  <2>4. SubSeq(Append(s, x), b + 2, l + 1) = Append(SubSeq(s, b + 2, l), x)
    BY <1>1, <2>3, TailOfAppend
  <2> QED
    BY <1>3, <2>1, <2>2, <2>4
<1> QED
  BY <1>4, <1>5

\* The bottom is below the top.
LEMMA BottomIsBelow ==
  ASSUME NEW n \in Seq(Tasks), NEW p, NEW k, Nested(n, p, k),
         NEW j \in Since(n), Len(p.stack) \in Nat
  PROVE  /\ Bottom(n) \in Nat /\ Bottom(n) <= n[j].exitdepth
         /\ n[j].exitdepth \in Nat
         /\ n[j].exitdepth < Len(p.stack)
         /\ Bottom(n) < Len(p.stack)
<1>1. PICK i \in Since(n) : /\ \A h \in Since(n) : i <= h
                            /\ Bottom(n) = n[i].exitdepth
  BY BottomIs
<1>2. i \in Nat /\ j \in Nat /\ n[i].exitdepth \in Nat /\ n[j].exitdepth \in Nat
  BY SinceIs
<1>3. n[j].exitdepth < Len(p.stack)
  BY DEF Nested
<1>4. n[i].exitdepth <= n[j].exitdepth
  <2>1. CASE i = j
    BY <1>2, <2>1
  <2>2. CASE i < j
    <3>1. n[i].exitdepth < n[j].exitdepth
      BY <2>2 DEF Nested
    <3> QED
      BY <1>2, <3>1
  <2> QED
    BY <1>1, <1>2, <2>1, <2>2
<1> QED
  BY <1>1, <1>2, <1>3, <1>4

-----------------------------------------------------------------------------
(* What the activations are promised.                                      *)

Activation(p, cs, k) ==
  [f |-> cs[k], own |-> [a \in Locals(cs[k]) |-> CellBefore(p, cs, k + 1, a)]]

Innermost(p, f) == [f |-> f, own |-> [a \in Locals(f) |-> p.globals[a]]]

LEMMA ActiveOfIs ==
  ASSUME NEW p, NEW cs \in Seq(Func)
  PROVE  ActiveOf(p, cs) = [k \in 1..Len(cs) |-> Activation(p, cs, k)]
BY DEF ActiveOf, Activation

\* The activation of f that q has and p has not is the innermost of q, and
\* the others are the same.
ShowsOneMore(p, cs, q, f) ==
  LET ds == Append(cs, f) IN
  /\ ActiveOf(q, ds) = Append(ActiveOf(p, cs), Innermost(q, f))
  /\ ActiveOf(p, cs) = SubSeq(ActiveOf(q, ds), 1, Len(cs))
  /\ Len(ActiveOf(q, ds)) = Len(cs) + 1
  /\ BaseOf(q, ds) = BaseOf(p, cs)

LEMMA ActiveGrows ==
  ASSUME NEW p, NEW cs, NEW b, NEW q, NEW f \in Func, NEW c,
         EntersFrom(p, cs, b, q, f, c)
  PROVE  ShowsOneMore(p, cs, q, f)
<1> DEFINE n == Len(cs)
           ds == Append(cs, f)
           last == Innermost(q, f)
           A == ActiveOf(q, ds)
           B == ActiveOf(p, cs)
           X == {A[k] : k \in 1..n + 1}
<1>1. Fits(p, cs, b) /\ Fits(q, ds, c)
  BY DEF EntersFrom
<1>2. /\ n \in Nat /\ cs \in Seq(Func) /\ ds \in Seq(Func)
      /\ Len(ds) = n + 1 /\ ds[n + 1] = f
      /\ \A k \in 1..n : ds[k] = cs[k] /\ cs[k] \in Func
  <2>1. cs \in Seq(Func)
    BY <1>1 DEF Fits
  <2> QED
    BY <2>1
<1>3. ASSUME NEW k \in 1..n + 1, NEW a \in GlobalCell
      PROVE  CellBefore(q, ds, k, a) = CellBefore(p, cs, k, a)
  BY CellsOfOthers
<1> SUFFICES /\ A = Append(B, last) /\ B = SubSeq(A, 1, n) /\ Len(A) = n + 1
             /\ BaseOf(q, ds) = BaseOf(p, cs)
  BY DEF ShowsOneMore
<1> HIDE DEF n, ds
<1>4. \A a : CellBefore(q, ds, n + 2, a) = q.globals[a]
  <2>1. Len(ds) + 1 = n + 2
    BY <1>2
  <2>2. \A a : CellBefore(q, ds, Len(ds) + 1, a) = q.globals[a]
    BY <1>1, LastCells
  <2> QED
    BY <2>1, <2>2
<1>5. /\ A = [k \in 1..n + 1 |-> Activation(q, ds, k)]
      /\ B = [k \in 1..n |-> Activation(p, cs, k)]
  BY <1>2, ActiveOfIs DEF n
<1>6. ASSUME NEW k \in 1..n
      PROVE  Activation(q, ds, k) = Activation(p, cs, k)
  <2>1. ds[k] = cs[k] /\ cs[k] \in Func /\ k + 1 \in 1..n + 1
    BY <1>2
  <2>2. Locals(cs[k]) \subseteq GlobalCell
    BY <2>1, FunctionsAre
  <2>3. \A a \in Locals(cs[k]) :
          CellBefore(q, ds, k + 1, a) = CellBefore(p, cs, k + 1, a)
    BY <1>3, <2>1, <2>2
  <2> QED
    BY <2>1, <2>3 DEF Activation
<1>7. Activation(q, ds, n + 1) = last
  <2>1. (n + 1) + 1 = n + 2
    BY <1>2
  <2> QED
    BY <1>2, <1>4, <2>1 DEF Activation, Innermost
<1> HIDE DEF A, B, last
<1>8. /\ A \in [1..n + 1 -> X] /\ B \in [1..n -> X] /\ last \in X
      /\ A[n + 1] = last /\ \A k \in 1..n : B[k] = A[k]
  <2>1. n + 1 \in 1..n + 1 /\ \A k \in 1..n : k \in 1..n + 1
    BY <1>2
  <2> QED
    BY <1>5, <1>6, <1>7, <2>1
<1> HIDE DEF X
<1>9. A \in Seq(X) /\ Len(A) = n + 1 /\ B \in Seq(X) /\ Len(B) = n
  <2>1. n + 1 \in Nat
    BY <1>2
  <2> QED
    BY <1>2, <1>8, <2>1, SequenceOf
<1>10. A = Append(B, last)
  <2> DEFINE C == Append(B, last)
  <2>1. /\ C \in Seq(X) /\ Len(C) = n + 1 /\ C[n + 1] = last
        /\ \A k \in 1..n : C[k] = B[k]
    BY <1>8, <1>9
  <2>2. \A k \in 1..n + 1 : k \in 1..n \/ k = n + 1
    BY <1>2
  <2> HIDE DEF C
  <2>3. \A k \in 1..n + 1 : A[k] = C[k]
    BY <1>8, <2>1, <2>2
  <2> QED
    BY <1>9, <2>1, <2>3, SeqEqual DEF C
<1>11. B = SubSeq(A, 1, n)
  <2> DEFINE C == SubSeq(A, 1, n)
  <2>1. /\ C \in Seq(X) /\ Len(C) = n
        /\ \A k \in 1..n : C[k] = A[k]
    BY <1>2, <1>9
  <2> HIDE DEF C
  <2> QED
    BY <1>8, <1>9, <2>1, SeqEqual DEF C
<1>12. BaseOf(q, ds) = BaseOf(p, cs)
  <2>1. 1 \in 1..n + 1
    BY <1>2
  <2> QED
    BY <1>3, <2>1 DEF BaseOf
<1> QED
  BY <1>9, <1>10, <1>11, <1>12

\* A function is entered, and finds in its locals what is in pr_globals.
LEMMA EnterShows ==
  ASSUME NEW p \in Machine, NEW cs, NEW b, Fits(p, cs, b), NEW f \in Func,
         NEW given \in [Parms(f) -> GlobalValue]
  PROVE  LET q == PR_EnterFunction(p, f, given) IN
         /\ \E c : Fits(q, Append(cs, f), c)
         /\ ShowsOneMore(p, cs, q, f)
         /\ \A a \in Locals(f) :
              /\ a \in GlobalCell
              /\ q.globals[a] = IF a \in Parms(f) THEN given[a] ELSE p.globals[a]
<1> DEFINE q == PR_EnterFunction(p, f, given)
<1>1. PICK c : EntersFrom(p, cs, b, q, f, c)
  BY EnterEntersFrom
<1>2. \A a \in GlobalCell :
        q.globals[a] = IF a \in Parms(f) THEN given[a] ELSE p.globals[a]
  BY EnterIs
<1> HIDE DEF q
<1>3. Fits(q, Append(cs, f), c)
  BY <1>1 DEF EntersFrom
<1>4. ShowsOneMore(p, cs, q, f)
  BY <1>1, ActiveGrows
<1>5. Locals(f) \subseteq GlobalCell
  BY FunctionsAre
<1> QED
  BY <1>2, <1>3, <1>4, <1>5 DEF q

\* A function is left, and the others find what they had.
LEMMA LeaveShows ==
  ASSUME NEW p \in Machine, p.xfunction \in Func, ~StackUnderflows(p),
         NEW cs \in Seq(Func), NEW c, Fits(p, Append(cs, p.xfunction), c)
  PROVE  LET q == PR_LeaveFunction(p) IN
         /\ \E b : Fits(q, cs, b)
         /\ ShowsOneMore(q, cs, p, p.xfunction)
<1> DEFINE q == PR_LeaveFunction(p)
<1>1. PICK b : EntersFrom(q, cs, b, p, p.xfunction, c)
  BY LeaveEntersFrom
<1> HIDE DEF q
<1>2. Fits(q, cs, b)
  BY <1>1 DEF EntersFrom
<1>3. ShowsOneMore(q, cs, p, p.xfunction)
  BY <1>1, ActiveGrows
<1> QED
  BY <1>2, <1>3 DEF q

LEMMA EnterIsCall ==
  ASSUME NEW b, Fits(pr, Callees(pr, nest), b), pr \in Machine,
         NEW f \in Func, NEW given \in [Parms(f) -> GlobalValue],
         pr' = PR_EnterFunction(pr, f, given),
         Callees(pr, nest)' = Append(Callees(pr, nest), f)
  PROVE  /\ (\E c : Fits(pr, Callees(pr, nest), c))'
         /\ Promised!Call(f)
<1> DEFINE cs == Callees(pr, nest)
           q == PR_EnterFunction(pr, f, given)
<1>1. /\ \E c : Fits(q, Append(cs, f), c)
      /\ ShowsOneMore(pr, cs, q, f)
      /\ \A a \in Locals(f) :
           /\ a \in GlobalCell
           /\ q.globals[a] = IF a \in Parms(f) THEN given[a] ELSE pr.globals[a]
  BY EnterShows
<1>2. \A a \in GlobalCell : Promised!Seen(a) = pr.globals[a]
  BY SeenIs
<1>3. /\ ActiveOf(pr, cs)' = Append(ActiveOf(pr, cs), Innermost(q, f))
      /\ BaseOf(pr, cs)' = BaseOf(pr, cs)
  BY <1>1 DEF ShowsOneMore
<1> HIDE DEF q
<1>4. Innermost(q, f)
        = [f |-> f, own |-> [a \in Locals(f) |-> IF a \in Parms(f) THEN given[a]
                                                ELSE Promised!Seen(a)]]
  BY <1>1, <1>2 DEF Innermost
<1>5. Promised!Call(f)
  BY <1>3, <1>4 DEF Promised!Call
<1>6. (\E c : Fits(pr, Callees(pr, nest), c))'
  BY <1>1 DEF q
<1> QED
  BY <1>5, <1>6

LEMMA LeaveIsReturn ==
  ASSUME NEW c, Fits(pr, Callees(pr, nest), c), pr \in Machine,
         pr.xfunction \in Func, ~StackUnderflows(pr),
         pr' = PR_LeaveFunction(pr),
         NEW cs \in Seq(Func), cs = Callees(pr, nest)',
         Callees(pr, nest) = Append(cs, pr.xfunction)
  PROVE  /\ (\E b : Fits(pr, Callees(pr, nest), b))'
         /\ Promised!Return
<1> DEFINE ds == Callees(pr, nest)
           q == PR_LeaveFunction(pr)
           A == ActiveOf(pr, ds)
<1>1. /\ \E b : Fits(q, cs, b)
      /\ ShowsOneMore(q, cs, pr, pr.xfunction)
  BY LeaveShows
<1>2. /\ Len(A) = Len(cs) + 1
      /\ A' = SubSeq(A, 1, Len(cs))
      /\ BaseOf(pr, ds)' = BaseOf(pr, ds)
  BY <1>1 DEF ShowsOneMore
<1>3. A # <<>> /\ Len(A) - 1 = Len(cs)
  <2>1. Len(cs) \in Nat
    OBVIOUS
  <2> HIDE DEF A
  <2>2. Len(A) # 0
    BY <1>2, <2>1
  <2> QED
    BY <1>2, <2>1, <2>2
<1>4. Promised!Return
  BY <1>2, <1>3 DEF Promised!Return
<1>5. (\E b : Fits(pr, Callees(pr, nest), b))'
  BY <1>1
<1> QED
  BY <1>4, <1>5

\* From p to q the innermost activation has assigned v to its local a.
ShowsAssigned(p, cs, q, a, v) ==
  /\ ActiveOf(q, cs) = [ActiveOf(p, cs) EXCEPT ![Len(cs)].own[a] = v]
  /\ BaseOf(q, cs) = BaseOf(p, cs)

LEMMA StoreShows ==
  ASSUME NEW p \in Machine, NEW cs, NEW b, Fits(p, cs, b), cs # <<>>,
         NEW a \in Locals(cs[Len(cs)]), NEW v \in GlobalValue,
         NEW q, q = [p EXCEPT !.globals[a] = v]
  PROVE  /\ q \in Machine
         /\ Fits(q, cs, b)
         /\ ShowsAssigned(p, cs, q, a, v)
<1> DEFINE n == Len(cs)
           A == ActiveOf(p, cs)
           B == [A EXCEPT ![n].own[a] = v]
<1>1. /\ n \in Nat /\ cs \in Seq(Func)
      /\ \A k \in 1..n : cs[k] \in Func
  BY FitsGrows DEF Fits
<1>2. n \in 1..n /\ n # 0
  <2>1. n # 0
    BY <1>1
  <2> HIDE DEF n
  <2> QED
    BY <1>1, <2>1
<1>3. /\ p.globals \in [GlobalCell -> GlobalValue]
      /\ \A k \in 1..n : Locals(cs[k]) \subseteq GlobalCell
      /\ a \in Locals(cs[n]) /\ a \in GlobalCell
  BY <1>1, <1>2, FunctionsAre DEF Machine
<1>4. /\ q.globals = [p.globals EXCEPT ![a] = v]
      /\ q.stack = p.stack /\ q.localstack = p.localstack
      /\ q.xfunction = p.xfunction
  BY DEF Machine
<1>5. q \in Machine
  BY <1>3 DEF Machine
<1> SUFFICES /\ q \in Machine /\ Fits(q, cs, b)
             /\ BaseOf(q, cs) = BaseOf(p, cs)
             /\ ActiveOf(q, cs) = B
  BY DEF ShowsAssigned
<1>6. Fits(q, cs, b)
  BY <1>4 DEF Fits
<1>7. \A x \in GlobalCell : q.globals[x] = IF x = a THEN v ELSE p.globals[x]
  BY <1>3, <1>4
<1>8. ASSUME NEW k \in 1..n, NEW x \in GlobalCell
      PROVE  CellBefore(q, cs, k, x) = CellBefore(p, cs, k, x)
  <2> DEFINE later == {j \in k..n : x \in Locals(cs[j])}
             Given(r) ==
               LET j == CHOOSE i \in later : \A h \in later : i <= h IN
               r.localstack[SavedAt(r, cs, j)
                              + x - pr_functions[cs[j]].parm_start + 1]
  <2>1. \A r : CellBefore(r, cs, k, x) = IF later = {} THEN r.globals[x]
                                         ELSE Given(r)
    BY DEF CellBefore
  <2>2. Given(q) = Given(p)
    <3>1. \A j : SavedAt(q, cs, j) = SavedAt(p, cs, j)
      BY <1>4 DEF SavedAt
    <3> QED
      BY <1>4, <3>1
  <2>3. later = {} => x # a
    <3>1. n \in k..n
      <4> HIDE DEF n
      <4> QED
        BY <1>1, <1>2
    <3> QED
      BY <1>3, <3>1
  <2> HIDE DEF later, Given
  <2> QED
    BY <1>7, <2>1, <2>2, <2>3
<1>9. BaseOf(q, cs) = BaseOf(p, cs)
  <2>1. 1 \in 1..n
    BY <1>1, <1>2
  <2> QED
    BY <1>8, <2>1 DEF BaseOf
<1>10. /\ ActiveOf(q, cs) = [k \in 1..n |-> Activation(q, cs, k)]
       /\ A = [k \in 1..n |-> Activation(p, cs, k)]
  BY <1>1, ActiveOfIs
<1>11. \A x : /\ CellBefore(q, cs, n + 1, x) = q.globals[x]
              /\ CellBefore(p, cs, n + 1, x) = p.globals[x]
  BY <1>6, LastCells
<1>12. Activation(q, cs, n) = [Activation(p, cs, n) EXCEPT !.own[a] = v]
  <2>1. Activation(p, cs, n)
          = [f |-> cs[n], own |-> [x \in Locals(cs[n]) |-> p.globals[x]]]
    BY <1>11 DEF Activation
  <2>2. Activation(q, cs, n)
          = [f |-> cs[n], own |-> [x \in Locals(cs[n]) |-> q.globals[x]]]
    BY <1>11 DEF Activation
  <2>3. [x \in Locals(cs[n]) |-> q.globals[x]]
          = [[x \in Locals(cs[n]) |-> p.globals[x]] EXCEPT ![a] = v]
    <3>1. \A x \in Locals(cs[n]) :
            q.globals[x] = IF x = a THEN v ELSE p.globals[x]
      BY <1>2, <1>3, <1>7
    <3> QED
      BY <3>1
  <2> QED
    BY <2>1, <2>2, <2>3
<1>13. ASSUME NEW k \in 1..n, k # n
       PROVE  Activation(q, cs, k) = Activation(p, cs, k)
  <2>1. k + 1 \in 1..n /\ Locals(cs[k]) \subseteq GlobalCell
    <3> HIDE DEF n
    <3> QED
      BY <1>1, <1>3, <1>13
  <2>2. \A x \in Locals(cs[k]) :
          CellBefore(q, cs, k + 1, x) = CellBefore(p, cs, k + 1, x)
    BY <1>8, <2>1
  <2> QED
    BY <2>2 DEF Activation
<1>14. ActiveOf(q, cs) = B
  <2>1. A[n] = Activation(p, cs, n)
    BY <1>2, <1>10
  <2>2. [A[n] EXCEPT !.own[a] = v] = Activation(q, cs, n)
    BY <1>12, <2>1
  <2> HIDE DEF A, n
  <2>3. B = [k \in 1..n |-> IF k = n THEN [A[n] EXCEPT !.own[a] = v] ELSE A[k]]
    BY <1>2, <1>10, Zenon
  <2>4. \A k \in 1..n : A[k] = Activation(p, cs, k)
    BY <1>10
  <2> DEFINE last == [A[n] EXCEPT !.own[a] = v]
             C == [k \in 1..n |-> IF k = n THEN last ELSE A[k]]
             D == [k \in 1..n |-> Activation(q, cs, k)]
  <2>5. \A k \in 1..n : Activation(q, cs, k) = IF k = n THEN last ELSE A[k]
    <3> HIDE DEF last
    <3> QED
      BY <1>13, <2>2, <2>4 DEF last
  <2> HIDE DEF last
  <2>6. C = D
    BY <2>5
  <2> QED
    BY <1>10, <2>3, <2>6, Zenon DEF last
<1> QED
  BY <1>5, <1>6, <1>9, <1>14

\* Where no program runs, what is in pr_globals is there to stay.
LEMMA NoneActive ==
  ASSUME NEW p \in Machine
  PROVE  /\ Fits(p, <<>>, [k \in 1..1 |-> Len(p.localstack)])
         /\ ActiveOf(p, <<>>) = <<>>
         /\ BaseOf(p, <<>>) = p.globals
<1> DEFINE b == [k \in 1..1 |-> Len(p.localstack)]
<1>1. /\ p.globals \in [GlobalCell -> GlobalValue]
      /\ Len(p.localstack) \in Nat
  BY DEF Machine
<1>2. <<>> \in Seq(Func) /\ Len(<<>>) = 0
  OBVIOUS
<1>3. Fits(p, <<>>, b)
  <2>1. b \in [1..0 + 1 -> Nat] /\ b[0 + 1] = Len(p.localstack)
    BY <1>1
  <2> HIDE DEF b
  <2>2. 1..0 = {}
    OBVIOUS
  <2> QED
    BY <1>2, <2>1, <2>2 DEF Fits
<1> HIDE DEF b
<1>4. \A a : CellBefore(p, <<>>, 1, a) = p.globals[a]
  <2>1. Len(<<>>) + 1 = 1
    BY <1>2
  <2>2. \A a : CellBefore(p, <<>>, Len(<<>>) + 1, a) = p.globals[a]
    BY <1>3, LastCells
  <2> QED
    BY <2>1, <2>2
<1>5. BaseOf(p, <<>>) = p.globals
  BY <1>1, <1>4 DEF BaseOf
<1>6. ActiveOf(p, <<>>) = <<>>
  <2>1. /\ \E X : ActiveOf(p, <<>>) \in Seq(X)
        /\ Len(ActiveOf(p, <<>>)) = Len(<<>>)
    BY <1>2, ActiveIs
  <2> HIDE DEF ActiveOf
  <2> QED
    BY <1>2, <2>1
<1> QED
  BY <1>3, <1>5, <1>6 DEF b

\* An error ends all activations, if there are any.
LEMMA ErrorIsAbort ==
  ASSUME NEW b, Fits(pr, Callees(pr, nest), b), pr \in Machine, pr' \in Machine,
         pr'.globals = pr.globals, Callees(pr, nest)' = <<>>
  PROVE  /\ (\E c : Fits(pr, Callees(pr, nest), c))'
         /\ Promised!Abort \/ UNCHANGED Promised!vars
<1> DEFINE cs == Callees(pr, nest)
<1>1. /\ \E c : Fits(pr', <<>>, c)
      /\ ActiveOf(pr', <<>>) = <<>>
      /\ BaseOf(pr', <<>>) = pr.globals
  BY NoneActive
<1>2. /\ ActiveOf(pr, cs)' = <<>>
      /\ BaseOf(pr, cs)' = pr.globals
  BY <1>1
<1>3. \A a \in GlobalCell : Promised!Seen(a) = pr.globals[a]
  BY SeenIs
<1>4. pr.globals = [a \in GlobalCell |-> Promised!Seen(a)]
  <2>1. pr.globals \in [GlobalCell -> GlobalValue]
    BY DEF Machine
  <2> QED
    BY <1>3, <2>1
<1>5. (\E c : Fits(pr, Callees(pr, nest), c))'
  BY <1>1
<1>6. CASE ActiveOf(pr, cs) # <<>>
  <2>1. Promised!Abort
    BY <1>2, <1>4, <1>6 DEF Promised!Abort
  <2> QED
    BY <1>5, <2>1
<1>7. CASE ActiveOf(pr, cs) = <<>>
  <2>1. cs = <<>>
    <3>1. cs \in Seq(Func) /\ Len(ActiveOf(pr, cs)) = Len(cs)
      BY ActiveIs DEF Fits
    <3> HIDE DEF cs
    <3>2. Len(cs) = 0
      BY <1>7, <3>1
    <3> QED
      BY <3>1, <3>2
  <2>2. BaseOf(pr, cs) = pr.globals
    BY <2>1, NoneActive
  <2>3. UNCHANGED Promised!vars
    BY <1>2, <1>7, <2>2 DEF Promised!vars
  <2> QED
    BY <1>5, <2>3
<1> QED
  BY <1>6, <1>7

-----------------------------------------------------------------------------
(* The steps.                                                              *)

Servers == [state : {"none", "loading", "active", "shutdown"},
            players : 0..MaxPlayers, inerror : BOOLEAN]

\* A step keeps the invariant, and the promise.
Keeps == ProgsInv' /\ [Promised!Next]_Promised!vars

\* The next state, without the activations.
NextIsSound ==
  /\ ProgsTypeOK'
  /\ Nested(nest, pr, server.players)'

\* What the invariant says of a state in which a program runs.
LEMMA Running ==
  ASSUME ProgsInv, At("program")
  PROVE  /\ nest \in Seq(Tasks) /\ nest # <<>> /\ Len(nest) \in Nat
         /\ Task = nest[Len(nest)] /\ Task.at = "program"
         /\ Task.exitdepth \in Nat
         /\ Len(nest) \in Since(nest)
         /\ pr \in Machine /\ Len(pr.stack) \in Nat
         /\ Bottom(nest) \in Nat /\ Bottom(nest) < Len(pr.stack)
         /\ Bottom(nest) <= Task.exitdepth
         /\ Task.exitdepth < Len(pr.stack)
         /\ pr.xfunction \in Func
<1> DEFINE l == Len(nest)
<1>1. nest \in Seq(Tasks) /\ pr \in Machine /\ nest # <<>>
      /\ Task = nest[l] /\ Task.at = "program"
  BY DEF ProgsInv, ProgsTypeOK, At, Task
<1>2. l \in 1..l /\ l \in Nat
  <2>1. l \in Nat /\ l # 0
    BY <1>1
  <2> HIDE DEF l
  <2> QED
    BY <2>1
<1>3. Len(pr.stack) \in Nat
  BY <1>1 DEF Machine
<1>4. l \in Since(nest)
  <2>1. nest[l].at # "error" /\ \A j \in l..l : j = l
    BY <1>1, <1>2
  <2> QED
    BY <1>1, <1>2, <2>1, SinceIs
<1>5. /\ Bottom(nest) \in Nat /\ Bottom(nest) <= nest[l].exitdepth
      /\ nest[l].exitdepth \in Nat /\ nest[l].exitdepth < Len(pr.stack)
      /\ Bottom(nest) < Len(pr.stack)
  <2>1. Nested(nest, pr, server.players)
    BY DEF ProgsInv
  <2> QED
    BY <1>1, <1>3, <1>4, <2>1, BottomIsBelow
<1>6. pr.xfunction \in Func
  <2> DEFINE s == SubSeq(pr.stack, Bottom(nest) + 2, Len(pr.stack))
             X == Func \cup {NoFunc}
  <2>1. Callees(pr, nest) = Append(s, pr.xfunction)
    BY <1>4 DEF Callees
  <2>2. Append(s, pr.xfunction) \in Seq(Func)
    BY <2>1 DEF ProgsInv, Fits
  <2>3. s \in Seq(X) /\ pr.xfunction \in X
    <3>1. pr.stack \in Seq(X) /\ pr.xfunction \in X
      BY <1>1 DEF Machine
    <3>2. Bottom(nest) + 2 \in 1..Len(pr.stack) + 1
      BY <1>3, <1>5
    <3> HIDE DEF X
    <3>3. \A i \in Bottom(nest) + 2..Len(pr.stack) : pr.stack[i] \in X
      BY <1>3, <3>1, <3>2
    <3>4. s \in Seq(X)
      BY <1>3, <1>5, <3>2, <3>3, SubSeqProperties
    <3> QED
      BY <3>1, <3>4
  <2> HIDE DEF s, X
  <2> DEFINE t == Append(s, pr.xfunction)
  <2>4. Len(t) = Len(s) + 1 /\ t[Len(s) + 1] = pr.xfunction /\ Len(s) \in Nat
    BY <2>3
  <2> HIDE DEF t
  <2>5. Len(s) + 1 \in 1..Len(t)
    BY <2>4
  <2>6. t[Len(s) + 1] \in Func
    BY <2>2, <2>5 DEF t
  <2> QED
    BY <2>4, <2>6
<1> QED
  BY <1>1, <1>2, <1>3, <1>4, <1>5, <1>6

\* A function is entered.
LEMMA Entering ==
  ASSUME ProgsInv, NextIsSound,
         NEW f \in Func, NEW given \in [Parms(f) -> GlobalValue],
         pr' = PR_EnterFunction(pr, f, given),
         Since(nest') # {},
         Since(nest) = {} => Bottom(nest') = Len(pr.stack),
         Since(nest) # {} => Bottom(nest') = Bottom(nest)
  PROVE  Keeps
<1>1. PICK b : Fits(pr, Callees(pr, nest), b)
  BY DEF ProgsInv
<1>2. pr \in Machine /\ nest \in Seq(Tasks) /\ pr' \in Machine
  BY DEF ProgsInv, NextIsSound, ProgsTypeOK
<1>3. pr'.stack = Append(pr.stack, pr.xfunction) /\ pr'.xfunction = f
  BY DEF PR_EnterFunction
<1>4. Since(nest) # {} => Bottom(nest) \in Nat /\ Bottom(nest) < Len(pr.stack)
  <2>1. Nested(nest, pr, server.players) /\ Len(pr.stack) \in Nat
    BY <1>2 DEF ProgsInv, Machine
  <2> QED
    BY <1>2, <2>1, BottomIsBelow
<1>5. Callees(pr', nest') = Append(Callees(pr, nest), pr'.xfunction)
  BY <1>2, <1>3, <1>4, CalleesGrow
<1>6. /\ (\E c : Fits(pr, Callees(pr, nest), c))'
      /\ Promised!Call(f)
  BY <1>1, <1>2, <1>3, <1>5, EnterIsCall
<1> QED
  BY <1>6 DEF Keeps, NextIsSound, ProgsInv, Promised!Next

\* An error.
LEMMA Failing ==
  ASSUME ProgsInv, NextIsSound, Since(nest') = {},
         pr'.globals = pr.globals
  PROVE  Keeps
<1>1. PICK b : Fits(pr, Callees(pr, nest), b)
  BY DEF ProgsInv
<1>2. pr \in Machine /\ pr' \in Machine
  BY DEF ProgsInv, NextIsSound, ProgsTypeOK
<1>3. Callees(pr, nest)' = <<>>
  BY DEF Callees
<1>4. /\ (\E c : Fits(pr, Callees(pr, nest), c))'
      /\ Promised!Abort \/ UNCHANGED Promised!vars
  BY <1>1, <1>2, <1>3, ErrorIsAbort
<1> QED
  BY <1>4 DEF Keeps, NextIsSound, ProgsInv, Promised!Next

\* Nothing of the machine changes, and no program begins or ends.
LEMMA Waiting ==
  ASSUME ProgsInv, NextIsSound, pr' = pr,
         Callees(pr, nest)' = Callees(pr, nest)
  PROVE  Keeps
<1>1. UNCHANGED Promised!vars
  BY DEF Promised!vars
<1>2. (\E c : Fits(pr, Callees(pr, nest), c))'
  BY DEF ProgsInv
<1> QED
  BY <1>1, <1>2 DEF Keeps, NextIsSound, ProgsInv

LEMMA Host_ErrorKeeps ==
  ASSUME ProgsInv, NEW p \in Machine, p.globals = pr.globals,
         Len(p.stack) < MAX_STACK_DEPTH, Len(p.localstack) <= LOCALSTACK_SIZE,
         Host_Error(p)
  PROVE  Keeps
<1>1. ProgsTypeOK /\ Nested(nest, pr, server.players)
  BY DEF ProgsInv
<1>2. CASE server.inerror
  <2>1. halted' = "recursively entered" /\ UNCHANGED <<pr, nest, server>>
    BY <1>2 DEF Host_Error
  <2>2. NextIsSound
    BY <1>1, <2>1 DEF NextIsSound, ProgsTypeOK
  <2> QED
    BY <2>1, <2>2, Waiting
<1>3. CASE ~server.inerror
  <2>1. /\ pr' = p /\ halted' = halted
        /\ server' = [server EXCEPT !.inerror = TRUE,
                        !.state = IF @ = "active" THEN "shutdown" ELSE @]
        /\ nest' \in WithError(nest)
    BY <1>3 DEF Host_Error, WithError
  <2>2. server' \in Servers /\ server'.players = server.players
    BY <1>1, <2>1 DEF ProgsTypeOK, Servers
  <2>3. nest' \in Seq(Tasks) /\ Since(nest') = {}
    BY <1>1, <2>1, ErrorIs DEF ProgsTypeOK
  <2>4. Nested(nest', p, server'.players)
    BY <1>1, <2>1, <2>2, ErrorKeepsNested DEF ProgsTypeOK
  <2>5. NextIsSound
    BY <1>1, <2>1, <2>2, <2>3, <2>4 DEF NextIsSound, ProgsTypeOK, Servers
  <2> QED
    BY <2>1, <2>3, <2>5, Failing
<1> QED
  BY <1>2, <1>3

LEMMA PR_RunErrorKeeps ==
  ASSUME ProgsInv, PR_RunError(pr)
  PROVE  Keeps
<1> DEFINE p == [pr EXCEPT !.stack = <<>>]
<1>1. /\ pr \in Machine /\ Len(pr.localstack) <= LOCALSTACK_SIZE
  BY DEF ProgsInv, ProgsTypeOK
<1>2. Len(<<>>) < MAX_STACK_DEPTH
  <2>1. MAX_STACK_DEPTH \in Nat \ {0}
    BY ProgsAssumption
  <2> QED
    BY <2>1
<1>3. /\ p \in Machine /\ p.globals = pr.globals
      /\ p.stack = <<>> /\ p.localstack = pr.localstack
  <2>1. <<>> \in Seq(Func \cup {NoFunc})
    OBVIOUS
  <2> QED
    BY <1>1, <2>1 DEF Machine
<1>4. Host_Error(p)
  BY DEF PR_RunError
<1> HIDE DEF p
<1> QED
  BY <1>1, <1>2, <1>3, <1>4, Host_ErrorKeeps

\* PR_EnterFunction: there is room for what it takes.
LEMMA EnterTypeOK ==
  ASSUME NEW p \in Machine, NEW f \in Func, ~StackOverflows(p, f),
         NEW given \in [Parms(f) -> GlobalValue]
  PROVE  LET q == PR_EnterFunction(p, f, given) IN
         /\ q \in Machine
         /\ Len(q.stack) < MAX_STACK_DEPTH
         /\ Len(q.localstack) <= LOCALSTACK_SIZE
         /\ Len(q.stack) = Len(p.stack) + 1
         /\ Len(p.stack) \in 0..MAX_STACK_DEPTH - 1
<1> DEFINE q == PR_EnterFunction(p, f, given)
<1>1. /\ q \in Machine
      /\ Len(q.stack) = Len(p.stack) + 1
      /\ Len(q.localstack) = Len(p.localstack) + LocalsOf(f)
  BY EnterIs
<1> HIDE DEF q
<1>2. /\ Len(p.stack) \in Nat /\ Len(p.localstack) \in Nat
      /\ LocalsOf(f) \in Nat /\ pr_functions[f].locals = LocalsOf(f)
  BY FunctionsAre DEF Machine
<1>3. /\ ~(Len(p.stack) + 1 >= MAX_STACK_DEPTH)
      /\ ~(Len(p.localstack) + LocalsOf(f) > LOCALSTACK_SIZE)
  BY <1>2 DEF StackOverflows
<1>4. MAX_STACK_DEPTH \in Nat /\ LOCALSTACK_SIZE \in Nat
  BY ProgsAssumption
<1> QED
  BY <1>1, <1>2, <1>3, <1>4 DEF q

\* A program begins, at the place outside.
LEMMA PR_ExecuteProgramKeeps ==
  ASSUME ProgsInv, NEW f \in Func, NEW drops \in BOOLEAN, NEW outside,
         outside \in Seq(Tasks), Nested(outside, pr, server.players),
         Since(outside) = Since(nest),
         Since(nest) # {} => Bottom(outside) = Bottom(nest),
         drops => server.players > 0 /\ Since(nest) = {},
         PR_ExecuteProgram(f, drops, outside)
  PROVE  Keeps
<1>1. CASE StackOverflows(pr, f)
  BY <1>1, PR_RunErrorKeeps DEF PR_ExecuteProgram
<1>2. CASE ~StackOverflows(pr, f)
  <2> DEFINE x == Program(Len(pr.stack), drops)
  <2>1. PICK given \in [Parms(f) -> GlobalValue] :
          pr' = PR_EnterFunction(pr, f, given)
    BY <1>2 DEF PR_ExecuteProgram
  <2>2. nest' = Append(outside, x) /\ UNCHANGED <<server, halted>>
    BY <1>2 DEF PR_ExecuteProgram
  <2>3. pr \in Machine
    BY DEF ProgsInv, ProgsTypeOK
  <2>4. /\ pr' \in Machine
        /\ Len(pr'.stack) < MAX_STACK_DEPTH
        /\ Len(pr'.localstack) <= LOCALSTACK_SIZE
        /\ Len(pr'.stack) = Len(pr.stack) + 1
        /\ Len(pr.stack) \in 0..MAX_STACK_DEPTH - 1
    BY <1>2, <2>1, <2>3, EnterTypeOK
  <2>5. /\ x \in Tasks /\ x.at = "program" /\ x.exitdepth = Len(pr.stack)
        /\ x.drops = drops
    BY <2>4, ProgramIs
  <2>6. Len(pr.stack) \in Nat
    BY <2>3 DEF Machine
  <2> HIDE DEF x
  <2>7. /\ nest' \in Seq(Tasks)
        /\ Since(nest') = Since(nest) \cup {Len(outside) + 1}
        /\ Bottom(nest') = IF Since(nest) = {} THEN Len(pr.stack)
                           ELSE Bottom(nest)
    BY <2>2, <2>5, PushIs
  <2>8. Nested(nest', pr', server.players)
    BY <2>2, <2>4, <2>5, <2>6, PushKeepsNested
  <2>9. NextIsSound
    BY <2>2, <2>4, <2>7, <2>8 DEF NextIsSound, ProgsInv, ProgsTypeOK
  <2> QED
    BY <2>1, <2>7, <2>9, Entering
<1> QED
  BY <1>1, <1>2

\* A statement is counted.
LEMMA Counting ==
  ASSUME ProgsInv, Runs
  PROVE  /\ Counted \in Seq(Tasks)
         /\ Since(Counted) = Since(nest) /\ Since(nest) # {}
         /\ Bottom(Counted) = Bottom(nest)
         /\ \A p, k : Nested(nest, p, k) => Nested(Counted, p, k)
<1>1. /\ nest \in Seq(Tasks) /\ nest # <<>> /\ nest[Len(nest)].at = "program"
      /\ nest[Len(nest)].runaway > 1 /\ Since(nest) # {}
  BY Running DEF Runs, Task
<1>2. /\ Counted \in Seq(Tasks) /\ Since(Counted) = Since(nest)
      /\ Bottom(Counted) = Bottom(nest)
  BY <1>1, CountedIs DEF Counted
<1>3. \A p, k : Nested(nest, p, k) => Nested(Counted, p, k)
  BY <1>1, CountedKeepsNested DEF Counted
<1> QED
  BY <1>1, <1>2, <1>3

LEMMA OP_CALLKeeps ==
  ASSUME ProgsInv, NEW f \in Func, OP_CALL(f)
  PROVE  Keeps
<1>1. Runs
  BY DEF OP_CALL, MayGoOn
<1>2. CASE StackOverflows(pr, f)
  BY <1>2, PR_RunErrorKeeps DEF OP_CALL
<1>3. CASE ~StackOverflows(pr, f)
  <2>1. PICK given \in [Parms(f) -> GlobalValue] :
          pr' = PR_EnterFunction(pr, f, given)
    BY <1>3 DEF OP_CALL
  <2>2. nest' = Counted /\ UNCHANGED <<server, halted>>
    BY <1>3 DEF OP_CALL
  <2>3. pr \in Machine /\ Len(pr.stack) \in Nat
    <3>1. pr \in Machine
      BY DEF ProgsInv, ProgsTypeOK
    <3> QED
      BY <3>1 DEF Machine
  <2>4. /\ pr' \in Machine
        /\ Len(pr'.stack) < MAX_STACK_DEPTH
        /\ Len(pr'.localstack) <= LOCALSTACK_SIZE
        /\ Len(pr'.stack) = Len(pr.stack) + 1
    BY <1>3, <2>1, <2>3, EnterTypeOK
  <2>5. /\ Counted \in Seq(Tasks)
        /\ Since(Counted) = Since(nest) /\ Since(nest) # {}
        /\ Bottom(Counted) = Bottom(nest)
        /\ Nested(Counted, pr, server.players)
    BY <1>1, Counting DEF ProgsInv
  <2>6. Nested(Counted, pr', server.players)
    <3>1. Len(pr'.stack) \in Nat /\ Len(pr.stack) <= Len(pr'.stack)
      BY <2>3, <2>4
    <3> QED
      BY <2>3, <2>5, <3>1, DeeperKeepsNested
  <2>7. NextIsSound
    BY <2>2, <2>4, <2>5, <2>6 DEF NextIsSound, ProgsInv, ProgsTypeOK
  <2> QED
    BY <2>1, <2>2, <2>5, <2>7, Entering
<1> QED
  BY <1>2, <1>3

LEMMA PF_walkmoveKeeps ==
  ASSUME ProgsInv, NEW f \in Func, PF_walkmove(f)
  PROVE  Keeps
<1>1. Runs /\ PR_ExecuteProgram(f, FALSE, Counted)
  BY DEF PF_walkmove, MayGoOn
<1>2. /\ Counted \in Seq(Tasks)
      /\ Since(Counted) = Since(nest) /\ Since(nest) # {}
      /\ Bottom(Counted) = Bottom(nest)
      /\ Nested(Counted, pr, server.players)
  BY <1>1, Counting DEF ProgsInv
<1> QED
  BY <1>1, <1>2, PR_ExecuteProgramKeeps

LEMMA RunProgramKeeps ==
  ASSUME ProgsInv, NEW f \in EntryPoints, RunProgram(f)
  PROVE  Keeps
<1>1. f \in Func /\ PR_ExecuteProgram(f, FALSE, nest)
  BY ProgsAssumption DEF RunProgram
<1>2. nest \in Seq(Tasks) /\ Nested(nest, pr, server.players)
  BY DEF ProgsInv, ProgsTypeOK
<1> QED
  BY <1>1, <1>2, PR_ExecuteProgramKeeps

\* Outside programs no program has begun since the last error.
LEMMA NoProgram ==
  ASSUME ProgsInv, nest = <<>> \/ At("shutdown")
  PROVE  Since(nest) = {}
<1>1. nest \in Seq(Tasks) /\ Nested(nest, pr, server.players)
  BY DEF ProgsInv, ProgsTypeOK
<1>2. nest = <<>> \/ nest[Len(nest)].at # "program"
  BY DEF At, Task
<1> QED
  BY <1>1, <1>2, NoProgramSince

LEMMA SV_DropClientKeeps ==
  ASSUME ProgsInv, SV_DropClient
  PROVE  Keeps
<1>1. /\ ClientDisconnect \in Func /\ server.players > 0
      /\ PR_ExecuteProgram(ClientDisconnect, TRUE, nest)
  BY ProgsAssumption DEF SV_DropClient
<1>2. Since(nest) = {}
  BY NoProgram DEF SV_DropClient, Idle
<1>3. nest \in Seq(Tasks) /\ Nested(nest, pr, server.players)
  BY DEF ProgsInv, ProgsTypeOK
<1> QED
  BY <1>1, <1>2, <1>3, PR_ExecuteProgramKeeps

LEMMA FrontOfAppend ==
  ASSUME NEW X, NEW Y, NEW s \in Seq(X), NEW x \in X, Append(s, x) \in Seq(Y)
  PROVE  s \in Seq(Y) /\ x \in Y
<1> DEFINE l == Len(s)
           t == Append(s, x)
<1>1. /\ l \in Nat /\ Len(t) = l + 1 /\ t[l + 1] = x
      /\ s \in [1..l -> X] /\ \A i \in 1..l : t[i] = s[i]
  OBVIOUS
<1>2. t \in Seq(Y)
  OBVIOUS
<1> HIDE DEF t, l
<1>3. \A i \in 1..l + 1 : t[i] \in Y
  BY <1>1, <1>2
<1>4. l + 1 \in 1..l + 1 /\ \A i \in 1..l : i \in 1..l + 1
  BY <1>1
<1>5. s \in [1..l -> Y]
  BY <1>1, <1>3, <1>4
<1>6. s \in Seq(Y)
  BY <1>1, <1>5, SequenceOf
<1> QED
  BY <1>1, <1>3, <1>4, <1>6

LEMMA CalleesAre ==
  ASSUME NEW p \in Machine, NEW n,
         Since(n) # {} => Bottom(n) \in Nat /\ Bottom(n) < Len(p.stack)
  PROVE  Callees(p, n) \in Seq(Func \cup {NoFunc})
<1> DEFINE X == Func \cup {NoFunc}
           s == SubSeq(p.stack, Bottom(n) + 2, Len(p.stack))
<1>1. p.stack \in Seq(X) /\ p.xfunction \in X /\ Len(p.stack) \in Nat
  BY DEF Machine
<1> HIDE DEF X
<1>2. CASE Since(n) = {}
  <2>1. <<>> \in Seq(X)
    OBVIOUS
  <2> QED
    BY <1>2, <2>1 DEF Callees, X
<1>3. CASE Since(n) # {}
  <2>1. Bottom(n) + 2 \in 1..Len(p.stack) + 1
    BY <1>1, <1>3
  <2>2. \A i \in Bottom(n) + 2..Len(p.stack) : p.stack[i] \in X
    BY <1>1, <2>1
  <2>3. s \in Seq(X)
    BY <1>1, <1>3, <2>1, <2>2, SubSeqProperties
  <2>4. Callees(p, n) = Append(s, p.xfunction)
    BY <1>3 DEF Callees
  <2> HIDE DEF s
  <2>5. Append(s, p.xfunction) \in Seq(X)
    BY <1>1, <2>3
  <2> QED
    BY <2>4, <2>5 DEF X
<1> QED
  BY <1>2, <1>3

\* The innermost of the activations is that of the running function, and its
\* locals are in localstack.
LEMMA LastCallee ==
  ASSUME ProgsInv, At("program"), NEW b, Fits(pr, Callees(pr, nest), b)
  PROVE  LET cs == Callees(pr, nest) IN
         /\ cs # <<>> /\ cs[Len(cs)] = pr.xfunction
         /\ Len(pr.localstack) >= LocalsOf(pr.xfunction)
<1> DEFINE cs == Callees(pr, nest)
           s == SubSeq(pr.stack, Bottom(nest) + 2, Len(pr.stack))
           n == Len(cs)
<1>1. /\ Since(nest) # {} /\ Len(pr.stack) \in Nat /\ pr.xfunction \in Func
      /\ Bottom(nest) \in Nat /\ Bottom(nest) < Len(pr.stack)
      /\ pr.stack \in Seq(Func \cup {NoFunc})
  BY Running DEF Machine
<1>2. cs = Append(s, pr.xfunction)
  BY <1>1 DEF Callees
<1>3. s \in Seq(Func \cup {NoFunc})
  <2> DEFINE X == Func \cup {NoFunc}
  <2>1. pr.stack \in Seq(X)
    BY <1>1
  <2> HIDE DEF X
  <2>2. Bottom(nest) + 2 \in 1..Len(pr.stack) + 1
    BY <1>1
  <2>3. \A i \in Bottom(nest) + 2..Len(pr.stack) : pr.stack[i] \in X
    BY <1>1, <2>1, <2>2
  <2>4. s \in Seq(X)
    BY <1>1, <2>2, <2>3, SubSeqProperties
  <2> QED
    BY <2>4 DEF X
<1> HIDE DEF cs, s
<1>4. n = Len(s) + 1 /\ Len(s) \in Nat /\ cs[n] = pr.xfunction
  BY <1>1, <1>2, <1>3
<1>5. cs # <<>>
  BY <1>4
<1> HIDE DEF n
<1>6. n \in Nat /\ n \in 1..n /\ n \in 1..n + 1 /\ n + 1 \in 1..n + 1
  BY <1>4
<1>7. /\ b[n + 1] = b[n] + LocalsOf(cs[n])
      /\ b[n + 1] = Len(pr.localstack)
      /\ b[n] \in Nat /\ LocalsOf(cs[n]) \in Nat
  <2>1. Fits(pr, cs, b)
    BY DEF cs
  <2> QED
    BY <1>6, <2>1, FitsGrows DEF Fits, n
<1> SUFFICES /\ cs # <<>> /\ cs[n] = pr.xfunction
             /\ Len(pr.localstack) >= LocalsOf(pr.xfunction)
  BY DEF cs, n
<1> QED
  BY <1>4, <1>5, <1>7

\* PR_LeaveFunction never underflows.
LEMMA NeverUnderflows ==
  ASSUME ProgsInv, At("program")
  PROVE  ~StackUnderflows(pr)
<1>1. PICK b : Fits(pr, Callees(pr, nest), b)
  BY DEF ProgsInv
<1>2. /\ Task.exitdepth \in Nat /\ Task.exitdepth < Len(pr.stack)
      /\ pr.xfunction \in Func /\ Len(pr.stack) \in Nat
      /\ pr \in Machine
  BY Running
<1>3. pr.stack # <<>>
  <2>1. Len(pr.stack) # 0
    BY <1>2
  <2> QED
    BY <2>1
<1>4. Len(pr.localstack) >= LocalsOf(pr.xfunction)
  BY <1>1, LastCallee
<1>5. ~(Len(pr.localstack) < LocalsOf(pr.xfunction))
  <2>1. Len(pr.localstack) \in Nat
    BY <1>2 DEF Machine
  <2>2. LocalsOf(pr.xfunction) \in Nat
    BY <1>2, FunctionsAre
  <2> QED
    BY <1>4, <2>1, <2>2
<1> QED
  BY <1>3, <1>5 DEF StackUnderflows, LocalsOf

LEMMA OP_STOREKeeps ==
  ASSUME ProgsInv, OP_STORE
  PROVE  Keeps
<1> DEFINE cs == Callees(pr, nest)
<1>1. Runs /\ At("program")
  BY DEF OP_STORE, MayGoOn, Runs
<1>2. PICK a \in Locals(pr.xfunction), v \in GlobalValue :
        pr' = [pr EXCEPT !.globals[a] = v]
  BY DEF OP_STORE
<1>3. nest' = Counted /\ UNCHANGED <<server, halted>>
  BY DEF OP_STORE
<1>4. PICK b : Fits(pr, cs, b)
  BY DEF ProgsInv
<1>5. cs # <<>> /\ cs[Len(cs)] = pr.xfunction
  BY <1>1, <1>4, LastCallee
<1>6. pr \in Machine
  BY DEF ProgsInv, ProgsTypeOK
<1>7. /\ pr' \in Machine
      /\ Fits(pr', cs, b)
      /\ ShowsAssigned(pr, cs, pr', a, v)
  <2> HIDE DEF cs
  <2>1. a \in Locals(cs[Len(cs)])
    BY <1>5
  <2> QED
    BY <1>2, <1>4, <1>5, <1>6, <2>1, StoreShows
<1>8. /\ pr'.stack = pr.stack /\ pr'.localstack = pr.localstack
      /\ pr'.xfunction = pr.xfunction
  BY <1>2, <1>6 DEF Machine
<1>9. /\ Counted \in Seq(Tasks)
      /\ Since(Counted) = Since(nest)
      /\ Bottom(Counted) = Bottom(nest)
      /\ Nested(Counted, pr, server.players)
  BY <1>1, Counting DEF ProgsInv
<1>10. cs' = cs
  BY <1>3, <1>8, <1>9 DEF Callees
<1>11. NextIsSound
  <2>1. Nested(Counted, pr', server.players)
    BY <1>8, <1>9 DEF Nested
  <2> QED
    BY <1>3, <1>7, <1>8, <1>9, <2>1 DEF NextIsSound, ProgsInv, ProgsTypeOK
<1>12. Promised!Assign
  <2> DEFINE A == ActiveOf(pr, cs)
  <2>1. cs \in Seq(Func)
    BY <1>4 DEF Fits
  <2>2. /\ Len(A) = Len(cs) /\ Len(cs) \in 1..Len(cs)
        /\ A[Len(cs)].f = pr.xfunction
    <3> HIDE DEF cs, A
    <3>1. Len(cs) \in 1..Len(cs)
      <4>1. Len(cs) # 0 /\ Len(cs) \in Nat
        BY <1>5, <2>1
      <4> QED
        BY <4>1
    <3> QED
      BY <1>5, <2>1, <3>1, ActiveIs DEF A
  <2>3. A # <<>>
    <3>1. Len(A) # 0
      BY <2>2
    <3> HIDE DEF A
    <3> QED
      BY <3>1
  <2>4. ActiveOf(pr, cs)' = [A EXCEPT ![Len(A)].own[a] = v]
    BY <1>7, <1>10, <2>2 DEF ShowsAssigned
  <2>5. BaseOf(pr, cs)' = BaseOf(pr, cs)
    BY <1>7, <1>10 DEF ShowsAssigned
  <2>6. a \in Locals(A[Len(A)].f)
    BY <2>2
  <2> QED
    BY <2>3, <2>4, <2>5, <2>6 DEF Promised!Assign
<1>13. (\E c : Fits(pr, Callees(pr, nest), c))'
  BY <1>7, <1>10
<1> QED
  BY <1>11, <1>12, <1>13 DEF Keeps, NextIsSound, ProgsInv, Promised!Next

\* A shallower stack, still deeper than the innermost program began on.
LEMMA ShallowerKeepsNested ==
  ASSUME NEW n \in Seq(Tasks), NEW p, NEW k, Nested(n, p, k),
         Len(n) \in Since(n), NEW q, Len(q.stack) \in Nat,
         n[Len(n)].exitdepth < Len(q.stack)
  PROVE  Nested(n, q, k)
<1>1. /\ Len(n) \in Nat /\ Since(n) \subseteq 1..Len(n)
      /\ \A i \in Since(n) : n[i].exitdepth \in Nat
  BY SinceIs
<1>2. \A i \in Since(n) : n[i].exitdepth < Len(q.stack)
  <2> SUFFICES ASSUME NEW i \in Since(n)
               PROVE  n[i].exitdepth < Len(q.stack)
    OBVIOUS
  <2>1. i = Len(n) \/ i < Len(n)
    BY <1>1
  <2>2. i < Len(n) => n[i].exitdepth < n[Len(n)].exitdepth
    BY DEF Nested
  <2> QED
    BY <1>1, <2>1, <2>2
<1> QED
  BY <1>2 DEF Nested

\* A function is left.
LEMMA Leaving ==
  ASSUME ProgsInv, At("program"), NextIsSound,
         pr' = PR_LeaveFunction(pr),
         Since(nest') = {} => Bottom(nest) = Len(pr'.stack),
         Since(nest') # {} => Bottom(nest) = Bottom(nest')
  PROVE  Keeps
<1>1. PICK c : Fits(pr, Callees(pr, nest), c)
  BY DEF ProgsInv
<1>2. /\ pr \in Machine /\ pr' \in Machine /\ nest' \in Seq(Tasks)
      /\ Since(nest) # {} /\ pr.xfunction \in Func
      /\ Nested(nest', pr', server'.players)
  BY Running DEF NextIsSound, ProgsTypeOK
<1>3. ~StackUnderflows(pr)
  BY NeverUnderflows
<1>4. pr.stack = Append(pr'.stack, pr'.xfunction)
  <2> DEFINE l == Len(pr.stack)
             s == SubSeq(pr.stack, 1, l - 1)
             t == Append(s, pr.stack[l])
             X == Func \cup {NoFunc}
  <2>1. /\ pr'.stack = s /\ pr'.xfunction = pr.stack[l]
        /\ l \in Nat /\ l > 0
    BY <1>2, <1>3, LeaveIs
  <2>2. pr.stack \in Seq(X)
    BY <1>2 DEF Machine
  <2> HIDE DEF X
  <2>3. /\ s \in Seq(X) /\ Len(s) = l - 1
        /\ \A i \in 1..l - 1 : s[i] = pr.stack[i]
        /\ pr.stack[l] \in X
    BY <2>1, <2>2
  <2> HIDE DEF s, l
  <2>4. /\ t \in Seq(X) /\ Len(t) = l /\ t[l] = pr.stack[l]
        /\ \A i \in 1..l - 1 : t[i] = s[i]
    BY <2>1, <2>3
  <2> HIDE DEF t
  <2>5. \A i \in 1..l : t[i] = pr.stack[i]
    <3>1. \A i \in 1..l : i = l \/ i \in 1..l - 1
      BY <2>1
    <3> QED
      BY <2>3, <2>4, <3>1
  <2>6. t = pr.stack
    BY <2>2, <2>4, <2>5, SeqEqual DEF l
  <2> QED
    BY <2>1, <2>6 DEF t
<1>5. Since(nest') # {} => /\ Bottom(nest') \in Nat
                           /\ Bottom(nest') < Len(pr'.stack)
  <2>1. Len(pr'.stack) \in Nat
    BY <1>2 DEF Machine
  <2> QED
    BY <1>2, <2>1, BottomIsBelow
<1> DEFINE cs == Callees(pr', nest')
<1>6. Callees(pr, nest) = Append(cs, pr.xfunction)
  <2> HIDE DEF cs
  <2> QED
    BY <1>2, <1>4, <1>5, CalleesGrow DEF cs
<1>7. cs \in Seq(Func \cup {NoFunc})
  BY <1>2, <1>5, CalleesAre
<1>8. cs \in Seq(Func)
  <2>1. Append(cs, pr.xfunction) \in Seq(Func)
    BY <1>1, <1>6 DEF Fits
  <2>2. pr.xfunction \in Func \cup {NoFunc}
    BY <1>2
  <2> HIDE DEF cs
  <2> QED
    BY <1>7, <2>1, <2>2, FrontOfAppend
<1>9. cs = Callees(pr, nest)'
  OBVIOUS
<1> HIDE DEF cs
<1>10. /\ (\E b : Fits(pr, Callees(pr, nest), b))'
       /\ Promised!Return
  BY <1>1, <1>2, <1>3, <1>6, <1>8, <1>9, LeaveIsReturn
<1> QED
  BY <1>10 DEF Keeps, NextIsSound, ProgsInv, Promised!Next

LEMMA OP_RETURNKeeps ==
  ASSUME ProgsInv, OP_RETURN
  PROVE  Keeps
<1> DEFINE l == Len(nest)
<1>1. Runs /\ At("program")
  BY DEF OP_RETURN, Runs
<1>2. ~StackUnderflows(pr)
  BY <1>1, NeverUnderflows
<1>3. /\ pr' = PR_LeaveFunction(pr)
      /\ IF Len(pr'.stack) = Task.exitdepth
         THEN /\ nest' = Outside
              /\ server' = IF Task.drops
                           THEN [server EXCEPT !.players = @ - 1]
                           ELSE server
         ELSE nest' = Counted /\ UNCHANGED server
      /\ UNCHANGED halted
  BY <1>2 DEF OP_RETURN
<1>4. /\ nest \in Seq(Tasks) /\ nest # <<>> /\ l \in Nat
      /\ Task = nest[l] /\ nest[l].at = "program"
      /\ nest[l].exitdepth \in Nat
      /\ l \in Since(nest)
      /\ pr \in Machine /\ Len(pr.stack) \in Nat
      /\ Bottom(nest) \in Nat /\ Bottom(nest) < Len(pr.stack)
      /\ nest[l].exitdepth < Len(pr.stack)
      /\ pr.xfunction \in Func
  BY <1>1, Running
<1>5. /\ pr' \in Machine
      /\ Len(pr'.stack) = Len(pr.stack) - 1
      /\ Len(pr'.localstack) = Len(pr.localstack) - LocalsOf(pr.xfunction)
      /\ Len(pr.localstack) \in Nat
      /\ LocalsOf(pr.xfunction) \in Nat
  BY <1>2, <1>3, <1>4, LeaveIs, FunctionsAre
<1>6. /\ Len(pr.stack) < MAX_STACK_DEPTH
      /\ Len(pr.localstack) <= LOCALSTACK_SIZE
      /\ server \in Servers
      /\ halted \in {"no", "underflow", "recursively entered"}
      /\ Nested(nest, pr, server.players)
  BY DEF ProgsInv, ProgsTypeOK, Servers
<1>7. /\ Len(pr'.stack) < MAX_STACK_DEPTH
      /\ Len(pr'.localstack) <= LOCALSTACK_SIZE
      /\ Len(pr'.stack) \in Nat
  <2>1. MAX_STACK_DEPTH \in Nat /\ LOCALSTACK_SIZE \in Nat
    BY ProgsAssumption
  <2> DEFINE d == Len(pr.stack)
             d2 == Len(pr'.stack)
             w == Len(pr.localstack)
             w2 == Len(pr'.localstack)
             s == LocalsOf(pr.xfunction)
             e == nest[l].exitdepth
  <2>2. /\ d \in Nat /\ d2 = d - 1 /\ w \in Nat /\ s \in Nat /\ w2 = w - s
        /\ e \in Nat /\ e < d /\ d < MAX_STACK_DEPTH /\ w <= LOCALSTACK_SIZE
    BY <1>4, <1>5, <1>6
  <2> SUFFICES d2 < MAX_STACK_DEPTH /\ w2 <= LOCALSTACK_SIZE /\ d2 \in Nat
    OBVIOUS
  <2> HIDE DEF d, d2, w, w2, s, e
  <2> QED
    BY <2>1, <2>2
<1> HIDE DEF l
<1>8. CASE Len(pr'.stack) = nest[l].exitdepth
  <2>1. nest' = Outside
    BY <1>3, <1>4, <1>8
  <2>2. /\ server' \in Servers
        /\ ~nest[l].drops => server'.players = server.players
    <3>1. CASE ~nest[l].drops
      <4>1. server' = server
        BY <1>3, <1>4, <1>8, <3>1
      <4> QED
        BY <1>6, <4>1
    <3>2. CASE nest[l].drops
      <4>1. server' = [server EXCEPT !.players = @ - 1]
        BY <1>3, <1>4, <1>8, <3>2
      <4>2. server.players > 0
        BY <1>4, <1>6, <3>2 DEF Nested
      <4>3. server.players - 1 \in 0..MaxPlayers
        <5>1. MaxPlayers \in Nat /\ server.players \in 0..MaxPlayers
          BY <1>6, ProgsAssumption DEF Servers
        <5> QED
          BY <4>2, <5>1
      <4> QED
        BY <1>6, <3>2, <4>1, <4>3 DEF Servers
    <3> QED
      BY <3>1, <3>2
  <2>3. /\ nest' \in Seq(Tasks)
        /\ Since(nest') = Since(nest) \ {l}
        /\ Since(nest') # {} => Bottom(nest') = Bottom(nest)
    BY <1>4, <2>1, PopIs DEF Outside, l
  <2>4. Nested(nest', pr', server'.players)
    BY <1>4, <1>6, <1>8, <2>1, <2>2, PopKeepsNested DEF Outside, l
  <2>5. Since(nest') = {} => Bottom(nest) = Len(pr'.stack)
    <3> SUFFICES ASSUME Since(nest') = {}
                 PROVE  Bottom(nest) = Len(pr'.stack)
      OBVIOUS
    <3>1. PICK i \in Since(nest) : Bottom(nest) = nest[i].exitdepth
      BY <1>4, BottomIs
    <3>2. i = l
      BY <2>3, <3>1
    <3> QED
      BY <1>8, <3>1, <3>2
  <2>6. NextIsSound
    BY <1>3, <1>5, <1>6, <1>7, <2>2, <2>3, <2>4
       DEF NextIsSound, ProgsTypeOK, Servers
  <2> QED
    BY <1>1, <1>3, <2>3, <2>5, <2>6, Leaving
<1>9. CASE Len(pr'.stack) # nest[l].exitdepth
  <2>1. nest' = Counted /\ UNCHANGED server
    BY <1>3, <1>4, <1>9
  <2>2. /\ Counted \in Seq(Tasks)
        /\ Since(Counted) = Since(nest) /\ Since(nest) # {}
        /\ Bottom(Counted) = Bottom(nest)
    BY <1>1, Counting
  <2>3. nest[l].exitdepth < Len(pr'.stack)
    BY <1>4, <1>5, <1>9
  <2>4. Nested(Counted, pr', server.players)
    <3>1. Nested(nest, pr', server.players)
      BY <1>4, <1>6, <1>7, <2>3, ShallowerKeepsNested DEF l
    <3> QED
      BY <1>1, <3>1, Counting
  <2>5. NextIsSound
    BY <1>3, <1>5, <1>6, <1>7, <2>1, <2>2, <2>4
       DEF NextIsSound, ProgsTypeOK, Servers
  <2> QED
    BY <1>1, <1>3, <2>1, <2>2, <2>5, Leaving
<1> QED
  BY <1>8, <1>9

\* What the host does where no program runs, or none has begun since the error.
LEMMA HostKeeps ==
  ASSUME ProgsInv, pr' = pr, nest' \in Seq(Tasks), server' \in Servers,
         halted' = halted, Since(nest) = {}, Since(nest') = {},
         Nested(nest', pr, server'.players)
  PROVE  Keeps
<1>1. NextIsSound
  BY DEF NextIsSound, ProgsInv, ProgsTypeOK, Servers
<1>2. Callees(pr, nest)' = Callees(pr, nest)
  BY DEF Callees
<1> QED
  BY <1>1, <1>2, Waiting

\* No task.
LEMMA NothingIsNested ==
  ASSUME NEW p, NEW k
  PROVE  <<>> \in Seq(Tasks) /\ Since(<<>>) = {} /\ Nested(<<>>, p, k)
<1>1. <<>> \in Seq(Tasks) /\ DOMAIN <<>> = {}
  OBVIOUS
<1>2. Since(<<>>) = {}
  BY <1>1 DEF Since
<1> QED
  BY <1>1, <1>2 DEF Nested

LEMMA ServerIs ==
  ASSUME ProgsInv
  PROVE  /\ server \in Servers /\ server.players \in Nat
         /\ server.players <= MaxPlayers /\ MaxPlayers \in Nat
<1>1. server \in Servers
  BY DEF ProgsInv, ProgsTypeOK, Servers
<1>2. MaxPlayers \in Nat
  BY ProgsAssumption
<1> QED
  BY <1>1, <1>2 DEF Servers

LEMMA Host_Spawn_PlayerKeeps ==
  ASSUME ProgsInv, Host_Spawn_Player
  PROVE  Keeps
<1>1. /\ nest = <<>> /\ server.players < MaxPlayers
      /\ server' = [server EXCEPT !.players = @ + 1]
      /\ UNCHANGED <<pr, nest, halted>>
  BY DEF Host_Spawn_Player, Idle
<1>2. server' \in Servers
  BY <1>1, ServerIs DEF Servers
<1> QED
  BY <1>1, <1>2, HostKeeps, NothingIsNested

LEMMA Host_ShutdownServerKeeps ==
  ASSUME ProgsInv, Host_ShutdownServer
  PROVE  Keeps
<1>1. /\ nest = <<>> /\ nest' = <<Shutdown>>
      /\ server' = [server EXCEPT !.state = "shutdown"]
      /\ UNCHANGED <<pr, halted>>
  BY DEF Host_ShutdownServer, Idle
<1>2. server' \in Servers
  BY <1>1, ServerIs DEF Servers
<1>3. /\ nest' \in Seq(Tasks) /\ Len(nest') = 1 /\ nest'[1] = Shutdown
      /\ DOMAIN nest' = {1}
  BY <1>1 DEF Tasks
<1>4. Since(nest') = {}
  <2>1. Shutdown.at # "program"
    BY DEF Shutdown
  <2> QED
    BY <1>3, <2>1 DEF Since
<1>5. Nested(nest', pr, server'.players)
  BY <1>3, <1>4 DEF Nested
<1> QED
  BY <1>1, <1>2, <1>3, <1>4, <1>5, HostKeeps, NothingIsNested

LEMMA ShutdownEndsKeeps ==
  ASSUME ProgsInv, ShutdownEnds
  PROVE  Keeps
<1>1. /\ At("shutdown") /\ nest' = Outside
      /\ server' = [server EXCEPT !.state = "none"]
      /\ UNCHANGED <<pr, halted>>
  BY DEF ShutdownEnds
<1>2. server' \in Servers
  BY <1>1, ServerIs DEF Servers
<1>3. /\ nest \in Seq(Tasks) /\ nest # <<>> /\ nest[Len(nest)].at = "shutdown"
      /\ Nested(nest, pr, server.players)
  BY <1>1 DEF At, Task, ProgsInv, ProgsTypeOK
<1>4. Since(nest) = {}
  BY <1>1, NoProgram
<1>5. nest' \in Seq(Tasks) /\ Since(nest') = {}
  BY <1>1, <1>3, <1>4, PopIs DEF Outside
<1>6. Nested(nest', pr, server'.players)
  BY <1>1, <1>3, PopKeepsNested DEF Outside
<1> QED
  BY <1>1, <1>2, <1>4, <1>5, <1>6, HostKeeps

LEMMA Host_ErrorEndsKeeps ==
  ASSUME ProgsInv, Host_ErrorEnds
  PROVE  Keeps
<1>1. /\ At("error") /\ nest' = <<>>
      /\ server' = [server EXCEPT !.inerror = FALSE,
                      !.state = IF @ = "loading" THEN "none" ELSE @]
      /\ UNCHANGED <<pr, halted>>
  BY DEF Host_ErrorEnds
<1>2. server' \in Servers
  BY <1>1, ServerIs DEF Servers
<1>3. Since(nest) = {}
  <2>1. /\ nest \in Seq(Tasks) /\ Nested(nest, pr, server.players)
        /\ nest[Len(nest)].at # "program"
    BY <1>1 DEF At, Task, ProgsInv, ProgsTypeOK
  <2> QED
    BY <2>1, NoProgramSince
<1> QED
  BY <1>1, <1>2, <1>3, HostKeeps, NothingIsNested

LEMMA LevelBeginsKeeps ==
  ASSUME ProgsInv, LevelBegins
  PROVE  Keeps
<1>1. /\ nest = <<>> /\ server' = [server EXCEPT !.state = "active"]
      /\ UNCHANGED <<pr, nest, halted>>
  BY DEF LevelBegins, Idle
<1>2. server' \in Servers
  BY <1>1, ServerIs DEF Servers
<1> QED
  BY <1>1, <1>2, HostKeeps, NothingIsNested

LEMMA SV_SpawnServerKeeps ==
  ASSUME ProgsInv, SV_SpawnServer
  PROVE  Keeps
<1> DEFINE zero == [a \in GlobalCell |-> 0]
<1>1. /\ nest = <<>> /\ nest' = <<>> /\ halted' = halted
      /\ server' = [server EXCEPT !.state = "loading", !.players = 0]
      /\ pr' = [pr EXCEPT !.globals = zero]
  BY DEF SV_SpawnServer, Idle
<1>2. server' \in Servers
  <2>1. 0 \in 0..MaxPlayers
    BY ServerIs
  <2> QED
    BY <1>1, <2>1, ServerIs DEF Servers
<1>3. zero \in [GlobalCell -> GlobalValue]
  BY ProgsAssumption
<1>4. pr \in Machine
  BY DEF ProgsInv, ProgsTypeOK
<1> HIDE DEF zero
<1>5. /\ pr' \in Machine /\ pr'.globals = zero
      /\ pr'.stack = pr.stack /\ pr'.localstack = pr.localstack
  BY <1>1, <1>3, <1>4 DEF Machine
<1>6. NextIsSound
  <2>1. <<>> \in Seq(Tasks) /\ Nested(<<>>, pr', server'.players)
    BY NothingIsNested
  <2> QED
    BY <1>1, <1>2, <1>5, <2>1 DEF NextIsSound, ProgsInv, ProgsTypeOK, Servers
<1>7. Callees(pr, nest) = <<>> /\ Callees(pr, nest)' = <<>>
  BY <1>1, NothingIsNested DEF Callees
<1>8. /\ ActiveOf(pr, <<>>) = <<>> /\ ActiveOf(pr', <<>>) = <<>>
      /\ BaseOf(pr', <<>>) = zero
      /\ \E c : Fits(pr', <<>>, c)
  BY <1>4, <1>5, NoneActive
<1>9. Promised!Load
  BY <1>7, <1>8 DEF Promised!Load, zero
<1>10. (\E c : Fits(pr, Callees(pr, nest), c))'
  BY <1>7, <1>8
<1> QED
  BY <1>6, <1>9, <1>10 DEF Keeps, NextIsSound, ProgsInv, Promised!Next

-----------------------------------------------------------------------------
(* Theorems.                                                               *)

LEMMA ProgsStepKeeps ==
  ASSUME ProgsInv, ProgsNext
  PROVE  Keeps
<1>1. ASSUME NEW f \in Func, OP_CALL(f) \/ PF_walkmove(f)
      PROVE  Keeps
  BY <1>1, OP_CALLKeeps, PF_walkmoveKeeps
<1>2. CASE Runaway
  BY <1>2, PR_RunErrorKeeps DEF Runaway
<1>3. CASE BadStatement
  BY <1>3, PR_RunErrorKeeps DEF BadStatement
<1>4. CASE PF_error
  <2>1. /\ pr \in Machine /\ Len(pr.stack) < MAX_STACK_DEPTH
        /\ Len(pr.localstack) <= LOCALSTACK_SIZE /\ Host_Error(pr)
    BY <1>4 DEF PF_error, ProgsInv, ProgsTypeOK
  <2> QED
    BY <2>1, Host_ErrorKeeps
<1>5. CASE ProgsStep
  BY <1>1, <1>2, <1>3, <1>4, <1>5, OP_STOREKeeps, OP_RETURNKeeps,
     SV_DropClientKeeps, ShutdownEndsKeeps, Host_ErrorEndsKeeps DEF ProgsStep
<1> QED
  BY <1>5, SV_DropClientKeeps, RunProgramKeeps, Host_Spawn_PlayerKeeps,
     Host_ShutdownServerKeeps, SV_SpawnServerKeeps, LevelBeginsKeeps
     DEF ProgsNext

LEMMA ProgsStutterKeeps ==
  ASSUME ProgsInv, UNCHANGED progsVars
  PROVE  Keeps
<1>1. pr' = pr /\ nest' = nest /\ server' = server /\ halted' = halted
  BY DEF progsVars
<1>2. NextIsSound
  BY <1>1 DEF NextIsSound, ProgsInv, ProgsTypeOK
<1>3. Callees(pr, nest)' = Callees(pr, nest)
  BY <1>1
<1> QED
  BY <1>1, <1>2, <1>3, Waiting

LEMMA ProgsBegins ==
  ASSUME ProgsInit
  PROVE  ProgsInv /\ Promised!Init
<1> DEFINE zero == [a \in GlobalCell |-> 0]
<1>1. /\ pr = [globals |-> zero, stack |-> <<>>, localstack |-> <<>>,
               xfunction |-> NoFunc]
      /\ nest = <<>> /\ halted = "no"
      /\ server = [state |-> "none", players |-> 0, inerror |-> FALSE]
  BY DEF ProgsInit
<1>2. zero \in [GlobalCell -> GlobalValue]
  BY ProgsAssumption
<1>3. /\ <<>> \in Seq(Func \cup {NoFunc}) /\ <<>> \in Seq(GlobalValue)
      /\ NoFunc \in Func \cup {NoFunc} /\ Len(<<>>) = 0
  OBVIOUS
<1> HIDE DEF zero
<1>4. /\ pr \in Machine /\ pr.globals = zero
      /\ pr.stack = <<>> /\ pr.localstack = <<>>
  BY <1>1, <1>2, <1>3 DEF Machine
<1>5. server \in Servers
  <2>1. MaxPlayers \in Nat
    BY ProgsAssumption
  <2>2. 0 \in 0..MaxPlayers
    BY <2>1
  <2> QED
    BY <1>1, <2>2 DEF Servers
<1>6. Nested(nest, pr, server.players) /\ Since(nest) = {} /\ nest \in Seq(Tasks)
  BY <1>1, NothingIsNested
<1>7. Len(pr.stack) < MAX_STACK_DEPTH /\ Len(pr.localstack) <= LOCALSTACK_SIZE
  <2>1. MAX_STACK_DEPTH \in Nat \ {0} /\ LOCALSTACK_SIZE \in Nat
    BY ProgsAssumption
  <2> QED
    BY <1>3, <1>4, <2>1
<1>8. ProgsTypeOK
  BY <1>1, <1>4, <1>5, <1>6, <1>7 DEF ProgsTypeOK, Servers
<1>9. Callees(pr, nest) = <<>>
  BY <1>6 DEF Callees
<1>10. /\ ActiveOf(pr, <<>>) = <<>> /\ BaseOf(pr, <<>>) = zero
       /\ \E b : Fits(pr, <<>>, b)
  BY <1>4, NoneActive
<1>11. Promised!Init
  BY <1>9, <1>10 DEF Promised!Init, zero
<1> QED
  BY <1>6, <1>8, <1>9, <1>10, <1>11 DEF ProgsInv

\* Neither stack of the machine overflows, programs lie one on the other in
\* pr_stack, and localstack is what the functions of them have saved.
THEOREM ProgsInvAlways == ProgsSpec => []ProgsInv
<1>1. ProgsInit => ProgsInv
  BY ProgsBegins
<1>2. ProgsInv /\ [ProgsNext]_progsVars => ProgsInv'
  BY ProgsStepKeeps, ProgsStutterKeeps DEF Keeps
<1> QED
  BY <1>1, <1>2, PTL DEF ProgsSpec

\* pr_stack and localstack never overflow: PR_EnterFunction checks before it
\* takes, whoever runs a program inside another.
THEOREM StacksNeverOverflow == ProgsSpec => []ProgsTypeOK
<1>1. ProgsInv => ProgsTypeOK
  BY DEF ProgsInv
<1> QED
  BY <1>1, ProgsInvAlways, PTL

\* PR_LeaveFunction never underflows either of them, whatever ran inside the
\* function and whatever failed before: neither of its errors can come.
THEOREM StacksNeverUnderflow == ProgsSpec => [](halted # "underflow")
<1> DEFINE Inv == ProgsInv /\ halted # "underflow"
<1>1. ProgsInit => Inv
  BY ProgsBegins DEF ProgsInit
<1>2. ASSUME Inv, [ProgsNext]_progsVars
      PROVE  Inv'
  <2>1. ProgsInv'
    BY <1>2, ProgsStepKeeps, ProgsStutterKeeps DEF Keeps
  <2>2. halted' \in {halted, "recursively entered"}
    <3>1. ASSUME NEW p, Host_Error(p)
          PROVE  halted' \in {halted, "recursively entered"}
      BY <3>1 DEF Host_Error
    <3>2. CASE PR_RunError(pr)
      BY <3>1, <3>2 DEF PR_RunError
    <3>3. ASSUME NEW f, NEW drops, NEW outside,
                 PR_ExecuteProgram(f, drops, outside)
          PROVE  halted' \in {halted, "recursively entered"}
      BY <3>2, <3>3 DEF PR_ExecuteProgram
    <3>4. CASE OP_STORE
      BY <3>4 DEF OP_STORE
    <3>5. ASSUME NEW f \in Func, OP_CALL(f)
          PROVE  halted' \in {halted, "recursively entered"}
      BY <3>2, <3>5 DEF OP_CALL
    <3>6. ASSUME NEW f \in Func, PF_walkmove(f)
          PROVE  halted' \in {halted, "recursively entered"}
      BY <3>3, <3>6 DEF PF_walkmove
    <3>7. CASE OP_RETURN
      <4>1. At("program")
        BY <3>7 DEF OP_RETURN, Runs
      <4>2. ~StackUnderflows(pr)
        BY <1>2, <4>1, NeverUnderflows
      <4> QED
        BY <3>7, <4>2 DEF OP_RETURN
    <3>8. CASE Runaway \/ BadStatement \/ PF_error
      BY <3>1, <3>2, <3>8 DEF Runaway, BadStatement, PF_error
    <3>9. CASE SV_DropClient
      BY <3>3, <3>9 DEF SV_DropClient
    <3>10. CASE ShutdownEnds \/ Host_ErrorEnds
      BY <3>10 DEF ShutdownEnds, Host_ErrorEnds
    <3>11. CASE ProgsStep
      BY <3>4, <3>5, <3>6, <3>7, <3>8, <3>9, <3>10, <3>11 DEF ProgsStep
    <3>12. CASE \E f \in EntryPoints : RunProgram(f)
      BY <3>3, <3>12 DEF RunProgram
    <3>13. CASE \/ Host_Spawn_Player \/ Host_ShutdownServer
                \/ SV_SpawnServer \/ LevelBegins
      BY <3>13 DEF Host_Spawn_Player, Host_ShutdownServer, SV_SpawnServer,
                   LevelBegins
    <3>14. CASE ProgsNext
      BY <3>9, <3>11, <3>12, <3>13, <3>14 DEF ProgsNext
    <3>15. CASE UNCHANGED progsVars
      BY <3>15 DEF progsVars
    <3> QED
      BY <1>2, <3>14, <3>15
  <2> QED
    BY <1>2, <2>1, <2>2
<1> QED
  BY <1>1, <1>2, PTL DEF ProgsSpec

\* Every activation finds its locals as it left them, with one place for the
\* locals of a function and two stacks that programs inside programs share
\* and errors cut short.
THEOREM ProgsImplementsActivations == ProgsSpec => ImplementsActivations
<1>1. ProgsInit => Promised!Init
  BY ProgsBegins
<1>2. ProgsInv /\ [ProgsNext]_progsVars => [Promised!Next]_Promised!vars
  BY ProgsStepKeeps, ProgsStutterKeeps DEF Keeps
<1> QED
  BY <1>1, <1>2, ProgsInvAlways, PTL DEF ProgsSpec, ImplementsActivations,
     Promised!Spec
=============================================================================
