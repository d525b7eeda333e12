---------------------------- MODULE MemoryProofs ----------------------------
(***************************************************************************)
(* Proofs about what a host keeps in memory: the hunk, the zone, and the   *)
(* log of the players it has seen.                                         *)
(*                                                                         *)
(* The inductive invariant HunkInv of the hunk says that the cache is kept *)
(* (its blocks in order and apart, each with its owner, each once in the   *)
(* list in the order of use), that the two ends are apart, that the blocks *)
(* are between them but for the loops that move them away, and what the    *)
(* steps still to do can be: HunkIsWhole alone says nothing of the steps   *)
(* between a loop's beginning and its end.                                 *)
(*                                                                         *)
(* That of the zone, ZInv, says that the list is well-formed (Good), that  *)
(* no two free blocks follow each other, and that the rover and the scan   *)
(* stand on blocks of it.  Good says besides what ZoneIsWhole does that    *)
(* the blocks lie apart: without it the rest that Z_TagMalloc cuts off     *)
(* could land on a block.  At the end, the refinement of Heap.             *)
(*                                                                         *)
(* That the IP log is an address book.  The invariant says that there are  *)
(* sets of slots, one for each node, that make a sorted tree of the slots  *)
(* of the ring; that while a node is taken out, the two trees below it     *)
(* belong in the place that is left open; and that a younger record of an  *)
(* address is below the older ones.                                        *)
(***************************************************************************)
EXTENDS Hunk, Zone, IPLog, FiniteSetTheorems, SequenceTheorems, Loops

(* The hunk.                                                               *)

\* The cache's two lists and the owners' pointers d: the blocks lie in order and
\* apart, each belongs to the user who points at it, and the list in the order
\* of use has each of them once.
Orderly(c) ==
  /\ c \in Seq([user : User, at : Nat, size : Nat])
  /\ \A i \in 1..Len(c) : HunkLevel <= c[i].at /\ c[i].size > 0
  /\ \A i, j \in 1..Len(c) : i < j => c[i].at + c[i].size <= c[j].at
Owned(c, d) ==
  /\ d \in [User -> Nat]
  /\ \A i \in 1..Len(c) : d[c[i].user] = c[i].at
  /\ \A u \in User : d[u] # NULL => \E i \in 1..Len(c) : c[i].user = u
Distinct(l) ==
  /\ l \in Seq(Nat)
  /\ \A i, j \in 1..Len(l) : l[i] = l[j] => i = j
Elements(l) == {l[i] : i \in 1..Len(l)}
Addresses(c) == {c[i].at : i \in 1..Len(c)}
Listed(c, l) == Len(l) = Len(c) /\ Elements(l) = Addresses(c)
Kept(c, l, d) == Orderly(c) /\ Owned(c, d) /\ Distinct(l) /\ Listed(c, l)

\* The two ends of the hunk.
EndsInv ==
  /\ hunk_low_used \in Nat /\ hunk_high_used \in Nat
  /\ HunkLevel <= hunk_low_used
  /\ hunk_tempactive \in BOOLEAN
  /\ EndsStayApart

\* The blocks are between the ends, but for the loops that move them away.
Above(c, low) == \A i \in 1..Len(c) : low <= c[i].at
Below(c, end) == \A i \in 1..Len(c) : c[i].at + c[i].size <= end
BetweenInv ==
  /\ ~GrowingLow => Above(cache, hunk_low_used)
  /\ ~GrowingHigh => Below(cache, HunkSize - hunk_high_used)

\* What is still to do: only the first step is one of those loops, only the last
\* one releases the lower end, down to a mark it has passed, and only one
\* allocates a block.
Step ==
  [op : {"FreeLow"}] \cup [op : {"FreeHigh"}, prev : Nat]
  \cup [op : {"Hunk_TempAlloc", "Hunk_AllocName"}, size : Nat]
  \cup [op : {"Hunk_FreeToLowMark"}, mark : Nat]
  \cup [op : {"Cache_Alloc"}, user : User, size : Nat \ {0}]
TodoIs(t, low) ==
  /\ t \in Seq(Step)
  /\ \A i \in 1..Len(t) :
       /\ t[i].op \in {"FreeLow", "FreeHigh"} => i = 1
       /\ t[i].op = "Hunk_FreeToLowMark" =>
            /\ i = Len(t)
            /\ HunkLevel <= t[i].mark
            /\ t[i].mark <= low
       /\ t[i].op = "Cache_Alloc" =>
            \A j \in 1..Len(t) : t[j].op = "Cache_Alloc" => j = i

\* When the player may not have all models loaded anew without a flush, a model
\* that is to be loaded is not in the cache, nor is what waits for a block.
Pending(t, d, n) ==
  /\ \A m \in Model : n[m] => d[m] = NULL
  /\ \A i \in 1..Len(t) :
       t[i].op = "Cache_Alloc" =>
         /\ d[t[i].user] = NULL
         /\ t[i].user \in Model => ~n[t[i].user]

Failures ==
  {"no", "Cache_TryAlloc: greater than free hunk",
   "Hunk_AllocName: not enough RAM", "Hunk_HighAllocName: not enough RAM"}
  \cup IF ClearModels THEN {"Cache_Alloc: already allocated"} ELSE {}

HunkInv ==
  /\ Kept(cache, lru, data)
  /\ EndsInv
  /\ BetweenInv
  /\ TodoIs(todo, hunk_low_used)
  /\ needload \in [Model -> BOOLEAN]
  /\ failed \in Failures
  /\ ~ClearModels => Pending(todo, data, needload)

-----------------------------------------------------------------------------
\* Without(s, i) is s but for its element i.
LEMMA WithoutIs ==
  ASSUME NEW T, NEW s \in Seq(T), NEW i \in 1..Len(s)
  PROVE  /\ Without(s, i) \in Seq(T)
         /\ Len(Without(s, i)) = Len(s) - 1
         /\ \A j \in 1..Len(s) - 1 :
              Without(s, i)[j] = s[IF j < i THEN j ELSE j + 1]
<1> DEFINE w == Without(s, i)
<1>1. Len(s) \in Nat /\ Len(s) - 1 \in Nat
  OBVIOUS
<1>2. w = [j \in 1..Len(s) - 1 |-> s[IF j < i THEN j ELSE j + 1]]
  BY DEF Without
<1>3. \A j \in 1..Len(s) - 1 : s[IF j < i THEN j ELSE j + 1] \in T
  BY <1>1
<1>4. w \in [1..Len(s) - 1 -> T]
  BY <1>2, <1>3
<1>5. w \in Seq(T) /\ Len(w) = Len(s) - 1
  BY <1>1, <1>4
<1> QED BY <1>2, <1>5

\* The element i is gone, and each of the others has a place.
LEMMA WithoutHas ==
  ASSUME NEW T, NEW s \in Seq(T), NEW i \in 1..Len(s)
  PROVE  /\ \A j \in 1..Len(s) - 1 : \E k \in 1..Len(s) :
              /\ k # i
              /\ Without(s, i)[j] = s[k]
         /\ \A k \in 1..Len(s) : k # i =>
              \E j \in 1..Len(s) - 1 : Without(s, i)[j] = s[k]
<1>1. \A j \in 1..Len(s) - 1 :
        Without(s, i)[j] = s[IF j < i THEN j ELSE j + 1]
  BY WithoutIs
<1>2. ASSUME NEW j \in 1..Len(s) - 1
      PROVE  \E k \in 1..Len(s) : k # i /\ Without(s, i)[j] = s[k]
  <2>1. CASE j < i
    BY <1>1, <2>1
  <2>2. CASE ~(j < i)
    BY <1>1, <2>2
  <2> QED BY <2>1, <2>2
<1>3. ASSUME NEW k \in 1..Len(s), k # i
      PROVE  \E j \in 1..Len(s) - 1 : Without(s, i)[j] = s[k]
  <2>1. CASE k < i
    <3>1. k \in 1..Len(s) - 1
      BY <2>1
    <3> QED BY <1>1, <2>1, <3>1
  <2>2. CASE k > i
    <3>1. k - 1 \in 1..Len(s) - 1 /\ ~(k - 1 < i) /\ (k - 1) + 1 = k
      BY <2>2
    <3> QED BY <1>1, <3>1
  <2> QED BY <1>3, <2>1, <2>2
<1> QED BY <1>2, <1>3

\* With(s, i, e) is s with e before its element i.
LEMMA WithIs ==
  ASSUME NEW T, NEW s \in Seq(T), NEW i \in 1..Len(s) + 1, NEW e \in T
  PROVE  /\ With(s, i, e) \in Seq(T)
         /\ Len(With(s, i, e)) = Len(s) + 1
         /\ \A j \in 1..Len(s) + 1 :
              With(s, i, e)[j] =
                IF j < i THEN s[j] ELSE IF j = i THEN e ELSE s[j - 1]
<1> DEFINE w == With(s, i, e)
<1>1. Len(s) \in Nat /\ Len(s) + 1 \in Nat
  OBVIOUS
<1>2. w = [j \in 1..Len(s) + 1 |->
             IF j < i THEN s[j] ELSE IF j = i THEN e ELSE s[j - 1]]
  BY DEF With
<1>3. \A j \in 1..Len(s) + 1 :
        (IF j < i THEN s[j] ELSE IF j = i THEN e ELSE s[j - 1]) \in T
  BY <1>1
<1>4. w \in [1..Len(s) + 1 -> T]
  BY <1>2, <1>3
<1>5. w \in Seq(T) /\ Len(w) = Len(s) + 1
  BY <1>1, <1>4
<1> QED BY <1>2, <1>5

\* What is in it is e and what was in s.
LEMMA WithHas ==
  ASSUME NEW T, NEW s \in Seq(T), NEW i \in 1..Len(s) + 1, NEW e \in T
  PROVE  /\ \A j \in 1..Len(s) + 1 :
              \/ j = i /\ With(s, i, e)[j] = e
              \/ j # i /\ \E k \in 1..Len(s) : With(s, i, e)[j] = s[k]
         /\ \A k \in 1..Len(s) :
              \E j \in 1..Len(s) + 1 : With(s, i, e)[j] = s[k]
         /\ With(s, i, e)[i] = e
<1>1. \A j \in 1..Len(s) + 1 :
        With(s, i, e)[j] =
          IF j < i THEN s[j] ELSE IF j = i THEN e ELSE s[j - 1]
  BY DEF With
<1>2. ASSUME NEW j \in 1..Len(s) + 1
      PROVE  \/ j = i /\ With(s, i, e)[j] = e
             \/ j # i /\ \E k \in 1..Len(s) : With(s, i, e)[j] = s[k]
  <2>1. CASE j < i
    <3>1. j \in 1..Len(s)
      BY <2>1
    <3> QED BY <1>1, <2>1, <3>1
  <2>2. CASE j = i
    BY <1>1, <2>2
  <2>3. CASE j > i
    <3>1. j - 1 \in 1..Len(s) /\ ~(j < i) /\ j # i
      BY <2>3
    <3> QED BY <1>1, <3>1
  <2> QED BY <2>1, <2>2, <2>3
<1>3. ASSUME NEW k \in 1..Len(s)
      PROVE  \E j \in 1..Len(s) + 1 : With(s, i, e)[j] = s[k]
  <2>1. CASE k < i
    <3>1. k \in 1..Len(s) + 1
      OBVIOUS
    <3> QED BY <1>1, <2>1, <3>1
  <2>2. CASE ~(k < i)
    <3>1. /\ k + 1 \in 1..Len(s) + 1 /\ ~(k + 1 < i) /\ k + 1 # i
          /\ (k + 1) - 1 = k
      BY <2>2
    <3> QED BY <1>1, <3>1
  <2> QED BY <2>1, <2>2
<1>4. With(s, i, e)[i] = e
  <2>1. i \in 1..Len(s) + 1 /\ ~(i < i)
    OBVIOUS
  <2> QED BY <1>1, <2>1
<1> QED BY <1>2, <1>3, <1>4

-----------------------------------------------------------------------------
\* What the types of the blocks and the order say of two blocks.
LEMMA OrderlyIs ==
  ASSUME NEW c, Orderly(c)
  PROVE  /\ Len(c) \in Nat
         /\ \A i \in 1..Len(c) :
              /\ c[i] \in [user : User, at : Nat, size : Nat]
              /\ c[i].user \in User /\ c[i].at \in Nat /\ c[i].size \in Nat
              /\ c[i].at # NULL
         /\ \A i, j \in 1..Len(c) : c[i].at = c[j].at => i = j
<1>1. Len(c) \in Nat
  BY DEF Orderly
<1> DEFINE B == [user : User, at : Nat, size : Nat]
<1>2. ASSUME NEW i \in 1..Len(c)
      PROVE  /\ c[i] \in B
             /\ c[i].user \in User /\ c[i].at \in Nat /\ c[i].size \in Nat
  <2>1. c \in Seq(B)
    BY DEF Orderly
  <2> HIDE DEF B
  <2>2. c[i] \in B
    BY <2>1
  <2> QED BY <2>2 DEF B
<1>3. \A i \in 1..Len(c) : c[i].at # NULL
  BY <1>2, HunkAssumption DEF Orderly, NULL
<1>4. ASSUME NEW i \in 1..Len(c), NEW j \in 1..Len(c), i < j
      PROVE  c[i].at # c[j].at
  <2>1. c[i].at + c[i].size <= c[j].at /\ c[i].size > 0
    BY <1>4 DEF Orderly
  <2> QED BY <1>2, <2>1
<1>5. ASSUME NEW i \in 1..Len(c), NEW j \in 1..Len(c), c[i].at = c[j].at
      PROVE  i = j
  <2>1. ~(i < j) /\ ~(j < i)
    BY <1>4, <1>5
  <2> QED BY <2>1
<1> QED BY <1>1, <1>2, <1>3, <1>5

\* A user who points at a block has one, in one place of each list.
LEMMA PlacesAre ==
  ASSUME NEW c, NEW l, NEW d, Kept(c, l, d), NEW u \in User, d[u] # NULL,
         NEW i, i = CHOOSE x \in 1..Len(c) : c[x].at = d[u],
         NEW k, k = CHOOSE x \in 1..Len(l) : l[x] = d[u]
  PROVE  /\ i \in 1..Len(c) /\ c[i].user = u /\ c[i].at = d[u]
         /\ k \in 1..Len(l) /\ l[k] = d[u]
<1>1. PICK x \in 1..Len(c) : c[x].user = u
  BY DEF Kept, Owned
<1>2. c[x].at = d[u]
  BY <1>1 DEF Kept, Owned
<1>3. i \in 1..Len(c) /\ c[i].at = d[u]
  BY <1>2
<1>4. i = x
  BY <1>2, <1>3, OrderlyIs DEF Kept
<1>5. d[u] \in Elements(l)
  BY <1>2 DEF Kept, Listed, Addresses
<1>6. \E y \in 1..Len(l) : l[y] = d[u]
  BY <1>5 DEF Elements
<1>7. k \in 1..Len(l) /\ l[k] = d[u]
  BY <1>6
<1> QED BY <1>1, <1>3, <1>4, <1>7

\* Each block leaves the others in order.
LEMMA WithoutOrderly ==
  ASSUME NEW c, Orderly(c), NEW i \in 1..Len(c)
  PROVE  Orderly(Without(c, i))
<1> DEFINE w == Without(c, i)
           B == [user : User, at : Nat, size : Nat]
           at(j) == IF j < i THEN j ELSE j + 1
<1>1. c \in Seq(B) /\ Len(c) \in Nat
  BY DEF Orderly
<1>2. /\ w \in Seq(B)
      /\ Len(w) = Len(c) - 1
      /\ \A j \in 1..Len(c) - 1 : w[j] = c[at(j)]
  BY <1>1, WithoutIs
<1>3. ASSUME NEW j \in 1..Len(w)
      PROVE  at(j) \in 1..Len(c)
  <2>1. j \in Int /\ 1 <= j /\ j < Len(c)
    BY <1>1, <1>2
  <2> QED BY <2>1, <1>1
<1>4. ASSUME NEW j \in 1..Len(w), NEW k \in 1..Len(w), j < k
      PROVE  at(j) < at(k)
  <2>1. j \in Int /\ k \in Int /\ i \in Int
    BY <1>1, <1>2
  <2> QED BY <2>1, <1>4
<1>5. \A j \in 1..Len(w) : w[j] = c[at(j)]
  BY <1>2
<1> HIDE DEF w, at
<1>6. \A j \in 1..Len(w) : HunkLevel <= w[j].at /\ w[j].size > 0
  BY <1>3, <1>5 DEF Orderly
<1>7. \A j, k \in 1..Len(w) : j < k => w[j].at + w[j].size <= w[k].at
  BY <1>3, <1>4, <1>5 DEF Orderly
<1>8. Orderly(w)
  BY <1>2, <1>6, <1>7 DEF Orderly
<1> QED BY <1>8 DEF w

LEMMA WithoutDistinct ==
  ASSUME NEW l, Distinct(l), NEW i \in 1..Len(l)
  PROVE  /\ Distinct(Without(l, i))
         /\ Elements(Without(l, i)) = Elements(l) \ {l[i]}
<1> DEFINE w == Without(l, i)
           at(j) == IF j < i THEN j ELSE j + 1
<1>1. l \in Seq(Nat) /\ Len(l) \in Nat
  BY DEF Distinct
<1>2. /\ w \in Seq(Nat)
      /\ Len(w) = Len(l) - 1
      /\ \A j \in 1..Len(l) - 1 : w[j] = l[at(j)]
  BY <1>1, WithoutIs
<1>3. ASSUME NEW j \in 1..Len(w)
      PROVE  at(j) \in 1..Len(l)
  <2>1. j \in Int /\ 1 <= j /\ j < Len(l)
    BY <1>1, <1>2
  <2> QED BY <2>1, <1>1
<1>4. ASSUME NEW j \in 1..Len(w), NEW k \in 1..Len(w), at(j) = at(k)
      PROVE  j = k
  <2>1. j \in Int /\ k \in Int /\ i \in Int
    BY <1>1, <1>2
  <2> QED BY <2>1, <1>4
<1>5. /\ \A j \in 1..Len(l) - 1 : \E k \in 1..Len(l) : k # i /\ w[j] = l[k]
      /\ \A k \in 1..Len(l) : k # i => \E j \in 1..Len(l) - 1 : w[j] = l[k]
  BY <1>1, WithoutHas
<1> SUFFICES Distinct(w) /\ Elements(w) = Elements(l) \ {l[i]}
  OBVIOUS
<1>6. \A j \in 1..Len(w) : w[j] = l[at(j)]
  BY <1>2
<1> HIDE DEF w, at
<1>7. \A j, k \in 1..Len(w) : w[j] = w[k] => j = k
  BY <1>3, <1>4, <1>6 DEF Distinct
<1>8. \A k \in 1..Len(l) : l[k] = l[i] => k = i
  BY DEF Distinct
<1>9. ASSUME NEW a \in Elements(w)
      PROVE  a \in Elements(l) \ {l[i]}
  <2>1. PICK j \in 1..Len(l) - 1 : a = w[j]
    BY <1>2 DEF Elements
  <2>2. PICK k \in 1..Len(l) : k # i /\ w[j] = l[k]
    BY <1>5
  <2> QED BY <2>1, <2>2, <1>8 DEF Elements
<1>10. ASSUME NEW a \in Elements(l) \ {l[i]}
       PROVE  a \in Elements(w)
  <2>1. PICK k \in 1..Len(l) : a = l[k] /\ k # i
    BY DEF Elements
  <2> QED BY <2>1, <1>2, <1>5 DEF Elements
<1> QED BY <1>2, <1>7, <1>9, <1>10 DEF Distinct

\* The addresses of the blocks that remain.
LEMMA WithoutAddresses ==
  ASSUME NEW c, Orderly(c), NEW i \in 1..Len(c)
  PROVE  Addresses(Without(c, i)) = Addresses(c) \ {c[i].at}
<1> DEFINE w == Without(c, i)
<1>1. c \in Seq([user : User, at : Nat, size : Nat])
  BY DEF Orderly
<1>2. /\ \A j \in 1..Len(c) - 1 : \E k \in 1..Len(c) : k # i /\ w[j] = c[k]
      /\ \A k \in 1..Len(c) : k # i => \E j \in 1..Len(c) - 1 : w[j] = c[k]
  BY <1>1, WithoutHas
<1>3. \A k \in 1..Len(c) : c[k].at = c[i].at => k = i
  BY OrderlyIs
<1>6. Len(w) = Len(c) - 1
  BY <1>1, WithoutIs
<1> SUFFICES Addresses(w) = Addresses(c) \ {c[i].at}
  OBVIOUS
<1> HIDE DEF w
<1>4. ASSUME NEW a \in Addresses(w)
      PROVE  a \in Addresses(c) \ {c[i].at}
  <2>1. PICK j \in 1..Len(c) - 1 : a = w[j].at
    BY <1>6 DEF Addresses
  <2>2. PICK k \in 1..Len(c) : k # i /\ w[j] = c[k]
    BY <1>2
  <2> QED BY <2>1, <2>2, <1>3 DEF Addresses
<1>5. ASSUME NEW a \in Addresses(c) \ {c[i].at}
      PROVE  a \in Addresses(w)
  <2>1. PICK k \in 1..Len(c) : a = c[k].at /\ k # i
    BY DEF Addresses
  <2>2. PICK j \in 1..Len(c) - 1 : w[j] = c[k]
    BY <1>2, <2>1
  <2> QED BY <2>1, <2>2, <1>6 DEF Addresses
<1> QED BY <1>4, <1>5

\* Cache_Free: the block leaves both lists and its owner's pointer.
LEMMA FreedKept ==
  ASSUME NEW c, NEW l, NEW d, Kept(c, l, d), NEW u \in User, d[u] # NULL,
         NEW i \in 1..Len(c), c[i].at = d[u], c[i].user = u,
         NEW k \in 1..Len(l), l[k] = d[u]
  PROVE  Kept(Without(c, i), Without(l, k), [d EXCEPT ![u] = NULL])
<1> DEFINE w == Without(c, i)
           v == Without(l, k)
           e == [d EXCEPT ![u] = NULL]
<1>1. Orderly(c) /\ Owned(c, d) /\ Distinct(l) /\ Listed(c, l)
  BY DEF Kept
<1>2. c \in Seq([user : User, at : Nat, size : Nat]) /\ l \in Seq(Nat)
  BY <1>1 DEF Orderly, Distinct
<1>3. Len(w) = Len(c) - 1 /\ Len(v) = Len(l) - 1
  BY <1>2, WithoutIs
<1>4. /\ \A j \in 1..Len(c) - 1 : \E x \in 1..Len(c) : x # i /\ w[j] = c[x]
      /\ \A x \in 1..Len(c) : x # i => \E j \in 1..Len(c) - 1 : w[j] = c[x]
  BY <1>2, WithoutHas
<1>5. Orderly(w) /\ Distinct(v)
  BY <1>1, WithoutOrderly, WithoutDistinct
<1>6. Elements(v) = Elements(l) \ {l[k]}
  BY <1>1, WithoutDistinct
<1>7. Addresses(w) = Addresses(c) \ {c[i].at}
  BY <1>1, WithoutAddresses
<1> SUFFICES Kept(w, v, e)
  OBVIOUS
<1>8. e \in [User -> Nat] /\ e[u] = NULL /\ \A x \in User \ {u} : e[x] = d[x]
  BY <1>1 DEF Owned, NULL
<1> HIDE DEF w, v, e
<1>9. Listed(w, v)
  BY <1>1, <1>3, <1>6, <1>7 DEF Listed
<1>10. \A x, y \in 1..Len(c) : c[x].user = c[y].user => x = y
  BY <1>1, OrderlyIs DEF Owned
<1>11. ASSUME NEW j \in 1..Len(w)
       PROVE  e[w[j].user] = w[j].at
  <2>1. PICK x \in 1..Len(c) : x # i /\ w[j] = c[x]
    BY <1>3, <1>4
  <2>2. c[x].user \in User \ {u}
    BY <1>1, <1>10, <2>1, OrderlyIs
  <2> QED BY <1>1, <1>8, <2>1, <2>2 DEF Owned
<1>12. ASSUME NEW x \in User, e[x] # NULL
       PROVE  \E j \in 1..Len(w) : w[j].user = x
  <2>1. x # u /\ d[x] # NULL
    BY <1>8, <1>12
  <2>2. PICK y \in 1..Len(c) : c[y].user = x
    BY <1>1, <2>1 DEF Owned
  <2>3. PICK j \in 1..Len(c) - 1 : w[j] = c[y]
    BY <1>4, <2>1, <2>2
  <2> QED BY <1>3, <2>2, <2>3
<1>13. Owned(w, e)
  BY <1>8, <1>11, <1>12 DEF Owned
<1> QED BY <1>5, <1>9, <1>13 DEF Kept

-----------------------------------------------------------------------------
\* Block b may be linked before block k of the cache c.
Fits(c, k, b) ==
  \A j \in 1..Len(c) :
    /\ j < k => c[j].at + c[j].size <= b.at
    /\ k <= j => b.at + b.size <= c[j].at
IsBlock(b) ==
  /\ b \in [user : User, at : Nat, size : Nat]
  /\ b.size > 0
  /\ HunkLevel <= b.at

LEMMA WithOrderly ==
  ASSUME NEW c, Orderly(c), NEW k \in 1..Len(c) + 1, NEW b, IsBlock(b),
         Fits(c, k, b)
  PROVE  Orderly(With(c, k, b))
<1> DEFINE w == With(c, k, b)
           B == [user : User, at : Nat, size : Nat]
           at(j) == IF j < k THEN j ELSE j - 1
<1>1. c \in Seq(B) /\ Len(c) \in Nat /\ b \in B
  BY DEF Orderly, IsBlock
<1> HIDE DEF B
<1>2. /\ w \in Seq(B)
      /\ Len(w) = Len(c) + 1
      /\ \A j \in 1..Len(c) + 1 :
           w[j] = IF j < k THEN c[j] ELSE IF j = k THEN b ELSE c[j - 1]
  BY <1>1, WithIs
<1>3. \A j \in 1..Len(w) : j # k => at(j) \in 1..Len(c) /\ w[j] = c[at(j)]
  <2> SUFFICES ASSUME NEW j \in 1..Len(w), j # k
               PROVE  at(j) \in 1..Len(c) /\ w[j] = c[at(j)]
    OBVIOUS
  <2>1. CASE j < k
    BY <1>1, <1>2, <2>1
  <2>2. CASE j > k
    <3>1. at(j) = j - 1 /\ j - 1 \in 1..Len(c)
      BY <1>1, <1>2, <2>2
    <3>2. w[j] = c[j - 1]
      BY <1>1, <1>2, <2>2
    <3> QED BY <3>1, <3>2
  <2> QED BY <1>1, <1>2, <2>1, <2>2
<1>4. ASSUME NEW i \in 1..Len(w), NEW j \in 1..Len(w), i < j
      PROVE  /\ i # k /\ j # k => at(i) < at(j)
             /\ i = k => k <= at(j)
             /\ j = k => at(i) < k
  <2>1. j \in Int /\ k \in Int /\ i \in Int
    BY <1>1, <1>2
  <2> QED BY <2>1, <1>4
<1>5. w[k] = b /\ k \in 1..Len(w)
  BY <1>1, <1>2, WithHas
<1> HIDE DEF w, at
<1>6. \A j \in 1..Len(w) : HunkLevel <= w[j].at /\ w[j].size > 0
  BY <1>3, <1>5 DEF Orderly, IsBlock
<1>7. ASSUME NEW i \in 1..Len(w), NEW j \in 1..Len(w), i < j
      PROVE  w[i].at + w[i].size <= w[j].at
  <2>1. CASE i # k /\ j # k
    BY <2>1, <1>3, <1>4, <1>7 DEF Orderly
  <2>2. CASE i = k
    <3>1. j # k /\ k <= at(j)
      BY <2>2, <1>4, <1>7
    <3> QED BY <2>2, <3>1, <1>3, <1>5 DEF Fits
  <2>3. CASE j = k
    <3>1. i # k /\ at(i) < k
      BY <2>3, <1>4, <1>7
    <3> QED BY <2>3, <3>1, <1>3, <1>5 DEF Fits
  <2> QED BY <2>1, <2>2, <2>3
<1>8. Orderly(w)
  BY <1>2, <1>6, <1>7 DEF Orderly, B
<1> QED BY <1>8 DEF w

\* A block that fits lies at an address of its own.
LEMMA FitsApart ==
  ASSUME NEW c, Orderly(c), NEW k \in 1..Len(c) + 1, NEW b, IsBlock(b),
         Fits(c, k, b)
  PROVE  \A j \in 1..Len(c) : c[j].at # b.at
<1> SUFFICES ASSUME NEW j \in 1..Len(c) PROVE c[j].at # b.at
  OBVIOUS
<1>1. Len(c) \in Nat /\ c[j].at \in Nat /\ c[j].size \in Nat
  BY OrderlyIs
<1>2. b.at \in Nat /\ b.size \in Nat /\ b.size > 0 /\ c[j].size > 0
  BY DEF Orderly, IsBlock
<1>3. c[j].at + c[j].size <= b.at \/ b.at + b.size <= c[j].at
  BY <1>1 DEF Fits
<1> QED BY <1>1, <1>2, <1>3

LEMMA WithDistinct ==
  ASSUME NEW l, Distinct(l), NEW a \in Nat, a \notin Elements(l)
  PROVE  Distinct(With(l, 1, a)) /\ Elements(With(l, 1, a)) = Elements(l) \cup {a}
<1> DEFINE w == With(l, 1, a)
<1>1. l \in Seq(Nat) /\ Len(l) \in Nat /\ 1 \in 1..Len(l) + 1
  BY DEF Distinct
<1> DEFINE N == Nat
<1>20. l \in Seq(N) /\ a \in N /\ 1 \in 1..Len(l) + 1
  BY <1>1
<1> HIDE DEF N
<1>2. /\ w \in Seq(N)
      /\ Len(w) = Len(l) + 1
      /\ \A j \in 1..Len(l) + 1 :
           w[j] = IF j < 1 THEN l[j] ELSE IF j = 1 THEN a ELSE l[j - 1]
  BY <1>20, WithIs
<1>3. /\ \A j \in 1..Len(l) + 1 :
           \/ j = 1 /\ w[j] = a
           \/ j # 1 /\ \E k \in 1..Len(l) : w[j] = l[k]
      /\ \A k \in 1..Len(l) : \E j \in 1..Len(l) + 1 : w[j] = l[k]
      /\ w[1] = a
  BY <1>20, WithHas
<1>4. \A j \in 1..Len(w) : j # 1 => j - 1 \in 1..Len(l) /\ w[j] = l[j - 1]
  BY <1>1, <1>2
<1>0. \A j \in 1..Len(l) : l[j] # a
  BY DEF Elements
<1> SUFFICES Distinct(w) /\ Elements(w) = Elements(l) \cup {a}
  OBVIOUS
<1> HIDE DEF w
<1>5. ASSUME NEW i \in 1..Len(w), NEW j \in 1..Len(w), w[i] = w[j]
      PROVE  i = j
  <2>1. CASE i # 1 /\ j # 1
    <3>1. i - 1 \in 1..Len(l) /\ j - 1 \in 1..Len(l) /\ l[i - 1] = l[j - 1]
      BY <1>4, <1>5, <2>1
    <3>2. i - 1 = j - 1
      BY <3>1 DEF Distinct
    <3> QED BY <3>2
  <2>2. CASE i = 1 /\ j # 1
    <3>1. j - 1 \in 1..Len(l) /\ l[j - 1] = a
      BY <1>3, <1>4, <1>5, <2>2
    <3> QED BY <3>1, <1>0
  <2>3. CASE i # 1 /\ j = 1
    <3>1. i - 1 \in 1..Len(l) /\ l[i - 1] = a
      BY <1>3, <1>4, <1>5, <2>3
    <3> QED BY <3>1, <1>0
  <2> QED BY <2>1, <2>2, <2>3
<1>6. ASSUME NEW x \in Elements(w)
      PROVE  x \in Elements(l) \cup {a}
  <2>1. PICK j \in 1..Len(l) + 1 : x = w[j]
    BY <1>2 DEF Elements
  <2> QED BY <2>1, <1>3 DEF Elements
<1>7. ASSUME NEW x \in Elements(l) \cup {a}
      PROVE  x \in Elements(w)
  <2>1. CASE x = a
    BY <1>1, <1>2, <1>3, <2>1 DEF Elements
  <2>2. CASE x # a
    <3>1. PICK k \in 1..Len(l) : x = l[k]
      BY <2>2 DEF Elements
    <3> QED BY <3>1, <1>2, <1>3 DEF Elements
  <2> QED BY <2>1, <2>2
<1> QED BY <1>2, <1>5, <1>6, <1>7 DEF Distinct, N

LEMMA WithAddresses ==
  ASSUME NEW c, Orderly(c), NEW k \in 1..Len(c) + 1, NEW b, IsBlock(b)
  PROVE  Addresses(With(c, k, b)) = Addresses(c) \cup {b.at}
<1> DEFINE w == With(c, k, b)
           B == [user : User, at : Nat, size : Nat]
<1>1. c \in Seq(B) /\ b \in B
  BY DEF Orderly, IsBlock
<1> HIDE DEF B
<1>2. /\ \A j \in 1..Len(c) + 1 :
           \/ j = k /\ w[j] = b
           \/ j # k /\ \E i \in 1..Len(c) : w[j] = c[i]
      /\ \A i \in 1..Len(c) : \E j \in 1..Len(c) + 1 : w[j] = c[i]
      /\ w[k] = b
  BY <1>1, WithHas
<1>6. Len(w) = Len(c) + 1 /\ k \in 1..Len(w)
  <2>1. k \in 1..Len(c) + 1
    OBVIOUS
  <2>2. Len(w) = Len(c) + 1
    BY ONLY <1>1, <2>1, WithIs DEF w
  <2> QED BY <2>2
<1> SUFFICES Addresses(w) = Addresses(c) \cup {b.at}
  OBVIOUS
<1> HIDE DEF w
<1>3. ASSUME NEW a \in Addresses(w)
      PROVE  a \in Addresses(c) \cup {b.at}
  <2>1. PICK j \in 1..Len(c) + 1 : a = w[j].at
    BY <1>6 DEF Addresses
  <2> QED BY <2>1, <1>2 DEF Addresses
<1>4. ASSUME NEW a \in Addresses(c) \cup {b.at}
      PROVE  a \in Addresses(w)
  <2>1. CASE a = b.at
    BY <2>1, <1>2, <1>6 DEF Addresses
  <2>2. CASE a # b.at
    <3>1. PICK i \in 1..Len(c) : a = c[i].at
      BY <2>2 DEF Addresses
    <3>2. PICK j \in 1..Len(c) + 1 : w[j] = c[i]
      BY <1>2
    <3> QED BY <3>1, <3>2, <1>6 DEF Addresses
  <2> QED BY <2>1, <2>2
<1> QED BY <1>3, <1>4

\* A block that fits, of a user who has none, joins both lists.
LEMMA AddedKept ==
  ASSUME NEW c, NEW l, NEW d, Kept(c, l, d), NEW k \in 1..Len(c) + 1,
         NEW b, IsBlock(b), Fits(c, k, b), d[b.user] = NULL
  PROVE  Kept(With(c, k, b), With(l, 1, b.at), [d EXCEPT ![b.user] = b.at])
<1> DEFINE w == With(c, k, b)
           v == With(l, 1, b.at)
           e == [d EXCEPT ![b.user] = b.at]
           B == [user : User, at : Nat, size : Nat]
<1>1. Orderly(c) /\ Owned(c, d) /\ Distinct(l) /\ Listed(c, l)
  BY DEF Kept
<1>2. /\ c \in Seq(B) /\ l \in Seq(Nat) /\ Len(c) \in Nat /\ Len(l) \in Nat
      /\ b \in B
  BY <1>1 DEF Orderly, Distinct, IsBlock
<1>3. b.user \in User /\ b.at \in Nat
  BY <1>2
<1> HIDE DEF B
<1>4. Len(w) = Len(c) + 1
  <2>1. c \in Seq(B) /\ b \in B
    BY <1>2
  <2> QED BY <2>1, WithIs
<1>5. Len(v) = Len(l) + 1
  <2> DEFINE N == Nat
             a == b.at
  <2>1. 1 \in 1..Len(l) + 1 /\ l \in Seq(N) /\ a \in N
    BY <1>2, <1>3
  <2> SUFFICES Len(With(l, 1, a)) = Len(l) + 1
    OBVIOUS
  <2> HIDE DEF N, a
  <2> QED BY <2>1, WithIs
<1>6. /\ \A j \in 1..Len(c) + 1 :
           \/ j = k /\ w[j] = b
           \/ j # k /\ \E i \in 1..Len(c) : w[j] = c[i]
      /\ \A i \in 1..Len(c) : \E j \in 1..Len(c) + 1 : w[j] = c[i]
      /\ w[k] = b
  BY <1>2, WithHas
<1>7. Orderly(w)
  BY <1>1, WithOrderly
<1>8. b.at \notin Elements(l)
  <2>1. \A j \in 1..Len(c) : c[j].at # b.at
    BY <1>1, FitsApart
  <2> QED BY <2>1, <1>1 DEF Listed, Addresses
<1>9. Distinct(v) /\ Elements(v) = Elements(l) \cup {b.at}
  BY <1>1, <1>3, <1>8, WithDistinct
<1>10. Addresses(w) = Addresses(c) \cup {b.at}
  BY <1>1, WithAddresses
<1>11. /\ e \in [User -> Nat] /\ e[b.user] = b.at
       /\ \A x \in User \ {b.user} : e[x] = d[x]
  BY <1>1, <1>3 DEF Owned
<1> SUFFICES Kept(w, v, e)
  OBVIOUS
<1> HIDE DEF w, v, e
<1>12. Listed(w, v)
  BY <1>1, <1>4, <1>5, <1>9, <1>10 DEF Listed
<1>13. \A i \in 1..Len(c) : c[i].user \in User \ {b.user}
  BY <1>1, OrderlyIs DEF Owned
<1>14. ASSUME NEW j \in 1..Len(w)
       PROVE  e[w[j].user] = w[j].at
  <2>1. CASE w[j] = b
    BY <2>1, <1>11
  <2>2. CASE w[j] # b
    <3>1. PICK i \in 1..Len(c) : w[j] = c[i]
      BY <2>2, <1>4, <1>6
    <3> QED BY <1>1, <1>11, <1>13, <3>1 DEF Owned
  <2> QED BY <2>1, <2>2
<1>15. ASSUME NEW x \in User, e[x] # NULL
       PROVE  \E j \in 1..Len(w) : w[j].user = x
  <2>1. CASE x = b.user
    BY <2>1, <1>4, <1>6
  <2>2. CASE x # b.user
    <3>1. PICK i \in 1..Len(c) : c[i].user = x
      BY <2>2, <1>1, <1>11, <1>15 DEF Owned
    <3>2. PICK j \in 1..Len(c) + 1 : w[j] = c[i]
      BY <1>6
    <3> QED BY <1>4, <3>1, <3>2
  <2> QED BY <2>1, <2>2
<1>16. Owned(w, e)
  BY <1>11, <1>14, <1>15 DEF Owned
<1> QED BY <1>7, <1>9, <1>12, <1>16 DEF Kept

\* Where a block fits it still fits when another one has left.
LEMMA FitsWithout ==
  ASSUME NEW c, Orderly(c), NEW i \in 1..Len(c), NEW k \in 1..Len(c) + 1,
         NEW b, Fits(c, k, b),
         NEW n, n = IF i < k THEN k - 1 ELSE k
  PROVE  n \in 1..Len(Without(c, i)) + 1 /\ Fits(Without(c, i), n, b)
<1> DEFINE w == Without(c, i)
           at(j) == IF j < i THEN j ELSE j + 1
<1>1. c \in Seq([user : User, at : Nat, size : Nat]) /\ Len(c) \in Nat
  BY DEF Orderly
<1>2. Len(w) = Len(c) - 1 /\ \A j \in 1..Len(c) - 1 : w[j] = c[at(j)]
  BY <1>1, WithoutIs
<1>3. n \in 1..Len(w) + 1
  BY <1>1, <1>2
<1>4. ASSUME NEW j \in 1..Len(w)
      PROVE  /\ at(j) \in 1..Len(c) /\ w[j] = c[at(j)]
             /\ j < n => at(j) < k
             /\ n <= j => k <= at(j)
  <2>1. j \in Int /\ 1 <= j /\ j < Len(c) /\ i \in Int /\ k \in Int
    BY <1>1, <1>2
  <2>2. w[j] = c[at(j)]
    BY <1>1, <1>2
  <2> QED BY <2>1, <2>2, <1>1
<1> HIDE DEF w, at
<1>5. Fits(w, n, b)
  BY <1>4 DEF Fits
<1> QED BY <1>3, <1>5 DEF w

-----------------------------------------------------------------------------
\* A gap that is wide enough holds the block, between the ends when the other
\* blocks are, and above the first of them unless it is the gap at the bottom.
LEMMA GapIs ==
  ASSUME Orderly(cache), EndsInv, NEW u \in User, NEW size \in Nat, size > 0,
         NEW k \in 1..Len(cache) + 1, GapEnd(k) - GapStart(k) >= size,
         NEW b, b = CacheBlock(u, k, size)
  PROVE  /\ IsBlock(b) /\ b.user = u /\ b.at = GapStart(k)
         /\ Fits(cache, k, b)
         /\ Above(cache, hunk_low_used) => hunk_low_used <= b.at
         /\ Below(cache, HunkSize - hunk_high_used) =>
              b.at + b.size <= HunkSize - hunk_high_used
<1> DEFINE at == GapStart(k)
<1>1. /\ hunk_low_used \in Nat /\ hunk_high_used \in Nat /\ HunkSize \in Nat
      /\ HunkLevel \in Nat /\ HunkLevel <= hunk_low_used /\ Len(cache) \in Nat
  BY HunkAssumption, OrderlyIs DEF EndsInv
<1>2. \A i \in 1..Len(cache) :
        /\ cache[i].at \in Nat /\ cache[i].size \in Nat
        /\ cache[i].size > 0 /\ HunkLevel <= cache[i].at
  BY OrderlyIs DEF Orderly
<1>3. \A i, j \in 1..Len(cache) : i < j =>
        cache[i].at + cache[i].size <= cache[j].at
  BY DEF Orderly
<1>6. /\ at \in Nat /\ HunkLevel <= at
      /\ \A j \in 1..Len(cache) : j < k => cache[j].at + cache[j].size <= at
  <2>1. CASE k = 1
    BY <1>1, <2>1 DEF GapStart
  <2>2. CASE k # 1
    <3>1. k - 1 \in 1..Len(cache) /\ at = cache[k - 1].at + cache[k - 1].size
      BY <1>1, <2>2 DEF GapStart
    <3>2. ASSUME NEW j \in 1..Len(cache), j < k
          PROVE  cache[j].at + cache[j].size <= at
      <4>1. j = k - 1 \/ j < k - 1
        BY <1>1, <3>2
      <4>2. j = k - 1 \/ cache[j].at + cache[j].size <= cache[k - 1].at
        BY <1>3, <3>1, <4>1
      <4> QED BY <1>2, <3>1, <4>2
    <3> QED BY <1>1, <1>2, <3>1, <3>2
  <2> QED BY <2>1, <2>2
<1>7. ASSUME NEW j \in 1..Len(cache), k <= j
      PROVE  at + size <= cache[j].at
  <2>1. k \in 1..Len(cache) /\ ~(k > Len(cache))
    BY <1>1, <1>7
  <2>2. GapEnd(k) = cache[k].at
    BY <2>1 DEF GapEnd
  <2>3. at + size <= cache[k].at
    BY <1>2, <1>6, <2>1, <2>2
  <2>4. j = k \/ cache[k].at + cache[k].size <= cache[j].at
    BY <1>3, <1>7, <2>1
  <2> QED BY <1>2, <1>6, <2>1, <2>3, <2>4
<1>8. b = [user |-> u, at |-> at, size |-> size]
  BY DEF CacheBlock
<1>9. b.user = u /\ b.at = at /\ b.size = size
  BY <1>8
<1>10. IsBlock(b)
  BY <1>6, <1>8, <1>9 DEF IsBlock
<1>11. Fits(cache, k, b)
  BY <1>6, <1>7, <1>9 DEF Fits
<1>12. ASSUME Above(cache, hunk_low_used)
       PROVE  hunk_low_used <= at
  <2>1. CASE k = 1
    BY <1>1, <2>1 DEF GapStart
  <2>2. CASE k # 1
    <3>1. k - 1 \in 1..Len(cache) /\ at = cache[k - 1].at + cache[k - 1].size
      BY <1>1, <2>2 DEF GapStart
    <3>2. hunk_low_used <= cache[k - 1].at
      BY <1>12, <3>1 DEF Above
    <3> QED BY <1>1, <1>2, <3>1, <3>2
  <2> QED BY <2>1, <2>2
<1>13. ASSUME Below(cache, HunkSize - hunk_high_used)
       PROVE  at + size <= HunkSize - hunk_high_used
  <2>1. CASE k > Len(cache)
    <3>1. GapEnd(k) = HunkSize - hunk_high_used
      BY <2>1 DEF GapEnd
    <3> QED BY <1>1, <1>6, <3>1
  <2>2. CASE ~(k > Len(cache))
    <3>1. k \in 1..Len(cache)
      BY <1>1, <2>2
    <3>2. at + size <= cache[k].at
      BY <1>1, <1>7, <3>1
    <3>3. cache[k].at + cache[k].size <= HunkSize - hunk_high_used
      BY <1>13, <3>1 DEF Below
    <3> QED BY <1>1, <1>2, <1>6, <3>1, <3>2, <3>3
  <2> QED BY <2>1, <2>2
<1> QED BY <1>9, <1>10, <1>11, <1>12, <1>13

\* What blocks lie above or below, they do when one of them has gone...
LEMMA WithoutBounds ==
  ASSUME NEW c, Orderly(c), NEW i \in 1..Len(c), NEW low, NEW end
  PROVE  /\ Above(c, low) => Above(Without(c, i), low)
         /\ Below(c, end) => Below(Without(c, i), end)
<1> DEFINE w == Without(c, i)
<1>1. c \in Seq([user : User, at : Nat, size : Nat])
  BY DEF Orderly
<1>2. \A j \in 1..Len(c) - 1 : \E k \in 1..Len(c) : k # i /\ w[j] = c[k]
  BY <1>1, WithoutHas
<1>3. Len(w) = Len(c) - 1
  BY <1>1, WithoutIs
<1> HIDE DEF w
<1>4. Above(c, low) => Above(w, low)
  BY <1>2, <1>3 DEF Above
<1>5. Below(c, end) => Below(w, end)
  BY <1>2, <1>3 DEF Below
<1> QED BY <1>4, <1>5 DEF w

\* ... and when one that does has come.
LEMMA WithBounds ==
  ASSUME NEW c, Orderly(c), NEW k \in 1..Len(c) + 1, NEW b, IsBlock(b),
         NEW low, NEW end
  PROVE  /\ Above(c, low) /\ low <= b.at => Above(With(c, k, b), low)
         /\ Below(c, end) /\ b.at + b.size <= end => Below(With(c, k, b), end)
<1> DEFINE w == With(c, k, b)
           B == [user : User, at : Nat, size : Nat]
<1>1. c \in Seq(B) /\ b \in B
  BY DEF Orderly, IsBlock
<1> HIDE DEF B
<1>2. \A j \in 1..Len(c) + 1 :
        \/ j = k /\ w[j] = b
        \/ j # k /\ \E i \in 1..Len(c) : w[j] = c[i]
  BY <1>1, WithHas
<1>3. Len(w) = Len(c) + 1
  <2>1. k \in 1..Len(c) + 1
    OBVIOUS
  <2> QED
    BY ONLY <1>1, <2>1, WithIs DEF w
<1> HIDE DEF w
<1>4. Above(c, low) /\ low <= b.at => Above(w, low)
  BY <1>2, <1>3 DEF Above
<1>5. Below(c, end) /\ b.at + b.size <= end => Below(w, end)
  BY <1>2, <1>3 DEF Below
<1> QED BY <1>4, <1>5 DEF w

\* The gap that is taken is one of those that are wide enough.
LEMMA LowestIs ==
  ASSUME NEW gaps \in SUBSET Nat, gaps # {}
  PROVE  Lowest(gaps) \in gaps
BY LeastOfSet DEF Lowest

-----------------------------------------------------------------------------
\* What the steps of the cache do to its lists, and that they keep the blocks
\* between the ends wherever they were.
KeepsBounds ==
  /\ Above(cache, hunk_low_used) => Above(cache', hunk_low_used)
  /\ Below(cache, HunkSize - hunk_high_used) =>
       Below(cache', HunkSize - hunk_high_used)

LEMMA FreeKeeps ==
  ASSUME Kept(cache, lru, data), NEW u \in User, data[u] # NULL, Cache_Free(u)
  PROVE  Kept(cache, lru, data)' /\ KeepsBounds
         /\ data' = [data EXCEPT ![u] = NULL]
<1> DEFINE i == BlockOf(u)
           k == LRUOf(u)
<1>1. /\ i = CHOOSE x \in 1..Len(cache) : cache[x].at = data[u]
      /\ k = CHOOSE x \in 1..Len(lru) : lru[x] = data[u]
  BY DEF BlockOf, LRUOf
<1>2. /\ cache' = Without(cache, i) /\ lru' = Without(lru, k)
      /\ data' = [data EXCEPT ![u] = NULL]
  BY DEF Cache_Free
<1> HIDE DEF i, k
<1>3. /\ i \in 1..Len(cache) /\ cache[i].user = u /\ cache[i].at = data[u]
      /\ k \in 1..Len(lru) /\ lru[k] = data[u]
  BY <1>1, PlacesAre
<1>4. Kept(Without(cache, i), Without(lru, k), [data EXCEPT ![u] = NULL])
  BY <1>3, FreedKept
<1>5. Kept(cache', lru', data')
  BY <1>2, <1>4
<1>6. KeepsBounds
  BY <1>2, <1>3, WithoutBounds DEF KeepsBounds, Kept
<1> QED BY <1>2, <1>5, <1>6

LEMMA RelinkKeeps ==
  ASSUME Kept(cache, lru, data), EndsInv, NEW x \in 1..Len(cache),
         NEW k \in 1..Len(cache) + 1,
         GapEnd(k) - GapStart(k) >= cache[x].size,
         Cache_Relink(cache[x], k)
  PROVE  Kept(cache, lru, data)' /\ KeepsBounds
         /\ data' = [data EXCEPT ![cache[x].user] = GapStart(k)]
<1> DEFINE u == cache[x].user
           size == cache[x].size
           b == CacheBlock(u, k, size)
           i == BlockOf(u)
           j == LRUOf(u)
           n == IF i < k THEN k - 1 ELSE k
           c == Without(cache, i)
           l == Without(lru, j)
           d == [data EXCEPT ![u] = NULL]
<1>1. /\ cache' = With(c, n, b) /\ lru' = With(l, 1, b.at)
      /\ data' = [data EXCEPT ![u] = b.at]
  BY DEF Cache_Relink
<1>2. /\ i = CHOOSE y \in 1..Len(cache) : cache[y].at = data[u]
      /\ j = CHOOSE y \in 1..Len(lru) : lru[y] = data[u]
  BY DEF BlockOf, LRUOf
<1>3. Orderly(cache) /\ Owned(cache, data)
  BY DEF Kept
<1>4. u \in User /\ size \in Nat /\ size > 0 /\ data[u] # NULL
  BY <1>3, OrderlyIs DEF Orderly, Owned
<1>5. GapEnd(k) - GapStart(k) >= size
  OBVIOUS
<1>51. b = CacheBlock(u, k, size) /\ n = IF i < k THEN k - 1 ELSE k
  OBVIOUS
<1>52. d = [data EXCEPT ![u] = NULL]
  OBVIOUS
<1>53. c = Without(cache, i) /\ l = Without(lru, j)
  OBVIOUS
<1> HIDE DEF u, size, i, j, n, b, c, l, d
<1>6. /\ i \in 1..Len(cache) /\ cache[i].user = u /\ cache[i].at = data[u]
      /\ j \in 1..Len(lru) /\ lru[j] = data[u]
  BY <1>2, <1>4, PlacesAre
<1>7. /\ IsBlock(b) /\ b.user = u /\ b.at = GapStart(k)
      /\ Fits(cache, k, b)
      /\ Above(cache, hunk_low_used) => hunk_low_used <= b.at
      /\ Below(cache, HunkSize - hunk_high_used) =>
           b.at + b.size <= HunkSize - hunk_high_used
  BY <1>3, <1>4, <1>5, <1>51, GapIs
<1>8. Kept(c, l, d)
  BY <1>4, <1>52, <1>53, <1>6, FreedKept
<1>9. n \in 1..Len(c) + 1 /\ Fits(c, n, b)
  BY <1>3, <1>51, <1>53, <1>6, <1>7, FitsWithout
<1>10. d[b.user] = NULL /\ [d EXCEPT ![b.user] = b.at] = data'
  BY <1>1, <1>3, <1>4, <1>52, <1>7 DEF Owned
<1>11. Kept(With(c, n, b), With(l, 1, b.at), [d EXCEPT ![b.user] = b.at])
  BY <1>7, <1>8, <1>9, <1>10, AddedKept
<1>12. Kept(cache', lru', data')
  BY <1>1, <1>10, <1>11
<1>13. /\ Above(cache, hunk_low_used) => Above(c, hunk_low_used)
       /\ Below(cache, HunkSize - hunk_high_used) =>
            Below(c, HunkSize - hunk_high_used)
  BY <1>3, <1>53, <1>6, WithoutBounds
<1>14. KeepsBounds
  BY <1>1, <1>7, <1>8, <1>9, <1>13, WithBounds DEF KeepsBounds, Kept
<1> QED BY <1>1, <1>7, <1>12, <1>14 DEF u

\* Cache_Move: the block is in another place, or its user has none.
LEMMA MoveKeeps ==
  ASSUME Kept(cache, lru, data), EndsInv, NEW x \in 1..Len(cache),
         Cache_Move(cache[x])
  PROVE  /\ Kept(cache, lru, data)' /\ KeepsBounds
         /\ \A u \in User : data[u] = NULL => data'[u] = NULL
<1> DEFINE c == cache[x]
           gaps == Fitting(c.size, TRUE)
<1>1. Orderly(cache) /\ Owned(cache, data)
  BY DEF Kept
<1>2. c.user \in User /\ data[c.user] # NULL /\ data \in [User -> Nat]
  BY <1>1, OrderlyIs DEF Orderly, Owned
<1>3. CASE gaps = {}
  <2>1. Cache_Free(c.user)
    BY <1>3 DEF Cache_Move
  <2>2. /\ Kept(cache, lru, data)' /\ KeepsBounds
        /\ data' = [data EXCEPT ![c.user] = NULL]
    BY <1>2, <2>1, FreeKeeps
  <2> QED BY <1>2, <2>2
<1>4. CASE gaps # {}
  <2> DEFINE k == Lowest(gaps)
  <2>1. Cache_Relink(c, k)
    BY <1>4 DEF Cache_Move
  <2>2. gaps \in SUBSET Nat
    BY <1>1, OrderlyIs DEF Fitting
  <2>3. k \in gaps
    BY <1>4, <2>2, LowestIs
  <2>4. k \in 1..Len(cache) + 1 /\ GapEnd(k) - GapStart(k) >= c.size
    BY <2>3 DEF Fitting
  <2> HIDE DEF k
  <2>5. /\ Kept(cache, lru, data)' /\ KeepsBounds
        /\ data' = [data EXCEPT ![c.user] = GapStart(k)]
    BY <2>1, <2>4, RelinkKeeps
  <2> QED BY <1>2, <2>5
<1> QED BY <1>3, <1>4

\* Cache_Check: only the order of use changes.
LEMMA CheckKeeps ==
  ASSUME Kept(cache, lru, data), NEW u \in User, data[u] # NULL, Cache_Check(u)
  PROVE  Kept(cache, lru, data)' /\ cache' = cache /\ data' = data
<1> DEFINE i == BlockOf(u)
           k == LRUOf(u)
           a == data[u]
<1>1. /\ i = CHOOSE x \in 1..Len(cache) : cache[x].at = data[u]
      /\ k = CHOOSE x \in 1..Len(lru) : lru[x] = data[u]
  BY DEF BlockOf, LRUOf
<1>2. /\ lru' = With(Without(lru, k), 1, a)
      /\ cache' = cache /\ data' = data
  BY DEF Cache_Check
<1>3. Orderly(cache) /\ Owned(cache, data) /\ Distinct(lru) /\ Listed(cache, lru)
  BY DEF Kept
<1>4. a \in Nat
  BY <1>3 DEF Owned
<1> DEFINE l == Without(lru, k)
<1> HIDE DEF i, k
<1>5. k \in 1..Len(lru) /\ lru[k] = data[u]
  BY <1>1, PlacesAre
<1>6. Distinct(l) /\ Elements(l) = Elements(lru) \ {a}
  BY <1>3, <1>5, WithoutDistinct
<1>7. lru \in Seq(Nat) /\ Len(lru) \in Nat
  BY <1>3 DEF Distinct
<1>8. Len(l) = Len(lru) - 1
  BY <1>5, <1>7, WithoutIs
<1>81. a \in Elements(lru)
  BY <1>5 DEF Elements
<1> HIDE DEF l, a
<1>9. Distinct(With(l, 1, a)) /\ Elements(With(l, 1, a)) = Elements(l) \cup {a}
  BY <1>4, <1>6, WithDistinct
<1>10. Len(With(l, 1, a)) = Len(lru)
  <2> DEFINE N == Nat
  <2>1. l \in Seq(N) /\ a \in N /\ 1 \in 1..Len(l) + 1
    BY <1>4, <1>6 DEF Distinct
  <2> HIDE DEF N
  <2>2. Len(With(l, 1, a)) = Len(l) + 1
    BY <2>1, WithIs
  <2> QED BY <1>7, <1>8, <2>2
<1>11. Elements(With(l, 1, a)) = Elements(lru)
  BY <1>6, <1>81, <1>9
<1>12. lru' = With(l, 1, a)
  BY <1>2 DEF l
<1>13. Distinct(lru') /\ Listed(cache, lru')
  BY <1>3, <1>9, <1>10, <1>11, <1>12 DEF Listed
<1> QED BY <1>2, <1>3, <1>13 DEF Kept

-----------------------------------------------------------------------------
\* The steps that are left when the first one is done, and when another one has
\* taken its place.
LEMMA TailIs ==
  ASSUME NEW T, NEW t \in Seq(T), t # <<>>
  PROVE  /\ Tail(t) \in Seq(T) /\ Head(t) = t[1] /\ t[1] \in T
         /\ Len(Tail(t)) = Len(t) - 1 /\ Len(t) \in Nat \ {0}
         /\ \A i \in 1..Len(t) - 1 : Tail(t)[i] = t[i + 1]
OBVIOUS

ButFirst(t, step) == <<step>> \o Tail(t)
LEMMA ButFirstIs ==
  ASSUME NEW T, NEW t \in Seq(T), t # <<>>, NEW step \in T
  PROVE  /\ ButFirst(t, step) \in Seq(T) /\ ButFirst(t, step) # <<>>
         /\ Head(ButFirst(t, step)) = step
         /\ Len(ButFirst(t, step)) = Len(t)
         /\ ButFirst(t, step)[1] = step
         /\ \A i \in 2..Len(t) : ButFirst(t, step)[i] = t[i]
<1> DEFINE v == Tail(t)
           w == <<step>> \o v
<1>1. /\ v \in Seq(T) /\ Len(v) = Len(t) - 1 /\ Len(t) \in Nat \ {0}
      /\ \A i \in 1..Len(t) - 1 : v[i] = t[i + 1]
  BY TailIs
<1>2. /\ w \in Seq(T) /\ Len(w) = 1 + Len(v)
      /\ \A i \in 1..1 + Len(v) : w[i] = IF i <= 1 THEN step ELSE v[i - 1]
  <2> HIDE DEF v
  <2> QED BY <1>1
<1> SUFFICES /\ w \in Seq(T) /\ w # <<>> /\ Head(w) = step
             /\ Len(w) = Len(t) /\ w[1] = step
             /\ \A i \in 2..Len(t) : w[i] = t[i]
  BY DEF ButFirst
<1> HIDE DEF v, w
<1>3. Len(w) = Len(t) /\ w[1] = step /\ w # <<>>
  BY <1>1, <1>2
<1>4. Head(w) = step
  BY <1>2, <1>3
<1>5. ASSUME NEW i \in 2..Len(t)
      PROVE  w[i] = t[i]
  <2>1. i \in 1..1 + Len(v) /\ ~(i <= 1) /\ i - 1 \in 1..Len(t) - 1 /\ (i - 1) + 1 = i
    BY <1>1
  <2> QED BY <1>1, <1>2, <2>1
<1> QED BY <1>2, <1>3, <1>4, <1>5

-----------------------------------------------------------------------------
LEMMA StepIs ==
  ASSUME NEW s \in Step
  PROVE  /\ s.op \in {"FreeLow", "FreeHigh", "Hunk_TempAlloc", "Hunk_AllocName",
                      "Hunk_FreeToLowMark", "Cache_Alloc"}
         /\ s.op \in {"Hunk_TempAlloc", "Hunk_AllocName"} => s.size \in Nat
         /\ s.op = "Hunk_FreeToLowMark" => s.mark \in Nat
         /\ s.op = "Cache_Alloc" =>
              s.user \in User /\ s.size \in Nat /\ s.size > 0
BY DEF Step

\* When the first step is done, what is left is in order.
LEMMA TailTodo ==
  ASSUME NEW t, NEW low, TodoIs(t, low), t # <<>>, NEW low2,
         t[1].op = "Hunk_FreeToLowMark" \/ low2 = low
  PROVE  /\ TodoIs(Tail(t), low2)
         /\ Tail(t) # <<>> => Head(Tail(t)).op \notin {"FreeLow", "FreeHigh"}
<1> DEFINE S == Step
           v == Tail(t)
<1>1. t \in Seq(S)
  BY DEF TodoIs
<1> HIDE DEF S
<1>2. /\ v \in Seq(S) /\ Len(v) = Len(t) - 1 /\ Len(t) \in Nat \ {0}
      /\ \A i \in 1..Len(t) - 1 : v[i] = t[i + 1]
      /\ v # <<>> => Head(v) = v[1] /\ 1 \in 1..Len(v)
  <2>1. /\ v \in Seq(S) /\ Len(v) = Len(t) - 1 /\ Len(t) \in Nat \ {0}
        /\ \A i \in 1..Len(t) - 1 : v[i] = t[i + 1]
    BY <1>1, TailIs
  <2> HIDE DEF v
  <2>2. v # <<>> => Head(v) = v[1] /\ 1 \in 1..Len(v)
    BY <2>1
  <2> QED BY <2>1, <2>2
<1> HIDE DEF v
<1>3. ASSUME NEW i \in 1..Len(v)
      PROVE  i + 1 \in 1..Len(t) /\ i + 1 # 1 /\ v[i] = t[i + 1]
             /\ (i + 1 = Len(t) => i = Len(v))
  BY <1>2
<1>4. \A i \in 1..Len(v) : v[i].op \notin {"FreeLow", "FreeHigh"}
  BY <1>3 DEF TodoIs
<1>5. ASSUME NEW i \in 1..Len(v), v[i].op = "Hunk_FreeToLowMark"
      PROVE  i = Len(v) /\ HunkLevel <= v[i].mark /\ v[i].mark <= low2
  <2>1. /\ i + 1 = Len(t)
        /\ HunkLevel <= v[i].mark /\ v[i].mark <= low
    BY <1>3, <1>5 DEF TodoIs
  <2>2. t[1].op # "Hunk_FreeToLowMark"
    <3>1. 1 \in 1..Len(t) /\ 1 # Len(t)
      BY <1>2, <1>3, <2>1
    <3> QED BY <3>1 DEF TodoIs
  <2> QED BY <1>3, <2>1, <2>2
<1>6. ASSUME NEW i \in 1..Len(v), v[i].op = "Cache_Alloc",
             NEW j \in 1..Len(v), v[j].op = "Cache_Alloc"
      PROVE  j = i
  <2>1. i + 1 = j + 1
    BY <1>3, <1>6 DEF TodoIs
  <2> QED BY <2>1, <1>2
<1>7. TodoIs(v, low2)
  BY <1>2, <1>4, <1>5, <1>6 DEF TodoIs, S
<1> QED BY <1>2, <1>4, <1>7 DEF v

\* The loop that makes room takes the place of the allocation that needs it.
LEMMA ButFirstTodo ==
  ASSUME NEW t, NEW low \in Nat, TodoIs(t, low), t # <<>>,
         NEW low2 \in Nat, low <= low2,
         t[1].op \in {"FreeHigh", "Hunk_AllocName", "Hunk_TempAlloc"},
         NEW step \in Step, step.op \in {"FreeLow", "FreeHigh"}
  PROVE  TodoIs(ButFirst(t, step), low2)
<1> DEFINE S == Step
           v == ButFirst(t, step)
<1>1. t \in Seq(S) /\ step \in S
  BY DEF TodoIs
<1> HIDE DEF S
<1>2. /\ v \in Seq(S) /\ Len(v) = Len(t) /\ v[1] = step
      /\ \A i \in 2..Len(t) : v[i] = t[i]
  <2>1. \A u \in Seq(S) : \A e \in S : u # <<>> =>
          /\ ButFirst(u, e) \in Seq(S) /\ Len(ButFirst(u, e)) = Len(u)
          /\ ButFirst(u, e)[1] = e
          /\ \A i \in 2..Len(u) : ButFirst(u, e)[i] = u[i]
    BY ButFirstIs
  <2> QED BY <1>1, <2>1
<1>10. \A i \in 1..Len(t) : t[i].op = "Hunk_FreeToLowMark" => t[i].mark \in Nat
  <2>1. \A i \in 1..Len(t) : t[i] \in S
    BY <1>1
  <2> QED BY <2>1, StepIs DEF S
<1>3. Len(t) \in Nat \ {0}
  BY <1>1
<1> HIDE DEF v
<1>4. \A i \in 1..Len(v) : i # 1 => i \in 1..Len(t) /\ v[i] = t[i]
  BY <1>2, <1>3
<1>5. \A i \in 1..Len(v) : v[i].op \in {"FreeLow", "FreeHigh"} => i = 1
  BY <1>4 DEF TodoIs
<1>6. ASSUME NEW i \in 1..Len(v), v[i].op = "Hunk_FreeToLowMark"
      PROVE  i = Len(v) /\ HunkLevel <= v[i].mark /\ v[i].mark <= low2
  <2>1. i # 1
    BY <1>2, <1>6
  <2>2. i = Len(v) /\ HunkLevel <= v[i].mark /\ v[i].mark <= low
    BY <1>2, <1>4, <1>6, <2>1 DEF TodoIs
  <2> QED BY <1>4, <1>6, <1>10, <2>1, <2>2
<1>7. ASSUME NEW i \in 1..Len(v), v[i].op = "Cache_Alloc",
             NEW j \in 1..Len(v), v[j].op = "Cache_Alloc"
      PROVE  j = i
  <2>1. i # 1 /\ j # 1
    BY <1>2, <1>7
  <2> QED BY <1>4, <1>7, <2>1 DEF TodoIs
<1>8. TodoIs(v, low2)
  BY <1>2, <1>5, <1>6, <1>7 DEF TodoIs, S
<1> QED BY <1>8 DEF v

\* What waits for a block still does when another step has been taken.
LEMMA TailPending ==
  ASSUME NEW t \in Seq(Step), t # <<>>, NEW d, NEW n, Pending(t, d, n)
  PROVE  Pending(Tail(t), d, n)
<1> DEFINE S == Step
           v == Tail(t)
<1>1. t \in Seq(S)
  OBVIOUS
<1> HIDE DEF S
<1>2. /\ Len(v) = Len(t) - 1 /\ Len(t) \in Nat \ {0}
      /\ \A i \in 1..Len(t) - 1 : v[i] = t[i + 1]
  BY <1>1, TailIs
<1> HIDE DEF v
<1>3. \A i \in 1..Len(v) : i + 1 \in 1..Len(t) /\ v[i] = t[i + 1]
  BY <1>2
<1>4. Pending(v, d, n)
  BY <1>3 DEF Pending
<1> QED BY <1>4 DEF v

LEMMA ButFirstPending ==
  ASSUME NEW t \in Seq(Step), t # <<>>, NEW d, NEW n, Pending(t, d, n),
         NEW step \in Step, step.op # "Cache_Alloc"
  PROVE  Pending(ButFirst(t, step), d, n)
<1> DEFINE S == Step
           v == ButFirst(t, step)
<1>1. t \in Seq(S) /\ step \in S
  OBVIOUS
<1> HIDE DEF S
<1>2. /\ Len(v) = Len(t) /\ v[1] = step
      /\ \A i \in 2..Len(t) : v[i] = t[i]
  BY <1>1, ButFirstIs
<1>3. Len(t) \in Nat \ {0}
  BY <1>1
<1> HIDE DEF v
<1>4. \A i \in 1..Len(v) : i # 1 => i \in 1..Len(t) /\ v[i] = t[i]
  BY <1>2, <1>3
<1>5. Pending(v, d, n)
  BY <1>2, <1>4 DEF Pending
<1> QED BY <1>5 DEF v

\* What waits for a block when blocks have gone.
LEMMA FewerPending ==
  ASSUME NEW t \in Seq(Step), NEW d, NEW n, Pending(t, d, n), NEW e,
         \A u \in User : d[u] = NULL => e[u] = NULL
  PROVE  Pending(t, e, n)
<1> DEFINE S == Step
<1>1. \A i \in 1..Len(t) : t[i] \in S
  <2>1. t \in Seq(S)
    OBVIOUS
  <2> HIDE DEF S
  <2> QED BY <2>1
<1>2. \A i \in 1..Len(t) : t[i].op = "Cache_Alloc" => t[i].user \in User
  BY <1>1, StepIs
<1> QED BY <1>2 DEF Pending, User

\* ... and when the block has come for which the first step waited.
LEMMA AllocPending ==
  ASSUME NEW t, NEW low, TodoIs(t, low), t # <<>>, NEW d \in [User -> Nat],
         NEW n, Pending(t, d, n), t[1].op = "Cache_Alloc", NEW at \in Nat
  PROVE  Pending(Tail(t), [d EXCEPT ![t[1].user] = at], n)
<1> DEFINE S == Step
           v == Tail(t)
           u == t[1].user
           e == [d EXCEPT ![u] = at]
<1>1. t \in Seq(S)
  BY DEF TodoIs
<1> HIDE DEF S
<1>2. /\ Len(v) = Len(t) - 1 /\ Len(t) \in Nat \ {0}
      /\ \A i \in 1..Len(t) - 1 : v[i] = t[i + 1]
  BY <1>1, TailIs
<1> HIDE DEF v
<1>3. \A i \in 1..Len(v) : i + 1 \in 1..Len(t) /\ i + 1 # 1 /\ v[i] = t[i + 1]
  BY <1>2
<1>4. 1 \in 1..Len(t)
  BY <1>2
<1>5. \A i \in 1..Len(v) : v[i].op # "Cache_Alloc"
  BY <1>3, <1>4 DEF TodoIs
<1>6. u \in Model => ~n[u]
  BY <1>4 DEF Pending
<1>7. \A m \in Model : n[m] => e[m] = NULL
  <2> SUFFICES ASSUME NEW m \in Model, n[m] PROVE e[m] = NULL
    OBVIOUS
  <2>1. m # u /\ d[m] = NULL /\ m \in User
    BY <1>6 DEF Pending, User
  <2> HIDE DEF u
  <2> QED BY <2>1
<1> HIDE DEF e, u
<1>8. Pending(v, e, n)
  BY <1>5, <1>7 DEF Pending
<1> QED BY <1>8 DEF v, e, u

-----------------------------------------------------------------------------
\* The step that runs is the first of those that are left.
LEMMA DoesIs ==
  ASSUME HunkInv, NEW op, Does(op)
  PROVE  /\ failed = "no" /\ todo # <<>> /\ todo \in Seq(Step)
         /\ Head(todo) = todo[1] /\ todo[1] \in Step /\ todo[1].op = op
         /\ 1 \in 1..Len(todo)
         /\ GrowingLow <=> op = "FreeLow"
         /\ GrowingHigh <=> op = "FreeHigh"
<1> DEFINE S == Step
<1>1. todo \in Seq(S) /\ failed = "no" /\ todo # <<>> /\ Head(todo).op = op
  BY DEF HunkInv, TodoIs, Does, Running
<1>2. GrowingLow <=> op = "FreeLow"
  BY <1>1 DEF GrowingLow, Does, Running
<1>3. GrowingHigh <=> op = "FreeHigh"
  BY <1>1 DEF GrowingHigh, Does, Running
<1> HIDE DEF S
<1>4. Head(todo) = todo[1] /\ todo[1] \in S /\ Len(todo) \in Nat \ {0}
  BY <1>1, TailIs
<1> QED BY <1>1, <1>2, <1>3, <1>4 DEF S

LEMMA AboveIs ==
  ASSUME NEW c, Orderly(c), NEW low \in Nat, c = <<>> \/ c[1].at >= low
  PROVE  Above(c, low)
<1> SUFFICES ASSUME NEW i \in 1..Len(c) PROVE low <= c[i].at
  BY DEF Above
<1>1. Len(c) \in Nat
  BY OrderlyIs
<1>2. 1 \in 1..Len(c) /\ c[1].at >= low
  <2>1. c # <<>>
    BY <1>1
  <2> QED BY <1>1, <2>1
<1>3. c[1].at \in Nat /\ c[1].size \in Nat /\ c[i].at \in Nat
  BY <1>2, OrderlyIs
<1>4. i = 1 \/ c[1].at + c[1].size <= c[i].at
  BY <1>2 DEF Orderly
<1> QED BY <1>2, <1>3, <1>4

LEMMA BelowIs ==
  ASSUME NEW c, Orderly(c), NEW end \in Int,
         c = <<>> \/ c[Len(c)].at + c[Len(c)].size <= end
  PROVE  Below(c, end)
<1> SUFFICES ASSUME NEW i \in 1..Len(c) PROVE c[i].at + c[i].size <= end
  BY DEF Below
<1> DEFINE n == Len(c)
<1>1. n \in Nat
  BY OrderlyIs
<1>2. n \in 1..n /\ c[n].at + c[n].size <= end
  <2>1. c # <<>>
    BY <1>1
  <2> QED BY <1>1, <2>1
<1>3. c[n].at \in Nat /\ c[n].size \in Nat /\ c[i].at \in Nat /\ c[i].size \in Nat
  BY <1>2, OrderlyIs
<1>4. i = n \/ c[i].at + c[i].size <= c[n].at
  BY <1>1, <1>2 DEF Orderly
<1> QED BY <1>2, <1>3, <1>4

LEMMA LowFreed ==
  ASSUME HunkInv, Cache_FreeLow
  PROVE  HunkInv'
<1>1. Does("FreeLow") /\ UNCHANGED <<endVars, needload, failed>>
  BY DEF Cache_FreeLow
<1>2. /\ failed = "no" /\ todo # <<>> /\ todo \in Seq(Step)
      /\ todo[1].op = "FreeLow" /\ GrowingLow /\ ~GrowingHigh
  BY <1>1, DoesIs
<1>3. Kept(cache, lru, data) /\ EndsInv /\ TodoIs(todo, hunk_low_used)
  BY DEF HunkInv
<1>4. Orderly(cache) /\ hunk_low_used \in Nat
  BY <1>3 DEF Kept, EndsInv
<1>5. EndsInv'
  BY <1>1, <1>3 DEF EndsInv, EndsStayApart, Room, endVars
<1>6. Below(cache, HunkSize - hunk_high_used)
  BY <1>2 DEF HunkInv, BetweenInv
<1>7. hunk_low_used' = hunk_low_used /\ hunk_high_used' = hunk_high_used
  BY <1>1 DEF endVars
<1>8. CASE cache # <<>> /\ cache[1].at < hunk_low_used
  <2>1. Cache_Move(cache[1]) /\ todo' = todo
    BY <1>8 DEF Cache_FreeLow
  <2>2. 1 \in 1..Len(cache)
    BY <1>8, <1>4 DEF Orderly
  <2>3. /\ Kept(cache, lru, data)' /\ KeepsBounds
        /\ \A u \in User : data[u] = NULL => data'[u] = NULL
    BY <1>3, <2>1, <2>2, MoveKeeps
  <2>4. BetweenInv'
    <3>1. GrowingLow'
      BY <1>1, <1>2, <2>1 DEF GrowingLow, Does, Running
    <3>2. Below(cache', HunkSize - hunk_high_used')
      BY <1>6, <1>7, <2>3 DEF KeepsBounds
    <3> QED BY <3>1, <3>2 DEF BetweenInv
  <2>5. ASSUME ~ClearModels PROVE Pending(todo', data', needload')
    <3>1. Pending(todo, data, needload)
      BY <2>5 DEF HunkInv
    <3>2. Pending(todo, data', needload)
      BY <1>2, <2>3, <3>1, FewerPending
    <3> QED BY <1>1, <2>1, <3>2
  <2>6. TodoIs(todo', hunk_low_used')
    BY <1>3, <1>7, <2>1
  <2> QED BY <1>1, <1>5, <2>3, <2>4, <2>5, <2>6 DEF HunkInv
<1>9. CASE ~(cache # <<>> /\ cache[1].at < hunk_low_used)
  <2>1. todo' = Tail(todo) /\ UNCHANGED cacheVars
    BY <1>9 DEF Cache_FreeLow, Done
  <2>2. Above(cache, hunk_low_used)
    <3>1. cache = <<>> \/ cache[1].at >= hunk_low_used
      <4>1. CASE cache = <<>>
        BY <4>1
      <4>2. CASE cache # <<>>
        <5>1. 1 \in 1..Len(cache)
          BY <1>4, <4>2 DEF Orderly
        <5>2. cache[1].at \in Nat
          BY <1>4, <5>1, OrderlyIs
        <5> QED BY <1>4, <1>9, <4>2, <5>2
      <4> QED BY <4>1, <4>2
    <3> QED BY <1>4, <3>1, AboveIs
  <2>3. BetweenInv'
    BY <1>6, <1>7, <2>1, <2>2 DEF BetweenInv, cacheVars
  <2>4. TodoIs(Tail(todo), hunk_low_used)
    BY <1>2, <1>3, TailTodo
  <2>5. ASSUME ~ClearModels PROVE Pending(Tail(todo), data, needload)
    <3>1. Pending(todo, data, needload)
      BY <2>5 DEF HunkInv
    <3> QED BY <1>2, <3>1, TailPending
  <2>6. Kept(cache', lru', data') /\ data' = data
    BY <1>3, <2>1 DEF cacheVars
  <2> QED BY <1>1, <1>5, <1>7, <2>1, <2>3, <2>4, <2>5, <2>6 DEF HunkInv
<1> QED BY <1>8, <1>9

LEMMA HighFreed ==
  ASSUME HunkInv, Cache_FreeHigh
  PROVE  HunkInv'
<1> DEFINE c == cache[Len(cache)]
           end == HunkSize - hunk_high_used
<1>1. Does("FreeHigh") /\ UNCHANGED <<endVars, needload, failed>>
  BY DEF Cache_FreeHigh
<1>2. /\ failed = "no" /\ todo # <<>> /\ todo \in Seq(Step)
      /\ Head(todo) = todo[1] /\ todo[1] \in Step
      /\ todo[1].op = "FreeHigh" /\ ~GrowingLow /\ GrowingHigh
  BY <1>1, DoesIs
<1>3. Kept(cache, lru, data) /\ EndsInv /\ TodoIs(todo, hunk_low_used)
  BY DEF HunkInv
<1>4. /\ Orderly(cache) /\ Owned(cache, data) /\ hunk_low_used \in Nat
      /\ hunk_high_used \in Nat
  BY <1>3 DEF Kept, EndsInv
<1>5. EndsInv'
  BY <1>1, <1>3 DEF EndsInv, EndsStayApart, Room, endVars
<1>6. Above(cache, hunk_low_used)
  BY <1>2 DEF HunkInv, BetweenInv
<1>7. hunk_low_used' = hunk_low_used /\ hunk_high_used' = hunk_high_used
  BY <1>1 DEF endVars
<1>8. CASE cache # <<>> /\ c.at + c.size > end
  <2>1. Len(cache) \in 1..Len(cache)
    BY <1>8, <1>4 DEF Orderly
  <2>2. c.user \in User /\ data[c.user] # NULL /\ c.at \in Nat
    BY <1>4, <2>1, OrderlyIs DEF Owned
  <2>3. CASE c.at = Head(todo).prev
    <3>1. Cache_Free(c.user) /\ todo' = todo
      BY <1>8, <2>3 DEF Cache_FreeHigh
    <3>2. /\ Kept(cache, lru, data)' /\ KeepsBounds
          /\ data' = [data EXCEPT ![c.user] = NULL]
      BY <1>3, <2>2, <3>1, FreeKeeps
    <3>3. \A u \in User : data[u] = NULL => data'[u] = NULL
      BY <1>4, <2>2, <3>2 DEF Owned
    <3>4. BetweenInv'
      <4>1. GrowingHigh'
        BY <1>1, <1>2, <3>1 DEF GrowingHigh, Does, Running
      <4>2. Above(cache', hunk_low_used')
        BY <1>6, <1>7, <3>2 DEF KeepsBounds
      <4> QED BY <4>1, <4>2 DEF BetweenInv
    <3>5. ASSUME ~ClearModels PROVE Pending(todo', data', needload')
      <4>1. Pending(todo, data, needload)
        BY <3>5 DEF HunkInv
      <4>2. Pending(todo, data', needload)
        BY <1>2, <3>3, <4>1, FewerPending
      <4> QED BY <1>1, <3>1, <4>2
    <3>6. TodoIs(todo', hunk_low_used')
      BY <1>3, <1>7, <3>1
    <3> QED BY <1>1, <1>5, <3>2, <3>4, <3>5, <3>6 DEF HunkInv
  <2>4. CASE c.at # Head(todo).prev
    <3> DEFINE step == [Head(todo) EXCEPT !.prev = c.at]
    <3>1. Cache_Move(c) /\ todo' = ButFirst(todo, step)
      BY <1>8, <2>4 DEF Cache_FreeHigh, DoneBut, ButFirst
    <3>2. step \in Step /\ step.op = "FreeHigh"
      <4>1. todo[1] \in [op : {"FreeHigh"}, prev : Nat]
        BY <1>2 DEF Step
      <4>2. step \in [op : {"FreeHigh"}, prev : Nat]
        BY <1>2, <2>2, <4>1
      <4> QED BY <4>2 DEF Step
    <3>3. /\ Kept(cache, lru, data)' /\ KeepsBounds
          /\ \A u \in User : data[u] = NULL => data'[u] = NULL
      BY <1>3, <2>1, <3>1, MoveKeeps
    <3> HIDE DEF step
    <3>4. todo' # <<>> /\ Head(todo') = step
      <4> DEFINE S == Step
      <4>1. todo \in Seq(S) /\ step \in S /\ todo # <<>>
        BY <1>2, <3>2
      <4> HIDE DEF S
      <4>2. /\ ButFirst(todo, step) # <<>>
            /\ Head(ButFirst(todo, step)) = step
        BY <4>1, ButFirstIs
      <4> QED BY <3>1, <4>2
    <3>5. BetweenInv'
      <4>1. GrowingHigh'
        BY <1>1, <1>2, <3>2, <3>4 DEF GrowingHigh, Does, Running
      <4>2. Above(cache', hunk_low_used')
        BY <1>6, <1>7, <3>3 DEF KeepsBounds
      <4> QED BY <4>1, <4>2 DEF BetweenInv
    <3>6. ASSUME ~ClearModels PROVE Pending(todo', data', needload')
      <4>1. Pending(todo, data, needload)
        BY <3>6 DEF HunkInv
      <4>2. Pending(todo, data', needload)
        BY <1>2, <3>3, <4>1, FewerPending
      <4>3. Pending(ButFirst(todo, step), data', needload)
        BY <1>2, <3>2, <4>2, ButFirstPending
      <4> QED BY <1>1, <3>1, <4>3
    <3>7. TodoIs(todo', hunk_low_used')
      BY <1>2, <1>3, <1>4, <1>7, <3>1, <3>2, ButFirstTodo
    <3> QED BY <1>1, <1>5, <3>3, <3>5, <3>6, <3>7 DEF HunkInv
  <2> QED BY <2>3, <2>4
<1>9. CASE ~(cache # <<>> /\ c.at + c.size > end)
  <2>1. todo' = Tail(todo) /\ UNCHANGED cacheVars
    BY <1>9 DEF Cache_FreeHigh, Done
  <2>2. Below(cache, end)
    <3>1. cache = <<>> \/ c.at + c.size <= end
      <4>1. CASE cache = <<>>
        BY <4>1
      <4>2. CASE cache # <<>>
        <5>1. Len(cache) \in 1..Len(cache)
          BY <1>4, <4>2 DEF Orderly
        <5>2. c.at \in Nat /\ c.size \in Nat
          BY <1>4, <5>1, OrderlyIs
        <5> QED BY <1>4, <1>9, <4>2, <5>2, HunkAssumption
      <4> QED BY <4>1, <4>2
    <3>2. end \in Int
      BY <1>4, HunkAssumption
    <3> HIDE DEF end
    <3> QED BY <1>4, <3>1, <3>2, BelowIs
  <2>3. BetweenInv'
    BY <1>6, <1>7, <2>1, <2>2 DEF BetweenInv, cacheVars
  <2>4. TodoIs(Tail(todo), hunk_low_used)
    BY <1>2, <1>3, TailTodo
  <2>5. ASSUME ~ClearModels PROVE Pending(Tail(todo), data, needload)
    <3>1. Pending(todo, data, needload)
      BY <2>5 DEF HunkInv
    <3> QED BY <1>2, <3>1, TailPending
  <2>6. Kept(cache', lru', data') /\ data' = data
    BY <1>3, <2>1 DEF cacheVars
  <2> QED BY <1>1, <1>5, <1>7, <2>1, <2>3, <2>4, <2>5, <2>6 DEF HunkInv
<1> QED BY <1>8, <1>9

-----------------------------------------------------------------------------
\* When a step ends the program, all else stays as it is.
OnlyFails ==
  /\ failed' \in Failures
  /\ UNCHANGED <<endVars, cacheVars, needload, todo>>
LEMMA ErrorKeepsHunk ==
  ASSUME HunkInv, ~GrowingLow, ~GrowingHigh,
         OnlyFails
  PROVE  HunkInv'
<1>1. UNCHANGED <<endVars, cacheVars, needload, todo>>
  BY DEF OnlyFails
<1>3. BetweenInv'
  BY <1>1 DEF BetweenInv, HunkInv, endVars, cacheVars
<1>4. EndsInv'
  BY <1>1 DEF HunkInv, EndsInv, EndsStayApart, Room, endVars
<1>5. Kept(cache', lru', data') /\ TodoIs(todo', hunk_low_used')
  BY <1>1 DEF HunkInv, cacheVars, endVars
<1>6. ~ClearModels => Pending(todo', data', needload')
  BY <1>1 DEF HunkInv, cacheVars
<1> QED BY <1>1, <1>3, <1>4, <1>5, <1>6 DEF HunkInv, OnlyFails

LEMMA AllocKeeps ==
  ASSUME HunkInv, Cache_Alloc
  PROVE  HunkInv'
<1> DEFINE u == Head(todo).user
           size == Head(todo).size
           gaps == Fitting(size, FALSE)
           k == Lowest(gaps)
           b == CacheBlock(u, k, size)
<1>1. Does("Cache_Alloc")
  BY DEF Cache_Alloc
<1>2. /\ failed = "no" /\ todo # <<>> /\ todo \in Seq(Step)
      /\ Head(todo) = todo[1] /\ todo[1] \in Step /\ 1 \in 1..Len(todo)
      /\ todo[1].op = "Cache_Alloc" /\ ~GrowingLow /\ ~GrowingHigh
  BY <1>1, DoesIs
<1>3. Kept(cache, lru, data) /\ EndsInv /\ TodoIs(todo, hunk_low_used)
  BY DEF HunkInv
<1>4. u \in User /\ size \in Nat /\ size > 0
  BY <1>2, StepIs
<1>5. /\ Orderly(cache) /\ Owned(cache, data) /\ Distinct(lru)
      /\ Listed(cache, lru) /\ data \in [User -> Nat]
  BY <1>3 DEF Kept, Owned
<1>6. Above(cache, hunk_low_used) /\ Below(cache, HunkSize - hunk_high_used)
  BY <1>2 DEF HunkInv, BetweenInv
<1>7. CASE data[u] # NULL
  <2>1. Sys_Error("Cache_Alloc: already allocated")
    BY <1>7 DEF Cache_Alloc
  <2>2. ClearModels
    <3>1. ~ClearModels => data[u] = NULL
      BY <1>2 DEF HunkInv, Pending
    <3> QED BY <1>7, <3>1
  <2>3. OnlyFails
    BY <2>1, <2>2 DEF Sys_Error, OnlyFails, Failures
  <2> QED BY <1>2, <2>3, ErrorKeepsHunk
<1>8. CASE data[u] = NULL /\ gaps # {} /\ UNCHANGED <<endVars, needload, failed>>
           /\ cache' = With(cache, k, b) /\ lru' = With(lru, 1, b.at)
           /\ data' = [data EXCEPT ![u] = b.at] /\ Done
  <2>1. k \in gaps
    <3>1. gaps \in SUBSET Nat
      BY <1>5, OrderlyIs DEF Fitting
    <3> HIDE DEF gaps
    <3> QED BY <1>8, <3>1, LowestIs
  <2>2. k \in 1..Len(cache) + 1 /\ GapEnd(k) - GapStart(k) >= size
    BY <2>1 DEF Fitting
  <2>3. /\ cache' = With(cache, k, b) /\ lru' = With(lru, 1, b.at)
        /\ data' = [data EXCEPT ![u] = b.at] /\ todo' = Tail(todo)
        /\ b = CacheBlock(u, k, size)
    BY <1>8 DEF Done
  <2>4. u = todo[1].user
    BY <1>2
  <2> HIDE DEF b, k, gaps, u, size
  <2>5. /\ IsBlock(b) /\ b.user = u /\ b.at = GapStart(k)
        /\ Fits(cache, k, b)
        /\ hunk_low_used <= b.at
        /\ b.at + b.size <= HunkSize - hunk_high_used
    BY <1>3, <1>4, <1>5, <1>6, <2>2, <2>3, GapIs
  <2>6. Kept(With(cache, k, b), With(lru, 1, b.at), [data EXCEPT ![b.user] = b.at])
    <3>1. data[b.user] = NULL
      BY <1>8, <2>5
    <3> QED BY <1>3, <2>2, <2>5, <3>1, AddedKept
  <2>7. Kept(cache', lru', data')
    BY <2>3, <2>5, <2>6
  <2>8. /\ Above(With(cache, k, b), hunk_low_used)
        /\ Below(With(cache, k, b), HunkSize - hunk_high_used)
    BY <1>5, <1>6, <2>2, <2>5, WithBounds
  <2>9. /\ hunk_low_used' = hunk_low_used /\ hunk_high_used' = hunk_high_used
        /\ needload' = needload /\ failed' = failed
    BY <1>8 DEF endVars
  <2>10. BetweenInv'
    BY <2>3, <2>8, <2>9 DEF BetweenInv
  <2>11. EndsInv'
    BY <1>3, <1>8 DEF EndsInv, EndsStayApart, Room, endVars
  <2>12. TodoIs(Tail(todo), hunk_low_used)
    BY <1>2, <1>3, TailTodo
  <2>13. ASSUME ~ClearModels PROVE Pending(todo', data', needload')
    <3>1. Pending(todo, data, needload)
      BY <2>13 DEF HunkInv
    <3>2. b.at \in Nat
      BY <2>5 DEF IsBlock
    <3>3. Pending(Tail(todo), [data EXCEPT ![todo[1].user] = b.at], needload)
      BY <1>2, <1>3, <1>5, <3>1, <3>2, AllocPending
    <3> QED BY <2>3, <2>4, <2>9, <3>3
  <2> QED BY <2>3, <2>7, <2>9, <2>10, <2>11, <2>12, <2>13 DEF HunkInv
<1>9. CASE data[u] = NULL /\ cache # <<>>
           /\ (\E v \in User : data[v] = lru[Len(lru)] /\ Cache_Free(v))
           /\ UNCHANGED <<endVars, needload, todo, failed>>
  <2>1. PICK v \in User : data[v] = lru[Len(lru)] /\ Cache_Free(v)
    BY <1>9
  <2>2. data[v] # NULL
    <3>1. Len(cache) \in Nat \ {0}
      BY <1>5, <1>9 DEF Orderly
    <3>2. Len(lru) \in 1..Len(lru)
      BY <1>5, <3>1 DEF Listed
    <3>3. lru[Len(lru)] \in Addresses(cache)
      BY <1>5, <3>2 DEF Listed, Elements
    <3>4. PICK i \in 1..Len(cache) : lru[Len(lru)] = cache[i].at
      BY <3>3 DEF Addresses
    <3> QED BY <1>5, <2>1, <3>4, OrderlyIs
  <2>3. /\ Kept(cache, lru, data)' /\ KeepsBounds
        /\ data' = [data EXCEPT ![v] = NULL]
    BY <1>3, <2>1, <2>2, FreeKeeps
  <2>4. \A x \in User : data[x] = NULL => data'[x] = NULL
    BY <1>5, <2>3
  <2>5. /\ hunk_low_used' = hunk_low_used /\ hunk_high_used' = hunk_high_used
        /\ needload' = needload /\ failed' = failed /\ todo' = todo
    BY <1>9 DEF endVars
  <2>6. BetweenInv'
    BY <1>6, <2>3, <2>5 DEF BetweenInv, KeepsBounds
  <2>7. EndsInv'
    BY <1>3, <1>9 DEF EndsInv, EndsStayApart, Room, endVars
  <2>8. ASSUME ~ClearModels PROVE Pending(todo', data', needload')
    <3>1. Pending(todo, data, needload)
      BY <2>8 DEF HunkInv
    <3>2. Pending(todo, data', needload)
      BY <1>2, <2>4, <3>1, FewerPending
    <3> QED BY <2>5, <3>2
  <2>9. TodoIs(todo', hunk_low_used')
    BY <1>3, <2>5
  <2> QED BY <2>3, <2>5, <2>6, <2>7, <2>8, <2>9 DEF HunkInv
<1>10. CASE Sys_Error("Cache_TryAlloc: greater than free hunk")
  <2>1. OnlyFails
    BY <1>10 DEF Sys_Error, OnlyFails, Failures
  <2> QED BY <1>2, <2>1, ErrorKeepsHunk
<1> QED BY <1>7, <1>8, <1>9, <1>10 DEF Cache_Alloc

-----------------------------------------------------------------------------
\* A loop that makes room runs when it is the first step.
LEMMA LoopRuns ==
  ASSUME HunkInv, failed = "no", todo # <<>>, failed' = failed,
         NEW step \in Step, todo' = ButFirst(todo, step)
  PROVE  /\ step.op = "FreeLow" => GrowingLow'
         /\ step.op = "FreeHigh" => GrowingHigh'
<1> DEFINE S == Step
<1>1. todo \in Seq(S) /\ step \in S /\ todo # <<>>
  BY DEF HunkInv, TodoIs
<1> HIDE DEF S
<1>2. ButFirst(todo, step) # <<>> /\ Head(ButFirst(todo, step)) = step
  BY <1>1, ButFirstIs
<1>3. failed' = "no" /\ todo' # <<>> /\ Head(todo') = step
  BY <1>2
<1>4. step.op = "FreeLow" => GrowingLow'
  BY <1>3 DEF GrowingLow, Does, Running
<1>5. step.op = "FreeHigh" => GrowingHigh'
  BY <1>3 DEF GrowingHigh, Does, Running
<1> QED BY <1>4, <1>5

LEMMA LowAllocKeeps ==
  ASSUME HunkInv, Hunk_AllocName
  PROVE  HunkInv'
<1> DEFINE size == Head(todo).size
           step == [op |-> "FreeLow"]
<1>1. Does("Hunk_AllocName")
  BY DEF Hunk_AllocName
<1>2. /\ failed = "no" /\ todo # <<>> /\ todo \in Seq(Step)
      /\ Head(todo) = todo[1] /\ todo[1] \in Step
      /\ todo[1].op = "Hunk_AllocName" /\ ~GrowingLow /\ ~GrowingHigh
  BY <1>1, DoesIs
<1>3. size \in Nat
  BY <1>2, StepIs
<1>4. CASE Room < size
  <2>1. Sys_Error("Hunk_AllocName: not enough RAM")
    BY <1>4 DEF Hunk_AllocName
  <2>2. OnlyFails
    BY <2>1 DEF Sys_Error, OnlyFails, Failures
  <2> QED BY <1>2, <2>2, ErrorKeepsHunk
<1>5. CASE ~(Room < size)
  <2>1. /\ hunk_low_used' = hunk_low_used + size + HUNK_HEADER
        /\ todo' = ButFirst(todo, step)
        /\ UNCHANGED <<hunk_high_used, hunk_tempactive, hunk_tempmark,
                       cacheVars, needload, failed>>
    BY <1>5 DEF Hunk_AllocName, DoneBut, ButFirst
  <2>2. step \in Step /\ step.op = "FreeLow"
    BY DEF Step
  <2>3. Kept(cache, lru, data) /\ EndsInv /\ TodoIs(todo, hunk_low_used)
    BY DEF HunkInv
  <2>4. EndsInv'
    BY <1>3, <1>5, <2>1, <2>3, HunkAssumption
    DEF EndsInv, EndsStayApart, Room, HUNK_HEADER
  <2>5. hunk_low_used \in Nat /\ hunk_low_used' \in Nat
        /\ hunk_low_used <= hunk_low_used'
    BY <1>3, <2>1, <2>3 DEF EndsInv, HUNK_HEADER
  <2> HIDE DEF step
  <2>6. TodoIs(todo', hunk_low_used')
    BY <1>2, <2>1, <2>2, <2>3, <2>5, ButFirstTodo
  <2>7. BetweenInv'
    <3>1. GrowingLow'
      BY <1>2, <2>1, <2>2, LoopRuns
    <3>2. Below(cache, HunkSize - hunk_high_used)
      BY <1>2 DEF HunkInv, BetweenInv
    <3> QED BY <2>1, <3>1, <3>2 DEF BetweenInv, cacheVars
  <2>8. ASSUME ~ClearModels PROVE Pending(todo', data', needload')
    <3>1. Pending(todo, data, needload)
      BY <2>8 DEF HunkInv
    <3>2. Pending(ButFirst(todo, step), data, needload)
      BY <1>2, <2>2, <3>1, ButFirstPending
    <3> QED BY <2>1, <3>2 DEF cacheVars
  <2>9. Kept(cache', lru', data')
    BY <2>1, <2>3 DEF cacheVars
  <2> QED BY <2>1, <2>4, <2>6, <2>7, <2>8, <2>9 DEF HunkInv
<1> QED BY <1>4, <1>5

LEMMA TempAllocKeeps ==
  ASSUME HunkInv, Hunk_TempAlloc
  PROVE  HunkInv'
<1> DEFINE mark == Hunk_HighMark
           size == Head(todo).size + HUNK_HEADER
           step == [op |-> "FreeHigh", prev |-> NULL]
<1>1. Does("Hunk_TempAlloc")
  BY DEF Hunk_TempAlloc
<1>2. /\ failed = "no" /\ todo # <<>> /\ todo \in Seq(Step)
      /\ Head(todo) = todo[1] /\ todo[1] \in Step
      /\ todo[1].op = "Hunk_TempAlloc" /\ ~GrowingLow /\ ~GrowingHigh
  BY <1>1, DoesIs
<1>3. size \in Nat
  BY <1>2, StepIs DEF HUNK_HEADER
<1>4. CASE HunkSize - hunk_low_used - mark < size
  <2>1. Sys_Error("Hunk_HighAllocName: not enough RAM")
    BY <1>4 DEF Hunk_TempAlloc
  <2>2. OnlyFails
    BY <2>1 DEF Sys_Error, OnlyFails, Failures
  <2> QED BY <1>2, <2>2, ErrorKeepsHunk
<1>5. CASE ~(HunkSize - hunk_low_used - mark < size)
  <2>1. /\ hunk_tempmark' = mark /\ hunk_tempactive' = TRUE
        /\ hunk_high_used' = mark + size
        /\ todo' = ButFirst(todo, step)
        /\ UNCHANGED <<hunk_low_used, cacheVars, needload, failed>>
    BY <1>5 DEF Hunk_TempAlloc, DoneBut, ButFirst
  <2>2. step \in Step /\ step.op = "FreeHigh"
    BY DEF Step, NULL
  <2>3. Kept(cache, lru, data) /\ EndsInv /\ TodoIs(todo, hunk_low_used)
    BY DEF HunkInv
  <2>4. mark = 0
    BY <2>3 DEF EndsInv, EndsStayApart, Hunk_HighMark
  <2>5. hunk_low_used \in Nat
    BY <2>3 DEF EndsInv
  <2> HIDE DEF step, mark
  <2>6. EndsInv'
    <3> HIDE DEF size
    <3> QED BY <1>3, <1>5, <2>1, <2>3, <2>4, <2>5, HunkAssumption
            DEF EndsInv, EndsStayApart, Room, HUNK_HEADER
  <2>7. TodoIs(todo', hunk_low_used')
    BY <1>2, <2>1, <2>2, <2>3, <2>5, ButFirstTodo
  <2>8. BetweenInv'
    <3>1. GrowingHigh'
      BY <1>2, <2>1, <2>2, LoopRuns
    <3>2. Above(cache, hunk_low_used)
      BY <1>2 DEF HunkInv, BetweenInv
    <3> QED BY <2>1, <3>1, <3>2 DEF BetweenInv, cacheVars
  <2>9. ASSUME ~ClearModels PROVE Pending(todo', data', needload')
    <3>1. Pending(todo, data, needload)
      BY <2>9 DEF HunkInv
    <3>2. Pending(ButFirst(todo, step), data, needload)
      BY <1>2, <2>2, <3>1, ButFirstPending
    <3> QED BY <2>1, <3>2 DEF cacheVars
  <2>10. Kept(cache', lru', data')
    BY <2>1, <2>3 DEF cacheVars
  <2> QED BY <2>1, <2>6, <2>7, <2>8, <2>9, <2>10 DEF HunkInv
<1> QED BY <1>4, <1>5

LEMMA UnmarkKeeps ==
  ASSUME HunkInv, Hunk_FreeToLowMark
  PROVE  HunkInv'
<1> DEFINE mark == Head(todo).mark
<1>1. Does("Hunk_FreeToLowMark")
  BY DEF Hunk_FreeToLowMark
<1>2. /\ failed = "no" /\ todo # <<>> /\ todo \in Seq(Step)
      /\ Head(todo) = todo[1] /\ todo[1] \in Step /\ 1 \in 1..Len(todo)
      /\ todo[1].op = "Hunk_FreeToLowMark" /\ ~GrowingLow /\ ~GrowingHigh
  BY <1>1, DoesIs
<1>3. Kept(cache, lru, data) /\ EndsInv /\ TodoIs(todo, hunk_low_used)
  BY DEF HunkInv
<1>4. mark \in Nat
  BY <1>2, StepIs
<1>5. HunkLevel <= mark /\ mark <= hunk_low_used
  BY <1>2, <1>3 DEF TodoIs
<1>6. hunk_low_used \in Nat
  BY <1>3 DEF EndsInv
<1>7. /\ hunk_low_used' = mark /\ todo' = Tail(todo)
      /\ UNCHANGED <<hunk_high_used, hunk_tempactive, hunk_tempmark, cacheVars,
                     needload, failed>>
  <2>1. ~(mark > hunk_low_used)
    BY <1>4, <1>5, <1>6
  <2> QED BY <2>1 DEF Hunk_FreeToLowMark, Done
<1> HIDE DEF mark
<1>8. EndsInv'
  BY <1>3, <1>4, <1>5, <1>6, <1>7, HunkAssumption
  DEF EndsInv, EndsStayApart, Room, HUNK_HEADER
<1>9. /\ TodoIs(Tail(todo), mark)
      /\ Tail(todo) # <<>> => Head(Tail(todo)).op \notin {"FreeLow", "FreeHigh"}
  BY <1>2, <1>3, TailTodo
<1>10. BetweenInv'
  <2>1. Above(cache, hunk_low_used) /\ Below(cache, HunkSize - hunk_high_used)
    BY <1>2 DEF HunkInv, BetweenInv
  <2>2. Above(cache, mark)
    <3>1. \A i \in 1..Len(cache) : cache[i].at \in Nat
      BY <1>3, OrderlyIs DEF Kept
    <3> QED BY <1>4, <1>5, <1>6, <2>1, <3>1 DEF Above
  <2> QED BY <1>7, <2>1, <2>2 DEF BetweenInv, cacheVars
<1>11. ASSUME ~ClearModels PROVE Pending(todo', data', needload')
  <2>1. Pending(todo, data, needload)
    BY <1>11 DEF HunkInv
  <2>2. Pending(Tail(todo), data, needload)
    BY <1>2, <2>1, TailPending
  <2> QED BY <1>7, <2>2 DEF cacheVars
<1>12. Kept(cache', lru', data')
  BY <1>3, <1>7 DEF cacheVars
<1> QED BY <1>7, <1>8, <1>9, <1>10, <1>11, <1>12 DEF HunkInv

-----------------------------------------------------------------------------
\* What a loader is about to do: no loop runs yet, and only those in U wait for a
\* block.
NewTodo(t, low, U) ==
  /\ TodoIs(t, low)
  /\ \A i \in 1..Len(t) : /\ t[i].op \notin {"FreeLow", "FreeHigh"}
                          /\ t[i].op = "Cache_Alloc" => t[i].user \in U

LEMMA StepsAre ==
  ASSUME NEW u \in User, NEW n \in Nat, NEW low \in Nat
  PROVE  /\ Temp(n) \in Step /\ Temp(n).op = "Hunk_TempAlloc"
         /\ Low(n) \in Step /\ Low(n).op = "Hunk_AllocName"
         /\ Unmark(low) \in Step /\ Unmark(low).op = "Hunk_FreeToLowMark"
         /\ Unmark(low).mark = low
         /\ Cached(u, n) \in Step /\ Cached(u, n).op = "Cache_Alloc"
         /\ Cached(u, n).user = u
<1>1. n + CACHE_HEADER \in Nat \ {0}
  BY DEF CACHE_HEADER
<1>2. Cached(u, n) \in [op : {"Cache_Alloc"}, user : User, size : Nat \ {0}]
  BY <1>1 DEF Cached
<1> QED BY <1>2 DEF Step, Temp, Low, Unmark, Cached

LEMMA NothingToDo == \A low : NewTodo(<<>>, low, {})
BY DEF NewTodo, TodoIs

\* One more step before the others.
LEMMA OneMore ==
  ASSUME NEW t, NEW low, NEW U, NewTodo(t, low, U), NEW s \in Step,
         s.op \notin {"FreeLow", "FreeHigh"},
         s.op = "Hunk_FreeToLowMark" =>
           t = <<>> /\ HunkLevel <= s.mark /\ s.mark <= low,
         NEW V, U \subseteq V,
         s.op = "Cache_Alloc" => U = {} /\ s.user \in V
  PROVE  NewTodo(<<s>> \o t, low, V)
<1> DEFINE S == Step
           w == <<s>> \o t
<1>1. t \in Seq(S) /\ s \in S
  BY DEF NewTodo, TodoIs
<1> HIDE DEF S
<1>2. /\ w \in Seq(S) /\ Len(w) = 1 + Len(t) /\ Len(t) \in Nat
      /\ \A i \in 1..1 + Len(t) : w[i] = IF i <= 1 THEN s ELSE t[i - 1]
  BY <1>1
<1> SUFFICES NewTodo(w, low, V)
  OBVIOUS
<1> HIDE DEF w
<1>3. w[1] = s
  BY <1>2
<1>4. ASSUME NEW i \in 1..Len(w), i # 1
      PROVE  /\ i - 1 \in 1..Len(t) /\ w[i] = t[i - 1]
             /\ i - 1 = Len(t) => i = Len(w)
  BY <1>2, <1>4
<1>5. \A i \in 1..Len(w) : w[i].op \notin {"FreeLow", "FreeHigh"}
  BY <1>3, <1>4 DEF NewTodo
<1>6. ASSUME NEW i \in 1..Len(w), w[i].op = "Hunk_FreeToLowMark"
      PROVE  i = Len(w) /\ HunkLevel <= w[i].mark /\ w[i].mark <= low
  <2>1. CASE i = 1
    <3>1. Len(w) = 1
      BY <1>2, <1>3, <1>6, <2>1
    <3> QED BY <1>3, <1>6, <2>1, <3>1
  <2>2. CASE i # 1
    BY <1>4, <1>6, <2>2 DEF NewTodo, TodoIs
  <2> QED BY <2>1, <2>2
<1>7. \A i \in 1..Len(w) : w[i].op = "Cache_Alloc" => w[i].user \in V
  BY <1>3, <1>4 DEF NewTodo
<1>8. ASSUME NEW i \in 1..Len(w), w[i].op = "Cache_Alloc",
             NEW j \in 1..Len(w), w[j].op = "Cache_Alloc"
      PROVE  j = i
  <2>1. CASE s.op = "Cache_Alloc"
    <3>1. \A x \in 1..Len(t) : t[x].op # "Cache_Alloc"
      BY <2>1 DEF NewTodo
    <3> QED BY <1>4, <1>8, <3>1
  <2>2. CASE s.op # "Cache_Alloc"
    <3>1. i # 1 /\ j # 1
      BY <1>3, <1>8, <2>2
    <3>2. i - 1 = j - 1
      BY <1>4, <1>8, <3>1 DEF NewTodo, TodoIs
    <3> QED BY <1>2, <3>2
  <2> QED BY <2>1, <2>2
<1>9. TodoIs(w, low)
  BY <1>2, <1>5, <1>6, <1>8 DEF TodoIs, S
<1> QED BY <1>5, <1>7, <1>9 DEF NewTodo

\* The sequence that begins with a and goes on with q.
LEMMA ConsIs ==
  ASSUME NEW T, NEW a \in T, NEW q \in Seq(T), NEW r \in Seq(T),
         Len(r) = Len(q) + 1, r[1] = a, \A i \in 1..Len(q) : r[i + 1] = q[i]
  PROVE  <<a>> \o q = r
<1> DEFINE w == <<a>> \o q
<1>1. /\ w \in Seq(T) /\ Len(w) = 1 + Len(q) /\ Len(q) \in Nat
      /\ \A i \in 1..1 + Len(q) : w[i] = IF i <= 1 THEN a ELSE q[i - 1]
  OBVIOUS
<1> SUFFICES w = r
  OBVIOUS
<1> HIDE DEF w
<1>2. ASSUME NEW i \in 1..Len(w)
      PROVE  w[i] = r[i]
  <2>1. CASE i = 1
    BY <1>1, <2>1
  <2>2. CASE i # 1
    <3>1. /\ i - 1 \in 1..Len(q) /\ (i - 1) + 1 = i /\ ~(i <= 1)
          /\ i \in 1..1 + Len(q)
      BY <1>1, <2>2
    <3> QED BY <1>1, <3>1
  <2> QED BY <2>1, <2>2
<1>3. Len(w) = Len(r)
  BY <1>1
<1> QED BY <1>1, <1>2, <1>3, SeqEqual

LEMMA Join ==
  ASSUME NEW T, NEW a \in T, NEW b \in T, NEW c \in T
  PROVE  /\ <<a>> \o <<b>> = <<a, b>>
         /\ <<a>> \o <<b, c>> = <<a, b, c>>
<1>1. <<a>> \o <<b>> = <<a, b>>
  <2> DEFINE q == <<b>>
             r == <<a, b>>
  <2>1. /\ q \in Seq(T) /\ r \in Seq(T) /\ Len(q) = 1 /\ Len(r) = 2
        /\ r[1] = a /\ r[2] = b /\ q[1] = b
    OBVIOUS
  <2> SUFFICES <<a>> \o q = r
    OBVIOUS
  <2> HIDE DEF q, r
  <2>2. \A i \in 1..Len(q) : r[i + 1] = q[i]
    <3>1. \A i \in 1..Len(q) : i = 1
      BY <2>1
    <3> QED BY <2>1, <3>1
  <2>3. q \in Seq(T) /\ r \in Seq(T) /\ Len(r) = Len(q) + 1 /\ r[1] = a
    BY <2>1
  <2> QED BY <2>2, <2>3, ConsIs, SMTT(60)
<1>2. <<a>> \o <<b, c>> = <<a, b, c>>
  <2> DEFINE q == <<b, c>>
             r == <<a, b, c>>
  <2>1. /\ q \in Seq(T) /\ r \in Seq(T) /\ Len(q) = 2 /\ Len(r) = 3
        /\ r[1] = a /\ r[2] = b /\ r[3] = c /\ q[1] = b /\ q[2] = c
    OBVIOUS
  <2> SUFFICES <<a>> \o q = r
    OBVIOUS
  <2> HIDE DEF q, r
  <2>2. \A i \in 1..Len(q) : r[i + 1] = q[i]
    <3>1. \A i \in 1..Len(q) : i = 1 \/ i = 2
      BY <2>1
    <3> QED BY <2>1, <3>1
  <2>3. q \in Seq(T) /\ r \in Seq(T) /\ Len(r) = Len(q) + 1 /\ r[1] = a
    BY <2>1
  <2> QED BY <2>2, <2>3, ConsIs, SMTT(60)
<1> QED BY <1>1, <1>2

\* A step on its own.
LEMMA OnlyOne ==
  ASSUME NEW low, NEW s \in Step, s.op \notin {"FreeLow", "FreeHigh"},
         s.op = "Hunk_FreeToLowMark" => HunkLevel <= s.mark /\ s.mark <= low,
         NEW V, s.op = "Cache_Alloc" => s.user \in V
  PROVE  NewTodo(<<s>>, low, V)
<1> DEFINE t == <<>>
           U == {}
<1>1. NewTodo(t, low, U) /\ U \subseteq V /\ t = <<>> /\ U = {}
  BY NothingToDo
<1> HIDE DEF t, U
<1>2. NewTodo(<<s>> \o t, low, V)
  BY <1>1, OneMore
<1>3. <<s>> \o t = <<s>>
  BY <1>1
<1> QED BY <1>2, <1>3

-----------------------------------------------------------------------------
\* The loaders, each with a stack file or without.
LEMMA LoadersAre ==
  ASSUME NEW low \in Nat, HunkLevel <= low, NEW n \in Nat, NEW f \in StackFile(n)
  PROVE  /\ NewTodo(f \o <<Low(n)>>, low, {})
         /\ NewTodo(<<Low(n), Unmark(low)>>, low, {})
         /\ \A u \in User, k \in Nat :
              /\ NewTodo(f \o <<Cached(u, k)>>, low, {u})
              /\ NewTodo(f \o <<Low(n), Cached(u, k), Unmark(low)>>, low, {u})
<1> DEFINE S == Step
           l == Low(n)
           m == Unmark(low)
           q == Temp(n)
<1>1. /\ q \in S /\ q.op = "Hunk_TempAlloc"
      /\ l \in S /\ l.op = "Hunk_AllocName"
  BY DEF Step, Temp, Low
<1>2. m \in S /\ m.op = "Hunk_FreeToLowMark" /\ m.mark = low
  BY DEF Step, Unmark
<1>3. f = <<>> \/ f = <<q>>
  BY DEF StackFile
<1> HIDE DEF l, m, q
<1>4. NewTodo(<<l>>, low, {})
  BY <1>1, OnlyOne
<1>5. NewTodo(<<m>>, low, {})
  BY <1>2, OnlyOne
<1>6. NewTodo(<<l, m>>, low, {})
  <2>1. NewTodo(<<l>> \o <<m>>, low, {})
    BY <1>1, <1>5, OneMore
  <2>2. <<l>> \o <<m>> = <<l, m>>
    <3> HIDE DEF S
    <3> QED BY <1>1, <1>2, Join
  <2> QED BY <2>1, <2>2
<1>7. ASSUME NEW t, NEW U, NewTodo(t, low, U)
      PROVE  NewTodo(f \o t, low, U)
  <2>1. CASE f = <<>>
    <3>1. PICK T : t \in Seq(T)
      BY <1>7 DEF NewTodo, TodoIs
    <3>2. <<>> \o t = t
      BY <3>1
    <3> QED BY <1>7, <2>1, <3>2
  <2>2. CASE f = <<q>>
    BY <1>1, <1>7, <2>2, OneMore
  <2> QED BY <1>3, <2>1, <2>2
<1>8. ASSUME NEW u \in User, NEW k \in Nat
      PROVE  /\ NewTodo(<<Cached(u, k)>>, low, {u})
             /\ NewTodo(<<l, Cached(u, k), m>>, low, {u})
  <2> DEFINE c == Cached(u, k)
             V == {u}
  <2>1. c \in Step /\ c.op = "Cache_Alloc" /\ c.user = u
    BY StepsAre
  <2>2. c.user \in V
    BY <2>1
  <2> SUFFICES NewTodo(<<c>>, low, V) /\ NewTodo(<<l, c, m>>, low, V)
    OBVIOUS
  <2> HIDE DEF c, V
  <2>3. NewTodo(<<c>>, low, V)
    BY <2>1, <2>2, OnlyOne
  <2>4. NewTodo(<<c>> \o <<m>>, low, V)
    <3> DEFINE U == {}
    <3>1. NewTodo(<<m>>, low, U) /\ U \subseteq V /\ U = {}
      BY <1>5
    <3> HIDE DEF U
    <3> QED BY <2>1, <2>2, <3>1, OneMore
  <2>5. <<c>> \o <<m>> = <<c, m>> /\ <<l>> \o <<c, m>> = <<l, c, m>>
    <3>1. c \in S
      BY <2>1
    <3> HIDE DEF S
    <3> QED BY <1>1, <1>2, <3>1, Join
  <2>6. NewTodo(<<l>> \o <<c, m>>, low, V)
    <3>1. NewTodo(<<c, m>>, low, V) /\ V \subseteq V
      BY <2>4, <2>5
    <3> QED BY <1>1, <3>1, OneMore
  <2> QED BY <2>3, <2>5, <2>6
<1> QED BY <1>4, <1>6, <1>7, <1>8 DEF l, m

\* An operation begins: the ends and the blocks are where they were, but for
\* blocks that have gone, and those that wait for a block have none.
Begins(U) ==
  /\ Idle
  /\ UNCHANGED <<endVars, failed>>
  /\ Kept(cache', lru', data') /\ KeepsBounds
  /\ needload' \in [Model -> BOOLEAN]
  /\ NewTodo(todo', hunk_low_used, U)
  /\ ~ClearModels =>
       /\ \A u \in U : data'[u] = NULL /\ (u \in Model => ~needload'[u])
       /\ \A m \in Model : needload'[m] => data'[m] = NULL

LEMMA BeginKeeps ==
  ASSUME HunkInv, NEW U, Begins(U)
  PROVE  HunkInv'
<1>1. /\ Idle /\ UNCHANGED <<endVars, failed>>
      /\ NewTodo(todo', hunk_low_used, U)
      /\ Kept(cache', lru', data') /\ KeepsBounds
  BY DEF Begins
<1>2. ~GrowingLow /\ ~GrowingHigh
  BY <1>1 DEF Idle, GrowingLow, GrowingHigh, Does, Running
<1>3. EndsInv'
  BY <1>1 DEF HunkInv, EndsInv, EndsStayApart, Room, endVars
<1>4. hunk_low_used' = hunk_low_used /\ hunk_high_used' = hunk_high_used
  BY <1>1 DEF endVars
<1>5. Above(cache', hunk_low_used') /\ Below(cache', HunkSize - hunk_high_used')
  BY <1>1, <1>2, <1>4 DEF HunkInv, BetweenInv, KeepsBounds
<1>6. BetweenInv'
  BY <1>5 DEF BetweenInv
<1>7. TodoIs(todo', hunk_low_used')
  BY <1>1, <1>4 DEF NewTodo
<1>8. ~ClearModels => Pending(todo', data', needload')
  BY <1>1 DEF Begins, NewTodo, Pending
<1> QED BY <1>1, <1>3, <1>6, <1>7, <1>8 DEF HunkInv, Begins

LEMMA IdleIs ==
  ASSUME HunkInv
  PROVE  /\ Kept(cache, lru, data) /\ data \in [User -> Nat]
         /\ needload \in [Model -> BOOLEAN]
         /\ hunk_low_used \in Nat /\ HunkLevel <= hunk_low_used
         /\ ~ClearModels => \A m \in Model : needload[m] => data[m] = NULL
BY DEF HunkInv, Kept, Owned, EndsInv, Pending

\* What does not touch the cache moves no block.
LEMMA SameCache ==
  ASSUME Kept(cache, lru, data), UNCHANGED cacheVars
  PROVE  Kept(cache', lru', data') /\ KeepsBounds /\ data' = data
BY DEF cacheVars, KeepsBounds

LEMMA ModelKeeps ==
  ASSUME HunkInv, NEW m \in Model, Mod_LoadModel(m)
  PROVE  HunkInv'
<1>1. Idle /\ UNCHANGED <<endVars, failed>> /\ todo = <<>>
  BY DEF Mod_LoadModel, Idle
<1>2. m \in User /\ Size[m] \in Nat
  BY HunkAssumption DEF User
<1>3. CASE data[m] # NULL /\ Cache_Check(m) /\ UNCHANGED <<needload, todo>>
  <2>1. Kept(cache', lru', data') /\ cache' = cache /\ data' = data
    BY <1>2, <1>3, IdleIs, CheckKeeps
  <2>2. KeepsBounds
    BY <2>1 DEF KeepsBounds
  <2>3. NewTodo(todo', hunk_low_used, {})
    BY <1>1, <1>3, NothingToDo
  <2>4. Begins({})
    BY <1>1, <1>3, <2>1, <2>2, <2>3, IdleIs DEF Begins
  <2> QED BY <2>4, BeginKeeps
<1>4. ASSUME needload[m] \/ data[m] = NULL,
             needload' = [needload EXCEPT ![m] = FALSE],
             NEW f \in StackFile(Size[m]),
             todo' = f \o <<Low(Size[m]), Cached(m, Size[m] + HUNK_HEADER),
                            Unmark(hunk_low_used)>>,
             UNCHANGED cacheVars
      PROVE  HunkInv'
  <2>1. Kept(cache', lru', data') /\ KeepsBounds /\ data' = data
    BY <1>4, IdleIs, SameCache
  <2>2. NewTodo(todo', hunk_low_used, {m})
    <3>1. Size[m] + HUNK_HEADER \in Nat
      BY <1>2 DEF HUNK_HEADER
    <3> QED BY <1>2, <1>4, <3>1, IdleIs, LoadersAre
  <2>3. ~ClearModels => data[m] = NULL
    BY <1>4, IdleIs
  <2>4. /\ needload' \in [Model -> BOOLEAN] /\ ~needload'[m]
        /\ \A x \in Model : needload'[x] => needload[x]
    BY <1>4, IdleIs
  <2>5. Begins({m})
    BY <1>1, <2>1, <2>2, <2>3, <2>4, IdleIs DEF Begins
  <2> QED BY <2>5, BeginKeeps
<1> QED BY <1>3, <1>4 DEF Mod_LoadModel

LEMMA SoundKeeps ==
  ASSUME HunkInv, NEW s \in Sound, S_LoadSound(s)
  PROVE  HunkInv'
<1>1. Idle /\ UNCHANGED <<endVars, needload, failed>> /\ todo = <<>>
  BY DEF S_LoadSound, Idle
<1>2. s \in User /\ s \notin Model /\ Size[s] \in Nat
  BY HunkAssumption DEF User
<1>3. CASE data[s] # NULL /\ Cache_Check(s) /\ UNCHANGED todo
  <2>1. Kept(cache', lru', data') /\ cache' = cache /\ data' = data
    BY <1>2, <1>3, IdleIs, CheckKeeps
  <2>2. KeepsBounds
    BY <2>1 DEF KeepsBounds
  <2>3. NewTodo(todo', hunk_low_used, {})
    BY <1>1, <1>3, NothingToDo
  <2>4. Begins({})
    BY <1>1, <2>1, <2>2, <2>3, IdleIs DEF Begins
  <2> QED BY <2>4, BeginKeeps
<1>4. ASSUME data[s] = NULL, NEW f \in StackFile(Size[s]),
             todo' = f \o <<Cached(s, Size[s])>>, UNCHANGED cacheVars
      PROVE  HunkInv'
  <2>1. Kept(cache', lru', data') /\ KeepsBounds /\ data' = data
    BY <1>4, IdleIs, SameCache
  <2>2. NewTodo(todo', hunk_low_used, {s})
    BY <1>2, <1>4, IdleIs, LoadersAre
  <2>3. Begins({s})
    BY <1>1, <1>2, <1>4, <2>1, <2>2, IdleIs DEF Begins
  <2> QED BY <2>3, BeginKeeps
<1> QED BY <1>3, <1>4 DEF S_LoadSound

LEMMA LoadKeeps ==
  ASSUME HunkInv, NEW n \in ScratchSizes, LoadForLevel(n) \/ LoadForNow(n)
  PROVE  HunkInv'
<1>1. /\ Idle /\ UNCHANGED <<endVars, cacheVars, needload, failed>>
  BY DEF LoadForLevel, LoadForNow
<1>2. n \in Nat
  BY HunkAssumption
<1>3. NewTodo(todo', hunk_low_used, {})
  <2>1. CASE LoadForLevel(n)
    <3>1. PICK f \in StackFile(n) : todo' = f \o <<Low(n)>>
      BY <2>1 DEF LoadForLevel
    <3> QED BY <1>2, <3>1, IdleIs, LoadersAre
  <2>2. CASE LoadForNow(n)
    <3>1. todo' = <<Low(n), Unmark(hunk_low_used)>>
      BY <2>2 DEF LoadForNow
    <3>2. <<>> \in StackFile(n)
      BY DEF StackFile
    <3> QED BY <1>2, <3>1, <3>2, IdleIs, LoadersAre
  <2> QED BY <2>1, <2>2
<1>4. Kept(cache', lru', data') /\ KeepsBounds /\ data' = data
  BY <1>1, IdleIs, SameCache
<1>5. Begins({})
  BY <1>1, <1>3, <1>4, IdleIs DEF Begins
<1> QED BY <1>5, BeginKeeps

LEMMA ResetKeeps ==
  ASSUME HunkInv, NEW s \in Sound, Neh_ResetSFX(s)
  PROVE  HunkInv'
<1>1. /\ Idle /\ UNCHANGED <<endVars, needload, todo, failed>>
      /\ data[s] # NULL /\ Cache_Free(s) /\ todo = <<>>
  BY DEF Neh_ResetSFX, Idle
<1>2. s \in User
  BY DEF User
<1>3. /\ Kept(cache, lru, data)' /\ KeepsBounds
      /\ data' = [data EXCEPT ![s] = NULL]
  BY <1>1, <1>2, IdleIs, FreeKeeps
<1>4. \A u \in User : data[u] = NULL => data'[u] = NULL
  BY <1>3, IdleIs
<1>5. NewTodo(todo', hunk_low_used, {})
  BY <1>1, NothingToDo
<1>6. Model \subseteq User
  BY DEF User
<1>7. Begins({})
  BY <1>1, <1>3, <1>4, <1>5, <1>6, IdleIs DEF Begins
<1> QED BY <1>7, BeginKeeps

\* An empty cache is in order.
LEMMA NothingKept == Kept(<<>>, <<>>, [u \in User |-> NULL])
<1>1. Orderly(<<>>)
  BY DEF Orderly
<1>2. Owned(<<>>, [u \in User |-> NULL])
  BY DEF Owned, NULL
<1>3. Distinct(<<>>) /\ Listed(<<>>, <<>>)
  BY DEF Distinct, Listed, Elements, Addresses
<1> QED BY <1>1, <1>2, <1>3 DEF Kept

LEMMA FlushKeeps ==
  ASSUME HunkInv, Cache_Flush_f \/ COM_Gamedir_f
  PROVE  HunkInv'
<1>1. /\ Idle /\ UNCHANGED <<endVars, todo, failed>> /\ todo = <<>>
      /\ cache' = <<>> /\ lru' = <<>> /\ data' = [u \in User |-> NULL]
      /\ needload' \in [Model -> BOOLEAN]
  BY IdleIs DEF Cache_Flush_f, COM_Gamedir_f, Cache_Flush, Idle
<1>2. Kept(cache', lru', data')
  BY <1>1, NothingKept
<1>3. KeepsBounds
  BY <1>1 DEF KeepsBounds, Above, Below
<1>4. \A m \in Model : data'[m] = NULL
  BY <1>1 DEF User
<1>5. NewTodo(todo', hunk_low_used, {})
  BY <1>1, NothingToDo
<1>6. Begins({})
  BY <1>1, <1>2, <1>3, <1>4, <1>5 DEF Begins
<1> QED BY <1>6, BeginKeeps

-----------------------------------------------------------------------------
LEMMA AbandonKeeps ==
  ASSUME HunkInv, AbandonLoad
  PROVE  HunkInv'
<1>1. /\ Running /\ Head(todo).op \in {"Hunk_AllocName", "Cache_Alloc"}
      /\ todo' = <<>> /\ UNCHANGED <<endVars, cacheVars, needload, failed>>
  BY DEF AbandonLoad
<1>2. ~GrowingLow /\ ~GrowingHigh
  BY <1>1 DEF GrowingLow, GrowingHigh, Does
<1>3. BetweenInv'
  BY <1>1, <1>2 DEF HunkInv, BetweenInv, endVars, cacheVars
<1>4. EndsInv'
  BY <1>1 DEF HunkInv, EndsInv, EndsStayApart, Room, endVars
<1>5. TodoIs(todo', hunk_low_used')
  BY <1>1, NothingToDo DEF NewTodo
<1>6. ~ClearModels => Pending(todo', data', needload')
  BY <1>1 DEF HunkInv, Pending, cacheVars
<1> QED BY <1>1, <1>3, <1>4, <1>5, <1>6 DEF HunkInv, cacheVars

LEMMA ClearKeeps ==
  ASSUME HunkInv, NEW c \in {FALSE, ClearModels}, Host_ClearMemory(c)
  PROVE  HunkInv'
<1>1. /\ Idle /\ todo = <<>> /\ hunk_low_used' = HunkLevel
      /\ needload' = IF c THEN [m \in Model |-> TRUE] ELSE needload
      /\ UNCHANGED <<hunk_high_used, hunk_tempactive, hunk_tempmark, cacheVars,
                     todo, failed>>
  BY DEF Host_ClearMemory, Idle
<1>2. ~GrowingLow /\ ~GrowingHigh
  BY <1>1 DEF Idle, GrowingLow, GrowingHigh, Does, Running
<1>3. Kept(cache, lru, data) /\ EndsInv
  BY DEF HunkInv
<1>4. EndsInv'
  BY <1>1, <1>3, HunkAssumption DEF EndsInv, EndsStayApart, Room, HUNK_HEADER
<1>5. BetweenInv'
  <2>1. Below(cache, HunkSize - hunk_high_used)
    BY <1>2 DEF HunkInv, BetweenInv
  <2>2. Above(cache, HunkLevel)
    BY <1>3 DEF Kept, Orderly, Above
  <2> QED BY <1>1, <2>1, <2>2 DEF BetweenInv, cacheVars
<1>6. TodoIs(todo', hunk_low_used')
  BY <1>1, NothingToDo DEF NewTodo
<1>7. needload' \in [Model -> BOOLEAN]
  BY <1>1, IdleIs
<1>8. ~ClearModels => Pending(todo', data', needload')
  <2> SUFFICES ASSUME ~ClearModels PROVE Pending(todo', data', needload')
    OBVIOUS
  <2>1. ~c
    OBVIOUS
  <2>2. needload' = needload
    BY <1>1, <2>1
  <2>3. todo' = todo /\ data' = data
    BY <1>1 DEF cacheVars
  <2> QED BY <2>2, <2>3 DEF HunkInv
<1>9. Kept(cache', lru', data')
  BY <1>1, <1>3 DEF cacheVars
<1> QED BY <1>1, <1>4, <1>5, <1>6, <1>7, <1>8, <1>9 DEF HunkInv

LEMMA HunkInvInit == HunkInit => HunkInv
<1> SUFFICES ASSUME HunkInit PROVE HunkInv
  OBVIOUS
<1>1. Kept(cache, lru, data)
  BY NothingKept DEF HunkInit
<1>2. EndsInv
  <2>1. /\ HunkSize \in Nat /\ HunkLevel \in Nat /\ HunkLevel <= HunkSize
        /\ hunk_low_used = HunkLevel /\ hunk_high_used = 0
        /\ hunk_tempactive = FALSE /\ hunk_tempmark = 0
    BY HunkAssumption DEF HunkInit
  <2>2. Room >= -HUNK_HEADER
    BY <2>1 DEF Room, HUNK_HEADER
  <2>3. hunk_low_used \in Nat /\ hunk_high_used \in Nat /\ ~(hunk_high_used > 0)
        /\ HunkLevel <= hunk_low_used
    BY <2>1
  <2>4. EndsStayApart
    BY <2>1, <2>2, <2>3 DEF EndsStayApart
  <2> QED BY <2>1, <2>3, <2>4 DEF EndsInv
<1>3. BetweenInv
  BY DEF HunkInit, BetweenInv, Above, Below
<1>4. TodoIs(todo, hunk_low_used)
  BY NothingToDo DEF HunkInit, NewTodo
<1>5. needload \in [Model -> BOOLEAN] /\ failed \in Failures
  BY DEF HunkInit, Failures
<1>6. Pending(todo, data, needload)
  BY DEF HunkInit, Pending, User
<1> QED BY <1>1, <1>2, <1>3, <1>4, <1>5, <1>6 DEF HunkInv

LEMMA HunkInvNext == HunkInv /\ [HunkNext]_hunkVars => HunkInv'
<1> SUFFICES ASSUME HunkInv, [HunkNext]_hunkVars PROVE HunkInv'
  OBVIOUS
<1>1. CASE HunkStep
  BY <1>1, LowFreed, HighFreed, AllocKeeps, LowAllocKeeps, UnmarkKeeps,
     TempAllocKeeps DEF HunkStep
<1>2. ASSUME NEW m \in Model, Mod_LoadModel(m) PROVE HunkInv'
  BY <1>2, ModelKeeps
<1>3. ASSUME NEW s \in Sound, S_LoadSound(s) \/ Neh_ResetSFX(s) PROVE HunkInv'
  BY <1>3, SoundKeeps, ResetKeeps
<1>4. ASSUME NEW n \in ScratchSizes, LoadForLevel(n) \/ LoadForNow(n)
      PROVE  HunkInv'
  BY <1>4, LoadKeeps
<1>5. CASE AbandonLoad
  BY <1>5, AbandonKeeps
<1>6. ASSUME NEW c \in {FALSE, ClearModels}, Host_ClearMemory(c) PROVE HunkInv'
  BY <1>6, ClearKeeps
<1>7. CASE Cache_Flush_f \/ COM_Gamedir_f
  BY <1>7, FlushKeeps
<1>8. CASE UNCHANGED hunkVars
  <2>1. UNCHANGED <<hunk_low_used, hunk_high_used, hunk_tempactive,
                    hunk_tempmark, cache, lru, data, needload, todo, failed>>
    BY <1>8 DEF hunkVars, endVars, cacheVars
  <2>2. (GrowingLow' <=> GrowingLow) /\ (GrowingHigh' <=> GrowingHigh)
    BY <2>1 DEF GrowingLow, GrowingHigh, Does, Running
  <2>3. BetweenInv'
    BY <2>1, <2>2 DEF HunkInv, BetweenInv
  <2>4. EndsInv'
    BY <2>1 DEF HunkInv, EndsInv, EndsStayApart, Room
  <2> QED BY <2>1, <2>3, <2>4 DEF HunkInv
<1> QED BY <1>1, <1>2, <1>3, <1>4, <1>5, <1>6, <1>7, <1>8 DEF HunkNext

-----------------------------------------------------------------------------
\* The inductive invariant of the hunk, with host_clearmodels and without.
THEOREM HunkInvAlways == HunkSpec => []HunkInv
BY HunkInvInit, HunkInvNext, PTL DEF HunkSpec

\* The marks, the cached blocks' records, the pointers and the failures have
\* their types.
THEOREM HunkTypesAreKept == HunkSpec => []HunkTypeOK
<1>1. HunkInv => HunkTypeOK
  <2> SUFFICES ASSUME HunkInv PROVE HunkTypeOK
    OBVIOUS
  <2>1. /\ hunk_low_used \in Nat /\ hunk_high_used \in Nat
        /\ hunk_tempactive \in BOOLEAN /\ hunk_tempmark \in Nat
    BY DEF HunkInv, EndsInv, EndsStayApart
  <2>2. Kept(cache, lru, data) /\ needload \in [Model -> BOOLEAN]
    BY DEF HunkInv
  <2>3. /\ cache \in Seq([user : User, at : Nat, size : Nat])
        /\ lru \in Seq(Nat) /\ data \in [User -> Nat]
    BY <2>2 DEF Kept, Orderly, Owned, Distinct
  <2>4. failed \in Failures
    BY DEF HunkInv
  <2>5. failed \in {"no", "Cache_Alloc: already allocated",
                   "Cache_TryAlloc: greater than free hunk",
                   "Hunk_AllocName: not enough RAM",
                   "Hunk_FreeToLowMark: bad mark",
                   "Hunk_HighAllocName: not enough RAM"}
    BY <2>4 DEF Failures
  <2> QED BY <2>1, <2>2, <2>3, <2>5 DEF HunkTypeOK
<1> QED BY <1>1, HunkInvAlways, PTL

\* The invariant says what CacheIsWhole and EndsStayApart say.
LEMMA HunkInvIsWhole ==
  ASSUME HunkInv
  PROVE  CacheIsWhole /\ EndsStayApart
<1> DEFINE n == Len(cache)
<1>1. /\ Orderly(cache) /\ Owned(cache, data) /\ Listed(cache, lru) /\ BetweenInv
      /\ EndsInv
  BY DEF HunkInv, Kept
<1>2. n \in Nat
  BY <1>1, OrderlyIs
<1>3. \A i \in 1..n - 1 : cache[i].at + cache[i].size <= cache[i + 1].at
  <2> SUFFICES ASSUME NEW i \in 1..n - 1
               PROVE  cache[i].at + cache[i].size <= cache[i + 1].at
    OBVIOUS
  <2>1. i \in 1..n /\ i + 1 \in 1..n /\ i < i + 1
    BY <1>2
  <2> QED BY <1>1, <2>1 DEF Orderly
<1>4. ASSUME cache # <<>>
      PROVE  /\ GrowingLow \/ cache[1].at >= hunk_low_used
             /\ GrowingHigh
                \/ cache[n].at + cache[n].size <= HunkSize - hunk_high_used
  <2>1. 1 \in 1..n /\ n \in 1..n
    BY <1>2, <1>1, <1>4 DEF Orderly
  <2>2. cache[1].at \in Nat /\ hunk_low_used \in Nat
    BY <1>1, <2>1, OrderlyIs DEF EndsInv
  <2> QED BY <1>1, <2>1, <2>2 DEF BetweenInv, Above, Below
<1>5. CacheIsWhole
  BY <1>1, <1>3, <1>4 DEF CacheIsWhole, Owned, Listed, Elements, Addresses
<1> QED BY <1>1, <1>5 DEF EndsInv

\* Whatever the hunk is asked for, even when all models are loaded anew without
\* a flush: the cache is whole, the ends stay apart, and the lower end is never
\* reset to a mark above it.
THEOREM BlocksStayWhole ==
  HunkSpec => [](/\ CacheIsWhole /\ EndsStayApart
                 /\ failed # "Hunk_FreeToLowMark: bad mark")
<1>1. HunkInv => failed # "Hunk_FreeToLowMark: bad mark"
  BY DEF HunkInv, Failures
<1>2. HunkInv => CacheIsWhole /\ EndsStayApart
  BY HunkInvIsWhole
<1> QED BY <1>1, <1>2, HunkInvAlways, PTL

\* And when the player leaves host_clearmodels at 0, no loader asks for a block
\* that is there.
THEOREM HunkIsAlwaysWhole ==
  ASSUME ~ClearModels
  PROVE  HunkSpec => []HunkIsWhole
<1>1. HunkInv => CallersAreRight
  BY DEF HunkInv, Failures, CallersAreRight
<1>2. HunkInv => CacheIsWhole /\ EndsStayApart
  BY HunkInvIsWhole
<1>3. HunkInv => HunkIsWhole
  BY <1>1, <1>2 DEF HunkIsWhole
<1> QED BY <1>3, HunkInvAlways, PTL

-----------------------------------------------------------------------------
(* The zone.                                                               *)

\* The list z of blocks: the cap is in it, the links agree, the blocks lie in the
\* zone and apart, and each reaches to the next one.
Good(z) ==
  /\ cap \in DOMAIN z
  /\ DOMAIN z \subseteq 0..ZoneSize
  /\ \A a \in DOMAIN z :
       /\ z[a] \in [size : Nat, used : BOOLEAN,
                    prev : DOMAIN z, next : DOMAIN z]
       /\ z[z[a].next].prev = a
       /\ z[z[a].prev].next = a
  /\ \A a \in DOMAIN z \ {cap} :
       /\ z[a].size > 0
       /\ a + z[a].size <= ZoneSize + 1
       /\ z[a].next = IF a + z[a].size > ZoneSize THEN cap ELSE a + z[a].size
  /\ \A a, b \in DOMAIN z \ {cap} : a < b => a + z[a].size <= b
  /\ z[cap].size = 0
  /\ z[cap].used
  /\ z[cap].next = 1

\* No two free blocks follow each other.
NoFreePair(z) ==
  \A a \in DOMAIN z : ~z[a].used => z[z[a].next].used

\* The scan stands on blocks, and is as NoScan when none runs.
ScanOK ==
  /\ scan \in [size : {0} \cup Allocsize, base : DOMAIN zone,
               at : DOMAIN zone, start : DOMAIN zone]
  /\ scan.size = 0 => scan = NoScan

\* The inductive invariant.
ZInv ==
  /\ Good(zone)
  /\ NoFreePair(zone)
  /\ rover \in DOMAIN zone
  /\ ScanOK
  /\ outOfZone \in BOOLEAN

-----------------------------------------------------------------------------
\* Memory_InitZone leaves one free block between the cap and itself: ZInv holds.
LEMMA InitZInv == ZoneInit => ZInv
<1> SUFFICES ASSUME ZoneInit PROVE ZInv
  OBVIOUS
<1> USE ZoneAssumption
<1>1. DOMAIN zone = {0, 1}
  BY DEF ZoneInit, cap
<1>2. /\ zone[0] = [size |-> 0, used |-> TRUE, prev |-> 1, next |-> 1]
      /\ zone[1] = [size |-> ZoneSize, used |-> FALSE, prev |-> 0, next |-> 0]
  BY DEF ZoneInit, Header, cap
<1>3. Good(zone)
  <2>1. \A a \in DOMAIN zone :
          /\ zone[a] \in [size : Nat, used : BOOLEAN,
                          prev : DOMAIN zone, next : DOMAIN zone]
          /\ zone[zone[a].next].prev = a
          /\ zone[zone[a].prev].next = a
    <3>1. zone[0] \in [size : Nat, used : BOOLEAN, prev : {0, 1}, next : {0, 1}]
      BY <1>2
    <3>2. zone[1] \in [size : Nat, used : BOOLEAN, prev : {0, 1}, next : {0, 1}]
      BY <1>2
    <3>3. /\ zone[0].next = 1 /\ zone[1].next = 0
          /\ zone[0].prev = 1 /\ zone[1].prev = 0
      BY <1>2
    <3> QED BY <1>1, <3>1, <3>2, <3>3
  <2>2. \A a \in DOMAIN zone \ {cap} : a = 1
    BY <1>1 DEF cap
  <2> QED BY <1>1, <1>2, <2>1, <2>2 DEF Good, cap
<1>4. NoFreePair(zone)
  BY <1>1, <1>2 DEF NoFreePair
<1>5. rover \in DOMAIN zone /\ outOfZone \in BOOLEAN
  BY <1>1 DEF ZoneInit
<1>6. ScanOK
  BY <1>1 DEF ZoneInit, ScanOK, NoScan, cap
<1> QED BY <1>3, <1>4, <1>5, <1>6 DEF ZInv

-----------------------------------------------------------------------------
\* What merging writes, header by header: the block before takes the memory of
\* the block that goes, and the one after points back at it.
LEMMA MergedFields ==
  ASSUME NEW z, Good(z), NEW a \in DOMAIN z \ {cap}, NEW b \in DOMAIN z \ {cap},
         z[a].next = b
  PROVE  LET M == Merged(z, a, b)
             n == z[b].next
         IN /\ a < b /\ n # a /\ n # b /\ n \in DOMAIN z
            /\ a + z[a].size = b
            /\ DOMAIN M = DOMAIN z \ {b}
            /\ \A c \in DOMAIN z \ {b} :
                 /\ M[c] = [size |-> IF c = a THEN z[a].size + z[b].size
                                     ELSE z[c].size,
                            used |-> z[c].used,
                            prev |-> IF c = n THEN a ELSE z[c].prev,
                            next |-> IF c = a THEN n ELSE z[c].next]
<1> DEFINE M == Merged(z, a, b)
           n == z[b].next
<1>1. ZoneSize \in Nat /\ a \in Nat /\ b \in Nat /\ a # 0 /\ b # 0
  BY ZoneAssumption DEF Good, cap
<1>2. a < b /\ a + z[a].size = b /\ n \in DOMAIN z
  BY <1>1 DEF Good, cap
<1>3. n # a /\ n # b
  BY <1>1, <1>2 DEF Good, cap
<1>4. DOMAIN M = DOMAIN z \ {b}
  BY DEF Merged
<1>5. ASSUME NEW c \in DOMAIN z \ {b}
      PROVE M[c] = [size |-> IF c = a THEN z[a].size + z[b].size ELSE z[c].size,
                    used |-> z[c].used,
                    prev |-> IF c = n THEN a ELSE z[c].prev,
                    next |-> IF c = a THEN n ELSE z[c].next]
  <2>1. z[c] \in [size : Nat, used : BOOLEAN, prev : DOMAIN z, next : DOMAIN z]
    BY DEF Good
  <2>2. z[c] = [size |-> z[c].size, used |-> z[c].used, prev |-> z[c].prev,
                next |-> z[c].next]
    BY <2>1
  <2>3. CASE c = a
    BY <2>3, <2>1, <2>2, <1>3 DEF Merged
  <2>4. CASE c = n
    BY <2>4, <2>1, <2>2, <1>3 DEF Merged
  <2>5. CASE c # a /\ c # n
    BY <2>5, <2>1, <2>2, <1>3 DEF Merged
  <2> QED BY <2>3, <2>4, <2>5
<1> QED BY <1>2, <1>3, <1>4, <1>5

\* The part of MergedFields that the searches for free neighbours need.
LEMMA MergedLinks ==
  ASSUME NEW z, Good(z), NEW a \in DOMAIN z \ {cap}, NEW b \in DOMAIN z \ {cap},
         z[a].next = b
  PROVE  /\ DOMAIN Merged(z, a, b) = DOMAIN z \ {b}
         /\ z[b].next # b
         /\ \A c \in DOMAIN z \ {b} :
              /\ Merged(z, a, b)[c].used = z[c].used
              /\ Merged(z, a, b)[c].next = IF c = a THEN z[b].next ELSE z[c].next
<1> DEFINE M == Merged(z, a, b)
           n == z[b].next
<1>1. /\ DOMAIN M = DOMAIN z \ {b}
      /\ n # b
      /\ \A c \in DOMAIN z \ {b} :
           M[c] = [size |-> IF c = a THEN z[a].size + z[b].size ELSE z[c].size,
                   used |-> z[c].used,
                   prev |-> IF c = n THEN a ELSE z[c].prev,
                   next |-> IF c = a THEN n ELSE z[c].next]
  BY MergedFields
<1> HIDE DEF M
<1>2. \A c \in DOMAIN z \ {b} :
        /\ M[c].used = z[c].used
        /\ M[c].next = IF c = a THEN n ELSE z[c].next
  BY <1>1
<1> QED BY <1>1, <1>2 DEF M

\* Merging a block into the one before it leaves a well-formed list.  (Which of
\* them are free does not matter here.)
LEMMA MergedGood ==
  ASSUME NEW z, Good(z), NEW a \in DOMAIN z \ {cap}, NEW b \in DOMAIN z \ {cap},
         z[a].next = b
  PROVE  Good(Merged(z, a, b))
<1> DEFINE M == Merged(z, a, b)
           n == z[b].next
<1>1. /\ a < b /\ n # a /\ n # b /\ n \in DOMAIN z
      /\ a + z[a].size = b
      /\ DOMAIN M = DOMAIN z \ {b}
      /\ \A c \in DOMAIN z \ {b} :
           M[c] = [size |-> IF c = a THEN z[a].size + z[b].size ELSE z[c].size,
                   used |-> z[c].used,
                   prev |-> IF c = n THEN a ELSE z[c].prev,
                   next |-> IF c = a THEN n ELSE z[c].next]
  BY MergedFields
<1> HIDE DEF M
<1>2. /\ ZoneSize \in Nat
      /\ \A c \in DOMAIN z : c \in Nat
      /\ \A c \in DOMAIN z :
           z[c] \in [size : Nat, used : BOOLEAN, prev : DOMAIN z, next : DOMAIN z]
  BY ZoneAssumption DEF Good
<1>3. \A c \in DOMAIN z \ {b} :
        /\ M[c].size = IF c = a THEN z[a].size + z[b].size ELSE z[c].size
        /\ M[c].used = z[c].used
        /\ M[c].prev = IF c = n THEN a ELSE z[c].prev
        /\ M[c].next = IF c = a THEN n ELSE z[c].next
  BY <1>1
<1>4. \A c \in DOMAIN z : z[c].next = b => c = a
  BY DEF Good
<1>5. \A c \in DOMAIN z : z[c].prev = b => c = n
  BY DEF Good
<1>6. cap \in DOMAIN M /\ DOMAIN M \subseteq 0..ZoneSize
  BY <1>1 DEF Good
<1>7. ASSUME NEW c \in DOMAIN M
      PROVE  /\ M[c] \in [size : Nat, used : BOOLEAN,
                           prev : DOMAIN M, next : DOMAIN M]
             /\ M[M[c].next].prev = c
             /\ M[M[c].prev].next = c
  <2>1. c \in DOMAIN z \ {b}
    BY <1>1
  <2>2. (IF c = n THEN a ELSE z[c].prev) \in DOMAIN M
    BY <2>1, <1>1, <1>2, <1>5
  <2>3. (IF c = a THEN n ELSE z[c].next) \in DOMAIN M
    BY <2>1, <1>1, <1>2, <1>4
  <2>4. (IF c = a THEN z[a].size + z[b].size ELSE z[c].size) \in Nat
    BY <2>1, <1>2
  <2>5. M[c] \in [size : Nat, used : BOOLEAN, prev : DOMAIN M, next : DOMAIN M]
    BY <2>1, <2>2, <2>3, <2>4, <1>1, <1>2
  <2>6. M[M[c].next].prev = c
    BY <2>1, <2>3, <1>1, <1>3, <1>2 DEF Good
  <2>7. M[M[c].prev].next = c
    BY <2>1, <2>2, <1>1, <1>3, <1>2 DEF Good
  <2> QED BY <2>5, <2>6, <2>7
<1>8. ASSUME NEW c \in DOMAIN M \ {cap}
      PROVE  /\ M[c].size > 0
             /\ c + M[c].size <= ZoneSize + 1
             /\ M[c].next = IF c + M[c].size > ZoneSize THEN cap
                            ELSE c + M[c].size
  BY <1>1, <1>2, <1>3 DEF Good
<1>9. ASSUME NEW c \in DOMAIN M \ {cap}, NEW d \in DOMAIN M \ {cap}, c < d
      PROVE  c + M[c].size <= d
  <2>1. c \in DOMAIN z \ {cap} /\ d \in DOMAIN z \ {cap} /\ d # b
    BY <1>1
  <2>2. \A e \in DOMAIN z \ {cap} : e < d => e + z[e].size <= d
    BY <2>1 DEF Good
  <2>3. CASE c # a
    BY <2>1, <2>2, <2>3, <1>1, <1>3, <1>9
  <2>4. CASE c = a
    <3>0. a + z[a].size <= d
      BY <2>2, <2>4, <1>9
    <3>1. b < d
      BY <3>0, <2>1, <1>1, <1>2
    <3>2. b + z[b].size <= d
      BY <3>1, <2>2
    <3>3. M[c].size = z[a].size + z[b].size
      BY <2>1, <2>4, <1>1, <1>3
    <3> QED BY <3>2, <3>3, <2>4, <1>1, <1>2
  <2> QED BY <2>3, <2>4
<1>10. M[cap].size = 0 /\ M[cap].used /\ M[cap].next = 1
  BY <1>1, <1>3 DEF Good
<1> QED BY <1>6, <1>7, <1>8, <1>9, <1>10 DEF Good, M

-----------------------------------------------------------------------------
\* Setting or clearing the tag of a block leaves the list and all else of it.
LEMMA MarkedGood ==
  ASSUME NEW z, Good(z), NEW b \in DOMAIN z \ {cap},
         NEW v \in BOOLEAN
  PROVE  LET F == [z EXCEPT ![b].used = v]
         IN /\ Good(F)
            /\ DOMAIN F = DOMAIN z
            /\ \A c \in DOMAIN z :
                 /\ F[c].size = z[c].size
                 /\ F[c].used = IF c = b THEN v ELSE z[c].used
                 /\ F[c].prev = z[c].prev
                 /\ F[c].next = z[c].next
<1> DEFINE F == [z EXCEPT ![b].used = v]
<1>1. DOMAIN F = DOMAIN z
  OBVIOUS
<1>2. \A c \in DOMAIN z :
        z[c] \in [size : Nat, used : BOOLEAN, prev : DOMAIN z, next : DOMAIN z]
  BY DEF Good
<1>3. ASSUME NEW c \in DOMAIN z
      PROVE  /\ F[c] \in [size : Nat, used : BOOLEAN,
                           prev : DOMAIN z, next : DOMAIN z]
             /\ F[c].size = z[c].size
             /\ F[c].used = IF c = b THEN v ELSE z[c].used
             /\ F[c].prev = z[c].prev
             /\ F[c].next = z[c].next
  <2>1. CASE c = b
    <3>1. F[b] = [z[b] EXCEPT !.used = v]
      OBVIOUS
    <3>2. z[b] \in [size : Nat, used : BOOLEAN, prev : DOMAIN z, next : DOMAIN z]
      BY <1>2
    <3> HIDE DEF F
    <3>3. F[b] \in [size : Nat, used : BOOLEAN, prev : DOMAIN z, next : DOMAIN z]
      BY <3>1, <3>2
    <3>4. /\ F[b].size = z[b].size /\ F[b].used = v
          /\ F[b].prev = z[b].prev /\ F[b].next = z[b].next
      BY <3>1, <3>2
    <3> QED BY <2>1, <3>3, <3>4
  <2>2. CASE c # b
    BY <2>2, <1>2
  <2> QED BY <2>1, <2>2
<1> HIDE DEF F
<1>4. cap \in DOMAIN F /\ DOMAIN F \subseteq 0..ZoneSize
  BY <1>1 DEF Good
<1>5. \A c \in DOMAIN F :
        /\ F[c] \in [size : Nat, used : BOOLEAN, prev : DOMAIN F, next : DOMAIN F]
        /\ F[F[c].next].prev = c
        /\ F[F[c].prev].next = c
  BY <1>1, <1>2, <1>3 DEF Good
<1>6. \A c \in DOMAIN F \ {cap} :
        /\ F[c].size > 0
        /\ c + F[c].size <= ZoneSize + 1
        /\ F[c].next = IF c + F[c].size > ZoneSize THEN cap ELSE c + F[c].size
  BY <1>1, <1>3 DEF Good
<1>7. \A c, d \in DOMAIN F \ {cap} : c < d => c + F[c].size <= d
  BY <1>1, <1>3 DEF Good
<1>8. F[cap].size = 0 /\ F[cap].used /\ F[cap].next = 1
  BY <1>1, <1>3 DEF Good
<1>9. Good(F)
  BY <1>4, <1>5, <1>6, <1>7, <1>8 DEF Good
<1> QED BY <1>1, <1>3, <1>9 DEF F

\* The same of Z_Free's block->tag = 0.
LEMMA FreedGood ==
  ASSUME NEW z, Good(z), NEW b \in DOMAIN z \ {cap}
  PROVE  /\ Good([z EXCEPT ![b].used = FALSE])
         /\ DOMAIN [z EXCEPT ![b].used = FALSE] = DOMAIN z
         /\ \A c \in DOMAIN z :
              /\ [z EXCEPT ![b].used = FALSE][c].used
                   = IF c = b THEN FALSE ELSE z[c].used
              /\ [z EXCEPT ![b].used = FALSE][c].size = z[c].size
              /\ [z EXCEPT ![b].used = FALSE][c].prev = z[c].prev
              /\ [z EXCEPT ![b].used = FALSE][c].next = z[c].next
<1>1. PICK v \in BOOLEAN : v = FALSE
  OBVIOUS
<1> DEFINE F == [z EXCEPT ![b].used = v]
<1>2. /\ Good(F)
      /\ DOMAIN F = DOMAIN z
      /\ \A c \in DOMAIN z :
           /\ F[c].used = IF c = b THEN v ELSE z[c].used
           /\ F[c].size = z[c].size
           /\ F[c].prev = z[c].prev
           /\ F[c].next = z[c].next
  BY MarkedGood
<1>3. F = [z EXCEPT ![b].used = FALSE]
  BY <1>1
<1> HIDE DEF F
<1> QED BY <1>1, <1>2, <1>3

\* No free pair but for the block that has just been freed.
NoOtherPair(z, block) ==
  \A c \in DOMAIN z \ {block} : ~z[c].used => z[z[c].next].used

\* A block is neither its own neighbour before nor after.
LEMMA NextDiffers ==
  ASSUME NEW z, Good(z), NEW b \in DOMAIN z \ {cap}
  PROVE  z[b].next # b /\ z[b].prev # b
<1>1. ZoneSize \in Nat /\ b \in Nat /\ b # 0
  BY ZoneAssumption DEF Good, cap
<1>2. z[b].next # b
  BY <1>1 DEF Good, cap
<1> QED BY <1>2 DEF Good

\* When b, free, goes into a, the only free pair there can be begins at a.
LEMMA MergedNoOtherPair ==
  ASSUME NEW z, Good(z), NEW a \in DOMAIN z \ {cap}, NEW b \in DOMAIN z \ {cap},
         z[a].next = b,
         \A c \in DOMAIN z \ {a, b} : ~z[c].used => z[z[c].next].used
  PROVE  /\ Good(Merged(z, a, b))
         /\ DOMAIN Merged(z, a, b) = DOMAIN z \ {b}
         /\ NoOtherPair(Merged(z, a, b), a)
<1> DEFINE L == Merged(z, a, b)
<1>1. Good(L)
  BY MergedGood
<1>2. /\ DOMAIN L = DOMAIN z \ {b}
      /\ \A c \in DOMAIN z \ {b} :
           /\ L[c].used = z[c].used
           /\ L[c].next = IF c = a THEN z[b].next ELSE z[c].next
  BY MergedLinks
<1>3. \A c \in DOMAIN z : z[c].next = b => c = a
  BY DEF Good
<1> HIDE DEF L
<1>4. ASSUME NEW c \in DOMAIN L \ {a}, ~L[c].used
      PROVE  L[L[c].next].used
  <2>1. c \in DOMAIN z \ {b} /\ ~z[c].used
    BY <1>2, <1>4
  <2>2. z[z[c].next].used /\ z[c].next \in DOMAIN z
    BY <1>2, <1>4, <2>1 DEF Good
  <2>3. L[c].next = z[c].next /\ z[c].next # b
    BY <1>2, <1>3, <2>1
  <2> QED BY <1>2, <2>2, <2>3
<1> QED BY <1>1, <1>2, <1>4 DEF NoOtherPair, L

\* The first half of Z_Free: after the block before has taken b if it was free,
\* the only free pair there can be begins at the block that is left.
LEMMA MergedBelow ==
  ASSUME NEW f, Good(f), NEW b \in DOMAIN f \ {cap}, ~f[b].used,
         \A c \in DOMAIN f \ {f[b].prev, b} : ~f[c].used => f[f[c].next].used
  PROVE  LET other == f[b].prev
             block == IF f[other].used THEN b ELSE other
             low == IF block = b THEN f ELSE Merged(f, block, b)
         IN /\ Good(low)
            /\ NoOtherPair(low, block)
            /\ block \in DOMAIN low \ {cap}
            /\ DOMAIN f \ {b} \subseteq DOMAIN low
<1> DEFINE other == f[b].prev
           L == Merged(f, other, b)
<1>1. other \in DOMAIN f /\ other # b /\ f[other].next = b
  BY NextDiffers DEF Good
<1>2. CASE f[other].used
  BY <1>1, <1>2 DEF NoOtherPair
<1>3. CASE ~f[other].used
  <2>1. other \in DOMAIN f \ {cap}
    BY <1>1, <1>3 DEF Good
  <2>2. Good(L) /\ DOMAIN L = DOMAIN f \ {b} /\ NoOtherPair(L, other)
    BY <1>1, <2>1, MergedNoOtherPair
  <2> HIDE DEF L
  <2> QED BY <1>1, <1>3, <2>1, <2>2 DEF L
<1> QED BY <1>2, <1>3

\* The second half of Z_Free: after the block after has been taken if it was
\* free, no free pair is left, and only the block that was taken is gone.
LEMMA MergedAbove ==
  ASSUME NEW low, Good(low), NEW block \in DOMAIN low \ {cap},
         NoOtherPair(low, block)
  PROVE  LET above == low[block].next
             all == IF low[above].used THEN low ELSE Merged(low, block, above)
         IN /\ Good(all)
            /\ NoFreePair(all)
            /\ block \in DOMAIN all
            /\ \A c \in DOMAIN low :
                 (c = above /\ ~low[above].used) \/ c \in DOMAIN all
<1> DEFINE above == low[block].next
           L == Merged(low, block, above)
<1>1. above \in DOMAIN low /\ above # block
  BY NextDiffers DEF Good
<1>2. CASE low[above].used
  <2>1. NoFreePair(low)
    BY <1>2 DEF NoOtherPair, NoFreePair
  <2> QED BY <1>2, <2>1
<1>3. CASE ~low[above].used
  <2>1. above \in DOMAIN low \ {cap}
    BY <1>1, <1>3 DEF Good
  <2>2. Good(L)
    BY <2>1, MergedGood
  <2>3. /\ DOMAIN L = DOMAIN low \ {above}
        /\ low[above].next # above
        /\ \A c \in DOMAIN low \ {above} :
             /\ L[c].used = low[c].used
             /\ L[c].next = IF c = block THEN low[above].next ELSE low[c].next
    BY <2>1, MergedLinks
  <2> HIDE DEF L
  <2>4. ASSUME NEW c \in DOMAIN L, ~L[c].used
        PROVE  L[L[c].next].used
    <3>1. c \in DOMAIN low \ {above} /\ ~low[c].used
      BY <2>3, <2>4
    <3>2. CASE c = block
      <4>1. low[low[above].next].used /\ low[above].next \in DOMAIN low
        BY <1>1, <1>3 DEF NoOtherPair, Good
      <4> QED BY <4>1, <2>3, <3>1, <3>2
    <3>3. CASE c # block
      <4>1. low[low[c].next].used /\ low[c].next \in DOMAIN low
        BY <3>1, <3>3 DEF NoOtherPair, Good
      <4>2. low[c].next # above
        BY <1>3, <4>1
      <4> QED BY <4>1, <4>2, <2>3, <3>1, <3>3
    <3> QED BY <3>2, <3>3
  <2>5. NoFreePair(L)
    BY <2>4 DEF NoFreePair
  <2> QED BY <1>1, <1>3, <2>2, <2>3, <2>5 DEF L
<1> QED BY <1>2, <1>3

\* Z_Free keeps ZInv.  The rover stays on a block, since both blocks that may
\* have gone are looked for.
LEMMA FreeZInv ==
  ASSUME ZInv, NEW b \in Blocks, Z_Free(b)
  PROVE  ZInv'
<1> DEFINE freed == [zone EXCEPT ![b].used = FALSE]
           other == freed[b].prev
           block == IF freed[other].used THEN b ELSE other
           low == IF block = b THEN freed ELSE Merged(freed, block, b)
           above == low[block].next
           all == IF low[above].used THEN low ELSE Merged(low, block, above)
<1>1. b \in DOMAIN zone \ {cap} /\ zone[b].used
  BY DEF Blocks, Z_Free
<1>2. /\ Good(freed)
      /\ DOMAIN freed = DOMAIN zone
      /\ \A c \in DOMAIN zone :
           /\ freed[c].used = IF c = b THEN FALSE ELSE zone[c].used
           /\ freed[c].prev = zone[c].prev
           /\ freed[c].next = zone[c].next
  BY <1>1, FreedGood DEF ZInv
<1>3. \A c \in DOMAIN freed \ {freed[b].prev, b} :
        ~freed[c].used => freed[freed[c].next].used
  BY <1>1, <1>2 DEF ZInv, Good, NoFreePair
<1>4. /\ Good(low)
      /\ NoOtherPair(low, block)
      /\ block \in DOMAIN low \ {cap}
      /\ DOMAIN zone \ {b} \subseteq DOMAIN low
  BY <1>1, <1>2, <1>3, MergedBelow
<1>5. /\ zone' = all
      /\ rover' = IF \/ rover = b
                     \/ rover = above /\ ~low[above].used
                  THEN block ELSE rover
      /\ scan' = scan /\ outOfZone' = outOfZone /\ scan.size = 0
  BY DEF Z_Free, Ready
<1> HIDE DEF low, block
<1>6. /\ Good(all)
      /\ NoFreePair(all)
      /\ block \in DOMAIN all
      /\ \A c \in DOMAIN low : (c = above /\ ~low[above].used) \/ c \in DOMAIN all
  BY <1>4, MergedAbove
<1>7. rover' \in DOMAIN all
  BY <1>4, <1>5, <1>6 DEF ZInv
<1>8. ScanOK'
  <2>1. scan = NoScan
    BY <1>5 DEF ZInv, ScanOK
  <2>2. cap \in DOMAIN all
    BY <1>6 DEF Good
  <2>3. scan' = [size |-> 0, base |-> cap, at |-> cap, start |-> cap]
    BY <1>5, <2>1 DEF NoScan
  <2> QED BY <1>5, <2>2, <2>3 DEF ScanOK, NoScan
<1> QED BY <1>5, <1>6, <1>7, <1>8 DEF ZInv

-----------------------------------------------------------------------------
\* Z_TagMalloc cuts the block it has found: the rest is a block that was not
\* there, the list stays well-formed, and the other blocks are as they were.
LEMMA SplitGood ==
  ASSUME NEW z, Good(z), NoFreePair(z), NEW base \in DOMAIN z, ~z[base].used,
         NEW n \in Nat \ {0}, z[base].size >= n,
         z[base].size - n > MINFRAGMENT
  PROVE  LET M == Cut(z, base, n)
         IN /\ Good(M)
            /\ NoFreePair(M)
            /\ DOMAIN M = DOMAIN z \cup {base + n}
            /\ base + n \notin DOMAIN z /\ ~M[base + n].used
            /\ M[base].used /\ M[base].size = n
            /\ \A c \in DOMAIN z \ {base} :
                 M[c].used = z[c].used /\ M[c].size = z[c].size
<1> DEFINE new == base + n
           next == z[base].next
           extra == z[base].size - n
           M == Cut(z, base, n)
<1>1. /\ ZoneSize \in Nat /\ MINFRAGMENT \in Nat
      /\ \A c \in DOMAIN z : c \in Nat
      /\ \A c \in DOMAIN z :
           z[c] \in [size : Nat, used : BOOLEAN, prev : DOMAIN z, next : DOMAIN z]
  BY ZoneAssumption DEF Good
<1>2. base # cap /\ base \in Nat \ {0}
  BY <1>1 DEF Good, cap
<1>3. /\ new \in Nat \ {0} /\ extra \in Nat \ {0}
      /\ new > base /\ new + extra = base + z[base].size
      /\ base + z[base].size <= ZoneSize + 1
  BY <1>1, <1>2 DEF Good, cap
<1>4. new \notin DOMAIN z
  <2> SUFFICES ASSUME new \in DOMAIN z PROVE FALSE
    OBVIOUS
  <2>1. base + z[base].size <= new
    BY <1>2, <1>3 DEF Good, cap
  <2> QED BY <2>1, <1>1, <1>3
<1>5. /\ next \in DOMAIN z /\ next # base /\ next # new
      /\ z[base].prev \in DOMAIN z /\ z[base].prev # base
      /\ z[base].prev # new
  BY <1>1, <1>2, <1>4, NextDiffers
<1>6. M = [c \in DOMAIN z \cup {new} |->
             CASE c = base -> Header(n, TRUE, z[base].prev, new)
               [] c = new -> Header(extra, FALSE, base, next)
               [] c = next -> [z[c] EXCEPT !.prev = new]
               [] OTHER -> z[c]]
  BY <1>1 DEF Cut
<1> HIDE DEF M
<1> HIDE DEF new, next, extra
<1>7. DOMAIN M = DOMAIN z \cup {new}
  BY <1>6
<1>8. /\ M[base] = [size |-> n, used |-> TRUE, prev |-> z[base].prev,
                    next |-> new]
      /\ M[new] = [size |-> extra, used |-> FALSE, prev |-> base,
                   next |-> next]
  <2>1. new # base
    BY <1>2, <1>3
  <2>2. M[base] = Header(n, TRUE, z[base].prev, new)
    BY <1>5, <1>6, <2>1
  <2>3. M[new] = Header(extra, FALSE, base, next)
    BY <1>5, <1>6, <2>1
  <2> QED BY <2>2, <2>3 DEF Header
<1>9. \A c \in DOMAIN z \ {base} :
        M[c] = IF c = next THEN [z[c] EXCEPT !.prev = new] ELSE z[c]
  BY <1>4, <1>5, <1>6
<1>10. /\ M[base].size = n /\ M[base].used
       /\ M[base].prev = z[base].prev /\ M[base].next = new
       /\ M[new].size = extra /\ ~M[new].used
       /\ M[new].prev = base /\ M[new].next = next
  BY <1>8
<1>11. \A c \in DOMAIN z \ {base} :
         /\ M[c].size = z[c].size
         /\ M[c].used = z[c].used
         /\ M[c].prev = IF c = next THEN new ELSE z[c].prev
         /\ M[c].next = z[c].next
  BY <1>1, <1>9
<1>12. \A c \in DOMAIN M :
         M[c] \in [size : Nat, used : BOOLEAN, prev : DOMAIN M, next : DOMAIN M]
  <2> SUFFICES ASSUME NEW c \in DOMAIN M
               PROVE  M[c] \in [size : Nat, used : BOOLEAN,
                                prev : DOMAIN M, next : DOMAIN M]
    OBVIOUS
  <2>1. CASE c = base
    BY <2>1, <1>5, <1>7, <1>8
  <2>2. CASE c = new
    BY <2>2, <1>3, <1>5, <1>7, <1>8
  <2>3. CASE c \in DOMAIN z \ {base}
    BY <2>3, <1>1, <1>7, <1>9
  <2> QED BY <2>1, <2>2, <2>3, <1>7
<1>13. \A c \in DOMAIN z :
         /\ z[c].next = next => c = base
         /\ z[c].prev = base => c = next
  BY DEF Good, next
<1>14. \A c \in DOMAIN M :
         /\ M[M[c].next].prev = c
         /\ M[M[c].prev].next = c
  <2> SUFFICES ASSUME NEW c \in DOMAIN M
               PROVE  M[M[c].next].prev = c /\ M[M[c].prev].next = c
    OBVIOUS
  <2>1. CASE c = base
    BY <2>1, <1>5, <1>10, <1>11 DEF Good
  <2>2. CASE c = new
    BY <2>2, <1>5, <1>10, <1>11
  <2>3. CASE c \in DOMAIN z \ {base}
    <3>1. /\ z[c].next \in DOMAIN z /\ z[c].next # next
          /\ z[z[c].next].prev = c
          /\ z[c].prev \in DOMAIN z /\ (c # next => z[c].prev # base)
          /\ z[z[c].prev].next = c
      BY <2>3, <1>13 DEF Good
    <3>2. M[M[c].next].prev = c
      BY <2>3, <3>1, <1>10, <1>11
    <3>3. M[M[c].prev].next = c
      BY <2>3, <3>1, <1>10, <1>11
    <3> QED BY <3>2, <3>3
  <2> QED BY <2>1, <2>2, <2>3, <1>7
<1>15. \A c \in DOMAIN M \ {cap} :
         /\ M[c].size > 0
         /\ c + M[c].size <= ZoneSize + 1
         /\ M[c].next = IF c + M[c].size > ZoneSize THEN cap ELSE c + M[c].size
  <2> SUFFICES ASSUME NEW c \in DOMAIN M \ {cap}
               PROVE  /\ M[c].size > 0
                      /\ c + M[c].size <= ZoneSize + 1
                      /\ M[c].next = IF c + M[c].size > ZoneSize THEN cap
                                     ELSE c + M[c].size
    OBVIOUS
  <2>1. CASE c = base
    BY <2>1, <1>1, <1>2, <1>3, <1>10 DEF new
  <2>2. CASE c = new
    BY <2>2, <1>1, <1>2, <1>3, <1>10 DEF Good, next
  <2>3. CASE c \in DOMAIN z \ {base}
    BY <2>3, <1>11 DEF Good
  <2> QED BY <2>1, <2>2, <2>3, <1>7
<1>16. \A c, d \in DOMAIN M \ {cap} : c < d => c + M[c].size <= d
  <2> SUFFICES ASSUME NEW c \in DOMAIN M \ {cap}, NEW d \in DOMAIN M \ {cap},
                      c < d
               PROVE  c + M[c].size <= d
    OBVIOUS
  <2>0. \A e, f \in DOMAIN z \ {cap} : e < f => e + z[e].size <= f
    BY DEF Good
  <2>1. CASE d = new /\ c = base
    BY <2>1, <1>10, <1>3 DEF new
  <2>2. CASE d = new /\ c # base
    <3>1. c \in DOMAIN z \ {base, cap} /\ c # new
      BY <2>2, <1>1, <1>3, <1>7
    <3>2. c < base
      <4> SUFFICES ASSUME base < c PROVE FALSE
        BY <3>1, <1>1, <1>2
      <4>1. base + z[base].size <= c
        BY <3>1, <2>0, <1>2
      <4> QED BY <4>1, <2>2, <3>1, <1>1, <1>2, <1>3
    <3>3. c + z[c].size <= base
      BY <3>1, <3>2, <2>0, <1>2
    <3> QED BY <3>1, <3>3, <2>2, <1>1, <1>2, <1>3, <1>11
  <2>3. CASE d # new /\ c = base
    <3>1. base + z[base].size <= d
      BY <2>0, <2>3, <1>2, <1>7
    <3> QED BY <3>1, <2>3, <1>1, <1>2, <1>3, <1>7, <1>10 DEF new
  <2>4. CASE d # new /\ c = new
    <3>1. base < d /\ d \in DOMAIN z \ {cap}
      BY <2>4, <1>1, <1>2, <1>3, <1>7
    <3>2. base + z[base].size <= d
      BY <3>1, <2>0, <1>2
    <3> QED BY <3>2, <2>4, <1>3, <1>10
  <2>5. CASE d # new /\ c # new /\ c # base
    BY <2>0, <2>5, <1>7, <1>11
  <2> QED BY <2>1, <2>2, <2>3, <2>4, <2>5
<1>17. /\ cap \in DOMAIN M /\ DOMAIN M \subseteq 0..ZoneSize
       /\ M[cap].size = 0 /\ M[cap].used /\ M[cap].next = 1
  <2>1. new \in 0..ZoneSize
    BY <1>1, <1>2, <1>3
  <2> QED BY <2>1, <1>2, <1>7, <1>11 DEF Good
<1>18. Good(M)
  BY <1>12, <1>14, <1>15, <1>16, <1>17 DEF Good
<1>19. NoFreePair(M)
  <2> SUFFICES ASSUME NEW c \in DOMAIN M, ~M[c].used
               PROVE  M[M[c].next].used
    BY DEF NoFreePair
  <2>1. CASE c = new
    <3>1. z[next].used
      BY DEF NoFreePair, next
    <3> QED BY <2>1, <3>1, <1>5, <1>10, <1>11
  <2>2. CASE c \in DOMAIN z \ {base}
    <3>1. z[z[c].next].used /\ z[c].next \in DOMAIN z
      BY <2>2, <1>11 DEF NoFreePair, Good
    <3> QED BY <2>2, <3>1, <1>10, <1>11
  <2> QED BY <2>1, <2>2, <1>7, <1>10
<1> QED BY <1>4, <1>7, <1>10, <1>11, <1>18, <1>19 DEF M, new

\* The same whether the block is cut or taken whole.
LEMMA CutGood ==
  ASSUME NEW z, Good(z), NoFreePair(z), NEW base \in DOMAIN z, ~z[base].used,
         NEW n \in Nat \ {0}, z[base].size >= n
  PROVE  LET M == Cut(z, base, n)
         IN /\ Good(M)
            /\ NoFreePair(M)
            /\ DOMAIN z \subseteq DOMAIN M
            /\ \A c \in DOMAIN M \ DOMAIN z : ~M[c].used
            /\ M[base].used /\ M[base].size \in n..z[base].size
            /\ \A c \in DOMAIN z \ {base} :
                 M[c].used = z[c].used /\ M[c].size = z[c].size
<1> DEFINE F == [z EXCEPT ![base].used = TRUE]
<1>0. z[base].size \in Nat
  BY DEF Good
<1>1. CASE z[base].size - n > MINFRAGMENT
  <2> DEFINE M == Cut(z, base, n)
  <2>1. /\ Good(M)
        /\ NoFreePair(M)
        /\ DOMAIN M = DOMAIN z \cup {base + n}
        /\ ~M[base + n].used
        /\ M[base].used /\ M[base].size = n
        /\ \A c \in DOMAIN z \ {base} :
             M[c].used = z[c].used /\ M[c].size = z[c].size
    BY <1>1, SplitGood
  <2> HIDE DEF M
  <2>2. M[base].size \in n..z[base].size
    BY <2>1, <1>0
  <2> QED BY <2>1, <2>2 DEF M
<1>2. CASE ~(z[base].size - n > MINFRAGMENT)
  <2>1. base \in DOMAIN z \ {cap}
    BY DEF Good
  <2>2. Cut(z, base, n) = F
    <3>1. z[base].size \in Nat /\ MINFRAGMENT \in Nat
      BY ZoneAssumption DEF Good
    <3> QED BY <3>1, <1>2 DEF Cut
  <2>3. /\ Good(F)
        /\ DOMAIN F = DOMAIN z
        /\ \A c \in DOMAIN z :
             /\ F[c].used = IF c = base THEN TRUE ELSE z[c].used
             /\ F[c].size = z[c].size
             /\ F[c].next = z[c].next
    <3>1. PICK v \in BOOLEAN : v = TRUE
      OBVIOUS
    <3> DEFINE G == [z EXCEPT ![base].used = v]
    <3>2. /\ Good(G)
          /\ DOMAIN G = DOMAIN z
          /\ \A c \in DOMAIN z :
               /\ G[c].used = IF c = base THEN v ELSE z[c].used
               /\ G[c].size = z[c].size
               /\ G[c].next = z[c].next
      BY <2>1, MarkedGood
    <3>3. F = G
      BY <3>1
    <3> HIDE DEF F, G
    <3> QED BY <3>1, <3>2, <3>3
  <2> HIDE DEF F
  <2>4. NoFreePair(F)
    <3> SUFFICES ASSUME NEW c \in DOMAIN F, ~F[c].used
                 PROVE  F[F[c].next].used
      BY DEF NoFreePair
    <3>1. c \in DOMAIN z /\ ~z[c].used
      BY <2>3
    <3>2. z[z[c].next].used /\ z[c].next \in DOMAIN z
      BY <3>1 DEF NoFreePair, Good
    <3>3. F[z[c].next].used
      BY <2>3, <3>2
    <3> QED BY <2>3, <3>1, <3>3
  <2>5. F[base].used /\ F[base].size \in n..z[base].size
    <3>1. F[base].used /\ F[base].size = z[base].size
      BY <2>3
    <3>2. z[base].size \in n..z[base].size
      BY <1>0
    <3> QED BY <3>1, <3>2
  <2> QED BY <2>2, <2>3, <2>4, <2>5
<1> QED BY <1>1, <1>2

\* Z_Malloc begins its scan on blocks of the list.
LEMMA MallocZInv ==
  ASSUME ZInv, NEW n \in Allocsize, Z_Malloc(n)
  PROVE  ZInv'
<1>1. /\ zone' = zone /\ rover' = rover /\ outOfZone' = outOfZone
      /\ scan' = [size |-> n, base |-> rover, at |-> rover,
                  start |-> zone[rover].prev]
  BY DEF Z_Malloc
<1>2. n # 0
  BY ZoneAssumption
<1>3. zone[rover].prev \in DOMAIN zone /\ rover \in DOMAIN zone
  BY DEF ZInv, Good
<1>4. ScanOK'
  BY <1>1, <1>2, <1>3 DEF ScanOK
<1>5. Good(zone') /\ NoFreePair(zone')
  BY <1>1 DEF ZInv
<1> QED BY <1>1, <1>4, <1>5 DEF ZInv

\* A round of the loop of Z_TagMalloc keeps ZInv: it gives up, moves on, or
\* takes the block it has found.
LEMMA TagMallocZInv ==
  ASSUME ZInv, Z_TagMalloc
  PROVE  ZInv'
<1> DEFINE next == zone[scan.at].next
           base == IF zone[scan.at].used THEN next ELSE scan.base
           found == ~zone[base].used /\ zone[base].size >= scan.size
<1>1. /\ scan.size \in Allocsize /\ scan.size # 0
      /\ scan.base \in DOMAIN zone /\ scan.at \in DOMAIN zone
      /\ scan.start \in DOMAIN zone
      /\ scan = [size |-> scan.size, base |-> scan.base, at |-> scan.at,
                 start |-> scan.start]
  BY DEF ZInv, ScanOK, Z_TagMalloc
<1>2. next \in DOMAIN zone /\ base \in DOMAIN zone
  BY <1>1 DEF ZInv, Good
<1>3. CASE outOfZone' = TRUE /\ UNCHANGED <<zone, rover, scan>>
  BY <1>3 DEF ZInv, ScanOK, NoScan
<1>4. CASE /\ scan' = [scan EXCEPT !.base = base, !.at = next]
           /\ UNCHANGED <<zone, rover, outOfZone>>
  <2>1. scan' = [size |-> scan.size, base |-> base, at |-> next,
                 start |-> scan.start]
    BY <1>1, <1>4
  <2>2. ScanOK'
    BY <1>1, <1>2, <1>4, <2>1 DEF ScanOK
  <2>3. Good(zone') /\ NoFreePair(zone') /\ rover' \in DOMAIN zone'
        /\ outOfZone' \in BOOLEAN
    BY <1>4 DEF ZInv
  <2> QED BY <2>2, <2>3 DEF ZInv
<1>5. CASE /\ found
           /\ zone' = Cut(zone, base, scan.size)
           /\ rover' = zone'[base].next
           /\ scan' = NoScan
           /\ UNCHANGED outOfZone
  <2>1. scan.size \in Nat \ {0}
    BY <1>1, ZoneAssumption
  <2> HIDE DEF base
  <2>2. /\ Good(zone') /\ NoFreePair(zone') /\ base \in DOMAIN zone'
    BY <1>2, <1>5, <2>1, CutGood DEF ZInv
  <2>3. rover' \in DOMAIN zone' /\ cap \in DOMAIN zone'
    BY <1>5, <2>2 DEF Good
  <2>4. ScanOK'
    BY <1>5, <2>3 DEF ScanOK, NoScan
  <2> QED BY <1>5, <2>2, <2>3, <2>4 DEF ZInv
<1> QED BY <1>3, <1>4, <1>5 DEF Z_TagMalloc

-----------------------------------------------------------------------------
\* Every step of the zone keeps ZInv.
LEMMA ZInvInductive == ZInv /\ [ZoneNext]_zoneVars => ZInv'
<1> SUFFICES ASSUME ZInv, [ZoneNext]_zoneVars PROVE ZInv'
  OBVIOUS
<1>1. CASE UNCHANGED zoneVars
  BY <1>1 DEF ZInv, ScanOK, NoScan, zoneVars
<1>2. CASE ZoneNext
  BY <1>2, MallocZInv, TagMallocZInv, FreeZInv DEF ZoneNext
<1> QED BY <1>1, <1>2

\* ZInv holds in every state of the zone, whatever is asked for and freed.
THEOREM ZoneInvariance == ZoneSpec => []ZInv
<1>1. ZoneInit => ZInv
  BY InitZInv
<1>2. ZInv /\ [ZoneNext]_zoneVars => ZInv'
  BY ZInvInductive
<1> QED BY <1>1, <1>2, PTL DEF ZoneSpec

\* Whatever Z_Malloc and Z_Free are called with, the headers lie in the zone and
\* point at headers, as does the scan of Z_TagMalloc.
THEOREM ZoneTypeCorrectness == ZoneSpec => []ZoneTypeOK
<1>1. ZInv => ZoneTypeOK
  <2> SUFFICES ASSUME ZInv PROVE ZoneTypeOK
    OBVIOUS
  <2>1. ZoneSize \in Nat /\ DOMAIN zone \subseteq 0..ZoneSize
    BY ZoneAssumption DEF ZInv, Good
  <2>2. DOMAIN zone \subseteq Address \cup {cap}
    BY <2>1 DEF Address, cap
  <2>3. ASSUME NEW a \in DOMAIN zone
        PROVE  zone[a] \in [size : 0..ZoneSize, used : BOOLEAN,
                            prev : DOMAIN zone, next : DOMAIN zone]
    <3>1. zone[a] \in [size : Nat, used : BOOLEAN,
                       prev : DOMAIN zone, next : DOMAIN zone]
      BY DEF ZInv, Good
    <3>2. zone[a].size \in 0..ZoneSize
      BY <2>1, <3>1 DEF ZInv, Good, cap
    <3> QED BY <3>1, <3>2
  <2> QED BY <2>2, <2>3 DEF ZoneTypeOK, ZInv, ScanOK
<1> QED BY <1>1, ZoneInvariance, PTL

\* What Z_CheckHeap looks for never happens, in a zone of any size: the blocks
\* that Z_TagMalloc and Z_Free leave fill it without a gap, their links agree, no
\* two free ones follow each other, and the rover stands on one of them.
THEOREM ZoneCorrectness == ZoneSpec => []ZoneIsWhole
<1>1. ZInv => ZoneIsWhole
  BY DEF ZInv, Good, NoFreePair, ZoneIsWhole, Blocks
<1> QED BY <1>1, ZoneInvariance, PTL

-----------------------------------------------------------------------------
(* The zone implements the heap.  To ZInv this adds what Z_TagMalloc has   *)
(* looked at, ScanCovers: that is why it does not fail while a free block  *)
(* would do.                                                               *)

\* The blocks from r to x, around the end of the zone if x is before r.
Arc(z, r, x) ==
  {c \in DOMAIN z : IF r <= x THEN r <= c /\ c <= x ELSE r <= c \/ c <= x}

\* A scan that runs ends before the rover.  It has just begun, or the free blocks
\* it has gone over are too small.
ScanCovers ==
  scan.size # 0 =>
    /\ scan.start = zone[rover].prev
    /\ \/ scan.at = rover /\ scan.base = rover
       \/ \A c \in Arc(zone, rover, scan.at) :
            ~zone[c].used => zone[c].size < scan.size

-----------------------------------------------------------------------------
\* The list is in the order of the addresses: no block lies between a block and
\* the one after it, and the block before the cap is the last.
LEMMA NextIsNearest ==
  ASSUME NEW z, Good(z), NEW x \in DOMAIN z, NEW c \in DOMAIN z
  PROVE  /\ z[x].next # cap => x < z[x].next /\ (x < c => z[x].next <= c)
         /\ z[x].next = cap => c <= x
<1>1. /\ ZoneSize \in Nat /\ x \in Nat /\ c \in Nat
      /\ z[x].size \in Nat /\ z[c].size \in Nat
  BY ZoneAssumption DEF Good
<1>2. CASE x = cap
  BY <1>1, <1>2 DEF Good, cap
<1>3. CASE x # cap
  <2>1. z[x].next = IF x + z[x].size > ZoneSize THEN cap ELSE x + z[x].size
    BY <1>3 DEF Good
  <2>2. z[x].size > 0
    BY <1>3 DEF Good
  <2>3. x < c => x + z[x].size <= c
    BY <1>1, <1>3 DEF Good, cap
  <2>4. c <= ZoneSize
    BY <1>1 DEF Good
  <2> QED BY <1>1, <2>1, <2>2, <2>3, <2>4 DEF cap
<1> QED BY <1>2, <1>3

\* A step of the scan along the list adds one block to what it has gone over.
LEMMA ArcGrows ==
  ASSUME NEW z, Good(z), NEW r \in DOMAIN z, NEW x \in DOMAIN z,
         x # z[r].prev
  PROVE  \A c \in Arc(z, r, z[x].next) : c \in Arc(z, r, x) \/ c = z[x].next
<1> SUFFICES ASSUME NEW c \in DOMAIN z, c # z[x].next,
                    c \in Arc(z, r, z[x].next)
             PROVE  c \in Arc(z, r, x)
  BY DEF Arc
<1>1. z[x].next \in DOMAIN z /\ z[x].next # r
  BY DEF Good
<1>2. /\ c \in Nat /\ r \in Nat /\ x \in Nat /\ z[x].next \in Nat
  BY <1>1, ZoneAssumption DEF Good
<1>3. CASE z[x].next = cap
  <2>1. c <= x /\ r <= x
    BY <1>3, NextIsNearest
  <2> QED BY <1>1, <1>2, <1>3, <2>1 DEF Arc, cap
<1>4. CASE z[x].next # cap
  <2>1. /\ x < z[x].next
        /\ x < c => z[x].next <= c
        /\ x < r => z[x].next <= r
    BY <1>4, NextIsNearest
  <2> QED BY <1>1, <1>2, <2>1 DEF Arc
<1> QED BY <1>3, <1>4

\* When the scan has come to the block before the rover it has gone over all.
LEMMA ArcIsAll ==
  ASSUME NEW z, Good(z), NEW r \in DOMAIN z
  PROVE  Arc(z, r, z[r].prev) = DOMAIN z
<1>1. z[r].prev \in DOMAIN z /\ z[z[r].prev].next = r
  BY DEF Good
<1> SUFFICES ASSUME NEW c \in DOMAIN z
             PROVE  c \in Arc(z, r, z[r].prev)
  BY DEF Arc
<1>2. c \in Nat /\ r \in Nat /\ z[r].prev \in Nat
  BY <1>1, ZoneAssumption DEF Good
<1>3. CASE r = cap
  <2>1. c <= z[r].prev
    BY <1>1, <1>3, NextIsNearest
  <2> QED BY <1>2, <1>3, <2>1 DEF Arc, cap
<1>4. CASE r # cap
  <2>1. z[r].prev < r /\ (z[r].prev < c => r <= c)
    BY <1>1, <1>4, NextIsNearest
  <2> QED BY <1>2, <2>1 DEF Arc
<1> QED BY <1>3, <1>4

-----------------------------------------------------------------------------
\* The order of the natural numbers, as a relation.

\* Every address of the zone lies in a block: the last one that begins at or
\* before it reaches over it, or the next would begin at or before it as well.
LEMMA Covered ==
  ASSUME NEW z, Good(z), NEW a \in Address
  PROVE  \E b \in DOMAIN z \ {cap} : b <= a /\ a < b + z[b].size
<1> DEFINE Behind == {k \in Nat : a - k \in DOMAIN z \ {cap}}
<1>1. /\ ZoneSize \in Nat /\ a \in Nat /\ 1 <= a /\ a <= ZoneSize
      /\ \A c \in DOMAIN z : c \in Nat /\ z[c].size \in Nat
  BY ZoneAssumption DEF Good, Address
<1>2. 1 \in DOMAIN z \ {cap}
  BY DEF Good, cap
<1>3. a - 1 \in Behind
  <2>1. a - 1 \in Nat /\ a - (a - 1) = 1
    BY <1>1
  <2> QED BY <2>1, <1>2
<1>4. PICK k \in Behind : \A j \in Behind : k <= j
  <2>1. Behind \in SUBSET Nat /\ Behind # {}
    BY <1>3
  <2> HIDE DEF Behind
  <2> QED BY <2>1, LeastOfSet
<1> DEFINE b == a - k
<1>5. k \in Nat /\ b \in DOMAIN z \ {cap} /\ b <= a
  BY <1>1, <1>4
<1>6. \A c \in DOMAIN z \ {cap} : c <= a => c <= b
  <2> SUFFICES ASSUME NEW c \in DOMAIN z \ {cap}, c <= a PROVE c <= b
    OBVIOUS
  <2>1. a - c \in Nat /\ a - (a - c) = c
    BY <1>1
  <2>2. a - c \in Behind
    BY <2>1
  <2> QED BY <2>1, <2>2, <1>1, <1>4
<1> HIDE DEF b
<1>7. a < b + z[b].size
  <2> SUFFICES ASSUME b + z[b].size <= a PROVE FALSE
    BY <1>1, <1>5
  <2>1. /\ z[b].size > 0
        /\ z[b].next = b + z[b].size
        /\ z[b].next \in DOMAIN z
    BY <1>1, <1>5 DEF Good
  <2>2. z[b].next # cap
    BY <1>1, <1>5, <2>1 DEF cap
  <2> QED BY <1>1, <1>5, <1>6, <2>1, <2>2
<1> QED BY <1>5, <1>7

-----------------------------------------------------------------------------
\* Z_Malloc starts the scan right, and each round of Z_TagMalloc looks at the
\* block it comes to or knows it to be in use, as the block before is free.
LEMMA ScanCoversInductive ==
  ZInv /\ ScanCovers /\ [ZoneNext]_zoneVars => ScanCovers'
<1> SUFFICES ASSUME ZInv, ScanCovers, [ZoneNext]_zoneVars PROVE ScanCovers'
  OBVIOUS
<1>1. CASE UNCHANGED zoneVars
  BY <1>1 DEF ScanCovers, Arc, zoneVars
<1>2. ASSUME NEW n \in Allocsize, Z_Malloc(n) PROVE ScanCovers'
  BY <1>2 DEF Z_Malloc, ScanCovers
<1>3. ASSUME NEW b \in Blocks, Z_Free(b) PROVE ScanCovers'
  BY <1>3 DEF Z_Free, Ready, ScanCovers
<1>4. CASE Z_TagMalloc
  <2> DEFINE next == zone[scan.at].next
             base == IF zone[scan.at].used THEN next ELSE scan.base
             found == ~zone[base].used /\ zone[base].size >= scan.size
  <2>1. CASE outOfZone' = TRUE /\ UNCHANGED <<zone, rover, scan>>
    BY <2>1 DEF ScanCovers, Arc
  <2>2. CASE scan' = NoScan
    BY <2>2 DEF ScanCovers, NoScan
  <2>3. CASE /\ scan.at # scan.start /\ ~found
             /\ scan' = [scan EXCEPT !.base = base, !.at = next]
             /\ UNCHANGED <<zone, rover, outOfZone>>
    <3>1. /\ scan.size \in Nat \ {0} /\ scan.at \in DOMAIN zone
          /\ rover \in DOMAIN zone
          /\ \A c \in DOMAIN zone : c \in Nat /\ zone[c].size \in Nat
          /\ Good(zone) /\ NoFreePair(zone)
      BY <1>4, ZoneAssumption DEF Z_TagMalloc, ZInv, ScanOK, Good
    <3>2. scan.start = zone[rover].prev
      BY <3>1 DEF ScanCovers
    <3>3. next \in DOMAIN zone
      BY <3>1 DEF Good
    <3>4. \A c \in Arc(zone, rover, next) :
            c \in Arc(zone, rover, scan.at) \/ c = next
      BY <2>3, <3>1, <3>2, ArcGrows
    <3>5. ~zone[next].used => zone[next].size < scan.size
      <4>1. CASE zone[scan.at].used
        BY <4>1, <2>3, <3>1, <3>3
      <4>2. CASE ~zone[scan.at].used
        BY <4>2, <3>1 DEF NoFreePair
      <4> QED BY <4>1, <4>2
    <3>6. \A c \in Arc(zone, rover, scan.at) :
            ~zone[c].used => zone[c].size < scan.size
      <4>1. CASE scan.at = rover /\ scan.base = rover
        <5>1. \A c \in Arc(zone, rover, scan.at) : c = rover
          BY <4>1, <3>1 DEF Arc
        <5>2. ~zone[rover].used => zone[rover].size < scan.size
          BY <4>1, <2>3, <3>1
        <5> QED BY <5>1, <5>2
      <4> QED BY <4>1, <3>1 DEF ScanCovers
    <3>7. \A c \in Arc(zone, rover, next) :
            ~zone[c].used => zone[c].size < scan.size
      BY <3>4, <3>5, <3>6
    <3>8. /\ scan'.size = scan.size /\ scan'.start = scan.start
          /\ scan'.at = next /\ zone' = zone /\ rover' = rover
      BY <2>3 DEF ZInv, ScanOK
    <3> HIDE DEF next
    <3> QED BY <3>2, <3>7, <3>8 DEF ScanCovers, Arc
  <2> QED BY <1>4, <2>1, <2>2, <2>3 DEF Z_TagMalloc
<1> QED BY <1>1, <1>2, <1>3, <1>4 DEF ZoneNext

\* When Z_TagMalloc gives up, every free block is too small.
LEMMA NothingFits ==
  ASSUME ZInv, ScanCovers, scan.size # 0, scan.at = scan.start
  PROVE  \A c \in DOMAIN zone : ~zone[c].used => zone[c].size < scan.size
<1>1. rover \in DOMAIN zone /\ Good(zone)
  BY DEF ZInv
<1>2. zone[rover].prev # rover
  BY <1>1, NextDiffers DEF Good, cap
<1>3. scan.start = zone[rover].prev
  BY DEF ScanCovers
<1>4. \A c \in Arc(zone, rover, scan.at) :
        ~zone[c].used => zone[c].size < scan.size
  BY <1>2, <1>3 DEF ScanCovers
<1> QED BY <1>1, <1>3, <1>4, ArcIsAll

-----------------------------------------------------------------------------
\* The pieces in use, as the refinement mapping has them.
PieceOf(z, a) == [first |-> a, last |-> a + z[a].size - 1]
Live(z) == {PieceOf(z, a) : a \in {b \in DOMAIN z \ {cap} : z[b].used}}

\* When Z_TagMalloc gives up, no stretch of the zone that is long enough is
\* free: it would begin in a free block, reach beyond it, and there lies a block
\* in use, since no two free blocks follow each other.
LEMMA NoStretchFits ==
  ASSUME ZInv, ScanCovers, scan.size # 0, scan.at = scan.start,
         NEW a \in Address,
         a..(a + scan.size - 1) \subseteq Address
  PROVE  \E q \in Live(zone) :
           ~(a + scan.size - 1 < q.first \/ q.last < a)
<1> DEFINE n == scan.size
<1>1. /\ ZoneSize \in Nat /\ a \in Nat /\ n \in Nat \ {0}
      /\ \A c \in DOMAIN zone : c \in Nat /\ zone[c].size \in Nat
      /\ Good(zone) /\ NoFreePair(zone)
  <2>1. Good(zone) /\ NoFreePair(zone) /\ scan.size \in Allocsize
    BY DEF ZInv, ScanOK
  <2>2. ZoneSize \in Nat /\ Allocsize \subseteq Nat \ {0}
    BY ZoneAssumption
  <2>3. \A c \in DOMAIN zone : c \in Nat /\ zone[c].size \in Nat
    BY <2>1, <2>2 DEF Good
  <2>4. a \in Nat
    BY <2>2 DEF Address
  <2>5. scan.size \in Nat \ {0}
    BY <2>1, <2>2
  <2> QED BY <2>1, <2>2, <2>3, <2>4, <2>5
<1>2. PICK b \in DOMAIN zone \ {cap} : b <= a /\ a < b + zone[b].size
  BY <1>1, Covered
<1>3. ASSUME NEW c \in DOMAIN zone \ {cap}, zone[c].used,
             c <= a + n - 1, a < c + zone[c].size
      PROVE  \E q \in Live(zone) : ~(a + n - 1 < q.first \/ q.last < a)
  <2>1. PieceOf(zone, c) \in Live(zone)
    BY <1>3 DEF Live
  <2>2. ~(a + n - 1 < PieceOf(zone, c).first \/ PieceOf(zone, c).last < a)
    BY <1>1, <1>3 DEF PieceOf
  <2> QED BY <2>1, <2>2
<1>4. CASE zone[b].used
  BY <1>1, <1>2, <1>3, <1>4
<1>5. CASE ~zone[b].used
  <2>1. zone[b].size < n
    BY <1>5, NothingFits
  <2>2. b + zone[b].size <= a + n - 1
    BY <1>1, <1>2, <2>1
  <2>3. a + n - 1 <= ZoneSize
    <3>1. a + n - 1 \in a..(a + n - 1)
      BY <1>1
    <3> QED BY <3>1, <1>1 DEF Address
  <2>4. /\ zone[b].next = b + zone[b].size
        /\ zone[b].next \in DOMAIN zone \ {cap}
    BY <1>1, <1>2, <2>2, <2>3 DEF Good, cap
  <2>5. zone[zone[b].next].used
    BY <1>1, <1>5 DEF NoFreePair
  <2>6. zone[zone[b].next].size > 0
    BY <1>1, <2>4 DEF Good
  <2> QED BY <1>1, <1>2, <1>3, <2>2, <2>4, <2>5, <2>6
<1> QED BY <1>4, <1>5

\* The pieces of two blocks differ.
LEMMA PiecesDiffer ==
  ASSUME NEW z, NEW w, NEW a, NEW b, PieceOf(z, a) = PieceOf(w, b)
  PROVE  a = b
BY DEF PieceOf

\* The pieces in use depend on the used blocks and their sizes only.
LEMMA SameLive ==
  ASSUME NEW z, NEW w,
         \A c : c \in DOMAIN z \ {cap} /\ z[c].used
                <=> c \in DOMAIN w \ {cap} /\ w[c].used,
         \A c \in DOMAIN z \ {cap} : z[c].used => w[c].size = z[c].size
  PROVE  Live(w) = Live(z)
<1>1. {b \in DOMAIN z \ {cap} : z[b].used} = {b \in DOMAIN w \ {cap} : w[b].used}
  OBVIOUS
<1>2. \A c \in {b \in DOMAIN z \ {cap} : z[b].used} : PieceOf(z, c) = PieceOf(w, c)
  BY DEF PieceOf
<1> QED BY <1>1, <1>2 DEF Live

\* Merging two free blocks changes no piece in use.
LEMMA MergedLive ==
  ASSUME NEW z, Good(z), NEW a \in DOMAIN z \ {cap}, NEW b \in DOMAIN z \ {cap},
         z[a].next = b, ~z[a].used, ~z[b].used
  PROVE  Live(Merged(z, a, b)) = Live(z) /\ ~Merged(z, a, b)[a].used
<1> DEFINE M == Merged(z, a, b)
<1>1. /\ DOMAIN M = DOMAIN z \ {b}
      /\ \A c \in DOMAIN z \ {b} :
           M[c] = [size |-> IF c = a THEN z[a].size + z[b].size ELSE z[c].size,
                   used |-> z[c].used,
                   prev |-> IF c = z[b].next THEN a ELSE z[c].prev,
                   next |-> IF c = a THEN z[b].next ELSE z[c].next]
  BY MergedFields
<1> HIDE DEF M
<1>2. \A c \in DOMAIN z \ {b} :
        M[c].used = z[c].used /\ (c # a => M[c].size = z[c].size)
  BY <1>1
<1>3. \A c : c \in DOMAIN z \ {cap} /\ z[c].used
             <=> c \in DOMAIN M \ {cap} /\ M[c].used
  BY <1>1, <1>2
<1>4. \A c \in DOMAIN z \ {cap} : z[c].used => M[c].size = z[c].size
  BY <1>2
<1>5. ~M[a].used
  <2>1. a # b
    BY NextDiffers
  <2> QED BY <1>2, <2>1
<1> QED BY <1>3, <1>4, <1>5, SameLive DEF M

\* Clearing the tag of a block takes its piece away and no other.
LEMMA FreedLive ==
  ASSUME NEW z, Good(z), NEW b \in DOMAIN z \ {cap}, z[b].used
  PROVE  Live([z EXCEPT ![b].used = FALSE]) = Live(z) \ {PieceOf(z, b)}
<1> DEFINE F == [z EXCEPT ![b].used = FALSE]
<1>1. /\ DOMAIN F = DOMAIN z
      /\ \A c \in DOMAIN z :
           /\ F[c].used = IF c = b THEN FALSE ELSE z[c].used
           /\ F[c].size = z[c].size
  BY FreedGood
<1> HIDE DEF F
<1>2. ASSUME NEW q PROVE q \in Live(F) <=> q \in Live(z) \ {PieceOf(z, b)}
  <2>1. ASSUME q \in Live(F) PROVE q \in Live(z) \ {PieceOf(z, b)}
    <3>1. PICK c \in DOMAIN F \ {cap} : F[c].used /\ q = PieceOf(F, c)
      BY <2>1 DEF Live
    <3>2. c # b /\ z[c].used /\ c \in DOMAIN z \ {cap}
      BY <1>1, <3>1
    <3>3. q = PieceOf(z, c)
      BY <1>1, <3>1, <3>2 DEF PieceOf
    <3> QED BY <3>2, <3>3, PiecesDiffer DEF Live
  <2>2. ASSUME q \in Live(z) \ {PieceOf(z, b)} PROVE q \in Live(F)
    <3>1. PICK c \in DOMAIN z \ {cap} : z[c].used /\ q = PieceOf(z, c)
      BY <2>2 DEF Live
    <3>2. F[c].used /\ c \in DOMAIN F \ {cap}
      BY <1>1, <2>2, <3>1
    <3>3. q = PieceOf(F, c)
      BY <1>1, <3>1 DEF PieceOf
    <3> QED BY <3>2, <3>3 DEF Live
  <2> QED BY <2>1, <2>2
<1> QED BY <1>2 DEF F

\* Z_TagMalloc adds the piece of the block it has found and no other.
LEMMA CutLive ==
  ASSUME NEW z, Good(z), NoFreePair(z), NEW base \in DOMAIN z, ~z[base].used,
         NEW n \in Nat \ {0}, z[base].size >= n
  PROVE  Live(Cut(z, base, n)) = Live(z) \cup {PieceOf(Cut(z, base, n), base)}
<1> DEFINE M == Cut(z, base, n)
<1>1. /\ DOMAIN z \subseteq DOMAIN M
      /\ \A c \in DOMAIN M \ DOMAIN z : ~M[c].used
      /\ M[base].used
      /\ \A c \in DOMAIN z \ {base} :
           M[c].used = z[c].used /\ M[c].size = z[c].size
  BY CutGood
<1> HIDE DEF M
<1>2. base # cap
  BY DEF Good
<1>3. ASSUME NEW q PROVE q \in Live(M) <=> q \in Live(z) \cup {PieceOf(M, base)}
  <2>1. ASSUME q \in Live(M) PROVE q \in Live(z) \cup {PieceOf(M, base)}
    <3>1. PICK c \in DOMAIN M \ {cap} : M[c].used /\ q = PieceOf(M, c)
      BY <2>1 DEF Live
    <3>2. CASE c = base
      BY <3>1, <3>2
    <3>3. CASE c # base
      <4>1. c \in DOMAIN z \ {cap} /\ z[c].used
        BY <1>1, <3>1, <3>3
      <4>2. q = PieceOf(z, c)
        BY <1>1, <3>1, <3>3, <4>1 DEF PieceOf
      <4> QED BY <4>1, <4>2 DEF Live
    <3> QED BY <3>2, <3>3
  <2>2. ASSUME q \in Live(z) PROVE q \in Live(M)
    <3>1. PICK c \in DOMAIN z \ {cap} : z[c].used /\ q = PieceOf(z, c)
      BY <2>2 DEF Live
    <3>2. M[c].used /\ c \in DOMAIN M \ {cap}
      BY <1>1, <3>1
    <3>3. q = PieceOf(M, c)
      BY <1>1, <3>1 DEF PieceOf
    <3> QED BY <3>2, <3>3 DEF Live
  <2>3. PieceOf(M, base) \in Live(M)
    BY <1>1, <1>2 DEF Live
  <2> QED BY <2>1, <2>2, <2>3
<1> QED BY <1>3 DEF M

\* The first half of Z_Free changes no piece in use.
LEMMA BelowLive ==
  ASSUME NEW f, Good(f), NEW b \in DOMAIN f \ {cap}, ~f[b].used
  PROVE  LET other == f[b].prev
             block == IF f[other].used THEN b ELSE other
             low == IF block = b THEN f ELSE Merged(f, block, b)
         IN Live(low) = Live(f) /\ (block \in DOMAIN low => ~low[block].used)
<1> DEFINE other == f[b].prev
<1>1. other \in DOMAIN f /\ other # b /\ f[other].next = b
  BY NextDiffers DEF Good
<1>2. CASE f[other].used
  BY <1>2
<1>3. CASE ~f[other].used
  <2>1. other \in DOMAIN f \ {cap}
    BY <1>1, <1>3 DEF Good
  <2>2. Live(Merged(f, other, b)) = Live(f) /\ ~Merged(f, other, b)[other].used
    BY <1>1, <1>3, <2>1, MergedLive
  <2> QED BY <1>1, <1>3, <2>2
<1> QED BY <1>2, <1>3

\* The second half of Z_Free changes no piece in use.
LEMMA AboveLive ==
  ASSUME NEW low, Good(low), NEW block \in DOMAIN low \ {cap}, ~low[block].used
  PROVE  LET above == low[block].next
             all == IF low[above].used THEN low ELSE Merged(low, block, above)
         IN Live(all) = Live(low)
<1> DEFINE above == low[block].next
<1>1. CASE low[above].used
  BY <1>1
<1>2. CASE ~low[above].used
  <2>1. above \in DOMAIN low \ {cap}
    BY <1>2 DEF Good
  <2> QED BY <1>2, <2>1, MergedLive
<1> QED BY <1>1, <1>2

\* Z_Free takes the piece of the block away and no other.
LEMMA FreeLive ==
  ASSUME ZInv, NEW b \in Blocks, Z_Free(b)
  PROVE  /\ Live(zone') = Live(zone) \ {PieceOf(zone, b)}
         /\ PieceOf(zone, b) \in Live(zone)
<1> DEFINE freed == [zone EXCEPT ![b].used = FALSE]
           other == freed[b].prev
           block == IF freed[other].used THEN b ELSE other
           low == IF block = b THEN freed ELSE Merged(freed, block, b)
           above == low[block].next
           all == IF low[above].used THEN low ELSE Merged(low, block, above)
<1>1. b \in DOMAIN zone \ {cap} /\ zone[b].used /\ zone' = all /\ Good(zone)
  BY DEF Blocks, Z_Free, ZInv
<1>2. PieceOf(zone, b) \in Live(zone)
  BY <1>1 DEF Live
<1>3. /\ Good(freed)
      /\ DOMAIN freed = DOMAIN zone
      /\ \A c \in DOMAIN zone :
           /\ freed[c].used = IF c = b THEN FALSE ELSE zone[c].used
           /\ freed[c].prev = zone[c].prev
           /\ freed[c].next = zone[c].next
  BY <1>1, FreedGood
<1>4. \A c \in DOMAIN freed \ {freed[b].prev, b} :
        ~freed[c].used => freed[freed[c].next].used
  BY <1>1, <1>3 DEF ZInv, Good, NoFreePair
<1>5. Live(freed) = Live(zone) \ {PieceOf(zone, b)}
  BY <1>1, FreedLive
<1> HIDE DEF freed
<1>6. Good(low) /\ block \in DOMAIN low \ {cap}
  BY <1>1, <1>3, <1>4, MergedBelow
<1>7. Live(low) = Live(freed) /\ ~low[block].used
  BY <1>1, <1>3, <1>6, BelowLive
<1> HIDE DEF low, block
<1>8. Live(all) = Live(low)
  BY <1>6, <1>7, AboveLive
<1> QED BY <1>1, <1>2, <1>5, <1>7, <1>8

-----------------------------------------------------------------------------
\* The pieces in use, written as the refinement mapping of Zone writes them.
LEMMA HeapLive ==
  Live(zone) = {[first |-> a, last |-> a + zone[a].size - 1] :
                  a \in {b \in Blocks : zone[b].used}}
BY DEF Live, PieceOf, Blocks

\* Memory_InitZone leaves a heap with nothing in use.
LEMMA InitRefines == ZoneInit => TheHeap!Init
<1> SUFFICES ASSUME ZoneInit PROVE TheHeap!Init
  OBVIOUS
<1>1. \A b \in Blocks : ~zone[b].used
  BY DEF ZoneInit, Header, Blocks, cap
<1>2. Live(zone) = {}
  BY <1>1 DEF Live, Blocks
<1>3. scan.size = 0 /\ outOfZone = FALSE
  BY DEF ZoneInit, NoScan
<1> QED BY <1>2, <1>3, HeapLive DEF TheHeap!Init

\* Entering Z_Malloc asks the heap.
LEMMA MallocRefines ==
  ASSUME ZInv, NEW n \in Allocsize, Z_Malloc(n)
  PROVE  TheHeap!Ask(n)
<1>1. /\ ~outOfZone /\ scan.size = 0
      /\ scan'.size = n /\ zone' = zone /\ outOfZone' = outOfZone
  BY DEF Z_Malloc, Ready
<1> QED BY <1>1 DEF TheHeap!Ask, Blocks

\* Z_Free is the heap's Free.
LEMMA FreeRefines ==
  ASSUME ZInv, NEW b \in Blocks, Z_Free(b)
  PROVE  \E p \in Live(zone) : TheHeap!Free(p)
<1>1. /\ Live(zone') = Live(zone) \ {PieceOf(zone, b)}
      /\ PieceOf(zone, b) \in Live(zone)
  BY FreeLive
<1>2. /\ ~outOfZone /\ scan.size = 0
      /\ scan' = scan /\ outOfZone' = outOfZone
  BY DEF Z_Free, Ready
<1>3. TheHeap!Free(PieceOf(zone, b))
  BY <1>1, <1>2 DEF TheHeap!Free, Live, PieceOf, Blocks
<1> QED BY <1>1, <1>3 DEF TheHeap!Free

\* Z_TagMalloc gives up only where the heap may fail.
LEMMA FailRefines ==
  ASSUME ZInv, ScanCovers, scan.size # 0, ~outOfZone, scan.at = scan.start,
         outOfZone' = TRUE, UNCHANGED <<zone, rover, scan>>
  PROVE  TheHeap!Fail
<1>1. ASSUME NEW a \in Address,
             TheHeap!IsFree(TheHeap!Piece(a, a + scan.size - 1))
      PROVE  FALSE
  <2>1. /\ a..(a + scan.size - 1) \subseteq Address
        /\ \A q \in Live(zone) : a + scan.size - 1 < q.first \/ q.last < a
    BY <1>1 DEF TheHeap!IsFree, TheHeap!Piece, TheHeap!Apart, Live, PieceOf, Blocks
  <2> QED BY <2>1, NoStretchFits
<1> QED BY <1>1 DEF TheHeap!Fail, Blocks

\* What Z_TagMalloc hands out is a free piece of the heap, large enough.
LEMMA FoundRefines ==
  ASSUME ZInv, scan.size # 0, ~outOfZone, NEW base \in DOMAIN zone,
         ~zone[base].used, zone[base].size >= scan.size,
         zone' = Cut(zone, base, scan.size), scan' = NoScan,
         UNCHANGED outOfZone
  PROVE  \E a, b \in Address : a <= b /\ TheHeap!Allocate(TheHeap!Piece(a, b))
<1> DEFINE n == scan.size
           p == PieceOf(zone', base)
<1>1. /\ Good(zone) /\ NoFreePair(zone) /\ n \in Nat \ {0}
      /\ ZoneSize \in Nat
  BY ZoneAssumption DEF ZInv, ScanOK
<1>2. /\ base # cap
      /\ \A c \in DOMAIN zone : c \in Nat /\ zone[c].size \in Nat
  BY <1>1 DEF Good
<1>3. zone'[base].size \in n..zone[base].size
  BY <1>1, CutGood
<1>4. Live(zone') = Live(zone) \cup {p}
  BY <1>1, CutLive
<1>5. /\ p.first = base /\ p.last = base + zone'[base].size - 1
      /\ p = [first |-> p.first, last |-> p.last]
  BY DEF PieceOf
<1> HIDE DEF p
<1>6. /\ p.first \in Address /\ p.last \in Address /\ p.first <= p.last
      /\ p.last - p.first + 1 >= n
      /\ p.last < base + zone[base].size
  <2>1. base \in Nat /\ base >= 1 /\ base + zone[base].size <= ZoneSize + 1
    BY <1>1, <1>2 DEF Good, cap
  <2>2. zone'[base].size \in Nat /\ zone'[base].size >= n
        /\ zone'[base].size <= zone[base].size
    BY <1>1, <1>2, <1>3
  <2>3. p.first \in Nat /\ p.last \in Nat
    BY <1>1, <1>5, <2>1, <2>2
  <2> QED BY <1>1, <1>2, <1>5, <2>1, <2>2, <2>3 DEF Address
<1>7. p.first..p.last \subseteq Address
  BY <1>1, <1>6 DEF Address
<1>8. ASSUME NEW q \in Live(zone) PROVE p.last < q.first \/ q.last < p.first
  <2>1. PICK c \in DOMAIN zone \ {cap} : zone[c].used /\ q = PieceOf(zone, c)
    BY DEF Live
  <2>2. q.first = c /\ q.last = c + zone[c].size - 1
    BY <2>1 DEF PieceOf
  <2>3. c < base => c + zone[c].size <= base
    BY <1>1, <1>2 DEF Good
  <2>4. base < c => base + zone[base].size <= c
    BY <1>1, <1>2 DEF Good
  <2>5. c # base
    BY <2>1
  <2>6. p.last \in Nat
    BY <1>1, <1>6 DEF Address
  <2> QED BY <1>2, <1>5, <1>6, <2>2, <2>3, <2>4, <2>5, <2>6
<1>9. TheHeap!IsFree(p)
  BY <1>7, <1>8 DEF TheHeap!IsFree, TheHeap!Apart, Live, PieceOf, Blocks
<1>10. scan'.size = 0 /\ outOfZone' = outOfZone
  BY DEF NoScan
<1>11. TheHeap!Allocate(p)
  BY <1>4, <1>6, <1>9, <1>10 DEF TheHeap!Allocate, Live, PieceOf, Blocks
<1>12. TheHeap!Piece(p.first, p.last) = p
  BY <1>5 DEF TheHeap!Piece
<1> QED BY <1>6, <1>11, <1>12 DEF TheHeap!Allocate

\* Every step of the zone is a step of the heap, or none: a round of the loop
\* that only moves on.
LEMMA StepRefines ==
  ASSUME ZInv, ScanCovers, [ZoneNext]_zoneVars
  PROVE  [TheHeap!Next]_(TheHeap!vars)
<1>1. CASE UNCHANGED zoneVars
  BY <1>1 DEF zoneVars, TheHeap!vars, Blocks
<1>2. ASSUME NEW n \in Allocsize, Z_Malloc(n) PROVE TheHeap!Next
  BY <1>2, MallocRefines DEF TheHeap!Next
<1>3. ASSUME NEW b \in Blocks, Z_Free(b) PROVE TheHeap!Next
  BY <1>3, FreeRefines, HeapLive DEF TheHeap!Next
<1>4. CASE Z_TagMalloc
  <2> DEFINE next == zone[scan.at].next
             base == IF zone[scan.at].used THEN next ELSE scan.base
             found == ~zone[base].used /\ zone[base].size >= scan.size
  <2>1. scan.size # 0 /\ ~outOfZone
    BY <1>4 DEF Z_TagMalloc
  <2>2. CASE /\ scan.at = scan.start
             /\ outOfZone' = TRUE /\ UNCHANGED <<zone, rover, scan>>
    BY <2>1, <2>2, FailRefines DEF TheHeap!Next
  <2>3. CASE /\ scan' = [scan EXCEPT !.base = base, !.at = next]
             /\ UNCHANGED <<zone, rover, outOfZone>>
    <3>1. scan'.size = scan.size
      BY <2>3 DEF ZInv, ScanOK
    <3> QED BY <2>3, <3>1 DEF TheHeap!vars, Blocks
  <2>4. CASE /\ found
             /\ zone' = Cut(zone, base, scan.size)
             /\ scan' = NoScan /\ UNCHANGED outOfZone
    <3>1. base \in DOMAIN zone
      BY DEF ZInv, ScanOK, Good
    <3> HIDE DEF base
    <3>2. \E a, b \in Address :
            a <= b /\ TheHeap!Allocate(TheHeap!Piece(a, b))
      BY <2>1, <2>4, <3>1, FoundRefines
    <3> QED BY <3>2 DEF TheHeap!Next
  <2> QED BY <1>4, <2>2, <2>3, <2>4 DEF Z_TagMalloc
<1> QED BY <1>1, <1>2, <1>3, <1>4 DEF ZoneNext

\* The zone implements the heap for every size of the zone, of the fragments and
\* of the requests: the pieces Z_Malloc hands out lie in the zone, are as large
\* as asked and stay apart until Z_Free takes them back, and Z_Malloc ends the
\* program only when no free stretch would do, so no free memory is out of reach
\* of the scan that starts at the rover.
THEOREM ZoneImplementsHeap == ZoneSpec => ImplementsHeap
<1>1. ZoneInit => ScanCovers
  <2> SUFFICES ASSUME ZoneInit PROVE scan.size = 0
    BY DEF ScanCovers
  <2> QED BY DEF ZoneInit, NoScan
<1>2. ZInv /\ ScanCovers /\ [ZoneNext]_zoneVars => ScanCovers'
  BY ScanCoversInductive
<1>3. ZInv /\ ScanCovers /\ [ZoneNext]_zoneVars => [TheHeap!Next]_(TheHeap!vars)
  BY StepRefines
<1> QED BY <1>1, <1>2, <1>3, ZoneInvariance, InitRefines, PTL
        DEF ZoneSpec, ImplementsHeap, TheHeap!Spec

-----------------------------------------------------------------------------
(* The IP log: the ring.                                                   *)

\* A remainder of what is less than twice the divisor.
LEMMA RemainderIs ==
  ASSUME NEW L \in Nat \ {0}, NEW x \in 0..2 * L - 1
  PROVE  x % L = IF x < L THEN x ELSE x - L
<1> DEFINE q == x \div L
           r == x % L
<1>1. q \in Int /\ r \in 0..L - 1 /\ x = L * q + r
  OBVIOUS
<1> HIDE DEF q, r
<1>2. CASE x < L
  <2>1. CASE q >= 1
    <3>1. L * q >= L
      BY <1>1, <2>1
    <3> QED
      BY <1>1, <1>2, <3>1
  <2>2. CASE q <= -1
    <3>1. L * q <= -L
      BY <1>1, <2>2
    <3> QED
      BY <1>1, <3>1
  <2>3. CASE q = 0
    <3>1. L * q = 0
      BY <2>3
    <3> QED
      BY <1>1, <1>2, <3>1 DEF r
  <2> QED
    BY <1>1, <2>1, <2>2, <2>3
<1>3. CASE x >= L
  <2>1. CASE q >= 2
    <3>1. L * q >= 2 * L
      BY <1>1, <2>1
    <3> QED
      BY <1>1, <3>1
  <2>2. CASE q <= 0
    <3>1. L * q <= 0
      BY <1>1, <2>2
    <3> QED
      BY <1>1, <1>3, <3>1
  <2>3. CASE q = 1
    <3>1. L * q = L
      BY <2>3
    <3> QED
      BY <1>1, <1>3, <3>1 DEF r
  <2> QED
    BY <1>1, <2>1, <2>2, <2>3
<1> QED
  BY <1>2, <1>3

\* The slots, and the one that follows.
LEMMA SizeIs ==
  /\ iplog_size \in Nat \ {0, 1} /\ 0 \in Slot /\ Slot = 0..iplog_size - 1
  /\ NoNode \notin Slot
  /\ \A n \in Slot : /\ Following(n) \in Slot
                     /\ Following(n) = IF n + 1 = iplog_size THEN 0 ELSE n + 1
<1>1. iplog_size \in Nat \ {0, 1}
  BY IPLogAssumption
<1>2. ASSUME NEW n \in Slot
      PROVE  Following(n) = IF n + 1 = iplog_size THEN 0 ELSE n + 1
  <2>1. n + 1 \in 0..2 * iplog_size - 1
    BY <1>1 DEF Slot
  <2> QED
    BY <1>1, <2>1, RemainderIs DEF Slot, Following
<1> QED
  BY <1>1, <1>2 DEF Slot, NoNode

\* The ring, of any place and either kind.
Used(next, full) == IF full THEN iplog_size - 1 ELSE next
Oldest(next, full, i) ==
  IF full THEN (IF next + i < iplog_size THEN next + i ELSE next + i - iplog_size)
  ELSE i - 1
LiveSlots(next, full) == IF full THEN Slot \ {next} ELSE 0..next - 1
InAgeOf(next, full) == [i \in 1..Used(next, full) |-> Oldest(next, full, i)]

\* The slots that are in the log are those of a ring of that place and kind.
LEMMA RingIs ==
  ASSUME iplog_next \in Slot, iplog_full \in BOOLEAN
  PROVE  /\ Ring = InAgeOf(iplog_next, iplog_full)
         /\ DOMAIN Ring = 1..Used(iplog_next, iplog_full)
         /\ InRing = LiveSlots(iplog_next, iplog_full)
<1>1. iplog_size \in Nat \ {0, 1} /\ Slot = 0..iplog_size - 1
  BY SizeIs
<1>2. ASSUME iplog_full, NEW i \in 1..iplog_size - 1
      PROVE  (iplog_next + i) % iplog_size = Oldest(iplog_next, iplog_full, i)
  <2> DEFINE x == iplog_next + i
  <2>1. x \in 0..2 * iplog_size - 1 /\ iplog_size \in Nat \ {0}
    BY <1>1
  <2> HIDE DEF x
  <2>2. x % iplog_size = IF x < iplog_size THEN x ELSE x - iplog_size
    BY <2>1, RemainderIs
  <2> QED
    BY <1>1, <1>2, <2>2 DEF Oldest, x
<1>3. Ring = InAgeOf(iplog_next, iplog_full)
  <2>1. CASE iplog_full
    BY <1>2, <2>1 DEF Ring, InAgeOf, Used
  <2>2. CASE ~iplog_full
    BY <2>2 DEF Ring, InAgeOf, Used, Oldest
  <2> QED
    BY <2>1, <2>2
<1>4. DOMAIN Ring = 1..Used(iplog_next, iplog_full)
  BY <1>3 DEF InAgeOf
<1>5. InRing = {Oldest(iplog_next, iplog_full, i) :
                  i \in 1..Used(iplog_next, iplog_full)}
  BY <1>3, <1>4 DEF InRing, InAgeOf
<1>6. CASE iplog_full
  <2>1. InRing \subseteq Slot \ {iplog_next}
    BY <1>1, <1>5, <1>6 DEF Oldest, Used
  <2>2. ASSUME NEW n \in Slot \ {iplog_next}
        PROVE  n \in InRing
    <3> DEFINE i == IF n > iplog_next THEN n - iplog_next
                    ELSE n - iplog_next + iplog_size
    <3>1. i \in 1..iplog_size - 1 /\ Oldest(iplog_next, TRUE, i) = n
      BY <1>1 DEF Oldest
    <3> HIDE DEF i
    <3> QED
      BY <1>5, <1>6, <3>1 DEF Used
  <2> QED
    BY <1>3, <1>4, <1>6, <2>1, <2>2 DEF LiveSlots
<1>7. CASE ~iplog_full
  <2>1. InRing = {i - 1 : i \in 1..iplog_next}
    BY <1>5, <1>7 DEF Used, Oldest
  <2>2. ASSUME NEW n \in 0..iplog_next - 1
        PROVE  n \in InRing
    <3>1. n + 1 \in 1..iplog_next /\ (n + 1) - 1 = n
      BY <1>1
    <3> QED
      BY <2>1, <3>1
  <2>3. InRing \subseteq 0..iplog_next - 1
    BY <1>1, <2>1
  <2> QED
    BY <1>3, <1>4, <1>7, <2>2, <2>3 DEF LiveSlots
<1> QED
  BY <1>3, <1>4, <1>6, <1>7

\* Its slots differ.
LEMMA RingApart ==
  ASSUME NEW next \in Slot, NEW full \in BOOLEAN
  PROVE  LET K == Used(next, full)
             r == InAgeOf(next, full) IN
         /\ K \in Nat /\ K < iplog_size
         /\ r \in [1..K -> LiveSlots(next, full)]
         /\ LiveSlots(next, full) \subseteq Slot
         /\ next \notin LiveSlots(next, full)
         /\ \A i, j \in 1..K : r[i] = r[j] => i = j
<1>1. iplog_size \in Nat \ {0, 1} /\ Slot = 0..iplog_size - 1
  BY SizeIs
<1>2. CASE full
  BY <1>1, <1>2 DEF Used, InAgeOf, Oldest, LiveSlots
<1>3. CASE ~full
  BY <1>1, <1>3 DEF Used, InAgeOf, Oldest, LiveSlots
<1> QED
  BY <1>2, <1>3

\* One slot on: the next one is the youngest then, and when there is no room
\* the oldest leaves.
LEMMA RingGoesOn ==
  ASSUME NEW next \in Slot, NEW full \in BOOLEAN
  PROVE  LET after == Following(next)
             full2 == full \/ after = 0
             K == Used(next, full)
             r == InAgeOf(next, full)
             r2 == InAgeOf(after, full2)
         IN
         /\ after \in Slot /\ full2 \in BOOLEAN
         /\ full2 => /\ K = iplog_size - 1 /\ Used(after, full2) = K /\ K >= 1
                     /\ r[1] = after /\ r2[K] = next /\ after # next
                     /\ \A i \in 1..K - 1 : r2[i] = r[i + 1]
                     /\ LiveSlots(after, full2) =
                          (LiveSlots(next, full) \cup {next}) \ {after}
         /\ ~full2 => /\ Used(after, full2) = K + 1 /\ r2[K + 1] = next
                      /\ \A i \in 1..K : r2[i] = r[i]
                      /\ LiveSlots(after, full2) = LiveSlots(next, full) \cup {next}
                      /\ after = next + 1 /\ ~full
<1> DEFINE after == Following(next)
           full2 == full \/ after = 0
<1>1. iplog_size \in Nat \ {0, 1} /\ Slot = 0..iplog_size - 1 /\ after \in Slot
      /\ after = IF next + 1 = iplog_size THEN 0 ELSE next + 1
  BY SizeIs
<1> HIDE DEF after
<1>2. CASE full
  BY <1>1, <1>2 DEF Used, InAgeOf, Oldest, LiveSlots, after
<1>3. CASE ~full /\ after = 0
  BY <1>1, <1>3 DEF Used, InAgeOf, Oldest, LiveSlots, after
<1>4. CASE ~full /\ after # 0
  BY <1>1, <1>4 DEF Used, InAgeOf, Oldest, LiveSlots, after
<1> QED
  BY <1>2, <1>3, <1>4

-----------------------------------------------------------------------------
(* The tree.  sub[n] is the nodes of the tree that n is the root of.  While  *)
(* a node is taken out, what is left of the trees below it hangs at one      *)
(* link, the hole of IPLog_Merge.                                            *)

SubOf(sub, c) == IF c = NoNode THEN {} ELSE sub[c]
TreesLeft(g, sub) == SubOf(sub, g.left) \cup SubOf(sub, g.right)
AtHole(g, n, b) == g.on /\ g.at = n /\ g.side = b
NoHead(g) == g.on /\ g.at = NoNode
Beneath(t, g, sub, n, b) ==
  IF AtHole(g, n, b) THEN TreesLeft(g, sub) ELSE SubOf(sub, t[n].children[b])

\* The tree of n, with smaller addresses and n's own to one side of n.
Sorted(t, g, sub, n) ==
  /\ sub[n] = {n} \cup Beneath(t, g, sub, n, FALSE) \cup Beneath(t, g, sub, n, TRUE)
  /\ n \notin Beneath(t, g, sub, n, FALSE)
  /\ \A m \in Beneath(t, g, sub, n, FALSE) : t[m].addr <= t[n].addr
  /\ \A m \in Beneath(t, g, sub, n, TRUE) : t[m].addr > t[n].addr

\* Something links to n.
Hangs(t, h, g, R, n) ==
  \/ ~NoHead(g) /\ n = h
  \/ g.on /\ n \in {g.left, g.right}
  \/ /\ t[n].parent \in R
     /\ \E b \in BOOLEAN : /\ ~AtHole(g, t[n].parent, b)
                           /\ t[t[n].parent].children[b] = n

\* What n links to knows it.
LinksBack(t, g, R, n) ==
  \A b \in BOOLEAN :
    LET c == t[n].children[b] IN
    ~AtHole(g, n, b) /\ c # NoNode => c \in R /\ t[c].parent = n

\* The two trees that are left belong together and hang nowhere else.
HoleIsWhole(t, h, g, R, sub) ==
  g.on =>
    /\ g.at \in R \cup {NoNode} /\ g.side \in BOOLEAN
    /\ g.left \in R \cup {NoNode} /\ g.right \in R \cup {NoNode}
    /\ \A l \in SubOf(sub, g.left), r \in SubOf(sub, g.right) :
         t[l].addr < t[r].addr
    /\ \A n \in R, b \in BOOLEAN :
         LET c == t[n].children[b] IN
         ~AtHole(g, n, b) /\ c # NoNode => c # g.left /\ c # g.right
    /\ h # NoNode /\ ~NoHead(g) => h # g.left /\ h # g.right

IsTree(t, h, g, R, sub) ==
  /\ sub \in [R -> SUBSET R]
  /\ R = IF NoHead(g) THEN TreesLeft(g, sub) ELSE SubOf(sub, h)
  /\ ~NoHead(g) => h = NoNode \/ (h \in R /\ t[h].parent = NoNode)
  /\ \A n \in R : /\ Sorted(t, g, sub, n) /\ Hangs(t, h, g, R, n)
                  /\ LinksBack(t, g, R, n)
  /\ HoleIsWhole(t, h, g, R, sub)

\* The nodes' own parts.
NodesAre(t, R) ==
  /\ R \subseteq Slot
  /\ \A n \in R : /\ t[n].addr \in Int
                  /\ t[n].children \in [BOOLEAN -> Node]
                  /\ t[n].parent \in Node

-----------------------------------------------------------------------------
(* The way to an address.                                                  *)

Down(a, n) == iplogs[n].children[a > iplogs[n].addr]

\* The way is the recursion it is defined by, and stays in the tree.
LEMMA WayIs ==
  ASSUME NEW R, NodesAre(iplogs, R), iplog_head \in R \cup {NoNode},
         \A n \in R, b \in BOOLEAN : iplogs[n].children[b] \in R \cup {NoNode},
         NEW a \in Int
  PROVE  /\ Way(a) \in [0..iplog_size -> R \cup {NoNode}]
         /\ Way(a)[0] = iplog_head
         /\ \A i \in 1..iplog_size :
              Way(a)[i] = IF Way(a)[i - 1] = NoNode THEN NoNode
                          ELSE Down(a, Way(a)[i - 1])
<1> DEFINE N == iplog_size
           X == R \cup {NoNode}
           Turn(x) == IF x = NoNode THEN NoNode
                      ELSE iplogs[x].children[a > iplogs[x].addr]
           F == [p \in X \X (1..N) |-> Turn(p[1])]
           Ways(w) == w = [n \in 0..N |->
                             IF n = 0 THEN iplog_head
                             ELSE IF w[n - 1] = NoNode THEN NoNode
                             ELSE iplogs[w[n - 1]].children[
                                    a > iplogs[w[n - 1]].addr]]
           way == CHOOSE w : Ways(w)
<1>1. Way(a) = way
  BY DEF Way
<1>2. N \in Nat
  BY SizeIs
<1>3. F \in [X \X (1..N) -> X]
  <2>1. \A x \in X : Turn(x) \in X
    <3>1. ASSUME NEW x \in R
          PROVE  Turn(x) \in X
      <4>1. (a > iplogs[x].addr) \in BOOLEAN
        OBVIOUS
      <4>2. x # NoNode
        BY SizeIs DEF NodesAre
      <4> QED
        BY <4>1, <4>2
    <3> QED
      BY <3>1
  <2> HIDE DEF N, X, Turn
  <2> QED
    BY <2>1
<1>4. \A x \in X, i \in 1..N : F[<<x, i>>] = Turn(x)
  <2> HIDE DEF X, Turn, N
  <2> QED
    OBVIOUS
<1>5. PICK g \in [0..N -> X] : IsLoop(g, N, iplog_head, F)
  <2> HIDE DEF F, N
  <2> QED
    BY <1>2, <1>3, LoopIsDefined
<1>6. /\ 0 \in 0..N /\ N \in 0..N
      /\ \A i \in 1..N : i - 1 \in 0..N /\ i \in 0..N /\ i # 0
      /\ \A i \in 0..N : i # 0 => i \in 1..N
  <2> HIDE DEF N
  <2> QED
    BY <1>2
<1> HIDE DEF N, X
<1>7. g[0] = iplog_head /\ \A i \in 1..N : g[i] = Turn(g[i - 1])
  <2> HIDE DEF F, Turn
  <2> QED
    BY <1>4, <1>5, <1>6 DEF IsLoop
<1>8. Ways(g)
  BY <1>6, <1>7
<1>9. Ways(way)
  <2> HIDE DEF Ways
  <2> QED
    BY <1>8
<1> HIDE DEF way
<1>10. way[0] = iplog_head /\ \A i \in 1..N : way[i] = Turn(way[i - 1])
  BY <1>6, <1>9
<1>11. way = g
  <2> DEFINE Same == {i \in 0..N : way[i] = g[i]}
  <2>1. 0 \in Same
    BY <1>6, <1>7, <1>10
  <2>2. \A i \in 1..N : i - 1 \in Same => i \in Same
    <3> HIDE DEF Turn
    <3> QED
      BY <1>6, <1>7, <1>10
  <2>3. 0..N \subseteq Same
    <3> HIDE DEF Same
    <3> QED
      BY <1>2, <2>1, <2>2, AfterEveryTurn
  <2>4. DOMAIN way = 0..N /\ DOMAIN g = 0..N
    BY <1>9
  <2> QED
    BY <1>9, <2>3, <2>4
<1> QED
  BY <1>1, <1>7, <1>11 DEF N, X, Down

\* The tree that is looked through.
Looked(R, sub) ==
  ~merge.on /\ IsTree(iplogs, iplog_head, merge, R, sub) /\ NodesAre(iplogs, R)

\* The head of a tree that is looked through, ...
LEMMA LookedRoot ==
  ASSUME NEW R, NEW sub, Looked(R, sub)
  PROVE  /\ ~NoHead(merge) /\ \A n, b : ~AtHole(merge, n, b)
         /\ iplog_head \in R \cup {NoNode} /\ R = SubOf(sub, iplog_head)
         /\ NoNode \notin R /\ IsFiniteSet(R) /\ R \subseteq Slot
         /\ SubOf(sub, NoNode) = {} /\ \A n \in R : SubOf(sub, n) = sub[n]
<1>1. ~NoHead(merge) /\ \A n, b : ~AtHole(merge, n, b)
  BY DEF Looked, NoHead, AtHole
<1>2. /\ iplog_head \in R \cup {NoNode} /\ R = SubOf(sub, iplog_head)
      /\ NoNode \notin R /\ R \subseteq Slot
  BY <1>1, SizeIs DEF Looked, IsTree, NodesAre
<1>3. IsFiniteSet(R)
  <2>1. IsFiniteSet(Slot)
    BY SizeIs, FS_Interval
  <2> QED
    BY <1>2, <2>1, FS_Subset
<1> QED
  BY <1>1, <1>2, <1>3 DEF SubOf

\* ... a node of it, ...
LEMMA LookedNode ==
  ASSUME NEW R, NEW sub, Looked(R, sub), NEW n \in R
  PROVE  /\ iplogs[n].addr \in Int /\ n \in sub[n] /\ sub[n] \subseteq R
         /\ n # NoNode
         /\ sub[n] = {n} \cup SubOf(sub, iplogs[n].children[FALSE])
                         \cup SubOf(sub, iplogs[n].children[TRUE])
<1>1. Sorted(iplogs, merge, sub, n) /\ iplogs[n].addr \in Int
      /\ sub[n] \subseteq R
  BY DEF Looked, IsTree, NodesAre
<1>2. sub[n] = {n} \cup SubOf(sub, iplogs[n].children[FALSE])
                   \cup SubOf(sub, iplogs[n].children[TRUE])
  BY <1>1, LookedRoot DEF Sorted, Beneath
<1>3. n # NoNode
  BY LookedRoot
<1> QED
  BY <1>1, <1>2, <1>3

\* ... what is to the two sides of the node, ...
LEMMA LookedSides ==
  ASSUME NEW R, NEW sub, Looked(R, sub), NEW n \in R
  PROVE  /\ \A m \in SubOf(sub, iplogs[n].children[FALSE]) :
              iplogs[m].addr <= iplogs[n].addr
         /\ \A m \in SubOf(sub, iplogs[n].children[TRUE]) :
              iplogs[m].addr > iplogs[n].addr
         /\ n \notin SubOf(sub, iplogs[n].children[FALSE])
         /\ n \notin SubOf(sub, iplogs[n].children[TRUE])
<1>1. Sorted(iplogs, merge, sub, n) /\ iplogs[n].addr \in Int
  BY DEF Looked, IsTree, NodesAre
<1>2. /\ \A m \in SubOf(sub, iplogs[n].children[FALSE]) :
           iplogs[m].addr <= iplogs[n].addr
      /\ \A m \in SubOf(sub, iplogs[n].children[TRUE]) :
           iplogs[m].addr > iplogs[n].addr
      /\ n \notin SubOf(sub, iplogs[n].children[FALSE])
  BY <1>1, LookedRoot DEF Sorted, Beneath
<1>3. n \notin SubOf(sub, iplogs[n].children[TRUE])
  <2> DEFINE S == SubOf(sub, iplogs[n].children[TRUE])
             x == iplogs[n].addr
  <2>1. x \in Int /\ (n \in S => x > x)
    BY <1>1, <1>2
  <2> HIDE DEF S, x
  <2>2. n \notin S
    BY <2>1
  <2> QED
    BY <2>2 DEF S
<1> QED
  BY <1>2, <1>3

\* ... and what it links to.
LEMMA LookedChild ==
  ASSUME NEW R, NEW sub, Looked(R, sub), NEW n \in R, NEW b \in BOOLEAN
  PROVE  /\ iplogs[n].children[b] \in R \cup {NoNode}
         /\ iplogs[n].children[b] # NoNode =>
              iplogs[iplogs[n].children[b]].parent = n
         /\ SubOf(sub, iplogs[n].children[b]) \subseteq sub[n]
         /\ n \notin SubOf(sub, iplogs[n].children[b])
<1> DEFINE c == iplogs[n].children[b]
<1>1. c \in R \cup {NoNode} /\ (c # NoNode => iplogs[c].parent = n)
  <2>1. LinksBack(iplogs, merge, R, n)
    BY DEF Looked, IsTree
  <2> QED
    BY <2>1, LookedRoot DEF LinksBack
<1>2. SubOf(sub, c) \subseteq sub[n] /\ n \notin SubOf(sub, c)
  <2>1. /\ SubOf(sub, iplogs[n].children[FALSE]) \subseteq sub[n]
        /\ SubOf(sub, iplogs[n].children[TRUE]) \subseteq sub[n]
    <3>1. sub[n] = {n} \cup SubOf(sub, iplogs[n].children[FALSE])
                      \cup SubOf(sub, iplogs[n].children[TRUE])
      BY LookedNode
    <3> QED
      BY ONLY <3>1
  <2>2. /\ n \notin SubOf(sub, iplogs[n].children[FALSE])
        /\ n \notin SubOf(sub, iplogs[n].children[TRUE])
    BY LookedSides
  <2>3. CASE b = TRUE
    BY <2>1, <2>2, <2>3
  <2>4. CASE b = FALSE
    BY <2>1, <2>2, <2>4
  <2> QED
    BY <2>3, <2>4
<1> QED
  BY <1>1, <1>2

\* The way in a tree that is looked through.
LEMMA WayOfTree ==
  ASSUME NEW R, NEW sub, Looked(R, sub), NEW a \in Int
  PROVE  /\ Way(a) \in [0..iplog_size -> R \cup {NoNode}]
         /\ Way(a)[0] = iplog_head
         /\ \A i \in 1..iplog_size :
              Way(a)[i] = IF Way(a)[i - 1] = NoNode THEN NoNode
                          ELSE Down(a, Way(a)[i - 1])
         /\ \A n \in R : /\ Down(a, n) \in R \cup {NoNode}
                         /\ SubOf(sub, Down(a, n)) \subseteq sub[n]
                         /\ n \in sub[n] /\ n \notin SubOf(sub, Down(a, n))
                         /\ Down(a, n) # NoNode => iplogs[Down(a, n)].parent = n
<1>1. NodesAre(iplogs, R)
  BY DEF Looked
<1>2. ASSUME NEW n \in R
      PROVE  /\ Down(a, n) \in R \cup {NoNode}
             /\ SubOf(sub, Down(a, n)) \subseteq sub[n]
             /\ n \in sub[n] /\ n \notin SubOf(sub, Down(a, n))
             /\ Down(a, n) # NoNode => iplogs[Down(a, n)].parent = n
  <2> DEFINE b == a > iplogs[n].addr
  <2>1. n \in sub[n]
    BY LookedNode
  <2>2. b \in BOOLEAN /\ Down(a, n) = iplogs[n].children[b]
    BY DEF Down
  <2> HIDE DEF b
  <2> QED
    BY <2>1, <2>2, LookedChild
<1>3. /\ iplog_head \in R \cup {NoNode}
      /\ \A n \in R, b \in BOOLEAN : iplogs[n].children[b] \in R \cup {NoNode}
  BY LookedRoot, LookedChild
<1> QED
  BY <1>1, <1>2, <1>3, WayIs

\* A step down misses none of the address.
LEMMA DownKnows ==
  ASSUME NEW R, NEW sub, Looked(R, sub), NEW a \in Int, NEW n \in R,
         Down(a, n) # NoNode
  PROVE  iplogs[Down(a, n)].parent = n
<1> DEFINE b == a > iplogs[n].addr
<1>1. b \in BOOLEAN /\ Down(a, n) = iplogs[n].children[b]
  BY DEF Down
<1> HIDE DEF b
<1> QED
  BY <1>1, LookedChild

\* Each step leaves a node behind, and so the way ends.
LEMMA WayEnds ==
  ASSUME NEW R, NEW sub, Looked(R, sub), NEW a \in Int
  PROVE  Way(a)[iplog_size] = NoNode
<1> DEFINE N == iplog_size
           w == Way(a)
           S(i) == SubOf(sub, w[i])
           Small == {i \in 0..N : /\ IsFiniteSet(S(i)) /\ S(i) \subseteq R
                                  /\ Cardinality(S(i)) + i <= N}
<1>1. N \in Nat /\ N # 0
  BY SizeIs
<1>2. /\ w \in [0..N -> R \cup {NoNode}] /\ w[0] = iplog_head
      /\ \A i \in 1..N : w[i] = IF w[i - 1] = NoNode THEN NoNode
                                ELSE Down(a, w[i - 1])
  BY WayOfTree
<1>3. /\ R = SubOf(sub, iplog_head) /\ NoNode \notin R
      /\ IsFiniteSet(R) /\ Cardinality(R) \in Nat /\ Cardinality(R) <= N
  <2>1. R \subseteq 0..N - 1 /\ R = SubOf(sub, iplog_head) /\ NoNode \notin R
    BY LookedRoot, SizeIs
  <2>2. IsFiniteSet(0..N - 1) /\ Cardinality(0..N - 1) = N
    <3>1. 0 \in Int /\ N - 1 \in Int
      BY <1>1
    <3>2. IsFiniteSet(0..N - 1)
          /\ Cardinality(0..N - 1) = IF 0 > N - 1 THEN 0 ELSE (N - 1) - 0 + 1
      BY <3>1, FS_Interval
    <3> QED
      BY <1>1, <3>2
  <2>3. IsFiniteSet(R) /\ Cardinality(R) <= Cardinality(0..N - 1)
    BY <2>1, <2>2, FS_Subset
  <2>4. Cardinality(R) \in Nat
    BY <2>3, FS_CardinalityType
  <2> QED
    BY <2>1, <2>2, <2>3, <2>4
<1> HIDE DEF w, N
<1>4. 0 \in Small
  BY <1>1, <1>2, <1>3
<1>5. ASSUME NEW i \in 1..N, i - 1 \in Small
      PROVE  i \in Small
  <2>1. i \in 0..N /\ i - 1 \in 0..N /\ i \in Nat
    BY <1>1
  <2>2. CASE w[i - 1] = NoNode
    <3>1. S(i) = {}
      BY <1>2, <2>2 DEF SubOf
    <3>2. IsFiniteSet(S(i)) /\ Cardinality(S(i)) = 0
      BY <3>1, FS_EmptySet
    <3> QED
      BY <1>1, <2>1, <3>1, <3>2
  <2>3. CASE w[i - 1] # NoNode
    <3> DEFINE n == w[i - 1]
               old == S(i - 1)
               new == S(i)
    <3>1. n \in R /\ old = sub[n] /\ new = SubOf(sub, Down(a, n))
      BY <1>2, <2>1, <2>3 DEF SubOf
    <3>2. new \subseteq old \ {n} /\ n \in old
      BY <3>1, WayOfTree
    <3>3. IsFiniteSet(old) /\ old \subseteq R /\ Cardinality(old) + (i - 1) <= N
      BY <1>5
    <3> HIDE DEF old, new, n
    <3>4. IsFiniteSet(old \ {n}) /\ Cardinality(old \ {n}) = Cardinality(old) - 1
      BY <3>2, <3>3, FS_RemoveElement
    <3>5. IsFiniteSet(new) /\ Cardinality(new) <= Cardinality(old \ {n})
      BY <3>2, <3>4, FS_Subset
    <3>6. Cardinality(old) \in Nat /\ Cardinality(new) \in Nat
      BY <3>3, <3>5, FS_CardinalityType
    <3>7. Cardinality(new) + i <= N /\ new \subseteq R
      BY <1>1, <2>1, <3>2, <3>3, <3>4, <3>5, <3>6
    <3> QED
      BY <2>1, <3>5, <3>7 DEF new
  <2> QED
    BY <2>2, <2>3
<1>6. 0..N \subseteq Small
  <2> HIDE DEF Small
  <2> QED
    BY <1>1, <1>4, <1>5, AfterEveryTurn
<1>7. N \in Small
  BY <1>1, <1>6
<1>8. S(N) = {}
  <2>1. IsFiniteSet(S(N)) /\ Cardinality(S(N)) + N <= N
    BY <1>7
  <2>2. Cardinality(S(N)) \in Nat
    BY <2>1, FS_CardinalityType
  <2>3. Cardinality(S(N)) = 0
    BY <1>1, <2>1, <2>2
  <2> QED
    BY <2>1, <2>3, FS_EmptySet
<1>9. CASE w[N] # NoNode
  <2>1. w[N] \in R
    BY <1>1, <1>2, <1>9
  <2>2. w[N] \in sub[w[N]]
    BY <2>1, WayOfTree
  <2> QED
    BY <1>8, <1>9, <2>2 DEF SubOf
<1> QED
  BY <1>9 DEF w, N

\* Once over, it stays so, and no node is met twice: what is met later is in
\* the tree below.
LEMMA WayGoesDown ==
  ASSUME NEW R, NEW sub, Looked(R, sub), NEW a \in Int,
         NEW i \in 0..iplog_size, NEW j \in 0..iplog_size, i < j
  PROVE  /\ Way(a)[i] = NoNode => Way(a)[j] = NoNode
         /\ Way(a)[i] # NoNode =>
              SubOf(sub, Way(a)[j]) \subseteq SubOf(sub, Down(a, Way(a)[i]))
<1> DEFINE N == iplog_size
           w == Way(a)
           Lower == {k \in 0..N : k <= i \/
                      /\ w[i] = NoNode => w[k] = NoNode
                      /\ w[i] # NoNode =>
                           SubOf(sub, w[k]) \subseteq SubOf(sub, Down(a, w[i]))}
<1>1. N \in Nat /\ i \in Nat /\ j \in Nat
  BY SizeIs
<1>2. /\ w \in [0..N -> R \cup {NoNode}]
      /\ \A k \in 1..N : w[k] = IF w[k - 1] = NoNode THEN NoNode
                                ELSE Down(a, w[k - 1])
  BY WayOfTree
<1> HIDE DEF w, N
<1>3. 0 \in Lower
  BY <1>1
<1>4. ASSUME NEW k \in 1..N, k - 1 \in Lower
      PROVE  k \in Lower
  <2>1. k \in 0..N /\ k - 1 \in 0..N /\ k \in Nat
    BY <1>1
  <2>2. CASE k <= i
    BY <2>1, <2>2
  <2>3. CASE k = i + 1
    <3>1. k - 1 = i
      BY <1>1, <2>1, <2>3
    <3> QED
      BY <1>2, <2>1, <3>1
  <2>4. CASE k > i + 1
    <3>1. ~(k - 1 <= i)
      BY <1>1, <2>1, <2>4
    <3>2. CASE w[k - 1] = NoNode
      <4>1. w[k] = NoNode
        BY <1>2, <3>2
      <4> QED
        BY <2>1, <4>1 DEF SubOf
    <3>3. CASE w[k - 1] # NoNode
      <4>1. w[k - 1] \in R /\ w[k] = Down(a, w[k - 1])
        BY <1>2, <2>1, <3>3
      <4>2. SubOf(sub, w[k]) \subseteq sub[w[k - 1]]
        BY <4>1, WayOfTree
      <4>3. SubOf(sub, w[k]) \subseteq SubOf(sub, w[k - 1])
        BY <3>3, <4>2 DEF SubOf
      <4> QED
        BY <1>4, <2>1, <3>1, <3>3, <4>3
    <3> QED
      BY <3>2, <3>3
  <2> QED
    BY <1>1, <2>1, <2>2, <2>3, <2>4
<1>5. 0..N \subseteq Lower
  <2> HIDE DEF Lower
  <2> QED
    BY <1>1, <1>3, <1>4, AfterEveryTurn
<1>6. j \in Lower /\ ~(j <= i)
  BY <1>1, <1>5 DEF N
<1> QED
  BY <1>6 DEF w

\* Who has the address is met.
LEMMA WayFinds ==
  ASSUME NEW R, NEW sub, Looked(R, sub), NEW n \in R
  PROVE  \E i \in 0..iplog_size : Way(iplogs[n].addr)[i] = n
<1> DEFINE N == iplog_size
           a == iplogs[n].addr
           w == Way(a)
           Near == {k \in 0..N : \/ n \in SubOf(sub, w[k])
                                 \/ \E i \in 0..N : w[i] = n}
<1>1. N \in Nat /\ a \in Int
  BY SizeIs, LookedNode
<1>2. /\ w \in [0..N -> R \cup {NoNode}] /\ w[0] = iplog_head /\ w[N] = NoNode
      /\ \A k \in 1..N : w[k] = IF w[k - 1] = NoNode THEN NoNode
                                ELSE Down(a, w[k - 1])
  BY <1>1, WayOfTree, WayEnds
<1> HIDE DEF w, N, a
<1>3. 0 \in Near
  <2>1. n \in SubOf(sub, w[0]) /\ 0 \in 0..N
    BY <1>1, <1>2, LookedRoot
  <2> QED
    BY <2>1
<1>4. ASSUME NEW k \in 1..N, k - 1 \in Near
      PROVE  k \in Near
  <2>1. k \in 0..N /\ k - 1 \in 0..N
    BY <1>1
  <2>2. CASE n \in SubOf(sub, w[k - 1]) /\ w[k - 1] # n
    <3> DEFINE m == w[k - 1]
    <3>1. m \in R /\ m # NoNode /\ n \in sub[m] /\ n # m
      BY <1>2, <2>1, <2>2 DEF SubOf
    <3>2. w[k] = Down(a, m)
      BY <1>2, <3>1
    <3> HIDE DEF m
    <3>3. \/ n \in SubOf(sub, iplogs[m].children[FALSE]) /\ a <= iplogs[m].addr
          \/ n \in SubOf(sub, iplogs[m].children[TRUE]) /\ a > iplogs[m].addr
      <4>1. \/ n \in SubOf(sub, iplogs[m].children[FALSE])
            \/ n \in SubOf(sub, iplogs[m].children[TRUE])
        <5>1. sub[m] = {m} \cup SubOf(sub, iplogs[m].children[FALSE])
                          \cup SubOf(sub, iplogs[m].children[TRUE])
          BY <3>1, LookedNode
        <5> QED
          BY ONLY <3>1, <5>1
      <4> QED
        BY <3>1, <4>1, LookedSides DEF a
    <3>4. iplogs[m].addr \in Int
      BY <3>1, LookedNode
    <3>5. CASE n \in SubOf(sub, iplogs[m].children[FALSE]) /\ a <= iplogs[m].addr
      <4>1. (a > iplogs[m].addr) = FALSE
        BY <1>1, <3>4, <3>5
      <4> QED
        BY <2>1, <3>2, <3>5, <4>1 DEF Down
    <3>6. CASE n \in SubOf(sub, iplogs[m].children[TRUE]) /\ a > iplogs[m].addr
      <4>1. (a > iplogs[m].addr) = TRUE
        BY <3>6
      <4> QED
        BY <2>1, <3>2, <3>6, <4>1 DEF Down
    <3> QED
      BY <3>3, <3>5, <3>6
  <2> QED
    BY <1>4, <2>1, <2>2
<1>5. 0..N \subseteq Near
  <2> HIDE DEF Near
  <2> QED
    BY <1>1, <1>3, <1>4, AfterEveryTurn
<1>6. N \in Near
  BY <1>1, <1>5
<1>7. n \notin SubOf(sub, w[N])
  BY <1>2 DEF SubOf
<1> QED
  BY <1>6, <1>7 DEF w, N, a

\* Two places of a way: the later one is in the tree of the earlier one.
LEMMA WayApart ==
  ASSUME NEW R, NEW sub, Looked(R, sub), NEW a \in Int,
         NEW i \in 0..iplog_size, NEW j \in 0..iplog_size, i < j,
         Way(a)[j] # NoNode
  PROVE  /\ Way(a)[i] \in R /\ Way(a)[j] \in R
         /\ Way(a)[j] \in sub[Way(a)[i]] /\ Way(a)[i] \notin sub[Way(a)[j]]
         /\ Way(a)[i] # Way(a)[j]
         /\ Down(a, Way(a)[i]) # NoNode
<1> DEFINE m == Way(a)[i]
           n == Way(a)[j]
<1>1. m # NoNode /\ n # NoNode /\ SubOf(sub, n) \subseteq SubOf(sub, Down(a, m))
  BY WayGoesDown
<1>2. m \in R /\ n \in R
  <2>1. Way(a) \in [0..iplog_size -> R \cup {NoNode}]
    BY WayOfTree
  <2> QED
    BY <1>1, <2>1
<1> HIDE DEF m, n
<1>3. SubOf(sub, n) = sub[n] /\ n \in sub[n] /\ SubOf(sub, NoNode) = {}
  <2>1. n \in sub[n]
    BY <1>2, LookedNode
  <2> QED
    BY <1>1, <2>1 DEF SubOf
<1>4. SubOf(sub, Down(a, m)) \subseteq sub[m] /\ m \notin SubOf(sub, Down(a, m))
  BY <1>2, WayOfTree
<1>5. n \in sub[m] /\ m \notin sub[n] /\ m # n /\ Down(a, m) # NoNode
  BY <1>1, <1>3, <1>4
<1> QED
  BY <1>2, <1>5 DEF m, n

\* What is met on the way.
LEMMA PathIs ==
  ASSUME NEW R, NEW sub, Looked(R, sub), NEW a \in Int
  PROVE  /\ Path(a) \subseteq R
         /\ iplog_head # NoNode => iplog_head \in Path(a)
         /\ \A n \in Path(a) : Down(a, n) \in Path(a) \cup {NoNode}
         /\ \A n \in Path(a) : n = iplog_head \/ \E m \in Path(a) : Down(a, m) = n
         /\ \A n \in R : iplogs[n].addr = a => n \in Path(a)
         /\ \A m, n \in Path(a) :
              Down(a, m) = NoNode /\ Down(a, n) = NoNode => m = n
<1> DEFINE N == iplog_size
           w == Way(a)
<1>1. N \in Nat /\ N # 0
  BY SizeIs
<1>2. /\ w \in [0..N -> R \cup {NoNode}] /\ w[0] = iplog_head /\ w[N] = NoNode
      /\ \A i \in 1..N : w[i] = IF w[i - 1] = NoNode THEN NoNode
                                ELSE Down(a, w[i - 1])
  BY WayOfTree, WayEnds
<1>3. Path(a) = {w[i] : i \in 0..N} \ {NoNode}
  BY DEF Path
<1>4. ASSUME NEW n \in R, iplogs[n].addr = a
      PROVE  n \in Path(a)
  <2>1. PICK i \in 0..N : w[i] = n
    BY <1>4, WayFinds
  <2>2. n # NoNode
    BY LookedNode
  <2> QED
    BY <1>3, <2>1, <2>2
<1>5. ASSUME NEW m \in Path(a), NEW n \in Path(a),
             Down(a, m) = NoNode, Down(a, n) = NoNode
      PROVE  m = n
  <2>1. PICK i \in 0..N : w[i] = m /\ m # NoNode
    BY <1>3
  <2>2. PICK j \in 0..N : w[j] = n /\ n # NoNode
    BY <1>3
  <2>3. ~(i < j)
    BY <1>5, <2>1, <2>2, WayApart
  <2>4. ~(j < i)
    BY <1>5, <2>1, <2>2, WayApart
  <2>5. i = j
    BY <1>1, <2>3, <2>4
  <2> QED
    BY <2>1, <2>2, <2>5
<1> HIDE DEF w, N
<1>6. Path(a) \subseteq R
  BY <1>2, <1>3
<1>7. iplog_head # NoNode => iplog_head \in Path(a)
  <2>1. 0 \in 0..N
    BY <1>1
  <2> QED
    BY <1>2, <1>3, <2>1
<1>8. ASSUME NEW n \in Path(a)
      PROVE  Down(a, n) \in Path(a) \cup {NoNode}
  <2>1. PICK i \in 0..N : w[i] = n /\ n # NoNode
    BY <1>3
  <2>2. i # N
    BY <1>2, <2>1
  <2>3. i + 1 \in 1..N /\ i + 1 \in 0..N /\ (i + 1) - 1 = i
    BY <1>1, <2>2
  <2>4. w[i + 1] = Down(a, n)
    BY <1>2, <2>1, <2>3
  <2> QED
    BY <1>3, <2>3, <2>4
<1>9. ASSUME NEW n \in Path(a), n # iplog_head
      PROVE  \E m \in Path(a) : Down(a, m) = n
  <2>1. PICK i \in 0..N : w[i] = n /\ n # NoNode
    BY <1>3
  <2>2. i # 0
    BY <1>2, <1>9, <2>1
  <2>3. i \in 1..N /\ i - 1 \in 0..N
    BY <1>1, <2>2
  <2>4. w[i - 1] # NoNode /\ w[i] = Down(a, w[i - 1])
    BY <1>2, <2>1, <2>3
  <2>5. w[i - 1] \in Path(a)
    BY <1>3, <2>3, <2>4
  <2> QED
    BY <2>1, <2>4, <2>5
<1> QED
  BY <1>4, <1>5, <1>6, <1>7, <1>8, <1>9

\* A way that begins comes to an end.
LEMMA PathEnds ==
  ASSUME NEW R, NEW sub, Looked(R, sub), NEW a \in Int, iplog_head # NoNode
  PROVE  \E n \in Path(a) : Down(a, n) = NoNode
<1> DEFINE N == iplog_size
           w == Way(a)
           OnWay == {i \in 0..N : w[i] # NoNode}
<1>1. N \in Nat /\ N # 0
  BY SizeIs
<1>2. /\ w[0] = iplog_head /\ w[N] = NoNode
      /\ \A i \in 1..N : w[i] = IF w[i - 1] = NoNode THEN NoNode
                                ELSE Down(a, w[i - 1])
  BY WayOfTree, WayEnds
<1>3. Path(a) = {w[i] : i \in 0..N} \ {NoNode}
  BY DEF Path
<1> HIDE DEF w, N
<1>4. SUFFICES ASSUME \A n \in Path(a) : Down(a, n) # NoNode
               PROVE  FALSE
  OBVIOUS
<1>5. 0 \in OnWay
  BY <1>1, <1>2
<1>6. \A i \in 1..N : i - 1 \in OnWay => i \in OnWay
  <2>1. \A i \in 1..N : i - 1 \in 0..N /\ i \in 0..N
    BY <1>1
  <2> QED
    BY <1>2, <1>3, <1>4, <2>1
<1>7. 0..N \subseteq OnWay
  <2> HIDE DEF OnWay
  <2> QED
    BY <1>1, <1>5, <1>6, AfterEveryTurn
<1> QED
  BY <1>1, <1>2, <1>7

\* The steps of an address are its nodes, and the later ones are below.
LEMMA MatchesAre ==
  ASSUME NEW R, NEW sub, Looked(R, sub), NEW a \in Int
  PROVE  /\ Matches(a) \subseteq 0..iplog_size
         /\ \A i \in Matches(a) : Way(a)[i] \in R /\ iplogs[Way(a)[i]].addr = a
         /\ \A n \in R : iplogs[n].addr = a => \E i \in Matches(a) : Way(a)[i] = n
         /\ \A i, j \in Matches(a) : i < j =>
              /\ Way(a)[j] \in sub[Way(a)[i]] /\ Way(a)[i] \notin sub[Way(a)[j]]
              /\ Way(a)[i] # Way(a)[j]
<1>1. Matches(a) = {n \in 0..iplog_size :
                      Way(a)[n] # NoNode /\ iplogs[Way(a)[n]].addr = a}
  BY DEF Matches
<1>2. Way(a) \in [0..iplog_size -> R \cup {NoNode}]
  BY WayOfTree
<1>3. ASSUME NEW n \in R, iplogs[n].addr = a
      PROVE  \E i \in Matches(a) : Way(a)[i] = n
  <2>1. PICK i \in 0..iplog_size : Way(a)[i] = n
    BY <1>3, WayFinds
  <2>2. n # NoNode
    BY LookedNode
  <2> QED
    BY <1>1, <1>3, <2>1, <2>2
<1>4. ASSUME NEW i \in Matches(a), NEW j \in Matches(a), i < j
      PROVE  /\ Way(a)[j] \in sub[Way(a)[i]] /\ Way(a)[i] \notin sub[Way(a)[j]]
             /\ Way(a)[i] # Way(a)[j]
  <2>1. i \in 0..iplog_size /\ j \in 0..iplog_size /\ Way(a)[j] # NoNode
    BY <1>1
  <2> QED
    BY <1>4, <2>1, WayApart
<1> QED
  BY <1>1, <1>2, <1>3, <1>4

\* Two sets of numbers that correspond in their order.
Aligned(phi, M, P) ==
  /\ phi \in [M -> P]
  /\ \A p \in P : \E i \in M : phi[i] = p
  /\ \A i, j \in M : i < j => phi[i] < phi[j]

LaterThan(M, i) == {j \in M : j > i}
Soonest(S) == CHOOSE j \in S : \A k \in S : j <= k

\* The least of a set of numbers.
LEMMA SoonestIs ==
  ASSUME NEW S \in SUBSET Nat, S # {}
  PROVE  /\ Soonest(S) \in S /\ \A k \in S : Soonest(S) <= k
         /\ \A m \in S : (\A k \in S : m <= k) => m = Soonest(S)
<1>1. Soonest(S) \in S /\ \A k \in S : Soonest(S) <= k
  <2>1. \E m \in S : \A k \in S : m <= k
    BY LeastOfSet
  <2> QED
    BY <2>1 DEF Soonest
<1>2. ASSUME NEW m \in S, \A k \in S : m <= k
      PROVE  m = Soonest(S)
  <2> DEFINE s == Soonest(S)
  <2>1. m \in Nat /\ s \in Nat /\ m <= s /\ s <= m
    BY <1>1, <1>2
  <2> HIDE DEF s
  <2>2. m = s
    BY <2>1
  <2> QED
    BY <2>2 DEF s
<1> QED
  BY <1>1, <1>2

\* What comes next in one comes next in the other, ...
LEMMA AlignedLater ==
  ASSUME NEW M \in SUBSET Nat, NEW P \in SUBSET Nat, NEW phi, Aligned(phi, M, P),
         NEW i \in M
  PROVE  /\ LaterThan(M, i) = {} <=> LaterThan(P, phi[i]) = {}
         /\ LaterThan(M, i) # {} =>
              /\ Soonest(LaterThan(M, i)) \in M
              /\ phi[Soonest(LaterThan(M, i))] = Soonest(LaterThan(P, phi[i]))
<1>1. ASSUME NEW j \in LaterThan(M, i)
      PROVE  phi[j] \in LaterThan(P, phi[i])
  BY DEF Aligned, LaterThan
<1>2. ASSUME NEW q \in LaterThan(P, phi[i])
      PROVE  \E j \in LaterThan(M, i) : phi[j] = q
  <2>1. PICK j \in M : phi[j] = q
    BY DEF Aligned, LaterThan
  <2>2. q > phi[i] /\ q \in Nat /\ phi[i] \in Nat /\ i \in Nat /\ j \in Nat
    BY DEF Aligned, LaterThan
  <2>3. ~(j < i) /\ j # i
    BY <2>1, <2>2 DEF Aligned
  <2> QED
    BY <2>1, <2>2, <2>3 DEF LaterThan
<1>3. LaterThan(M, i) = {} <=> LaterThan(P, phi[i]) = {}
  BY <1>1, <1>2
<1>4. ASSUME LaterThan(M, i) # {}
      PROVE  /\ Soonest(LaterThan(M, i)) \in M
             /\ phi[Soonest(LaterThan(M, i))] = Soonest(LaterThan(P, phi[i]))
  <2> DEFINE A == LaterThan(M, i)
             B == LaterThan(P, phi[i])
             s == Soonest(A)
  <2>1. A \in SUBSET Nat /\ B \in SUBSET Nat /\ B # {} /\ A # {}
    BY <1>3, <1>4 DEF LaterThan
  <2> HIDE DEF A, B
  <2>2. s \in A /\ \A k \in A : s <= k
    BY <2>1, SoonestIs
  <2> HIDE DEF s
  <2>3. phi[s] \in B /\ A \subseteq M
    BY <1>1, <2>2 DEF A, B, LaterThan
  <2>4. ASSUME NEW q \in B
        PROVE  phi[s] <= q
    <3>1. PICK j \in A : phi[j] = q
      BY <1>2 DEF A, B
    <3>2. s = j \/ s < j
      BY <2>1, <2>2
    <3>3. phi[s] = phi[j] \/ phi[s] < phi[j]
      BY <2>2, <2>3, <3>2 DEF Aligned
    <3>4. phi[s] \in Nat /\ q \in Nat
      BY <2>1, <2>3
    <3>5. phi[s] = q \/ phi[s] < q
      BY <3>1, <3>3
    <3> HIDE DEF B
    <3> DEFINE x == phi[s]
    <3> HIDE DEF x
    <3>6. x <= q
      BY <3>4, <3>5 DEF x
    <3> QED
      BY <3>6 DEF x
  <2>5. phi[s] = Soonest(B)
    BY <2>1, <2>3, <2>4, SoonestIs
  <2> QED
    BY <2>2, <2>3, <2>5 DEF A, B, s
<1> QED
  BY <1>3, <1>4

\* ... and they are as many.
LEMMA AlignedSize ==
  ASSUME NEW M \in SUBSET Nat, NEW P \in SUBSET Nat, NEW phi, Aligned(phi, M, P),
         IsFiniteSet(M)
  PROVE  IsFiniteSet(P) /\ Cardinality(P) = Cardinality(M)
<1>1. \A i, j \in M : phi[i] = phi[j] => i = j
  <2>1. SUFFICES ASSUME NEW i \in M, NEW j \in M, phi[i] = phi[j]
                 PROVE  i = j
    OBVIOUS
  <2>2. i \in Nat /\ j \in Nat /\ phi[i] \in Nat /\ phi[j] \in Nat
    BY DEF Aligned
  <2>3. ~(i < j) /\ ~(j < i)
    BY <2>1, <2>2 DEF Aligned
  <2> QED
    BY <2>2, <2>3
<1>2. phi \in [M -> P] /\ \A p \in P : \E i \in M : phi[i] = p
  BY DEF Aligned
<1>3. phi \in Injection(M, P)
  BY <1>1, <1>2 DEF Injection, IsInjective
<1>4. phi \in Surjection(M, P)
  BY <1>2 DEF Surjection
<1>5. ExistsBijection(M, P)
  BY <1>3, <1>4 DEF ExistsBijection, Bijection
<1> QED
  BY <1>5, FS_Bijection

-----------------------------------------------------------------------------
(* The tree and the ring.                                                  *)

\* A younger record of an address is below the older ones.
AgeOrder(t, r, K, sub) ==
  \A i, j \in 1..K : i < j /\ t[r[i]].addr = t[r[j]].addr => r[j] \in sub[r[i]]

\* The slots of the ring, from 1 to K, are the nodes of the tree.
Numbers(r, K, R) ==
  /\ K \in Nat /\ r \in [1..K -> R]
  /\ \A n \in R : \E i \in 1..K : r[i] = n
  /\ \A i, j \in 1..K : r[i] = r[j] => i = j

PlacesOf(t, r, K, a) == {p \in 1..K : t[r[p]].addr = a}

\* The steps at which an address is met are its places in the ring, in
\* the order of their age.
LEMMA StepsArePlaces ==
  ASSUME NEW R, NEW sub, Looked(R, sub), NEW r, NEW K, Numbers(r, K, R),
         AgeOrder(iplogs, r, K, sub), NEW a \in Int
  PROVE  /\ Matches(a) \in SUBSET Nat /\ IsFiniteSet(Matches(a))
         /\ PlacesOf(iplogs, r, K, a) \in SUBSET Nat
         /\ \E phi : /\ Aligned(phi, Matches(a), PlacesOf(iplogs, r, K, a))
                     /\ \A i \in Matches(a) : r[phi[i]] = Way(a)[i]
<1> DEFINE N == iplog_size
           w == Way(a)
           M == Matches(a)
           P == PlacesOf(iplogs, r, K, a)
           phi == [i \in M |-> CHOOSE p \in 1..K : r[p] = w[i]]
<1>1. N \in Nat /\ K \in Nat
  BY SizeIs DEF Numbers
<1>2. /\ M \subseteq 0..N
      /\ \A i \in M : w[i] \in R /\ iplogs[w[i]].addr = a
      /\ \A n \in R : iplogs[n].addr = a => \E i \in M : w[i] = n
      /\ \A i, j \in M : i < j =>
           /\ w[j] \in sub[w[i]] /\ w[i] \notin sub[w[j]] /\ w[i] # w[j]
  BY MatchesAre
<1>3. M \in SUBSET Nat /\ IsFiniteSet(M) /\ P \in SUBSET Nat
  <2>1. IsFiniteSet(0..N)
    BY <1>1, FS_Interval
  <2>2. IsFiniteSet(M)
    BY <1>2, <2>1, FS_Subset
  <2> QED
    BY <1>1, <1>2, <2>2 DEF PlacesOf
<1> HIDE DEF w, N, M
<1>4. ASSUME NEW i \in M
      PROVE  phi[i] \in 1..K /\ r[phi[i]] = w[i]
  BY <1>2 DEF Numbers
<1>5. \A i \in M : phi[i] \in P
  BY <1>2, <1>4 DEF PlacesOf
<1>6. phi \in [M -> P]
  <2>1. phi = [i \in M |-> phi[i]]
    OBVIOUS
  <2> HIDE DEF phi, P
  <2> QED
    BY <1>5, <2>1
<1> HIDE DEF phi
<1>7. ASSUME NEW p \in P
      PROVE  \E i \in M : phi[i] = p
  <2>1. p \in 1..K /\ r[p] \in R /\ iplogs[r[p]].addr = a
    BY DEF PlacesOf, Numbers
  <2>2. PICK i \in M : w[i] = r[p]
    BY <1>2, <2>1
  <2>3. phi[i] \in 1..K /\ r[phi[i]] = r[p]
    BY <1>4, <2>2
  <2> QED
    BY <2>1, <2>3 DEF Numbers
<1>8. ASSUME NEW i \in M, NEW j \in M, i < j
      PROVE  phi[i] < phi[j]
  <2>1. /\ phi[i] \in 1..K /\ phi[j] \in 1..K
        /\ r[phi[i]] = w[i] /\ r[phi[j]] = w[j]
    BY <1>4
  <2>2. w[i] \notin sub[w[j]] /\ w[i] # w[j]
    BY <1>2, <1>8
  <2>3. iplogs[w[i]].addr = a /\ iplogs[w[j]].addr = a
    BY <1>2
  <2>4. ~(phi[j] < phi[i])
    BY <2>1, <2>2, <2>3 DEF AgeOrder
  <2>5. phi[i] # phi[j]
    BY <2>1, <2>2
  <2> QED
    BY <1>1, <2>1, <2>4, <2>5
<1>9. Aligned(phi, M, P)
  BY <1>6, <1>7, <1>8 DEF Aligned
<1> QED
  BY <1>3, <1>4, <1>9 DEF M, w

-----------------------------------------------------------------------------
(* The state between steps.                                                *)

Logged == LiveSlots(iplog_next, iplog_full)
AgesIs == InAgeOf(iplog_next, iplog_full)
Many == Used(iplog_next, iplog_full)

Fields(x) == [addr |-> x.addr, name |-> x.name, parent |-> x.parent,
              children |-> x.children]
Merging == [on : BOOLEAN, left : Node, right : Node, at : Node, side : BOOLEAN]

\* The variables, one by one.
LogTyped ==
  /\ iplogs = [n \in DOMAIN iplogs |-> iplogs[n]]
  /\ DOMAIN iplogs = IF iplog_full THEN Slot ELSE 0..iplog_next - 1
  /\ \A n \in DOMAIN iplogs :
       /\ iplogs[n] = Fields(iplogs[n])
       /\ EntryOf(n) \in Entry
       /\ iplogs[n].parent \in Node
       /\ iplogs[n].children \in [BOOLEAN -> Node]
  /\ iplog_head \in Node /\ iplog_next \in Slot /\ iplog_full \in BOOLEAN
  /\ merge \in Merging
  /\ merge.on => iplog_full

FilesTyped ==
  /\ phase \in {"down", "loading", "running", "importing", "saving", "saved"}
  /\ reading \in Seq(Entry) /\ file \in Seq(Entry)

\* The tree over the ring.
LogTree(sub) ==
  /\ IsTree(iplogs, iplog_head, merge, Logged, sub)
  /\ AgeOrder(iplogs, AgesIs, Many, sub)

\* What LogTyped says of the slots in the log.
LEMMA TypedIs ==
  ASSUME LogTyped
  PROVE  /\ iplog_next \in Slot /\ iplog_full \in BOOLEAN /\ iplog_head \in Node
         /\ Logged \subseteq DOMAIN iplogs /\ DOMAIN iplogs \subseteq Slot
         /\ \A n \in DOMAIN iplogs :
              /\ iplogs[n] = Fields(iplogs[n]) /\ EntryOf(n) \in Entry
              /\ iplogs[n].addr \in Int /\ iplogs[n].parent \in Node
              /\ iplogs[n].children \in [BOOLEAN -> Node]
         /\ NodesAre(iplogs, Logged)
         /\ Numbers(AgesIs, Many, Logged)
<1>1. /\ iplog_next \in Slot /\ iplog_full \in BOOLEAN /\ iplog_head \in Node
      /\ DOMAIN iplogs \subseteq Slot
      /\ \A n \in DOMAIN iplogs : 
              /\ iplogs[n] = Fields(iplogs[n]) /\ EntryOf(n) \in Entry
              /\ iplogs[n].parent \in Node
              /\ iplogs[n].children \in [BOOLEAN -> Node]
  <2>1. DOMAIN iplogs \subseteq Slot
    BY SizeIs DEF LogTyped
  <2> QED
    BY <2>1 DEF LogTyped
<1>2. Logged \subseteq DOMAIN iplogs
  BY <1>1 DEF LogTyped, Logged, LiveSlots
<1>3. ASSUME NEW n \in DOMAIN iplogs
      PROVE  iplogs[n].addr \in Int
  <2>1. EntryOf(n) \in Entry /\ EntryOf(n).addr = iplogs[n].addr
    BY <1>1 DEF EntryOf
  <2> QED
    BY <2>1, IPLogAssumption
<1>4. NodesAre(iplogs, Logged)
  BY <1>1, <1>2, <1>3 DEF NodesAre
<1>5. Numbers(AgesIs, Many, Logged)
  <2>1. /\ Many \in Nat /\ AgesIs \in [1..Many -> Logged]
        /\ \A i, j \in 1..Many : AgesIs[i] = AgesIs[j] => i = j
    BY <1>1, RingApart DEF Many, AgesIs, Logged
  <2>2. InRing = Logged /\ DOMAIN Ring = 1..Many /\ Ring = AgesIs
    BY <1>1, RingIs DEF Many, AgesIs, Logged
  <2>3. \A n \in Logged : \E i \in 1..Many : AgesIs[i] = n
    BY <2>2 DEF InRing
  <2> QED
    BY <2>1, <2>3 DEF Numbers
<1> QED
  BY <1>1, <1>2, <1>3, <1>4, <1>5

\* The records, oldest first.
LEMMA RecordsAre ==
  ASSUME LogTyped
  PROVE  /\ Records = [i \in 1..Many |-> EntryOf(AgesIs[i])]
         /\ Many \in Nat /\ Many < iplog_size
         /\ Records \in Seq(Entry) /\ Len(Records) = Many
         /\ DOMAIN Records = 1..Many
         /\ \A i \in 1..Many : /\ AgesIs[i] \in Logged /\ Records[i] \in Entry
                               /\ Records[i] = EntryOf(AgesIs[i])
                               /\ Records[i].addr = iplogs[AgesIs[i]].addr
                               /\ Records[i].name = iplogs[AgesIs[i]].name
<1>1. iplog_next \in Slot /\ iplog_full \in BOOLEAN
  BY TypedIs
<1>2. DOMAIN Ring = 1..Many /\ Ring = AgesIs
  BY <1>1, RingIs DEF Many, AgesIs
<1>3. Many \in Nat /\ Many < iplog_size
  BY <1>1, RingApart DEF Many
<1>4. Records = [i \in 1..Many |-> EntryOf(AgesIs[i])]
  BY <1>2 DEF Records
<1>5. ASSUME NEW i \in 1..Many
      PROVE  AgesIs[i] \in Logged /\ EntryOf(AgesIs[i]) \in Entry
  <2>1. AgesIs[i] \in Logged
    BY TypedIs DEF Numbers
  <2> QED
    BY <2>1, TypedIs
<1>6. Records \in [1..Many -> Entry]
  BY <1>4, <1>5
<1>7. Records \in Seq(Entry) /\ Len(Records) = Many
  <2> HIDE DEF Many
  <2> QED
    BY <1>3, <1>6, SeqDef, LenProperties
<1> QED
  BY <1>3, <1>4, <1>5, <1>7 DEF EntryOf

-----------------------------------------------------------------------------
(* Looking an entry up, and a new name of a full address.                  *)

\* Entries are an address and a name.
LEMMA EntriesAre ==
  /\ \A e \in Entry : e.addr \in Int /\ e = [addr |-> e.addr, name |-> e.name]
  /\ \A e, f \in Entry : e.addr = f.addr /\ e.name = f.name => e = f
<1>1. \A e \in Entry : e.addr \in Int /\ e = [addr |-> e.addr, name |-> e.name]
  BY IPLogAssumption
<1> QED
  BY <1>1

\* The tree is looked through while nothing is taken out of it.
LEMMA TreeIsLooked ==
  ASSUME LogTyped, NEW sub, LogTree(sub), ~merge.on
  PROVE  Looked(Logged, sub)
BY TypedIs DEF Looked, LogTree

\* The places of an address in the book, ...
LEMMA OnesPlaces ==
  ASSUME LogTyped, NEW a
  PROVE  Book!Places(a) = PlacesOf(iplogs, AgesIs, Many, a)
<1>1. DOMAIN Records = 1..Many
      /\ \A i \in 1..Many : Records[i].addr = iplogs[AgesIs[i]].addr
  BY RecordsAre
<1> QED
  BY <1>1 DEF Book!Places, PlacesOf

\* ... are as many as the tree has of it, ...
LEMMA MatchesCount ==
  ASSUME LogTyped, NEW sub, LogTree(sub), ~merge.on, NEW a \in Int
  PROVE  Cardinality(Matches(a)) = Cardinality(Book!Places(a))
<1> DEFINE P == PlacesOf(iplogs, AgesIs, Many, a)
<1>1. Looked(Logged, sub) /\ Numbers(AgesIs, Many, Logged)
      /\ AgeOrder(iplogs, AgesIs, Many, sub)
  BY TreeIsLooked, TypedIs DEF LogTree
<1>2. /\ Matches(a) \in SUBSET Nat /\ IsFiniteSet(Matches(a)) /\ P \in SUBSET Nat
      /\ \E phi : Aligned(phi, Matches(a), P)
  BY <1>1, StepsArePlaces
<1> HIDE DEF P
<1>3. Cardinality(P) = Cardinality(Matches(a))
  BY <1>2, AlignedSize
<1> QED
  BY <1>3, OnesPlaces DEF P

\* ... and the tree knows an entry when the book does.
LEMMA KnownIs ==
  ASSUME LogTyped, NEW sub, LogTree(sub), ~merge.on, NEW e \in Entry
  PROVE  Known(e) <=> Book!Known(e)
<1> DEFINE a == e.addr
<1>1. Looked(Logged, sub) /\ a \in Int
  BY TreeIsLooked, EntriesAre
<1>2. /\ \A i \in Matches(a) : Way(a)[i] \in Logged /\ iplogs[Way(a)[i]].addr = a
      /\ \A n \in Logged : iplogs[n].addr = a => \E i \in Matches(a) : Way(a)[i] = n
  BY <1>1, MatchesAre
<1>3. /\ DOMAIN Records = 1..Many
      /\ \A i \in 1..Many : /\ AgesIs[i] \in Logged /\ Records[i] \in Entry
                            /\ Records[i].addr = iplogs[AgesIs[i]].addr
                            /\ Records[i].name = iplogs[AgesIs[i]].name
  BY RecordsAre
<1>4. \A n \in Logged : \E i \in 1..Many : AgesIs[i] = n
  BY TypedIs DEF Numbers
<1>5. ASSUME NEW i \in Matches(a), iplogs[Way(a)[i]].name = e.name
      PROVE  \E p \in DOMAIN Records : Records[p] = e
  <2>1. PICK p \in 1..Many : AgesIs[p] = Way(a)[i]
    BY <1>2, <1>4
  <2>2. Records[p] \in Entry /\ Records[p].addr = e.addr /\ Records[p].name = e.name
    BY <1>2, <1>3, <1>5, <2>1
  <2>3. Records[p] = e
    BY <2>2, EntriesAre
  <2> QED
    BY <1>3, <2>3
<1>6. ASSUME NEW p \in DOMAIN Records, Records[p] = e
      PROVE  \E i \in Matches(a) : iplogs[Way(a)[i]].name = e.name
  <2>1. AgesIs[p] \in Logged /\ iplogs[AgesIs[p]].addr = a
        /\ iplogs[AgesIs[p]].name = e.name
    BY <1>3, <1>6
  <2>2. PICK i \in Matches(a) : Way(a)[i] = AgesIs[p]
    BY <1>2, <2>1
  <2> QED
    BY <2>1, <2>2
<1> QED
  BY <1>5, <1>6 DEF Known, Book!Known

\* The name that moves to the step i of an address.
NewName(e, i) ==
  IF LaterThan(Matches(e.addr), i) = {} THEN e.name
  ELSE iplogs[Way(e.addr)[Soonest(LaterThan(Matches(e.addr), i))]].name

\* AddName in these terms, ...
LEMMA AddNameIs ==
  ASSUME NEW e, AddName(e)
  PROVE  /\ iplogs' = [n \in DOMAIN iplogs |->
              IF \A i \in Matches(e.addr) : Way(e.addr)[i] # n THEN iplogs[n]
              ELSE [iplogs[n] EXCEPT !.name =
                      NewName(e, CHOOSE i \in Matches(e.addr) :
                                   Way(e.addr)[i] = n)]]
         /\ UNCHANGED <<iplog_head, iplog_next, iplog_full, merge>>
BY DEF AddName, NewName, LaterThan, Soonest

\* ... and what the book does then.
LEMMA ForgetNameIs ==
  ASSUME LogTyped, NEW e
  PROVE  LET P == PlacesOf(iplogs, AgesIs, Many, e.addr) IN
         Book!ForgetName(e) =
           [i \in 1..Many |->
              IF i \notin P THEN Records[i]
              ELSE IF LaterThan(P, i) = {} THEN e ELSE Records[Soonest(LaterThan(P, i))]]
<1> DEFINE P == PlacesOf(iplogs, AgesIs, Many, e.addr)
           Q == Book!Places(e.addr)
           Moved(S) == [i \in 1..Many |->
              IF i \notin S THEN Records[i]
              ELSE IF LaterThan(S, i) = {} THEN e ELSE Records[Soonest(LaterThan(S, i))]]
<1>1. DOMAIN Records = 1..Many
  BY RecordsAre
<1>2. Q = P
  BY OnesPlaces
<1>3. Book!ForgetName(e) = Moved(Q)
  BY <1>1 DEF Book!ForgetName, LaterThan, Soonest
<1>4. Moved(Q) = Moved(P)
  <2> HIDE DEF P, Q, Moved
  <2> QED
    BY <1>2
<1> QED
  BY <1>3, <1>4

\* The step at which a node of the address is met is one only.
LEMMA StepIsOne ==
  ASSUME NEW R, NEW sub, Looked(R, sub), NEW a \in Int, NEW i \in Matches(a)
  PROVE  (CHOOSE j \in Matches(a) : Way(a)[j] = Way(a)[i]) = i
<1>1. /\ Matches(a) \subseteq 0..iplog_size
      /\ \A j, k \in Matches(a) : j < k => Way(a)[j] # Way(a)[k]
  BY MatchesAre
<1>2. ASSUME NEW j \in Matches(a), Way(a)[j] = Way(a)[i]
      PROVE  j = i
  <2>1. i \in Int /\ j \in Int /\ ~(i < j) /\ ~(j < i)
    BY <1>1, <1>2
  <2> QED
    BY <2>1
<1> QED
  BY <1>2

\* The records of an address have each other's names then, and nothing else
\* of them changes.
LEMMA NodeAfterName ==
  ASSUME LogTyped, NEW sub, LogTree(sub), ~merge.on, NEW e \in Entry, AddName(e)
  PROVE  /\ DOMAIN iplogs' = DOMAIN iplogs
         /\ iplogs' = [n \in DOMAIN iplogs |-> iplogs'[n]]
         /\ \A n \in DOMAIN iplogs :
              /\ iplogs'[n].addr = iplogs[n].addr
              /\ iplogs'[n].parent = iplogs[n].parent
              /\ iplogs'[n].children = iplogs[n].children
              /\ iplogs'[n] = Fields(iplogs'[n])
         /\ \A n \in DOMAIN iplogs :
              (\A i \in Matches(e.addr) : Way(e.addr)[i] # n) =>
                iplogs'[n] = iplogs[n]
         /\ \A i \in Matches(e.addr) :
              iplogs'[Way(e.addr)[i]].name = NewName(e, i)
<1> DEFINE M == Matches(e.addr)
           w == Way(e.addr)
           Turn(n) == CHOOSE i \in M : w[i] = n
           Named(n) == [iplogs[n] EXCEPT !.name = NewName(e, Turn(n))]
<1>1. iplogs' = [n \in DOMAIN iplogs |->
                   IF \A i \in M : w[i] # n THEN iplogs[n] ELSE Named(n)]
  BY AddNameIs
<1>2. \A n \in DOMAIN iplogs : iplogs[n] = Fields(iplogs[n])
  BY TypedIs
<1>3. ASSUME NEW n \in DOMAIN iplogs
      PROVE  /\ Named(n).addr = iplogs[n].addr
             /\ Named(n).parent = iplogs[n].parent
             /\ Named(n).children = iplogs[n].children
             /\ Named(n) = Fields(Named(n))
             /\ Named(n).name = NewName(e, Turn(n))
  <2> DEFINE x == iplogs[n]
             s == NewName(e, Turn(n))
  <2>1. x = [addr |-> x.addr, name |-> x.name, parent |-> x.parent,
             children |-> x.children]
    BY <1>2 DEF Fields
  <2> HIDE DEF x, s
  <2>2. [x EXCEPT !.name = s] =
           [addr |-> x.addr, name |-> s, parent |-> x.parent,
            children |-> x.children]
    BY <2>1
  <2> DEFINE y == [x EXCEPT !.name = s]
  <2>3. /\ y.addr = x.addr /\ y.parent = x.parent /\ y.children = x.children
        /\ y = Fields(y) /\ y.name = s
    BY <2>2 DEF Fields
  <2> QED
    BY <2>3 DEF x, s
<1>4. /\ Looked(Logged, sub) /\ e.addr \in Int
      /\ \A i \in M : w[i] \in Logged
  BY TreeIsLooked, EntriesAre, MatchesAre
<1>5. \A i \in M : Turn(w[i]) = i
  BY <1>4, StepIsOne
<1>6. \A i \in M : w[i] \in DOMAIN iplogs
  BY <1>4, TypedIs
<1> HIDE DEF M, w, Turn, Named
<1>7. ASSUME NEW i \in M
      PROVE  iplogs'[w[i]].name = NewName(e, i)
  <2>1. iplogs'[w[i]] = Named(w[i])
    BY <1>1, <1>6
  <2> QED
    BY <1>3, <1>5, <1>6, <2>1
<1>8. ASSUME NEW n \in DOMAIN iplogs
      PROVE  /\ iplogs'[n].addr = iplogs[n].addr
             /\ iplogs'[n].parent = iplogs[n].parent
             /\ iplogs'[n].children = iplogs[n].children
             /\ iplogs'[n] = Fields(iplogs'[n])
  <2>1. iplogs'[n] = iplogs[n] \/ iplogs'[n] = Named(n)
    BY <1>1
  <2> QED
    BY <1>2, <1>3, <2>1
<1>9. DOMAIN iplogs' = DOMAIN iplogs /\ iplogs' = [n \in DOMAIN iplogs |-> iplogs'[n]]
  BY <1>1
<1>10. \A n \in DOMAIN iplogs : (\A i \in M : w[i] # n) => iplogs'[n] = iplogs[n]
  BY <1>1
<1> QED
  BY <1>7, <1>8, <1>9, <1>10 DEF M, w

-----------------------------------------------------------------------------
(* What a tree is, node by node.                                           *)

\* The parts of a tree, while a node is taken out of it or not.
LEMMA TreeNode ==
  ASSUME NEW t, NEW h, NEW g, NEW R, NEW sub, IsTree(t, h, g, R, sub), NEW n \in R
  PROVE  /\ sub[n] = {n} \cup Beneath(t, g, sub, n, FALSE) \cup Beneath(t, g, sub, n, TRUE)
         /\ n \notin Beneath(t, g, sub, n, FALSE)
         /\ \A m \in Beneath(t, g, sub, n, FALSE) : t[m].addr <= t[n].addr
         /\ \A m \in Beneath(t, g, sub, n, TRUE) : t[m].addr > t[n].addr
         /\ sub[n] \subseteq R /\ n \in sub[n]
         /\ Beneath(t, g, sub, n, FALSE) \subseteq R
         /\ Beneath(t, g, sub, n, TRUE) \subseteq R
<1>1. Sorted(t, g, sub, n) /\ sub[n] \subseteq R
  BY DEF IsTree
<1>2. sub[n] = {n} \cup Beneath(t, g, sub, n, FALSE) \cup Beneath(t, g, sub, n, TRUE)
  BY <1>1 DEF Sorted
<1>3. n \in sub[n] /\ Beneath(t, g, sub, n, FALSE) \subseteq sub[n]
      /\ Beneath(t, g, sub, n, TRUE) \subseteq sub[n]
  BY ONLY <1>2
<1> QED
  BY <1>1, <1>2, <1>3 DEF Sorted

LEMMA TreeLink ==
  ASSUME NEW t, NEW h, NEW g, NEW R, NEW sub, IsTree(t, h, g, R, sub), NEW n \in R,
         NEW b \in BOOLEAN, ~AtHole(g, n, b), t[n].children[b] # NoNode
  PROVE  /\ t[n].children[b] \in R /\ t[t[n].children[b]].parent = n
BY DEF IsTree, LinksBack

LEMMA TreeHangs ==
  ASSUME NEW t, NEW h, NEW g, NEW R, NEW sub, IsTree(t, h, g, R, sub), NEW n \in R,
         NoHead(g) \/ n # h, g.on => n # g.left /\ n # g.right
  PROVE  /\ t[n].parent \in R
         /\ \E b \in BOOLEAN : /\ ~AtHole(g, t[n].parent, b)
                               /\ t[t[n].parent].children[b] = n
BY DEF IsTree, Hangs

LEMMA TreeRoot ==
  ASSUME NEW t, NEW h, NEW g, NEW R, NEW sub, IsTree(t, h, g, R, sub)
  PROVE  /\ sub \in [R -> SUBSET R]
         /\ R = IF NoHead(g) THEN TreesLeft(g, sub) ELSE SubOf(sub, h)
         /\ ~NoHead(g) => h = NoNode \/ (h \in R /\ t[h].parent = NoNode)
         /\ HoleIsWhole(t, h, g, R, sub)
BY DEF IsTree

\* The tree is made of addresses, parents and children only.
LEMMA SameTree ==
  ASSUME NEW t, NEW t2, NEW h, NEW g, NEW R, NEW sub, IsTree(t, h, g, R, sub),
         \A n \in R : /\ t2[n].addr = t[n].addr /\ t2[n].parent = t[n].parent
                      /\ t2[n].children = t[n].children
  PROVE  IsTree(t2, h, g, R, sub)
<1>1. \A n \in R, b \in BOOLEAN : Beneath(t2, g, sub, n, b) = Beneath(t, g, sub, n, b)
  BY DEF Beneath
<1>2. ASSUME NEW n \in R
      PROVE  Sorted(t2, g, sub, n)
  <2> DEFINE F == Beneath(t, g, sub, n, FALSE)
             T == Beneath(t, g, sub, n, TRUE)
  <2>1. Beneath(t2, g, sub, n, FALSE) = F /\ Beneath(t2, g, sub, n, TRUE) = T
    BY <1>1
  <2>2. /\ sub[n] = {n} \cup F \cup T /\ n \notin F
        /\ \A m \in F : t[m].addr <= t[n].addr
        /\ \A m \in T : t[m].addr > t[n].addr
        /\ F \subseteq R /\ T \subseteq R
    BY TreeNode
  <2> HIDE DEF F, T
  <2>3. /\ \A m \in F : t2[m].addr <= t2[n].addr
        /\ \A m \in T : t2[m].addr > t2[n].addr
    BY <2>2
  <2> QED
    BY <2>1, <2>2, <2>3 DEF Sorted
<1>3. ASSUME NEW n \in R
      PROVE  Hangs(t2, h, g, R, n)
  BY DEF Hangs, IsTree
<1>4. ASSUME NEW n \in R
      PROVE  LinksBack(t2, g, R, n)
  BY DEF LinksBack, IsTree
<1>5. HoleIsWhole(t2, h, g, R, sub)
  <2>1. SUFFICES ASSUME g.on PROVE HoleIsWhole(t2, h, g, R, sub)
    BY DEF HoleIsWhole
  <2>2. HoleIsWhole(t, h, g, R, sub) /\ sub \in [R -> SUBSET R]
    BY TreeRoot
  <2>3. SubOf(sub, g.left) \subseteq R /\ SubOf(sub, g.right) \subseteq R
    BY <2>1, <2>2 DEF HoleIsWhole, SubOf
  <2>4. \A l \in SubOf(sub, g.left), r \in SubOf(sub, g.right) :
          t2[l].addr < t2[r].addr
    BY <2>1, <2>2, <2>3 DEF HoleIsWhole
  <2>5. \A n \in R, b \in BOOLEAN : t2[n].children[b] = t[n].children[b]
    OBVIOUS
  <2> QED
    BY <2>1, <2>2, <2>4, <2>5 DEF HoleIsWhole
<1>6. ~NoHead(g) => h = NoNode \/ (h \in R /\ t2[h].parent = NoNode)
  BY TreeRoot
<1>7. /\ sub \in [R -> SUBSET R]
      /\ R = IF NoHead(g) THEN TreesLeft(g, sub) ELSE SubOf(sub, h)
  BY TreeRoot
<1> QED
  BY <1>2, <1>3, <1>4, <1>5, <1>6, <1>7 DEF IsTree

-----------------------------------------------------------------------------
(* After a new name.                                                       *)

\* The names of an address have moved by one in the tree and in the book.
LEMMA RecordsAfterName ==
  ASSUME LogTyped, NEW sub, LogTree(sub), ~merge.on, NEW e \in Entry, AddName(e)
  PROVE  Records' = Book!ForgetName(e)
<1> DEFINE M == Matches(e.addr)
           w == Way(e.addr)
           r == AgesIs
           P == PlacesOf(iplogs, r, Many, e.addr)
<1>1. /\ \A n \in DOMAIN iplogs : iplogs'[n].addr = iplogs[n].addr
      /\ \A n \in DOMAIN iplogs : (\A i \in M : w[i] # n) => iplogs'[n] = iplogs[n]
      /\ \A i \in M : iplogs'[w[i]].name = NewName(e, i)
  BY NodeAfterName
<1>2. Looked(Logged, sub) /\ e.addr \in Int /\ Numbers(r, Many, Logged)
      /\ AgeOrder(iplogs, r, Many, sub)
  BY TreeIsLooked, EntriesAre, TypedIs DEF LogTree
<1>3. /\ M \in SUBSET Nat /\ P \in SUBSET Nat
      /\ \E phi : Aligned(phi, M, P) /\ \A i \in M : r[phi[i]] = w[i]
  BY <1>2, StepsArePlaces
<1>4. \A i \in M : w[i] \in Logged /\ iplogs[w[i]].addr = e.addr
  BY <1>2, MatchesAre
<1>5. Records' = [i \in 1..Many |-> EntryOf(r[i])']
  <2>1. iplog_next \in Slot /\ iplog_full \in BOOLEAN
    BY TypedIs
  <2>2. DOMAIN Ring = 1..Many /\ Ring = r
    BY <2>1, RingIs DEF Many, AgesIs
  <2>3. Ring' = Ring
    BY AddNameIs DEF Ring
  <2>4. Records' = [i \in DOMAIN Ring' |-> [addr |-> iplogs'[Ring'[i]].addr,
                                             name |-> iplogs'[Ring'[i]].name]]
    BY DEF Records, EntryOf
  <2>5. r' = r
    BY AddNameIs DEF AgesIs
  <2> QED
    BY <2>2, <2>3, <2>4, <2>5 DEF EntryOf
<1>6. r' = r
  BY AddNameIs DEF AgesIs
<1>7. /\ \A i \in 1..Many : /\ r[i] \in Logged /\ Records[i] = EntryOf(r[i])
                            /\ Records[i] \in Entry
                            /\ Records[i].addr = iplogs[r[i]].addr
                            /\ Records[i].name = iplogs[r[i]].name
      /\ Many \in Nat
  BY RecordsAre
<1>8. Logged \subseteq DOMAIN iplogs
  BY TypedIs
<1>9. Book!ForgetName(e) =
           [i \in 1..Many |->
              IF i \notin P THEN Records[i]
              ELSE IF LaterThan(P, i) = {} THEN e ELSE Records[Soonest(LaterThan(P, i))]]
  BY ForgetNameIs
<1>10. \A p \in 1..Many : p \in P <=> iplogs[r[p]].addr = e.addr
  BY DEF PlacesOf
<1> HIDE DEF M, w, P, r
<1>11. PICK phi : Aligned(phi, M, P) /\ \A i \in M : r[phi[i]] = w[i]
  BY <1>3
<1>12. ASSUME NEW p \in 1..Many
       PROVE  [addr |-> iplogs'[r[p]].addr, name |-> iplogs'[r[p]].name] =
                IF p \notin P THEN Records[p]
                ELSE IF LaterThan(P, p) = {} THEN e ELSE Records[Soonest(LaterThan(P, p))]
  <2>1. r[p] \in Logged /\ r[p] \in DOMAIN iplogs
    BY <1>7, <1>8
  <2>2. CASE p \notin P
    <3>1. \A i \in M : w[i] # r[p]
      BY <1>4, <1>10, <2>2
    <3>2. iplogs'[r[p]] = iplogs[r[p]]
      BY <1>1, <2>1, <3>1
    <3>3. Records[p] = [addr |-> iplogs[r[p]].addr, name |-> iplogs[r[p]].name]
      BY <1>7 DEF EntryOf
    <3> QED
      BY <2>2, <3>2, <3>3
  <2>3. CASE p \in P
    <3>1. PICK i \in M : phi[i] = p
      BY <1>11, <2>3 DEF Aligned
    <3>2. w[i] = r[p]
      BY <1>11, <3>1
    <3>3. iplogs'[r[p]].addr = e.addr /\ iplogs'[r[p]].name = NewName(e, i)
      BY <1>1, <1>10, <2>1, <2>3, <3>2
    <3>4. /\ LaterThan(M, i) = {} <=> LaterThan(P, p) = {}
          /\ LaterThan(M, i) # {} =>
               /\ Soonest(LaterThan(M, i)) \in M
               /\ phi[Soonest(LaterThan(M, i))] = Soonest(LaterThan(P, p))
      <4>1. M \in SUBSET Nat /\ P \in SUBSET Nat /\ Aligned(phi, M, P) /\ i \in M
        BY <1>3, <1>11, <3>1
      <4>2. /\ LaterThan(M, i) = {} <=> LaterThan(P, phi[i]) = {}
            /\ LaterThan(M, i) # {} =>
                 /\ Soonest(LaterThan(M, i)) \in M
                 /\ phi[Soonest(LaterThan(M, i))] = Soonest(LaterThan(P, phi[i]))
        BY ONLY <4>1, AlignedLater, SMTT(60)
      <4> QED
        BY <3>1, <4>2
    <3>5. CASE LaterThan(M, i) = {}
      <4>1. NewName(e, i) = e.name /\ e = [addr |-> e.addr, name |-> e.name]
        BY <3>5, EntriesAre DEF NewName, M
      <4> QED
        BY <2>3, <3>3, <3>4, <3>5, <4>1
    <3>6. CASE LaterThan(M, i) # {}
      <4> DEFINE s == Soonest(LaterThan(M, i))
                 q == Soonest(LaterThan(P, p))
      <4>1. NewName(e, i) = iplogs[w[s]].name
        BY <3>6 DEF NewName, M, w
      <4>2. s \in M /\ phi[s] = q
        BY <3>4, <3>6
      <4> HIDE DEF s, q
      <4>3. w[s] = r[q] /\ q \in P
        BY <1>11, <4>2 DEF Aligned
      <4>4. q \in 1..Many /\ iplogs[r[q]].addr = e.addr
        BY <4>3 DEF P, PlacesOf, r
      <4>5. Records[q] = [addr |-> e.addr, name |-> iplogs[w[s]].name]
        BY <1>7, <4>3, <4>4 DEF EntryOf
      <4> QED
        BY <2>3, <3>3, <3>4, <3>6, <4>1, <4>5 DEF q
    <3> QED
      BY <3>5, <3>6
  <2> QED
    BY <2>2, <2>3
<1>13. \A p \in 1..Many : EntryOf(r[p])' = [addr |-> iplogs'[r[p]].addr,
                                             name |-> iplogs'[r[p]].name]
  BY <1>6 DEF EntryOf, r
<1> DEFINE f == [p \in 1..Many |-> EntryOf(r[p])']
           k == [p \in 1..Many |->
                   IF p \notin P THEN Records[p]
                   ELSE IF LaterThan(P, p) = {} THEN e ELSE Records[Soonest(LaterThan(P, p))]]
<1>14. f = k
  BY <1>12, <1>13
<1> QED
  BY <1>5, <1>9, <1>14

\* They are entries still.
LEMMA NameIsMoved ==
  ASSUME LogTyped, NEW e \in Entry
  PROVE  Book!ForgetName(e) \in [1..Many -> Entry]
<1> DEFINE P == PlacesOf(iplogs, AgesIs, Many, e.addr)
           L(i) == IF i \notin P THEN Records[i]
                   ELSE IF LaterThan(P, i) = {} THEN e ELSE Records[Soonest(LaterThan(P, i))]
<1>1. Book!ForgetName(e) = [i \in 1..Many |-> L(i)]
  BY ForgetNameIs
<1>2. Many \in Nat /\ \A i \in 1..Many : Records[i] \in Entry
  BY RecordsAre
<1>3. P \subseteq 1..Many
  BY DEF PlacesOf
<1> HIDE DEF P
<1>4. ASSUME NEW i \in 1..Many
      PROVE  L(i) \in Entry
  <2>1. CASE i \in P /\ LaterThan(P, i) # {}
    <3>1. LaterThan(P, i) \in SUBSET Nat /\ LaterThan(P, i) \subseteq 1..Many
      <4>1. LaterThan(P, i) \subseteq P
        BY DEF LaterThan
      <4>2. P \subseteq Nat
        BY <1>2, <1>3
      <4> QED
        BY <1>3, <4>1, <4>2
    <3>2. Soonest(LaterThan(P, i)) \in 1..Many
      BY <2>1, <3>1, SoonestIs
    <3> QED
      BY <1>2, <2>1, <3>2
  <2>2. CASE i \notin P \/ LaterThan(P, i) = {}
    BY <1>2, <2>2
  <2> QED
    BY <2>1, <2>2
<1> QED
  BY <1>1, <1>4

\* The log after AddName: the same tree, and the names of the book.
LEMMA AfterName ==
  ASSUME LogTyped, NEW sub, LogTree(sub), ~merge.on, NEW e \in Entry, AddName(e)
  PROVE  /\ LogTyped' /\ LogTree(sub)'
         /\ Records' = Book!ForgetName(e)
         /\ Many' = Many /\ Logged' = Logged
<1>1. /\ DOMAIN iplogs' = DOMAIN iplogs
      /\ iplogs' = [n \in DOMAIN iplogs |-> iplogs'[n]]
      /\ \A n \in DOMAIN iplogs :
           /\ iplogs'[n].addr = iplogs[n].addr
           /\ iplogs'[n].parent = iplogs[n].parent
           /\ iplogs'[n].children = iplogs[n].children
           /\ iplogs'[n] = Fields(iplogs'[n])
      /\ \A n \in DOMAIN iplogs :
           (\A i \in Matches(e.addr) : Way(e.addr)[i] # n) => iplogs'[n] = iplogs[n]
  BY NodeAfterName
<1>2. UNCHANGED <<iplog_head, iplog_next, iplog_full, merge>>
  BY AddNameIs
<1>3. Many' = Many /\ Logged' = Logged /\ AgesIs' = AgesIs
  BY <1>2 DEF Many, Logged, AgesIs
<1>4. Records' = Book!ForgetName(e)
  BY RecordsAfterName
<1>5. /\ \A n \in DOMAIN iplogs : /\ EntryOf(n) \in Entry /\ iplogs[n].parent \in Node
                                  /\ iplogs[n].children \in [BOOLEAN -> Node]
      /\ Logged \subseteq DOMAIN iplogs
  BY TypedIs
<1>6. ASSUME NEW n \in DOMAIN iplogs
      PROVE  EntryOf(n)' \in Entry
  <2>1. EntryOf(n)' = [addr |-> iplogs'[n].addr, name |-> iplogs'[n].name]
    BY DEF EntryOf
  <2>2. CASE n \in Logged
    <3>1. PICK i \in 1..Many : AgesIs[i] = n
      BY <2>2, TypedIs DEF Numbers
    <3>2. Records'[i] \in Entry
      BY <1>4, NameIsMoved
    <3>3. Records' = [j \in 1..Many |-> [addr |-> iplogs'[AgesIs[j]].addr,
                                         name |-> iplogs'[AgesIs[j]].name]]
      <4>1. iplog_next \in Slot /\ iplog_full \in BOOLEAN
        BY TypedIs
      <4>2. DOMAIN Ring = 1..Many /\ Ring = AgesIs
        BY <4>1, RingIs DEF Many, AgesIs
      <4>3. Ring' = Ring
        BY <1>2 DEF Ring
      <4>4. Records' = [j \in DOMAIN Ring' |-> [addr |-> iplogs'[Ring'[j]].addr,
                                                 name |-> iplogs'[Ring'[j]].name]]
        BY DEF Records, EntryOf
      <4> QED
        BY <4>2, <4>3, <4>4
    <3> QED
      BY <2>1, <3>1, <3>2, <3>3
  <2>3. CASE n \notin Logged
    <3>1. Looked(Logged, sub) /\ e.addr \in Int
      BY TreeIsLooked, EntriesAre
    <3>2. \A i \in Matches(e.addr) : Way(e.addr)[i] \in Logged
      BY <3>1, MatchesAre
    <3>3. iplogs'[n] = iplogs[n]
      BY <1>1, <2>3, <3>2
    <3> QED
      BY <1>5, <2>1, <3>3 DEF EntryOf
  <2> QED
    BY <2>2, <2>3
<1>7. LogTyped'
  <2>1. ASSUME NEW n \in DOMAIN iplogs'
        PROVE  /\ iplogs'[n] = Fields(iplogs'[n]) /\ EntryOf(n)' \in Entry
               /\ iplogs'[n].parent \in Node
               /\ iplogs'[n].children \in [BOOLEAN -> Node]
    BY <1>1, <1>5, <1>6
  <2>2. iplogs' = [n \in DOMAIN iplogs' |-> iplogs'[n]]
        /\ DOMAIN iplogs' = IF iplog_full' THEN Slot ELSE 0..iplog_next' - 1
    BY <1>1, <1>2 DEF LogTyped
  <2>3. /\ iplog_head' \in Node /\ iplog_next' \in Slot /\ iplog_full' \in BOOLEAN
        /\ merge' \in Merging /\ (merge'.on => iplog_full')
    BY <1>2 DEF LogTyped
  <2> QED
    BY <2>1, <2>2, <2>3 DEF LogTyped
<1>8. LogTree(sub)'
  <2>1. IsTree(iplogs, iplog_head, merge, Logged, sub)
        /\ AgeOrder(iplogs, AgesIs, Many, sub)
    BY DEF LogTree
  <2>2. IsTree(iplogs', iplog_head, merge, Logged, sub)
    BY <1>1, <1>5, <2>1, SameTree
  <2>3. AgeOrder(iplogs', AgesIs, Many, sub)
    <3>1. \A i \in 1..Many : iplogs'[AgesIs[i]].addr = iplogs[AgesIs[i]].addr
      BY <1>1, <1>5, TypedIs DEF Numbers
    <3> QED
      BY <2>1, <3>1 DEF AgeOrder
  <2> QED
    BY <1>2, <1>3, <2>2, <2>3 DEF LogTree
<1> QED
  BY <1>3, <1>4, <1>7, <1>8

-----------------------------------------------------------------------------
(* A node is put where the way to its address ends.                        *)

Side(a, n) == a > iplogs[n].addr

\* The trees that contain it then.
Grown(R, sub, a, x) ==
  [n \in R \cup {x} |-> IF n = x THEN {x}
                        ELSE IF n \in Path(a) THEN sub[n] \cup {x} ELSE sub[n]]

\* The nodes t2 with x under p, which is NoNode when x is the first.
PutUnder(t2, R, a, x, p) ==
  /\ \A n \in R : t2[n].addr = iplogs[n].addr /\ t2[n].parent = iplogs[n].parent
  /\ \A n \in R, b \in BOOLEAN :
       t2[n].children[b] = IF n = p /\ b = Side(a, p) THEN x
                           ELSE iplogs[n].children[b]
  /\ t2[x].addr = a /\ t2[x].parent = p
  /\ \A b \in BOOLEAN : t2[x].children[b] = NoNode
  /\ IF iplog_head = NoNode THEN p = NoNode
     ELSE p \in Path(a) /\ Down(a, p) = NoNode

\* The side to which one goes on.
LEMMA DownIs ==
  ASSUME NEW R, NEW sub, Looked(R, sub), NEW a \in Int, NEW n \in R
  PROVE  /\ Side(a, n) \in BOOLEAN
         /\ Side(a, n) = TRUE => a > iplogs[n].addr
         /\ Side(a, n) = FALSE => a <= iplogs[n].addr
         /\ Down(a, n) = iplogs[n].children[Side(a, n)]
<1>1. Side(a, n) \in BOOLEAN /\ Down(a, n) = iplogs[n].children[Side(a, n)]
  BY DEF Side, Down
<1>2. iplogs[n].addr \in Int
  BY LookedNode
<1>3. Side(a, n) = TRUE => a > iplogs[n].addr
  BY DEF Side
<1>4. Side(a, n) = FALSE => a <= iplogs[n].addr
  <2>1. Side(a, n) = FALSE => ~(a > iplogs[n].addr)
    BY DEF Side
  <2> QED
    BY <1>2, <2>1
<1> QED
  BY <1>1, <1>3, <1>4

\* A link that is not the way's leads to a node that is not met.
LEMMA OffTheWay ==
  ASSUME NEW R, NEW sub, Looked(R, sub), NEW a \in Int, NEW n \in R,
         NEW b \in BOOLEAN, n \notin Path(a) \/ b # Side(a, n),
         iplogs[n].children[b] # NoNode
  PROVE  iplogs[n].children[b] \notin Path(a)
<1> DEFINE c == iplogs[n].children[b]
<1>1. c \in R /\ iplogs[c].parent = n
  BY LookedChild
<1>2. SUFFICES ASSUME c \in Path(a)
               PROVE  FALSE
  OBVIOUS
<1> HIDE DEF c
<1>3. c # iplog_head
  <2>1. iplog_head # NoNode => iplogs[iplog_head].parent = NoNode
    BY LookedRoot, TreeRoot DEF Looked
  <2>2. n # NoNode
    BY LookedNode
  <2>3. c # NoNode
    BY <1>1, LookedNode
  <2> QED
    BY <1>1, <2>1, <2>2, <2>3
<1>4. PICK m \in Path(a) : Down(a, m) = c
  BY <1>2, <1>3, PathIs
<1>5. m \in R
  BY PathIs
<1>6. iplogs[Down(a, m)].parent = m
  <2>1. Down(a, m) # NoNode
    BY <1>1, <1>4, LookedRoot
  <2> QED
    BY <1>5, <2>1, DownKnows
<1>7. m = n
  BY <1>1, <1>4, <1>6
<1>8. b # Side(a, n) /\ Side(a, n) \in BOOLEAN /\ c = iplogs[n].children[Side(a, n)]
  <2>1. c = iplogs[n].children[Side(a, n)] /\ Side(a, n) \in BOOLEAN
    BY <1>4, <1>7, DownIs
  <2>2. n \in Path(a)
    BY <1>7
  <2> QED
    BY <2>1, <2>2
<1>9. c = iplogs[n].children[TRUE] /\ c = iplogs[n].children[FALSE]
  <2> DEFINE s == Side(a, n)
             f == iplogs[n].children
  <2>1. s \in BOOLEAN /\ b \in BOOLEAN /\ b # s /\ c = f[s] /\ c = f[b]
    BY <1>8 DEF c
  <2> HIDE DEF s, f
  <2>2. CASE s = TRUE
    BY <2>1, <2>2 DEF f
  <2>3. CASE s = FALSE
    BY <2>1, <2>3 DEF f
  <2> QED
    BY <2>1, <2>2, <2>3
<1>10. c \in SubOf(sub, c)
  <2>1. c \in sub[c] /\ c # NoNode
    BY <1>1, LookedNode
  <2> QED
    BY <2>1 DEF SubOf
<1>11. iplogs[c].addr <= iplogs[n].addr /\ iplogs[c].addr > iplogs[n].addr
  BY <1>9, <1>10, LookedSides
<1>12. iplogs[c].addr \in Int /\ iplogs[n].addr \in Int
  BY <1>1, LookedNode
<1> QED
  BY <1>11, <1>12

\* What is below a node of the grown tree.
LEMMA GrownBelow ==
  ASSUME NEW R, NEW sub, Looked(R, sub), NEW a \in Int, NEW x, x \notin R,
         x # NoNode, NEW p, NEW t2, PutUnder(t2, R, a, x, p), NEW n \in R,
         NEW b \in BOOLEAN
  PROVE  SubOf(Grown(R, sub, a, x), t2[n].children[b]) =
           SubOf(sub, iplogs[n].children[b]) \cup
             (IF n \in Path(a) /\ b = Side(a, n) THEN {x} ELSE {})
<1> DEFINE sub2 == Grown(R, sub, a, x)
           c == iplogs[n].children[b]
<1>1. /\ sub2[x] = {x}
      /\ \A m \in R : sub2[m] = IF m \in Path(a) THEN sub[m] \cup {x} ELSE sub[m]
  BY DEF Grown
<1>2. SubOf(sub, NoNode) = {} /\ SubOf(sub2, NoNode) = {} /\ NoNode \notin R
      /\ SubOf(sub2, x) = {x}
      /\ \A m \in R : SubOf(sub2, m) = sub2[m] /\ SubOf(sub, m) = sub[m]
  BY <1>1, LookedRoot DEF SubOf
<1>3. c \in R \cup {NoNode}
  BY LookedChild
<1>4. t2[n].children[b] = IF n = p /\ b = Side(a, p) THEN x ELSE c
  BY DEF PutUnder
<1>5. iplog_head = NoNode => R = {}
  BY LookedRoot
<1>6. p \in Path(a) /\ Down(a, p) = NoNode
  BY <1>5 DEF PutUnder
<1>7. p \in R
  BY <1>6, PathIs
<1> HIDE DEF sub2, c
<1>8. CASE n \in Path(a) /\ b = Side(a, n)
  <2>1. c = Down(a, n)
    BY <1>8, DownIs DEF c
  <2>2. CASE c = NoNode
    <3>1. n = p
      BY <1>6, <1>8, <2>1, <2>2, PathIs
    <3> QED
      BY <1>2, <1>4, <1>8, <2>2, <3>1 DEF sub2, c
  <2>3. CASE c # NoNode
    <3>1. n # p /\ c \in R /\ c \in Path(a)
      BY <1>3, <1>6, <1>8, <2>1, <2>3, PathIs
    <3>2. t2[n].children[b] = c
      BY <1>4, <3>1
    <3>3. SubOf(sub2, c) = sub[c] \cup {x} /\ SubOf(sub, c) = sub[c]
      BY <1>1, <1>2, <3>1
    <3> QED
      BY <1>8, <3>2, <3>3 DEF sub2, c
  <2> QED
    BY <2>2, <2>3
<1>9. CASE ~(n \in Path(a) /\ b = Side(a, n))
  <2>1. t2[n].children[b] = c
    BY <1>4, <1>6, <1>9
  <2>2. SubOf(sub2, c) = SubOf(sub, c)
    <3>1. CASE c = NoNode
      BY <1>2, <3>1
    <3>2. CASE c # NoNode
      <4>1. c \in R /\ c \notin Path(a)
        BY <1>3, <1>9, <3>2, OffTheWay DEF c
      <4> QED
        BY <1>1, <1>2, <4>1
    <3> QED
      BY <3>1, <3>2
  <2> QED
    BY <1>9, <2>1, <2>2 DEF sub2, c
<1> QED
  BY <1>8, <1>9

\* The links, when x has been put under p.
LEMMA GrownLinks ==
  ASSUME NEW R, NEW sub, Looked(R, sub), NEW a \in Int, NEW x, x \notin R,
         x # NoNode, NEW p, NEW t2, PutUnder(t2, R, a, x, p), NEW n \in R
  PROVE  /\ \A b \in BOOLEAN : LET c == t2[n].children[b] IN
              c # NoNode => c \in R \cup {x} /\ t2[c].parent = n
         /\ n # iplog_head =>
              /\ t2[n].parent \in R
              /\ \E b \in BOOLEAN : t2[t2[n].parent].children[b] = n
<1>1. ASSUME NEW b \in BOOLEAN, t2[n].children[b] # NoNode
      PROVE  t2[n].children[b] \in R \cup {x} /\ t2[t2[n].children[b]].parent = n
  <2> DEFINE c == iplogs[n].children[b]
  <2>1. CASE n = p /\ b = Side(a, p)
    <3>1. t2[n].children[b] = x /\ t2[x].parent = n
      BY <2>1 DEF PutUnder
    <3> QED
      BY <3>1
  <2>2. CASE ~(n = p /\ b = Side(a, p))
    <3>1. t2[n].children[b] = c
      BY <2>2 DEF PutUnder
    <3>2. c \in R \cup {NoNode} /\ (c # NoNode => iplogs[c].parent = n)
      BY LookedChild
    <3> HIDE DEF c
    <3>3. c \in R /\ t2[c].parent = n
      BY <1>1, <3>1, <3>2 DEF PutUnder
    <3> QED
      BY <3>1, <3>3
  <2> QED
    BY <2>1, <2>2
<1>2. ASSUME n # iplog_head
      PROVE  /\ t2[n].parent \in R
             /\ \E b \in BOOLEAN : t2[t2[n].parent].children[b] = n
  <2>1. /\ iplogs[n].parent \in R
        /\ \E b \in BOOLEAN : iplogs[iplogs[n].parent].children[b] = n
    <3>1. IsTree(iplogs, iplog_head, merge, R, sub) /\ ~merge.on
      BY DEF Looked
    <3> QED
      BY <1>2, <3>1, TreeHangs
  <2>2. t2[n].parent = iplogs[n].parent
    BY DEF PutUnder
  <2> DEFINE m == iplogs[n].parent
  <2>3. PICK b \in BOOLEAN : iplogs[m].children[b] = n
    BY <2>1
  <2> HIDE DEF m
  <2>4. m \in R
    BY <2>1 DEF m
  <2>5. CASE m = p /\ b = Side(a, p)
    <3>1. iplog_head # NoNode
      <4>1. iplog_head = NoNode => R = {}
        BY LookedRoot
      <4> QED
        BY <4>1
    <3>2. Down(a, p) = NoNode
      BY <3>1 DEF PutUnder
    <3>3. Down(a, p) = iplogs[p].children[Side(a, p)]
      BY <2>4, <2>5, DownIs
    <3>4. n # NoNode
      BY LookedNode
    <3> QED
      BY <2>3, <2>5, <3>2, <3>3, <3>4
  <2>6. CASE ~(m = p /\ b = Side(a, p))
    <3>1. t2[m].children[b] = n
      BY <2>3, <2>4, <2>6 DEF PutUnder
    <3> QED
      BY <2>2, <2>4, <3>1 DEF m
  <2> QED
    BY <2>5, <2>6
<1> QED
  BY <1>1, <1>2

\* It is sorted still.
LEMMA GrownSorted ==
  ASSUME NEW R, NEW sub, Looked(R, sub), NEW a \in Int, NEW x, x \notin R,
         x # NoNode, NEW p, NEW t2, PutUnder(t2, R, a, x, p),
         NEW g2, ~g2.on, NEW n \in R
  PROVE  Sorted(t2, g2, Grown(R, sub, a, x), n)
<1> DEFINE sub2 == Grown(R, sub, a, x)
           s == Side(a, n)
           F == SubOf(sub, iplogs[n].children[FALSE])
           T == SubOf(sub, iplogs[n].children[TRUE])
           F2 == Beneath(t2, g2, sub2, n, FALSE)
           T2 == Beneath(t2, g2, sub2, n, TRUE)
           OnWay == n \in Path(a)
<1>1. F2 = SubOf(sub2, t2[n].children[FALSE])
      /\ T2 = SubOf(sub2, t2[n].children[TRUE])
  BY DEF Beneath, AtHole
<1>2. ASSUME NEW b \in BOOLEAN
       PROVE  SubOf(sub2, t2[n].children[b]) =
                SubOf(sub, iplogs[n].children[b]) \cup
                  (IF OnWay /\ b = s THEN {x} ELSE {})
  BY GrownBelow
<1>3. TRUE \in BOOLEAN /\ FALSE \in BOOLEAN
  OBVIOUS
<1>4. F2 = F \cup (IF OnWay /\ FALSE = s THEN {x} ELSE {})
  <2> HIDE DEF sub2, s, OnWay
  <2>1. SubOf(sub2, t2[n].children[FALSE]) =
          F \cup (IF OnWay /\ FALSE = s THEN {x} ELSE {})
    BY <1>2, <1>3
  <2> QED
    BY <1>1, <2>1
<1>5. T2 = T \cup (IF OnWay /\ TRUE = s THEN {x} ELSE {})
  <2> HIDE DEF sub2, s, OnWay
  <2>1. SubOf(sub2, t2[n].children[TRUE]) =
          T \cup (IF OnWay /\ TRUE = s THEN {x} ELSE {})
    BY <1>2, <1>3
  <2> QED
    BY <1>1, <2>1
<1>6. s \in BOOLEAN /\ (s = TRUE => a > iplogs[n].addr)
      /\ (s = FALSE => a <= iplogs[n].addr)
  BY DownIs
<1>7. sub[n] = {n} \cup F \cup T /\ sub[n] \subseteq R
  BY LookedNode
<1>8. n \notin F
  BY LookedSides
<1>9. \A m \in F : iplogs[m].addr <= iplogs[n].addr
  BY LookedSides
<1>10. \A m \in T : iplogs[m].addr > iplogs[n].addr
  BY LookedSides
<1>11. sub2[n] = IF OnWay THEN sub[n] \cup {x} ELSE sub[n]
  BY DEF Grown
<1>12. /\ \A m \in R : t2[m].addr = iplogs[m].addr
       /\ t2[x].addr = a
  BY DEF PutUnder
<1> HIDE DEF sub2, s, F, T, F2, T2, OnWay
<1>13. F \subseteq R /\ T \subseteq R
  BY <1>7
<1>14. s = TRUE \/ s = FALSE
  BY <1>6
<1>15. sub2[n] = {n} \cup F2 \cup T2
  <2>1. CASE OnWay /\ s = TRUE
    BY <1>4, <1>5, <1>7, <1>11, <2>1
  <2>2. CASE OnWay /\ s = FALSE
    BY <1>4, <1>5, <1>7, <1>11, <2>2
  <2>3. CASE ~OnWay
    BY <1>4, <1>5, <1>7, <1>11, <2>3
  <2> QED
    BY <1>14, <2>1, <2>2, <2>3
<1>16. n \notin F2
  BY <1>4, <1>8
<1>17. ASSUME NEW m \in F2
       PROVE  t2[m].addr <= t2[n].addr
  <2>1. CASE m \in F
    BY <1>9, <1>12, <1>13, <2>1
  <2>2. CASE m \notin F
    <3>1. m = x /\ s = FALSE
      BY <1>4, <2>2
    <3> QED
      BY <1>6, <1>12, <3>1
  <2> QED
    BY <2>1, <2>2
<1>18. ASSUME NEW m \in T2
       PROVE  t2[m].addr > t2[n].addr
  <2>1. CASE m \in T
    BY <1>10, <1>12, <1>13, <2>1
  <2>2. CASE m \notin T
    <3>1. m = x /\ s = TRUE
      BY <1>5, <2>2
    <3> QED
      BY <1>6, <1>12, <3>1
  <2> QED
    BY <2>1, <2>2
<1> QED
  BY <1>15, <1>16, <1>17, <1>18 DEF Sorted, F2, T2, sub2

\* A tree with a node put where the way ends is a tree.
LEMMA TreeGrows ==
  ASSUME NEW R, NEW sub, Looked(R, sub), NEW a \in Int, NEW x, x \notin R,
         x # NoNode, NEW p, NEW t2, PutUnder(t2, R, a, x, p), NEW g2, ~g2.on,
         NEW h2, h2 = IF iplog_head = NoNode THEN x ELSE iplog_head
  PROVE  IsTree(t2, h2, g2, R \cup {x}, Grown(R, sub, a, x))
<1> DEFINE R2 == R \cup {x}
           sub2 == Grown(R, sub, a, x)
<1>1. ~NoHead(g2) /\ \A n, b : ~AtHole(g2, n, b)
  BY DEF NoHead, AtHole
<1>2. /\ sub2[x] = {x}
      /\ \A n \in R : sub2[n] = IF n \in Path(a) THEN sub[n] \cup {x} ELSE sub[n]
  BY DEF Grown
<1>3. \A n \in R : sub[n] \subseteq R /\ n # NoNode
  BY LookedNode
<1>4. /\ iplog_head \in R \cup {NoNode} /\ R = SubOf(sub, iplog_head)
      /\ NoNode \notin R
  BY LookedRoot
<1>5. sub2 \in [R2 -> SUBSET R2]
  <2>1. \A n \in R2 : sub2[n] \subseteq R2
    BY <1>2, <1>3
  <2>2. sub2 = [n \in R2 |-> sub2[n]]
    BY DEF Grown
  <2> HIDE DEF sub2, R2
  <2> QED
    BY <2>1, <2>2
<1>6. h2 \in R2 /\ h2 # NoNode
  BY <1>4
<1>7. R2 = SubOf(sub2, h2)
  <2>1. CASE iplog_head = NoNode
    <3>1. R = {} /\ h2 = x
      BY <1>4, <2>1 DEF SubOf
    <3> QED
      BY <1>2, <1>6, <3>1 DEF SubOf
  <2>2. CASE iplog_head # NoNode
    <3>1. iplog_head \in Path(a) /\ iplog_head \in R /\ R = sub[iplog_head]
      BY <1>4, <2>2, PathIs DEF SubOf
    <3> QED
      BY <1>2, <1>6, <2>2, <3>1 DEF SubOf
  <2> QED
    BY <2>1, <2>2
<1>8. t2[h2].parent = NoNode
  <2>1. CASE iplog_head = NoNode
    BY <2>1 DEF PutUnder
  <2>2. CASE iplog_head # NoNode
    <3>1. iplogs[iplog_head].parent = NoNode
      BY <1>4, <2>2, LookedRoot, TreeRoot DEF Looked
    <3> QED
      BY <1>4, <2>2, <3>1 DEF PutUnder
  <2> QED
    BY <2>1, <2>2
<1>9. Sorted(t2, g2, sub2, x)
  <2>1. \A b \in BOOLEAN : Beneath(t2, g2, sub2, x, b) = {}
    BY <1>1 DEF PutUnder, Beneath, SubOf
  <2>2. Beneath(t2, g2, sub2, x, TRUE) = {} /\ Beneath(t2, g2, sub2, x, FALSE) = {}
    BY <2>1
  <2> QED
    BY <1>2, <2>2 DEF Sorted
<1>10. ASSUME NEW n \in R
       PROVE  Sorted(t2, g2, sub2, n)
  BY GrownSorted
<1>11. Hangs(t2, h2, g2, R2, x)
  <2>1. CASE iplog_head = NoNode
    BY <1>1, <2>1 DEF Hangs
  <2>2. CASE iplog_head # NoNode
    <3>1. p \in Path(a) /\ t2[x].parent = p
      BY <2>2 DEF PutUnder
    <3>2. p \in R
      BY <3>1, PathIs
    <3>3. Side(a, p) \in BOOLEAN
      BY <3>2, DownIs
    <3>4. t2[p].children[Side(a, p)] = x
      BY <3>2, <3>3 DEF PutUnder
    <3> QED
      BY <1>1, <3>1, <3>2, <3>3, <3>4 DEF Hangs
  <2> QED
    BY <2>1, <2>2
<1>12. ASSUME NEW n \in R
       PROVE  Hangs(t2, h2, g2, R2, n)
  <2>1. CASE n = iplog_head
    <3>1. h2 = n
      BY <1>3, <2>1
    <3> QED
      BY <1>1, <3>1 DEF Hangs
  <2>2. CASE n # iplog_head
    <3>1. /\ t2[n].parent \in R
          /\ \E b \in BOOLEAN : t2[t2[n].parent].children[b] = n
      BY <2>2, GrownLinks
    <3> QED
      BY <1>1, <3>1 DEF Hangs
  <2> QED
    BY <2>1, <2>2
<1>13. LinksBack(t2, g2, R2, x)
  BY DEF LinksBack, PutUnder
<1>14. ASSUME NEW n \in R
       PROVE  LinksBack(t2, g2, R2, n)
  BY GrownLinks DEF LinksBack
<1>15. HoleIsWhole(t2, h2, g2, R2, sub2)
  BY DEF HoleIsWhole
<1>16. \A n \in R2 : /\ Sorted(t2, g2, sub2, n) /\ Hangs(t2, h2, g2, R2, n)
                     /\ LinksBack(t2, g2, R2, n)
  BY <1>9, <1>10, <1>11, <1>12, <1>13, <1>14
<1> HIDE DEF R2, sub2
<1>17. IsTree(t2, h2, g2, R2, sub2)
  BY <1>1, <1>5, <1>6, <1>7, <1>8, <1>15, <1>16 DEF IsTree
<1> QED
  BY <1>17 DEF R2, sub2

-----------------------------------------------------------------------------
(* A node is taken out: the trees below it are left.                       *)

WithoutNode(R, sub, o) == [n \in R \ {o} |-> sub[n] \ {o}]

\* g is the merge that begins in place of node o.
TakesOut(t, g, o) ==
  /\ g.on
  /\ g.left = t[o].children[FALSE] /\ g.right = t[o].children[TRUE]
  /\ g.at = t[o].parent
  /\ g.side = (g.at # NoNode /\ t[o].addr > t[g.at].addr)

\* A whole tree.
WholeTree(t, h, g, R, sub) ==
  /\ ~g.on
  /\ IsTree(t, h, g, R, sub)
  /\ NodesAre(t, R)

\* The parts of a whole tree.
LEMMA WholeIn ==
  ASSUME NEW t, NEW h, NEW g, NEW R, NEW sub, WholeTree(t, h, g, R, sub), NEW n \in R
  PROVE  t[n].addr \in Int /\ n # NoNode /\ n \in sub[n] /\ sub[n] \subseteq R
<1>1. t[n].addr \in Int /\ n # NoNode
  BY SizeIs DEF WholeTree, NodesAre
<1>2. IsTree(t, h, g, R, sub)
  BY DEF WholeTree
<1>3. n \in sub[n] /\ sub[n] \subseteq R
  BY <1>2, TreeNode
<1> QED
  BY <1>1, <1>3

\* A node's tree: the node, and the trees to one side of it and the other.
Halves(t, S, n, F, T) ==
  /\ S = {n} \cup F \cup T /\ n \notin F /\ n \notin T
  /\ \A m \in F : t[m].addr <= t[n].addr
  /\ \A m \in T : t[m].addr > t[n].addr

LEMMA WholeNode ==
  ASSUME NEW t, NEW h, NEW g, NEW R, NEW sub, WholeTree(t, h, g, R, sub), NEW n \in R
  PROVE  Halves(t, sub[n], n, SubOf(sub, t[n].children[FALSE]),
                SubOf(sub, t[n].children[TRUE]))
<1>1. t[n].addr \in Int /\ n # NoNode
  BY SizeIs DEF WholeTree, NodesAre
<1>2. Sorted(t, g, sub, n) /\ \A m, b : ~AtHole(g, m, b)
  BY DEF WholeTree, AtHole, IsTree
<1> DEFINE F == SubOf(sub, t[n].children[FALSE])
           T == SubOf(sub, t[n].children[TRUE])
<1>3. Beneath(t, g, sub, n, FALSE) = F /\ Beneath(t, g, sub, n, TRUE) = T
  BY <1>2 DEF Beneath
<1> HIDE DEF F, T
<1>4. /\ sub[n] = {n} \cup F \cup T /\ n \notin F
      /\ \A m \in F : t[m].addr <= t[n].addr
      /\ \A m \in T : t[m].addr > t[n].addr
  BY <1>2, <1>3 DEF Sorted
<1>5. n \notin T
  <2> DEFINE x == t[n].addr
  <2>1. x \in Int /\ (n \in T => x > x)
    BY <1>1, <1>4
  <2> HIDE DEF x
  <2> QED
    BY <2>1
<1>6. Halves(t, sub[n], n, F, T)
  BY <1>4, <1>5 DEF Halves
<1> QED
  BY <1>6 DEF F, T

LEMMA WholeLink ==
  ASSUME NEW t, NEW h, NEW g, NEW R, NEW sub, WholeTree(t, h, g, R, sub), NEW n \in R,
         NEW b \in BOOLEAN
  PROVE  /\ t[n].children[b] \in R \cup {NoNode}
         /\ t[n].children[b] # NoNode =>
              t[n].children[b] \in R /\ t[t[n].children[b]].parent = n
         /\ n \notin SubOf(sub, t[n].children[b])
         /\ t[n].children[b] # n
<1> DEFINE c == t[n].children[b]
<1>1. IsTree(t, h, g, R, sub) /\ ~AtHole(g, n, b)
  BY DEF WholeTree, AtHole
<1>2. c # NoNode => c \in R /\ t[c].parent = n
  BY <1>1, TreeLink
<1>3. n \notin SubOf(sub, c)
  <2>1. /\ n \notin SubOf(sub, t[n].children[FALSE])
        /\ n \notin SubOf(sub, t[n].children[TRUE])
    BY WholeNode DEF Halves
  <2>2. CASE b = TRUE
    BY <2>1, <2>2
  <2>3. CASE b = FALSE
    BY <2>1, <2>3
  <2> QED
    BY <2>2, <2>3
<1>4. n \in sub[n] /\ n # NoNode
  BY WholeIn
<1> HIDE DEF c
<1>5. c # n
  BY <1>3, <1>4 DEF SubOf
<1> QED
  BY <1>2, <1>3, <1>5 DEF c

LEMMA WholeRoot ==
  ASSUME NEW t, NEW h, NEW g, NEW R, NEW sub, WholeTree(t, h, g, R, sub), R # {}
  PROVE  /\ h \in R /\ h # NoNode /\ t[h].parent = NoNode /\ R = sub[h]
         /\ \A n \in R : n # h =>
              /\ t[n].parent \in R
              /\ \E b \in BOOLEAN : t[t[n].parent].children[b] = n
<1>1. IsTree(t, h, g, R, sub) /\ ~NoHead(g) /\ \A n, b : ~AtHole(g, n, b)
  BY DEF WholeTree, NoHead, AtHole
<1>2. R = SubOf(sub, h) /\ (h = NoNode \/ (h \in R /\ t[h].parent = NoNode))
  BY <1>1, TreeRoot
<1>3. h # NoNode /\ R = sub[h] /\ h \in R /\ t[h].parent = NoNode
  BY <1>2 DEF SubOf
<1>4. ASSUME NEW n \in R, n # h
      PROVE  /\ t[n].parent \in R
             /\ \E b \in BOOLEAN : t[t[n].parent].children[b] = n
  <2>1. ~g.on
    BY DEF WholeTree
  <2> QED
    BY <1>1, <1>4, <2>1, TreeHangs
<1> QED
  BY <1>3, <1>4

\* What links to the node that is taken out.
LEMMA LinkToTaken ==
  ASSUME NEW t, NEW h, NEW g0, NEW R, NEW sub, WholeTree(t, h, g0, R, sub),
         NEW o \in R, NEW g, TakesOut(t, g, o)
  PROVE  /\ g.at = NoNode <=> o = h
         /\ g.at \in (R \ {o}) \cup {NoNode} /\ g.side \in BOOLEAN
         /\ g.at # NoNode => t[g.at].children[g.side] = o
         /\ \A n \in R, b \in BOOLEAN :
              t[n].children[b] = o => n = g.at /\ b = g.side
<1>1. h \in R /\ t[h].parent = NoNode /\ NoNode \notin R
  <2>1. NoNode \notin R
    BY WholeIn
  <2> QED
    BY <2>1, WholeRoot
<1>2. /\ g.at = t[o].parent
      /\ g.side = (g.at # NoNode /\ t[o].addr > t[g.at].addr)
      /\ g.side \in BOOLEAN
  BY DEF TakesOut
<1>3. ASSUME NEW n \in R, NEW b \in BOOLEAN, t[n].children[b] = o
      PROVE  n = g.at /\ b = g.side
  <2>1. o # NoNode
    BY <1>1
  <2>2. n = g.at
    BY <1>2, <1>3, <2>1, WholeLink
  <2>3. o \in SubOf(sub, t[n].children[b])
    <3>1. o \in sub[o]
      BY WholeIn
    <3> QED
      BY <1>3, <2>1, <3>1 DEF SubOf
  <2>4. t[o].addr \in Int /\ t[n].addr \in Int /\ n # NoNode
    BY WholeIn
  <2>5. CASE b = TRUE
    <3>1. t[o].addr > t[n].addr
      BY <2>3, <2>5, WholeNode DEF Halves
    <3> QED
      BY <1>2, <2>2, <2>4, <2>5, <3>1
  <2>6. CASE b = FALSE
    <3>1. t[o].addr <= t[n].addr
      BY <2>3, <2>6, WholeNode DEF Halves
    <3>2. ~(t[o].addr > t[n].addr)
      BY <2>4, <3>1
    <3> QED
      BY <1>2, <2>2, <2>6, <3>2
  <2> QED
    BY <2>5, <2>6
<1>4. ASSUME o # h
      PROVE  /\ g.at \in R \ {o} /\ t[g.at].children[g.side] = o
  <2>1. /\ g.at \in R
        /\ \E b \in BOOLEAN : t[g.at].children[b] = o
    BY <1>2, <1>4, WholeRoot
  <2>2. PICK b \in BOOLEAN : t[g.at].children[b] = o
    BY <2>1
  <2>3. b = g.side
    BY <1>3, <2>1, <2>2
  <2>4. g.at # o
    BY <2>2, WholeLink
  <2> QED
    BY <2>1, <2>2, <2>3, <2>4
<1>5. g.at = NoNode <=> o = h
  BY <1>1, <1>2, <1>4
<1> QED
  BY <1>2, <1>3, <1>4, <1>5

\* The two trees that are left.
LEMMA LeftAndRight ==
  ASSUME NEW t, NEW h, NEW g0, NEW R, NEW sub, WholeTree(t, h, g0, R, sub),
         NEW o \in R, NEW g, TakesOut(t, g, o)
  PROVE  LET sub2 == WithoutNode(R, sub, o) IN
         /\ g.left \in (R \ {o}) \cup {NoNode} /\ g.right \in (R \ {o}) \cup {NoNode}
         /\ SubOf(sub2, g.left) = SubOf(sub, g.left)
         /\ SubOf(sub2, g.right) = SubOf(sub, g.right)
         /\ TreesLeft(g, sub2) = sub[o] \ {o}
         /\ \A l \in SubOf(sub, g.left), r \in SubOf(sub, g.right) :
              t[l].addr < t[r].addr
         /\ g.left # NoNode => t[g.left].parent = o
         /\ g.right # NoNode => t[g.right].parent = o
<1> DEFINE sub2 == WithoutNode(R, sub, o)
           Lf == SubOf(sub, g.left)
           Rt == SubOf(sub, g.right)
<1>1. g.left = t[o].children[FALSE] /\ g.right = t[o].children[TRUE]
  BY DEF TakesOut
<1>2. ASSUME NEW b \in BOOLEAN
       PROVE  LET c == t[o].children[b] IN
              c \in R \cup {NoNode} /\ c # o /\ (c # NoNode => t[c].parent = o)
  BY WholeLink
<1>3. TRUE \in BOOLEAN /\ FALSE \in BOOLEAN
  OBVIOUS
<1>4. /\ g.left \in R \cup {NoNode} /\ g.left # o
      /\ g.left # NoNode => t[g.left].parent = o
  BY <1>1, <1>2, <1>3
<1>5. /\ g.right \in R \cup {NoNode} /\ g.right # o
      /\ g.right # NoNode => t[g.right].parent = o
  BY <1>1, <1>2, <1>3
<1>6. Halves(t, sub[o], o, Lf, Rt)
  BY <1>1, WholeNode
<1>7. sub[o] \subseteq R /\ \A n \in R : t[n].addr \in Int
  BY WholeIn
<1>8. \A n \in R \ {o} : sub2[n] = sub[n] \ {o}
  BY DEF WithoutNode
<1> HIDE DEF sub2, Lf, Rt
<1>9. /\ sub[o] = {o} \cup Lf \cup Rt /\ o \notin Lf /\ o \notin Rt
      /\ \A m \in Lf : t[m].addr <= t[o].addr
      /\ \A m \in Rt : t[m].addr > t[o].addr
  BY <1>6 DEF Halves
<1>10. SubOf(sub2, g.left) = Lf
  <2>1. CASE g.left = NoNode
    BY <2>1 DEF SubOf, Lf
  <2>2. CASE g.left # NoNode
    <3>1. SubOf(sub2, g.left) = sub2[g.left] /\ Lf = sub[g.left]
      BY <2>2 DEF SubOf, Lf
    <3>2. sub2[g.left] = sub[g.left] \ {o}
      BY <1>4, <1>8, <2>2
    <3>3. o \notin Lf
      BY <1>9
    <3> QED
      BY <3>1, <3>2, <3>3
  <2> QED
    BY <2>1, <2>2
<1>11. SubOf(sub2, g.right) = Rt
  <2>1. CASE g.right = NoNode
    BY <2>1 DEF SubOf, Rt
  <2>2. CASE g.right # NoNode
    <3>1. SubOf(sub2, g.right) = sub2[g.right] /\ Rt = sub[g.right]
      BY <2>2 DEF SubOf, Rt
    <3>2. sub2[g.right] = sub[g.right] \ {o}
      BY <1>5, <1>8, <2>2
    <3>3. o \notin Rt
      BY <1>9
    <3> QED
      BY <3>1, <3>2, <3>3
  <2> QED
    BY <2>1, <2>2
<1>12. TreesLeft(g, sub2) = sub[o] \ {o}
  BY <1>9, <1>10, <1>11 DEF TreesLeft
<1>13. ASSUME NEW l \in Lf, NEW r \in Rt
       PROVE  t[l].addr < t[r].addr
  <2>1. l \in R /\ r \in R
    BY <1>9, <1>7
  <2> QED
    BY <1>9, <1>7, <2>1
<1> QED
  BY <1>4, <1>5, <1>10, <1>11, <1>12, <1>13 DEF Lf, Rt, sub2

\* What is below a node when o has been taken out.
LEMMA ShrunkBelow ==
  ASSUME NEW t, NEW h, NEW g0, NEW R, NEW sub, WholeTree(t, h, g0, R, sub),
         NEW o \in R, NEW g, TakesOut(t, g, o), NEW n \in R \ {o}, NEW b \in BOOLEAN
  PROVE  Beneath(t, g, WithoutNode(R, sub, o), n, b) =
           SubOf(sub, t[n].children[b]) \ {o}
<1> DEFINE sub2 == WithoutNode(R, sub, o)
           c == t[n].children[b]
<1>1. c \in R \cup {NoNode} /\ NoNode \notin R
  BY WholeLink, WholeIn
<1>2. c = o => n = g.at /\ b = g.side
  BY LinkToTaken
<1>3. g.at # NoNode => t[g.at].children[g.side] = o
  BY LinkToTaken
<1>4. n # NoNode /\ o # NoNode
  BY WholeIn
<1>5. TreesLeft(g, sub2) = sub[o] \ {o}
  BY LeftAndRight
<1>6. \A m \in R \ {o} : sub2[m] = sub[m] \ {o}
  BY DEF WithoutNode
<1>7. AtHole(g, n, b) <=> g.at = n /\ g.side = b
  BY DEF AtHole, TakesOut
<1> HIDE DEF sub2, c
<1>8. CASE c = o
  <2>1. Beneath(t, g, sub2, n, b) = sub[o] \ {o}
    BY <1>2, <1>5, <1>7, <1>8 DEF Beneath
  <2>2. SubOf(sub, c) = sub[o]
    BY <1>4, <1>8 DEF SubOf
  <2> QED
    BY <2>1, <2>2 DEF sub2, c
<1>9. CASE c # o
  <2>1. ~AtHole(g, n, b)
    BY <1>3, <1>4, <1>7, <1>9 DEF c
  <2>2. Beneath(t, g, sub2, n, b) = SubOf(sub2, c)
    BY <2>1 DEF Beneath, c
  <2>3. SubOf(sub2, c) = SubOf(sub, c) \ {o}
    BY <1>1, <1>6, <1>9 DEF SubOf
  <2> QED
    BY <2>2, <2>3 DEF sub2, c
<1> QED
  BY <1>8, <1>9

\* What is left is sorted, ...
LEMMA ShrunkSorted ==
  ASSUME NEW t, NEW h, NEW g0, NEW R, NEW sub, WholeTree(t, h, g0, R, sub),
         NEW o \in R, NEW g, TakesOut(t, g, o), NEW n \in R \ {o}
  PROVE  Sorted(t, g, WithoutNode(R, sub, o), n)
<1> DEFINE sub2 == WithoutNode(R, sub, o)
           F == SubOf(sub, t[n].children[FALSE])
           T == SubOf(sub, t[n].children[TRUE])
           F2 == Beneath(t, g, sub2, n, FALSE)
           T2 == Beneath(t, g, sub2, n, TRUE)
<1>1. ASSUME NEW b \in BOOLEAN
      PROVE  Beneath(t, g, sub2, n, b) = SubOf(sub, t[n].children[b]) \ {o}
  BY ShrunkBelow
<1>2. TRUE \in BOOLEAN /\ FALSE \in BOOLEAN
  OBVIOUS
<1>3. F2 = F \ {o}
  <2> HIDE DEF sub2
  <2> QED
    BY <1>1, <1>2
<1>4. T2 = T \ {o}
  <2> HIDE DEF sub2
  <2> QED
    BY <1>1, <1>2
<1>5. Halves(t, sub[n], n, F, T)
  BY WholeNode
<1>6. /\ sub[n] = {n} \cup F \cup T /\ n \notin F
      /\ \A m \in F : t[m].addr <= t[n].addr
      /\ \A m \in T : t[m].addr > t[n].addr
  <2> HIDE DEF F, T
  <2> QED
    BY <1>5 DEF Halves
<1>7. sub2[n] = sub[n] \ {o}
  BY DEF WithoutNode
<1> HIDE DEF sub2, F, T, F2, T2
<1>8. /\ sub2[n] = {n} \cup F2 \cup T2 /\ n \notin F2
      /\ \A m \in F2 : t[m].addr <= t[n].addr
      /\ \A m \in T2 : t[m].addr > t[n].addr
  BY <1>3, <1>4, <1>6, <1>7
<1> QED
  BY <1>8 DEF Sorted, F2, T2, sub2

\* ... hangs together, ...
LEMMA ShrunkHangs ==
  ASSUME NEW t, NEW h, NEW g0, NEW R, NEW sub, WholeTree(t, h, g0, R, sub),
         NEW o \in R, NEW g, TakesOut(t, g, o), NEW n \in R \ {o}
  PROVE  Hangs(t, h, g, R \ {o}, n)
<1>1. /\ g.at = NoNode <=> o = h
      /\ g.at # NoNode => t[g.at].children[g.side] = o
  BY LinkToTaken
<1>2. CASE n = h
  <2>1. ~NoHead(g)
    BY <1>1, <1>2 DEF NoHead
  <2> QED
    BY <1>2, <2>1 DEF Hangs
<1>3. CASE n # h
  <2> DEFINE m == t[n].parent
  <2>1. m \in R /\ \E b \in BOOLEAN : t[m].children[b] = n
    BY <1>3, WholeRoot
  <2>2. PICK b \in BOOLEAN : t[m].children[b] = n
    BY <2>1
  <2> HIDE DEF m
  <2>3. CASE m = o
    <3>1. g.on /\ g.left = t[o].children[FALSE] /\ g.right = t[o].children[TRUE]
      BY DEF TakesOut
    <3>2. CASE b = TRUE
      BY <2>2, <2>3, <3>1, <3>2 DEF Hangs
    <3>3. CASE b = FALSE
      BY <2>2, <2>3, <3>1, <3>3 DEF Hangs
    <3> QED
      BY <3>2, <3>3
  <2>4. CASE m # o
    <3>1. m \in R \ {o} /\ m # NoNode
      BY <2>1, <2>4, WholeIn
    <3>2. ~AtHole(g, m, b)
      BY <1>1, <2>2, <3>1 DEF AtHole
    <3> QED
      BY <2>2, <3>1, <3>2 DEF Hangs, m
  <2> QED
    BY <2>3, <2>4
<1> QED
  BY <1>2, <1>3

\* ... and links back.
LEMMA ShrunkLinks ==
  ASSUME NEW t, NEW h, NEW g0, NEW R, NEW sub, WholeTree(t, h, g0, R, sub),
         NEW o \in R, NEW g, TakesOut(t, g, o), NEW n \in R \ {o}, NEW b \in BOOLEAN,
         ~AtHole(g, n, b), t[n].children[b] # NoNode
  PROVE  /\ t[n].children[b] \in R \ {o} /\ t[t[n].children[b]].parent = n
         /\ t[n].children[b] # g.left /\ t[n].children[b] # g.right
<1> DEFINE c == t[n].children[b]
<1>1. c \in R /\ t[c].parent = n
  BY WholeLink
<1>2. c # o
  <2>1. c = o => n = g.at /\ b = g.side
    BY LinkToTaken
  <2>2. ~(n = g.at /\ b = g.side)
    BY DEF AtHole, TakesOut
  <2> QED
    BY <2>1, <2>2
<1>3. /\ g.left # NoNode => t[g.left].parent = o
      /\ g.right # NoNode => t[g.right].parent = o
  BY LeftAndRight
<1> QED
  BY <1>1, <1>2, <1>3

\* What is left of a tree when IPLog_Merge begins in place of a node is a
\* tree with a hole.
LEMMA TreeShrinks ==
  ASSUME NEW t, NEW h, NEW g0, NEW R, NEW sub, WholeTree(t, h, g0, R, sub),
         NEW o \in R, NEW g, TakesOut(t, g, o)
  PROVE  IsTree(t, h, g, R \ {o}, WithoutNode(R, sub, o))
<1> DEFINE R2 == R \ {o}
           sub2 == WithoutNode(R, sub, o)
<1>1. /\ g.at = NoNode <=> o = h
      /\ g.at \in R2 \cup {NoNode} /\ g.side \in BOOLEAN
  BY LinkToTaken
<1>2. h \in R /\ h # NoNode /\ t[h].parent = NoNode /\ R = sub[h]
  BY WholeRoot
<1>3. g.on
  BY DEF TakesOut
<1>4. \A n \in R2 : sub2[n] = sub[n] \ {o}
  BY DEF WithoutNode
<1>5. sub2 \in [R2 -> SUBSET R2]
  <2>1. \A n \in R2 : sub[n] \subseteq R
    BY WholeIn
  <2>2. \A n \in R2 : sub2[n] \subseteq R2
    BY <1>4, <2>1
  <2>3. sub2 = [n \in R2 |-> sub2[n]]
    BY DEF WithoutNode
  <2> HIDE DEF sub2, R2
  <2> QED
    BY <2>2, <2>3
<1>6. R2 = IF NoHead(g) THEN TreesLeft(g, sub2) ELSE SubOf(sub2, h)
  <2>1. CASE o = h
    <3>1. TreesLeft(g, sub2) = sub[o] \ {o}
      BY LeftAndRight
    <3> QED
      BY <1>1, <1>2, <1>3, <2>1, <3>1 DEF NoHead
  <2>2. CASE o # h
    <3>1. SubOf(sub2, h) = sub[h] \ {o} /\ ~NoHead(g)
      BY <1>1, <1>2, <1>4, <2>2 DEF SubOf, NoHead
    <3> QED
      BY <1>2, <3>1
  <2> QED
    BY <2>1, <2>2
<1>7. ~NoHead(g) => h \in R2 /\ t[h].parent = NoNode
  BY <1>1, <1>2, <1>3 DEF NoHead
<1>8. ASSUME NEW n \in R2
      PROVE  /\ Sorted(t, g, sub2, n) /\ Hangs(t, h, g, R2, n)
             /\ LinksBack(t, g, R2, n)
  <2>1. Sorted(t, g, sub2, n)
    BY ShrunkSorted
  <2>2. Hangs(t, h, g, R2, n)
    BY ShrunkHangs
  <2>3. LinksBack(t, g, R2, n)
    BY ShrunkLinks DEF LinksBack
  <2> QED
    BY <2>1, <2>2, <2>3
<1>9. HoleIsWhole(t, h, g, R2, sub2)
  <2>1. /\ g.left \in R2 \cup {NoNode} /\ g.right \in R2 \cup {NoNode}
        /\ SubOf(sub2, g.left) = SubOf(sub, g.left)
        /\ SubOf(sub2, g.right) = SubOf(sub, g.right)
        /\ \A l \in SubOf(sub, g.left), r \in SubOf(sub, g.right) :
             t[l].addr < t[r].addr
        /\ g.left # NoNode => t[g.left].parent = o
        /\ g.right # NoNode => t[g.right].parent = o
    BY LeftAndRight
  <2>2. \A l \in SubOf(sub2, g.left), r \in SubOf(sub2, g.right) :
          t[l].addr < t[r].addr
    BY <2>1
  <2>3. \A n \in R2, b \in BOOLEAN :
         LET c == t[n].children[b] IN
         ~AtHole(g, n, b) /\ c # NoNode => c # g.left /\ c # g.right
    BY ShrunkLinks
  <2>4. o # NoNode
    BY WholeIn
  <2>5. h # g.left /\ h # g.right
    BY <1>2, <2>1, <2>4
  <2> HIDE DEF R2, sub2
  <2> QED
    BY <1>1, <2>1, <2>2, <2>3, <2>5 DEF HoleIsWhole
<1> HIDE DEF R2, sub2
<1>10. IsTree(t, h, g, R2, sub2)
  BY <1>5, <1>6, <1>7, <1>8, <1>9 DEF IsTree
<1> QED
  BY <1>10 DEF R2, sub2

-----------------------------------------------------------------------------
(* One step of IPLog_Merge.  p is the node that takes the place, q the tree  *)
(* that is left beside what is below p on side d.                            *)

Parted(g, p, q, d) ==
  IF d THEN g.left = p /\ g.right = q ELSE g.right = p /\ g.left = q

\* A tree that may have a hole.
HoledTree(t, h, g, R, sub) == IsTree(t, h, g, R, sub) /\ NodesAre(t, R)

\* The parts of a tree with a hole.
LEMMA HoledNode ==
  ASSUME NEW t, NEW h, NEW g, NEW R, NEW sub, HoledTree(t, h, g, R, sub), NEW n \in R
  PROVE  /\ t[n].addr \in Int /\ n # NoNode /\ n \in sub[n] /\ sub[n] \subseteq R
         /\ SubOf(sub, n) = sub[n]
<1>1. t[n].addr \in Int /\ n # NoNode
  BY SizeIs DEF HoledTree, NodesAre
<1>2. IsTree(t, h, g, R, sub)
  BY DEF HoledTree
<1>3. n \in sub[n] /\ sub[n] \subseteq R
  BY <1>2, TreeNode
<1> QED
  BY <1>1, <1>3 DEF SubOf

LEMMA HoledHalves ==
  ASSUME NEW t, NEW h, NEW g, NEW R, NEW sub, HoledTree(t, h, g, R, sub), NEW n \in R
  PROVE  Halves(t, sub[n], n, Beneath(t, g, sub, n, FALSE), Beneath(t, g, sub, n, TRUE))
<1> DEFINE F == Beneath(t, g, sub, n, FALSE)
           T == Beneath(t, g, sub, n, TRUE)
<1>1. Sorted(t, g, sub, n)
  BY DEF HoledTree, IsTree
<1>2. /\ sub[n] = {n} \cup F \cup T /\ n \notin F
      /\ \A m \in F : t[m].addr <= t[n].addr
      /\ \A m \in T : t[m].addr > t[n].addr
  BY <1>1 DEF Sorted
<1> HIDE DEF F, T
<1>3. n \notin T
  <2> DEFINE x == t[n].addr
  <2>1. x \in Int
    BY HoledNode
  <2>2. n \in T => x > x
    BY <1>2
  <2> HIDE DEF x
  <2> QED
    BY <2>1, <2>2
<1>4. Halves(t, sub[n], n, F, T)
  BY <1>2, <1>3 DEF Halves
<1> QED
  BY <1>4 DEF F, T

LEMMA HoledBelow ==
  ASSUME NEW t, NEW h, NEW g, NEW R, NEW sub, HoledTree(t, h, g, R, sub), NEW n \in R,
         NEW b \in BOOLEAN
  PROVE  /\ n \notin Beneath(t, g, sub, n, b) /\ Beneath(t, g, sub, n, b) \subseteq sub[n]
         /\ \A m \in Beneath(t, g, sub, n, b) :
              IF b THEN t[m].addr > t[n].addr ELSE t[m].addr <= t[n].addr
<1> DEFINE F == Beneath(t, g, sub, n, FALSE)
           T == Beneath(t, g, sub, n, TRUE)
<1>1. Halves(t, sub[n], n, F, T)
  BY HoledHalves
<1>2. CASE b = TRUE
  <2>1. Beneath(t, g, sub, n, b) = T
    BY <1>2
  <2> HIDE DEF F, T
  <2> QED
    BY <1>1, <1>2, <2>1 DEF Halves
<1>3. CASE b = FALSE
  <2>1. Beneath(t, g, sub, n, b) = F
    BY <1>3
  <2> HIDE DEF F, T
  <2> QED
    BY <1>1, <1>3, <2>1 DEF Halves
<1> QED
  BY <1>2, <1>3

LEMMA HoledLink ==
  ASSUME NEW t, NEW h, NEW g, NEW R, NEW sub, HoledTree(t, h, g, R, sub), NEW n \in R,
         NEW b \in BOOLEAN, ~AtHole(g, n, b), NEW c, c = t[n].children[b], c # NoNode
  PROVE  /\ c \in R /\ t[c].parent = n /\ c # n
         /\ sub[c] = Beneath(t, g, sub, n, b)
         /\ g.on => c # g.left /\ c # g.right
         /\ NoHead(g) \/ c # h
<1>1. IsTree(t, h, g, R, sub)
  BY DEF HoledTree
<1>2. c \in R /\ t[c].parent = n
  BY <1>1, TreeLink
<1>3. sub[c] = Beneath(t, g, sub, n, b)
  BY DEF Beneath, SubOf
<1>4. n \notin Beneath(t, g, sub, n, b)
  BY HoledBelow
<1>5. c \in sub[c]
  BY <1>2, HoledNode
<1>6. g.on => c # g.left /\ c # g.right
  BY <1>1, TreeRoot DEF HoleIsWhole
<1>7. NoHead(g) \/ c # h
  <2>1. NoHead(g) \/ h = NoNode \/ t[h].parent = NoNode
    BY <1>1, TreeRoot
  <2>2. n # NoNode
    BY HoledNode
  <2> QED
    BY <1>2, <2>1, <2>2
<1> QED
  BY <1>2, <1>3, <1>4, <1>5, <1>6, <1>7

\* A node is linked to once.
LEMMA LinkedOnce ==
  ASSUME NEW t, NEW h, NEW g, NEW R, NEW sub, HoledTree(t, h, g, R, sub),
         NEW n \in R, NEW b \in BOOLEAN, ~AtHole(g, n, b),
         NEW m \in R, NEW d \in BOOLEAN, ~AtHole(g, m, d),
         t[n].children[b] = t[m].children[d], t[n].children[b] # NoNode
  PROVE  n = m /\ b = d
<1> DEFINE c == t[n].children[b]
<1>1. c \in R /\ t[c].parent = n /\ sub[c] = Beneath(t, g, sub, n, b)
  BY HoledLink
<1>2. t[c].parent = m /\ sub[c] = Beneath(t, g, sub, m, d)
  <2>1. c = t[m].children[d] /\ c # NoNode
    OBVIOUS
  <2> HIDE DEF c
  <2> QED
    BY <2>1, HoledLink
<1> HIDE DEF c
<1>3. n = m
  BY <1>1, <1>2
<1>4. c \in Beneath(t, g, sub, n, b) /\ c \in Beneath(t, g, sub, n, d)
  <2>1. c \in sub[c]
    BY <1>1, HoledNode
  <2> QED
    BY <1>1, <1>2, <1>3, <2>1
<1>5. /\ IF b THEN t[c].addr > t[n].addr ELSE t[c].addr <= t[n].addr
      /\ IF d THEN t[c].addr > t[n].addr ELSE t[c].addr <= t[n].addr
  BY <1>4, HoledBelow
<1>6. t[c].addr \in Int /\ t[n].addr \in Int
  BY <1>1, HoledNode
<1>7. b = d
  BY <1>5, <1>6
<1> QED
  BY <1>3, <1>7

\* The two trees, whichever of them is to go on.
LEMMA HoleParts ==
  ASSUME NEW t, NEW h, NEW g, NEW R, NEW sub, HoledTree(t, h, g, R, sub), g.on,
         NEW d \in BOOLEAN, NEW p, NEW q, Parted(g, p, q, d)
  PROVE  /\ p \in R \cup {NoNode} /\ q \in R \cup {NoNode}
         /\ g.at \in R \cup {NoNode} /\ g.side \in BOOLEAN
         /\ TreesLeft(g, sub) = SubOf(sub, p) \cup SubOf(sub, q)
         /\ SubOf(sub, p) \subseteq R /\ SubOf(sub, q) \subseteq R
         /\ \A x \in SubOf(sub, p), y \in SubOf(sub, q) :
              IF d THEN t[x].addr < t[y].addr ELSE t[y].addr < t[x].addr
         /\ h # NoNode /\ g.at # NoNode => h # p /\ h # q
<1>1. IsTree(t, h, g, R, sub)
  BY DEF HoledTree
<1>2. HoleIsWhole(t, h, g, R, sub) /\ sub \in [R -> SUBSET R]
  BY <1>1, TreeRoot
<1>3. /\ g.at \in R \cup {NoNode} /\ g.side \in BOOLEAN
      /\ g.left \in R \cup {NoNode} /\ g.right \in R \cup {NoNode}
      /\ \A l \in SubOf(sub, g.left), r \in SubOf(sub, g.right) :
           t[l].addr < t[r].addr
      /\ h # NoNode /\ g.at # NoNode => h # g.left /\ h # g.right
  BY <1>2 DEF HoleIsWhole, NoHead
<1>4. \A c \in R \cup {NoNode} : SubOf(sub, c) \subseteq R
  BY <1>2 DEF SubOf
<1>5. TreesLeft(g, sub) = SubOf(sub, g.left) \cup SubOf(sub, g.right)
  BY DEF TreesLeft
<1>6. CASE d
  <2>1. g.left = p /\ g.right = q
    BY <1>6 DEF Parted
  <2> QED
    BY <1>3, <1>4, <1>5, <1>6, <2>1
<1>7. CASE ~d
  <2>1. g.right = p /\ g.left = q
    BY <1>7 DEF Parted
  <2> QED
    BY <1>3, <1>4, <1>5, <1>7, <2>1
<1> QED
  BY <1>6, <1>7

\* The two trees have nothing in common.
LEMMA HoleApart ==
  ASSUME NEW t, NEW h, NEW g, NEW R, NEW sub, HoledTree(t, h, g, R, sub), g.on,
         NEW d \in BOOLEAN, NEW p, NEW q, Parted(g, p, q, d), p # NoNode
  PROVE  /\ p \in R /\ SubOf(sub, p) = sub[p] /\ p \in sub[p]
         /\ p # q /\ p \notin SubOf(sub, q) /\ g.at # p
<1>1. p \in R \cup {NoNode}
  BY HoleParts
<1>2. p \in R
  BY <1>1
<1>3. SubOf(sub, p) = sub[p] /\ p \in sub[p] /\ t[p].addr \in Int
  BY <1>2, HoledNode
<1>4. p \notin SubOf(sub, q)
  <2>1. \A x \in SubOf(sub, p), y \in SubOf(sub, q) :
              IF d THEN t[x].addr < t[y].addr ELSE t[y].addr < t[x].addr
    BY HoleParts
  <2> DEFINE x == t[p].addr
  <2>2. p \in SubOf(sub, q) => x < x
    BY <1>3, <2>1
  <2>3. x \in Int
    BY <1>3
  <2> HIDE DEF x
  <2> QED
    BY <2>2, <2>3
<1>5. p # q
  <2>1. SubOf(sub, q) = sub[p] \/ p # q
    BY <1>3
  <2> QED
    BY <1>3, <1>4, <2>1
<1>6. g.at # p
  <2>1. SUFFICES ASSUME g.at = p PROVE FALSE
    OBVIOUS
  <2>2. g.side \in BOOLEAN
    BY HoleParts
  <2>3. Beneath(t, g, sub, p, g.side) = TreesLeft(g, sub)
    BY <2>1 DEF Beneath, AtHole
  <2>4. TreesLeft(g, sub) = SubOf(sub, p) \cup SubOf(sub, q)
    BY HoleParts
  <2>5. p \notin Beneath(t, g, sub, p, g.side)
    BY <1>2, <2>2, HoledBelow
  <2> QED
    BY <1>3, <2>3, <2>4, <2>5
<1> QED
  BY <1>2, <1>3, <1>4, <1>5, <1>6

\* The nodes t2 and the head h2, when p has taken the place.
Placed(t, h, g, R, t2, h2, p) ==
  /\ \A n \in R : /\ t2[n].addr = t[n].addr
                  /\ t2[n].parent = IF n = p THEN g.at ELSE t[n].parent
  /\ \A n \in R, b \in BOOLEAN :
       t2[n].children[b] = IF AtHole(g, n, b) THEN p ELSE t[n].children[b]
  /\ h2 = IF g.at = NoNode THEN p ELSE h

\* Nothing is left beside p: the tree is whole.
LEMMA HoleCloses ==
  ASSUME NEW t, NEW h, NEW g, NEW R, NEW sub, HoledTree(t, h, g, R, sub), g.on,
         NEW d \in BOOLEAN, NEW p, Parted(g, p, NoNode, d),
         NEW t2, NEW h2, Placed(t, h, g, R, t2, h2, p), NEW g2, ~g2.on
  PROVE  IsTree(t2, h2, g2, R, sub)
<1>1. IsTree(t, h, g, R, sub)
  BY DEF HoledTree
<1>2. /\ p \in R \cup {NoNode} /\ g.at \in R \cup {NoNode} /\ g.side \in BOOLEAN
      /\ TreesLeft(g, sub) = SubOf(sub, p) \cup SubOf(sub, NoNode)
      /\ h # NoNode /\ g.at # NoNode => h # p
  BY HoleParts
<1>3. TreesLeft(g, sub) = SubOf(sub, p)
  BY <1>2 DEF SubOf
<1>4. p # NoNode => g.at # p
  BY HoleApart
<1>5. ~NoHead(g2) /\ \A n, b : ~AtHole(g2, n, b)
  BY DEF NoHead, AtHole
<1>6. NoNode \notin R
  BY HoledNode
<1>7. ASSUME NEW n \in R, NEW b \in BOOLEAN
      PROVE  Beneath(t2, g2, sub, n, b) = Beneath(t, g, sub, n, b)
  <2>1. Beneath(t2, g2, sub, n, b) = SubOf(sub, t2[n].children[b])
    BY <1>5 DEF Beneath
  <2>2. CASE AtHole(g, n, b)
    <3>1. t2[n].children[b] = p
      BY <2>2 DEF Placed
    <3>2. Beneath(t, g, sub, n, b) = SubOf(sub, p)
      BY <1>3, <2>2 DEF Beneath
    <3> QED
      BY <2>1, <3>1, <3>2
  <2>3. CASE ~AtHole(g, n, b)
    <3>1. t2[n].children[b] = t[n].children[b]
      BY <2>3 DEF Placed
    <3>2. Beneath(t, g, sub, n, b) = SubOf(sub, t[n].children[b])
      BY <2>3 DEF Beneath
    <3> QED
      BY <2>1, <3>1, <3>2
  <2> QED
    BY <2>2, <2>3
<1>8. ASSUME NEW n \in R
      PROVE  Sorted(t2, g2, sub, n)
  <2> DEFINE F == Beneath(t, g, sub, n, FALSE)
             T == Beneath(t, g, sub, n, TRUE)
  <2>1. Beneath(t2, g2, sub, n, FALSE) = F /\ Beneath(t2, g2, sub, n, TRUE) = T
    BY <1>7
  <2>2. Halves(t, sub[n], n, F, T)
    BY HoledHalves
  <2>3. sub[n] \subseteq R /\ \A m \in R : t2[m].addr = t[m].addr
    BY HoledNode DEF Placed
  <2> HIDE DEF F, T
  <2>4. /\ sub[n] = {n} \cup F \cup T /\ n \notin F
        /\ \A m \in F : t[m].addr <= t[n].addr
        /\ \A m \in T : t[m].addr > t[n].addr
    BY <2>2 DEF Halves
  <2>5. /\ \A m \in F : t2[m].addr <= t2[n].addr
        /\ \A m \in T : t2[m].addr > t2[n].addr
    BY <2>3, <2>4
  <2> QED
    BY <2>1, <2>4, <2>5 DEF Sorted
<1>9. ASSUME NEW n \in R
      PROVE  Hangs(t2, h2, g2, R, n)
  <2>1. CASE n = p
    <3>1. CASE g.at = NoNode
      BY <1>5, <2>1, <3>1 DEF Hangs, Placed
    <3>2. CASE g.at # NoNode
      <4>1. g.at \in R /\ t2[n].parent = g.at
        BY <1>2, <2>1, <3>2 DEF Placed
      <4>2. t2[g.at].children[g.side] = n
        BY <1>2, <2>1, <4>1 DEF Placed, AtHole
      <4> QED
        BY <1>2, <1>5, <4>1, <4>2 DEF Hangs
    <3> QED
      BY <3>1, <3>2
  <2>2. CASE n # p
    <3>1. n # g.left /\ n # g.right
      BY <1>6, <2>2 DEF Parted
    <3>2. CASE ~NoHead(g) /\ n = h
      <4>1. h2 = n
        BY <3>2 DEF Placed, NoHead
      <4> QED
        BY <1>5, <4>1 DEF Hangs
    <3>3. CASE NoHead(g) \/ n # h
      <4>1. /\ t[n].parent \in R
            /\ \E b \in BOOLEAN : /\ ~AtHole(g, t[n].parent, b)
                                  /\ t[t[n].parent].children[b] = n
        BY <1>1, <3>1, <3>3, TreeHangs
      <4> DEFINE m == t[n].parent
      <4>2. PICK b \in BOOLEAN : ~AtHole(g, m, b) /\ t[m].children[b] = n
        BY <4>1
      <4>3. t2[n].parent = m /\ m \in R
        BY <2>2, <4>1 DEF Placed
      <4> HIDE DEF m
      <4>4. t2[m].children[b] = n
        BY <4>2, <4>3 DEF Placed
      <4> QED
        BY <1>5, <4>3, <4>4 DEF Hangs
    <3> QED
      BY <3>2, <3>3
  <2> QED
    BY <2>1, <2>2
<1>10. ASSUME NEW n \in R, NEW b \in BOOLEAN, t2[n].children[b] # NoNode
       PROVE  t2[n].children[b] \in R /\ t2[t2[n].children[b]].parent = n
  <2>1. CASE AtHole(g, n, b)
    <3>1. t2[n].children[b] = p /\ n = g.at
      BY <2>1 DEF Placed, AtHole
    <3> QED
      BY <1>2, <1>10, <3>1 DEF Placed
  <2>2. CASE ~AtHole(g, n, b)
    <3> DEFINE c == t[n].children[b]
    <3>1. t2[n].children[b] = c
      BY <2>2 DEF Placed
    <3>2. c \in R /\ t[c].parent = n /\ c # g.left /\ c # g.right
      BY <1>10, <2>2, <3>1, HoledLink
    <3> HIDE DEF c
    <3>3. c # p
      BY <3>2 DEF Parted
    <3> QED
      BY <3>1, <3>2, <3>3 DEF Placed
  <2> QED
    BY <2>1, <2>2
<1>11. \A n \in R : LinksBack(t2, g2, R, n)
  BY <1>10 DEF LinksBack
<1>12. sub \in [R -> SUBSET R]
  BY <1>1, TreeRoot
<1>13. R = SubOf(sub, h2) /\ (h2 = NoNode \/ (h2 \in R /\ t2[h2].parent = NoNode))
  <2>1. CASE g.at = NoNode
    <3>1. h2 = p /\ R = TreesLeft(g, sub)
      BY <1>1, <2>1, TreeRoot DEF Placed, NoHead
    <3>2. p # NoNode => t2[p].parent = NoNode
      BY <1>2, <2>1 DEF Placed
    <3> QED
      BY <1>2, <1>3, <3>1, <3>2
  <2>2. CASE g.at # NoNode
    <3>1. ~NoHead(g) /\ h2 = h
      BY <2>2 DEF Placed, NoHead
    <3>2. R = SubOf(sub, h) /\ (h = NoNode \/ (h \in R /\ t[h].parent = NoNode))
      BY <1>1, <3>1, TreeRoot
    <3>3. h # NoNode => t2[h].parent = NoNode
      BY <1>2, <2>2, <3>2 DEF Placed
    <3> QED
      BY <3>1, <3>2, <3>3
  <2> QED
    BY <2>1, <2>2
<1>14. HoleIsWhole(t2, h2, g2, R, sub)
  BY DEF HoleIsWhole
<1> QED
  BY <1>5, <1>8, <1>9, <1>11, <1>12, <1>13, <1>14 DEF IsTree

\* The trees, when q is to hang below p.
Joined(R, sub, p, q) ==
  [n \in R |-> IF n = p THEN sub[n] \cup SubOf(sub, q) ELSE sub[n]]

\* The merge goes on with c, which was below p on side d, and q.
MergesOn(t, g2, p, q, d) ==
  /\ g2.on /\ g2.at = p /\ g2.side = d
  /\ Parted(g2, t[p].children[d], q, d)

\* The hole after one more step of the merge.
LEMMA NextIs ==
  ASSUME NEW t, NEW h, NEW g, NEW R, NEW sub, HoledTree(t, h, g, R, sub), g.on,
         NEW d \in BOOLEAN, NEW p, NEW q, Parted(g, p, q, d), p # NoNode, q # NoNode
  PROVE  LET c == t[p].children[d] IN
         /\ ~AtHole(g, p, d)
         /\ c \in R \cup {NoNode} /\ c # p /\ c # q
         /\ c # NoNode => t[c].parent = p /\ (NoHead(g) \/ c # h)
         /\ SubOf(sub, c) = Beneath(t, g, sub, p, d)
         /\ SubOf(sub, c) \subseteq sub[p]
         /\ q \in R
<1> DEFINE c == t[p].children[d]
<1>1. p \in R /\ g.at # p /\ p # q
  BY HoleApart
<1>2. q \in R
  <2>1. q \in R \cup {NoNode}
    BY HoleParts
  <2> QED
    BY <2>1
<1>3. ~AtHole(g, p, d)
  BY <1>1 DEF AtHole
<1>4. c # NoNode => /\ c \in R /\ t[c].parent = p /\ c # p
                    /\ c # g.left /\ c # g.right /\ (NoHead(g) \/ c # h)
  BY <1>1, <1>3, HoledLink
<1>5. SubOf(sub, c) = Beneath(t, g, sub, p, d)
  BY <1>3 DEF Beneath
<1>6. Beneath(t, g, sub, p, d) \subseteq sub[p]
  BY <1>1, HoledBelow
<1> HIDE DEF c
<1>7. c # q
  BY <1>4 DEF Parted
<1> QED
  BY <1>1, <1>2, <1>3, <1>4, <1>5, <1>6, <1>7 DEF c

\* What is below a node then.
LEMMA JoinedBelow ==
  ASSUME NEW t, NEW h, NEW g, NEW R, NEW sub, HoledTree(t, h, g, R, sub), g.on,
         NEW d \in BOOLEAN, NEW p, NEW q, Parted(g, p, q, d), p # NoNode, q # NoNode,
         NEW t2, NEW h2, Placed(t, h, g, R, t2, h2, p),
         NEW g2, MergesOn(t, g2, p, q, d), NEW n \in R, NEW b \in BOOLEAN
  PROVE  Beneath(t2, g2, Joined(R, sub, p, q), n, b) =
           Beneath(t, g, sub, n, b) \cup
             (IF n = p /\ b = d THEN SubOf(sub, q) ELSE {})
<1> DEFINE sub2 == Joined(R, sub, p, q)
           Q == SubOf(sub, q)
           c == t[p].children[d]
           e == t[n].children[b]
<1>1. /\ p \in R /\ SubOf(sub, p) = sub[p] /\ p # q /\ g.at # p
  BY HoleApart
<1>2. /\ ~AtHole(g, p, d) /\ c \in R \cup {NoNode} /\ c # p /\ c # q
      /\ SubOf(sub, c) = Beneath(t, g, sub, p, d) /\ q \in R
  BY NextIs
<1>3. TreesLeft(g, sub) = SubOf(sub, p) \cup Q
  BY HoleParts
<1>4. /\ sub2[p] = sub[p] \cup Q
      /\ \A m \in R : m # p => sub2[m] = sub[m]
  BY <1>1 DEF Joined
<1>5. NoNode \notin R
  BY HoledNode
<1>6. AtHole(g2, n, b) <=> n = p /\ b = d
  BY DEF MergesOn, AtHole
<1>7. SubOf(sub2, p) = sub[p] \cup Q
  BY <1>1, <1>4, <1>5 DEF SubOf
<1>8. \A m \in R \cup {NoNode} : m # p => SubOf(sub2, m) = SubOf(sub, m)
  BY <1>4 DEF SubOf
<1>9. TreesLeft(g2, sub2) = SubOf(sub2, c) \cup SubOf(sub2, q)
  <2>1. Parted(g2, c, q, d)
    BY DEF MergesOn
  <2> HIDE DEF sub2, c
  <2> QED
    BY <2>1 DEF Parted, TreesLeft
<1>10. t2[n].children[b] = IF AtHole(g, n, b) THEN p ELSE e
  BY DEF Placed
<1>11. ~AtHole(g, n, b) /\ e # NoNode => e \in R /\ e # g.left /\ e # g.right
  BY HoledLink
<1>12. n = p /\ b = d => e = c
  OBVIOUS
<1> HIDE DEF sub2, Q, c, e
<1>13. CASE AtHole(g, n, b)
  <2>1. n # p
    BY <1>1, <1>13 DEF AtHole
  <2>2. Beneath(t2, g2, sub2, n, b) = SubOf(sub2, p)
    BY <1>6, <1>10, <1>13, <2>1 DEF Beneath
  <2>3. Beneath(t, g, sub, n, b) = sub[p] \cup Q
    BY <1>1, <1>3, <1>13 DEF Beneath
  <2> QED
    BY <1>7, <2>1, <2>2, <2>3 DEF sub2, Q
<1>14. CASE n = p /\ b = d
  <2>1. Beneath(t2, g2, sub2, n, b) = SubOf(sub2, c) \cup SubOf(sub2, q)
    BY <1>6, <1>9, <1>14 DEF Beneath
  <2>2. SubOf(sub2, c) = SubOf(sub, c) /\ SubOf(sub2, q) = Q
    BY <1>1, <1>2, <1>8 DEF Q
  <2>3. SubOf(sub, c) = Beneath(t, g, sub, n, b)
    BY <1>2, <1>14
  <2> QED
    BY <1>14, <2>1, <2>2, <2>3 DEF sub2, Q
<1>15. CASE ~AtHole(g, n, b) /\ ~(n = p /\ b = d)
  <2>1. Beneath(t2, g2, sub2, n, b) = SubOf(sub2, e)
    BY <1>6, <1>10, <1>15 DEF Beneath
  <2>2. Beneath(t, g, sub, n, b) = SubOf(sub, e)
    BY <1>15 DEF Beneath, e
  <2>3. e = NoNode \/ (e \in R /\ e # p)
    BY <1>11, <1>15 DEF Parted
  <2>4. SubOf(sub2, e) = SubOf(sub, e)
    BY <1>1, <1>5, <1>8, <2>3
  <2> QED
    BY <1>15, <2>1, <2>2, <2>4 DEF sub2, Q
<1> QED
  BY <1>13, <1>14, <1>15

\* It is sorted, ...
LEMMA JoinedSorted ==
  ASSUME NEW t, NEW h, NEW g, NEW R, NEW sub, HoledTree(t, h, g, R, sub), g.on,
         NEW d \in BOOLEAN, NEW p, NEW q, Parted(g, p, q, d), p # NoNode, q # NoNode,
         NEW t2, NEW h2, Placed(t, h, g, R, t2, h2, p),
         NEW g2, MergesOn(t, g2, p, q, d), NEW n \in R
  PROVE  Sorted(t2, g2, Joined(R, sub, p, q), n)
<1> DEFINE sub2 == Joined(R, sub, p, q)
           Q == SubOf(sub, q)
           F == Beneath(t, g, sub, n, FALSE)
           T == Beneath(t, g, sub, n, TRUE)
           F2 == Beneath(t2, g2, sub2, n, FALSE)
           T2 == Beneath(t2, g2, sub2, n, TRUE)
<1>1. ASSUME NEW b \in BOOLEAN
      PROVE  Beneath(t2, g2, sub2, n, b) =
               Beneath(t, g, sub, n, b) \cup (IF n = p /\ b = d THEN Q ELSE {})
  BY JoinedBelow
<1>2. TRUE \in BOOLEAN /\ FALSE \in BOOLEAN
  OBVIOUS
<1>3. F2 = F \cup (IF n = p /\ FALSE = d THEN Q ELSE {})
  <2> HIDE DEF sub2, Q
  <2> QED
    BY <1>1, <1>2
<1>4. T2 = T \cup (IF n = p /\ TRUE = d THEN Q ELSE {})
  <2> HIDE DEF sub2, Q
  <2> QED
    BY <1>1, <1>2
<1>5. Halves(t, sub[n], n, F, T)
  BY HoledHalves
<1>6. sub[n] \subseteq R /\ \A m \in R : t2[m].addr = t[m].addr /\ t[m].addr \in Int
  BY HoledNode DEF Placed
<1>7. sub2[n] = IF n = p THEN sub[n] \cup Q ELSE sub[n]
  BY DEF Joined
<1>8. Q \subseteq R
  BY HoleParts
<1>9. n = p => n \notin Q
  BY HoleApart
<1>10. \A x \in SubOf(sub, p), y \in Q :
         IF d THEN t[x].addr < t[y].addr ELSE t[y].addr < t[x].addr
  BY HoleParts
<1>11. p \in SubOf(sub, p)
  BY HoleApart
<1>12. \A y \in Q : IF d THEN t[p].addr < t[y].addr ELSE t[y].addr < t[p].addr
  <2> HIDE DEF Q
  <2> QED
    BY <1>10, <1>11
<1> HIDE DEF sub2, Q, F, T, F2, T2
<1>13. /\ sub[n] = {n} \cup F \cup T /\ n \notin F
       /\ \A m \in F : t[m].addr <= t[n].addr
       /\ \A m \in T : t[m].addr > t[n].addr
  BY <1>5 DEF Halves
<1>14. sub2[n] = {n} \cup F2 \cup T2 /\ n \notin F2
  <2>1. CASE n = p /\ d = TRUE
    BY <1>3, <1>4, <1>7, <1>13, <2>1
  <2>2. CASE n = p /\ d = FALSE
    BY <1>3, <1>4, <1>7, <1>9, <1>13, <2>2
  <2>3. CASE n # p
    BY <1>3, <1>4, <1>7, <1>13, <2>3
  <2> QED
    BY <2>1, <2>2, <2>3
<1>15. ASSUME NEW m \in F2
       PROVE  t2[m].addr <= t2[n].addr
  <2>1. CASE m \in F
    BY <1>6, <1>13, <2>1
  <2>2. CASE m \notin F
    <3>1. n = p /\ d = FALSE /\ m \in Q
      BY <1>3, <2>2
    <3>2. t[m].addr < t[n].addr /\ m \in R
      BY <1>8, <1>12, <3>1
    <3> QED
      BY <1>6, <3>2
  <2> QED
    BY <2>1, <2>2
<1>16. ASSUME NEW m \in T2
       PROVE  t2[m].addr > t2[n].addr
  <2>1. CASE m \in T
    BY <1>6, <1>13, <2>1
  <2>2. CASE m \notin T
    <3>1. n = p /\ d = TRUE /\ m \in Q
      BY <1>4, <2>2
    <3>2. t[n].addr < t[m].addr /\ m \in R
      BY <1>8, <1>12, <3>1
    <3> QED
      BY <1>6, <3>2
  <2> QED
    BY <2>1, <2>2
<1> QED
  BY <1>14, <1>15, <1>16 DEF Sorted, F2, T2, sub2

\* ... hangs together, ...
LEMMA JoinedHangs ==
  ASSUME NEW t, NEW h, NEW g, NEW R, NEW sub, HoledTree(t, h, g, R, sub), g.on,
         NEW d \in BOOLEAN, NEW p, NEW q, Parted(g, p, q, d), p # NoNode, q # NoNode,
         NEW t2, NEW h2, Placed(t, h, g, R, t2, h2, p),
         NEW g2, MergesOn(t, g2, p, q, d), NEW n \in R
  PROVE  Hangs(t2, h2, g2, R, n)
<1>1. ~NoHead(g2) /\ g2.on /\ g2.at = p /\ g2.side = d
      /\ Parted(g2, t[p].children[d], q, d)
  BY DEF MergesOn, NoHead
<1>2. /\ p \in R /\ g.at # p
  BY HoleApart
<1>3. g.at \in R \cup {NoNode} /\ g.side \in BOOLEAN
  BY HoleParts
<1>4. n = t[p].children[d] \/ n = q => n \in {g2.left, g2.right}
  <2> DEFINE c == t[p].children[d]
  <2> HIDE DEF c
  <2>1. Parted(g2, c, q, d)
    BY <1>1 DEF c
  <2>2. n = c \/ n = q => n \in {g2.left, g2.right}
    BY <2>1 DEF Parted
  <2> QED
    BY <2>2 DEF c
<1>5. CASE n = p
  <2>1. CASE g.at = NoNode
    BY <1>1, <1>5, <2>1 DEF Hangs, Placed
  <2>2. CASE g.at # NoNode
    <3>1. g.at \in R /\ t2[n].parent = g.at
      BY <1>3, <1>5, <2>2 DEF Placed
    <3>2. t2[g.at].children[g.side] = n
      BY <1>3, <1>5, <3>1 DEF Placed, AtHole
    <3>3. ~AtHole(g2, g.at, g.side)
      BY <1>1, <1>2 DEF AtHole
    <3> QED
      BY <1>3, <3>1, <3>2, <3>3 DEF Hangs
  <2> QED
    BY <2>1, <2>2
<1>6. CASE n = q
  BY <1>1, <1>4, <1>6 DEF Hangs
<1>7. CASE n # p /\ n # q
  <2>1. n # g.left /\ n # g.right
    BY <1>7 DEF Parted
  <2>2. CASE ~NoHead(g) /\ n = h
    <3>1. h2 = n
      BY <2>2 DEF Placed, NoHead
    <3> QED
      BY <1>1, <3>1 DEF Hangs
  <2>3. CASE NoHead(g) \/ n # h
    <3>1. /\ t[n].parent \in R
          /\ \E b \in BOOLEAN : /\ ~AtHole(g, t[n].parent, b)
                                /\ t[t[n].parent].children[b] = n
      <4>1. IsTree(t, h, g, R, sub)
        BY DEF HoledTree
      <4> QED
        BY <2>1, <2>3, <4>1, TreeHangs
    <3> DEFINE m == t[n].parent
    <3>2. PICK b \in BOOLEAN : ~AtHole(g, m, b) /\ t[m].children[b] = n
      BY <3>1
    <3>3. t2[n].parent = m /\ m \in R
      BY <1>7, <3>1 DEF Placed
    <3> HIDE DEF m
    <3>4. t2[m].children[b] = n
      BY <3>2, <3>3 DEF Placed
    <3>5. CASE AtHole(g2, m, b)
      <4>1. m = p /\ b = d
        BY <1>1, <3>5 DEF AtHole
      <4>2. n = t[p].children[d]
        BY <3>2, <4>1
      <4> QED
        BY <1>1, <1>4, <4>2 DEF Hangs
    <3>6. CASE ~AtHole(g2, m, b)
      BY <3>3, <3>4, <3>6 DEF Hangs
    <3> QED
      BY <3>5, <3>6
  <2> QED
    BY <2>2, <2>3
<1> QED
  BY <1>5, <1>6, <1>7

\* ... and links back.
LEMMA JoinedLinks ==
  ASSUME NEW t, NEW h, NEW g, NEW R, NEW sub, HoledTree(t, h, g, R, sub), g.on,
         NEW d \in BOOLEAN, NEW p, NEW q, Parted(g, p, q, d), p # NoNode, q # NoNode,
         NEW t2, NEW h2, Placed(t, h, g, R, t2, h2, p),
         NEW g2, MergesOn(t, g2, p, q, d), NEW n \in R, NEW b \in BOOLEAN,
         ~AtHole(g2, n, b), t2[n].children[b] # NoNode
  PROVE  /\ t2[n].children[b] \in R /\ t2[t2[n].children[b]].parent = n
         /\ t2[n].children[b] # t[p].children[d] /\ t2[n].children[b] # q
<1> DEFINE c == t[p].children[d]
           e == t[n].children[b]
<1>1. p \in R /\ p # q
  BY HoleApart
<1>2. c # p /\ ~AtHole(g, p, d)
  BY NextIs
<1>3. t2[n].children[b] = IF AtHole(g, n, b) THEN p ELSE e
  BY DEF Placed
<1>4. ~(n = p /\ b = d)
  BY DEF MergesOn, AtHole
<1>5. \A m \in R : t2[m].parent = IF m = p THEN g.at ELSE t[m].parent
  BY DEF Placed
<1>6. ~AtHole(g, n, b) /\ e # NoNode =>
        e \in R /\ t[e].parent = n /\ e # g.left /\ e # g.right
  BY HoledLink
<1>7. ~AtHole(g, n, b) /\ e # NoNode => e # c
  BY <1>1, <1>2, <1>4, LinkedOnce
<1> HIDE DEF c, e
<1>8. CASE AtHole(g, n, b)
  <2>1. t2[n].children[b] = p /\ g.at = n
    BY <1>3, <1>8 DEF AtHole
  <2> QED
    BY <1>1, <1>2, <1>5, <2>1 DEF c
<1>9. CASE ~AtHole(g, n, b)
  <2>1. t2[n].children[b] = e /\ e # NoNode
    BY <1>3, <1>9
  <2>2. e # p /\ e # q
    BY <1>6, <1>9, <2>1 DEF Parted
  <2> QED
    BY <1>5, <1>6, <1>7, <1>9, <2>1, <2>2 DEF c
<1> QED
  BY <1>8, <1>9

\* The tree has a hole again, one node lower.
LEMMA MergeGoesOn ==
  ASSUME NEW t, NEW h, NEW g, NEW R, NEW sub, HoledTree(t, h, g, R, sub), g.on,
         NEW d \in BOOLEAN, NEW p, NEW q, Parted(g, p, q, d), p # NoNode, q # NoNode,
         NEW t2, NEW h2, Placed(t, h, g, R, t2, h2, p),
         NEW g2, MergesOn(t, g2, p, q, d)
  PROVE  IsTree(t2, h2, g2, R, Joined(R, sub, p, q))
<1> DEFINE sub2 == Joined(R, sub, p, q)
           c == t[p].children[d]
<1>1. IsTree(t, h, g, R, sub)
  BY DEF HoledTree
<1>2. p \in R /\ SubOf(sub, p) = sub[p] /\ p # q /\ g.at # p
  BY HoleApart
<1>3. /\ c \in R \cup {NoNode} /\ c # p /\ c # q
      /\ c # NoNode => t[c].parent = p /\ (NoHead(g) \/ c # h)
      /\ SubOf(sub, c) \subseteq sub[p] /\ q \in R
  BY NextIs
<1>4. /\ g.at \in R \cup {NoNode}
      /\ TreesLeft(g, sub) = SubOf(sub, p) \cup SubOf(sub, q)
      /\ SubOf(sub, q) \subseteq R
      /\ \A x \in SubOf(sub, p), y \in SubOf(sub, q) :
              IF d THEN t[x].addr < t[y].addr ELSE t[y].addr < t[x].addr
      /\ h # NoNode /\ g.at # NoNode => h # p /\ h # q
  BY HoleParts
<1>5. NoNode \notin R /\ \A n \in R : sub[n] \subseteq R
  BY HoledNode
<1>6. /\ sub2[p] = sub[p] \cup SubOf(sub, q)
      /\ \A n \in R : n # p => sub2[n] = sub[n]
  BY <1>2 DEF Joined
<1>7. /\ SubOf(sub2, p) = sub2[p] /\ SubOf(sub2, q) = SubOf(sub, q)
      /\ SubOf(sub2, c) = SubOf(sub, c)
  <2> HIDE DEF sub2, c
  <2> QED
    BY <1>2, <1>3, <1>5, <1>6 DEF SubOf
<1>8. /\ ~NoHead(g2) /\ g2.on /\ g2.at = p /\ g2.side = d /\ Parted(g2, c, q, d)
  BY <1>2, <1>5 DEF MergesOn, NoHead
<1>9. sub2 \in [R -> SUBSET R]
  <2>1. \A n \in R : sub2[n] \subseteq R
    <3> HIDE DEF sub2
    <3> QED
      BY <1>4, <1>5, <1>6
  <2>2. sub2 = [n \in R |-> sub2[n]]
    BY DEF Joined
  <2> HIDE DEF sub2
  <2> QED
    BY <2>1, <2>2
<1>10. \A n \in R : Sorted(t2, g2, sub2, n)
  BY JoinedSorted
<1>11. \A n \in R : Hangs(t2, h2, g2, R, n)
  BY JoinedHangs
<1>12. ASSUME NEW n \in R, NEW b \in BOOLEAN, ~AtHole(g2, n, b),
              t2[n].children[b] # NoNode
       PROVE  /\ t2[n].children[b] \in R /\ t2[t2[n].children[b]].parent = n
              /\ t2[n].children[b] # c /\ t2[n].children[b] # q
  BY <1>12, JoinedLinks
<1> HIDE DEF sub2, c
<1>13. \A n \in R : LinksBack(t2, g2, R, n)
  BY <1>12 DEF LinksBack
<1>14. /\ R = SubOf(sub2, h2) /\ h2 \in R /\ t2[h2].parent = NoNode
       /\ h2 # c /\ h2 # q
  <2>1. CASE g.at = NoNode
    <3>1. h2 = p /\ R = TreesLeft(g, sub)
      BY <1>1, <2>1, TreeRoot DEF Placed, NoHead
    <3>2. t2[p].parent = NoNode
      BY <1>2, <2>1 DEF Placed
    <3> QED
      BY <1>2, <1>3, <1>4, <1>6, <1>7, <3>1, <3>2
  <2>2. CASE g.at # NoNode
    <3>1. ~NoHead(g) /\ h2 = h
      BY <2>2 DEF Placed, NoHead
    <3>2. R = SubOf(sub, h) /\ (h = NoNode \/ (h \in R /\ t[h].parent = NoNode))
      BY <1>1, <3>1, TreeRoot
    <3>3. h # NoNode /\ h \in R /\ t[h].parent = NoNode
      BY <1>2, <3>2 DEF SubOf
    <3>4. h # p /\ h # q /\ h # c
      BY <1>3, <1>4, <1>5, <2>2, <3>1, <3>3
    <3>5. t2[h].parent = NoNode
      BY <3>3, <3>4 DEF Placed
    <3>6. SubOf(sub2, h) = SubOf(sub, h)
      BY <1>6, <3>3, <3>4 DEF SubOf
    <3> QED
      BY <3>1, <3>2, <3>3, <3>4, <3>5, <3>6
  <2> QED
    BY <2>1, <2>2
<1>15. HoleIsWhole(t2, h2, g2, R, sub2)
  <2>1. g2.left \in R \cup {NoNode} /\ g2.right \in R \cup {NoNode}
    BY <1>3, <1>8 DEF Parted
  <2>2. \A n \in R : t2[n].addr = t[n].addr
    BY DEF Placed
  <2>3. \A x \in SubOf(sub2, c), y \in SubOf(sub2, q) :
          IF d THEN t2[x].addr < t2[y].addr ELSE t2[y].addr < t2[x].addr
    <3>1. SUFFICES ASSUME NEW x \in SubOf(sub, c), NEW y \in SubOf(sub, q)
                   PROVE  IF d THEN t2[x].addr < t2[y].addr
                          ELSE t2[y].addr < t2[x].addr
      BY <1>7
    <3>2. x \in SubOf(sub, p) /\ x \in R /\ y \in R
      BY <1>2, <1>3, <1>4, <1>5
    <3> QED
      BY <1>4, <2>2, <3>2
  <2>4. \A l \in SubOf(sub2, g2.left), r \in SubOf(sub2, g2.right) :
          t2[l].addr < t2[r].addr
    <3>1. CASE d
      <4>1. g2.left = c /\ g2.right = q
        BY <1>8, <3>1 DEF Parted
      <4> QED
        BY <2>3, <3>1, <4>1
    <3>2. CASE ~d
      <4>1. g2.right = c /\ g2.left = q
        BY <1>8, <3>2 DEF Parted
      <4> QED
        BY <2>3, <3>2, <4>1
    <3> QED
      BY <3>1, <3>2
  <2>5. \A n \in R, b \in BOOLEAN :
         LET e == t2[n].children[b] IN
         ~AtHole(g2, n, b) /\ e # NoNode => e # g2.left /\ e # g2.right
    <3>1. \A x : x # c /\ x # q => x # g2.left /\ x # g2.right
      BY <1>8 DEF Parted
    <3> QED
      BY <1>12, <3>1
  <2>6. h2 # g2.left /\ h2 # g2.right
    BY <1>8, <1>14 DEF Parted
  <2> QED
    BY <1>2, <1>8, <2>1, <2>4, <2>5, <2>6 DEF HoleIsWhole
<1>16. IsTree(t2, h2, g2, R, sub2)
  BY <1>8, <1>9, <1>10, <1>11, <1>13, <1>14, <1>15 DEF IsTree
<1> QED
  BY <1>16 DEF sub2

-----------------------------------------------------------------------------
(* The nodes as records.                                                   *)

NodeAt(t, n) ==
  /\ t[n] = Fields(t[n])
  /\ [addr |-> t[n].addr, name |-> t[n].name] \in Entry
  /\ t[n].parent \in Node
  /\ t[n].children \in [BOOLEAN -> Node]

NodesFit(t, D) == t = [n \in D |-> t[n]] /\ \A n \in D : NodeAt(t, n)

\* A node that differs in what it links to.
Relinked(x, side, c) == [x EXCEPT !.children[side] = c]

\* It is a node, and nothing else of it differs.
LEMMA RelinkedIs ==
  ASSUME NEW x, x = Fields(x), x.children \in [BOOLEAN -> Node],
         NEW side \in BOOLEAN, NEW c \in Node
  PROVE  LET y == Relinked(x, side, c) IN
         /\ y.addr = x.addr /\ y.name = x.name /\ y.parent = x.parent
         /\ y.children \in [BOOLEAN -> Node]
         /\ \A b \in BOOLEAN : y.children[b] = IF b = side THEN c ELSE x.children[b]
         /\ y = Fields(y)
<1> DEFINE f == x.children
           k == [f EXCEPT ![side] = c]
           y == Relinked(x, side, c)
<1>1. k \in [BOOLEAN -> Node]
      /\ \A b \in BOOLEAN : k[b] = IF b = side THEN c ELSE f[b]
  <2>1. f \in [BOOLEAN -> Node]
    OBVIOUS
  <2> HIDE DEF f
  <2> QED
    BY <2>1
<1>2. x = [addr |-> x.addr, name |-> x.name, parent |-> x.parent,
           children |-> x.children]
  BY DEF Fields
<1>3. y = [x EXCEPT !.children = k]
  BY DEF Relinked
<1> HIDE DEF k, y, f
<1>4. y = [addr |-> x.addr, name |-> x.name, parent |-> x.parent, children |-> k]
  BY <1>2, <1>3
<1>5. /\ y.addr = x.addr /\ y.name = x.name /\ y.parent = x.parent /\ y.children = k
      /\ y = Fields(y)
  BY <1>4 DEF Fields
<1> QED
  BY <1>1, <1>5 DEF y, f

\* The nodes after one link of them is set.
LEMMA LinkedIs ==
  ASSUME NEW t, NEW D, NodesFit(t, D), NoNode \notin D, NEW at \in D \cup {NoNode},
         NEW side \in BOOLEAN, NEW c \in Node
  PROVE  LET t2 == Linked(t, at, side, c) IN
         /\ NodesFit(t2, D)
         /\ \A n \in D : /\ t2[n].addr = t[n].addr /\ t2[n].name = t[n].name
                         /\ t2[n].parent = t[n].parent
                         /\ \A b \in BOOLEAN : t2[n].children[b] =
                              IF n = at /\ b = side THEN c ELSE t[n].children[b]
<1> DEFINE t2 == Linked(t, at, side, c)
<1>1. CASE at = NoNode
  <2>1. t2 = t
    BY <1>1 DEF Linked
  <2> QED
    BY <1>1, <2>1
<1>2. CASE at # NoNode
  <2> DEFINE y == Relinked(t[at], side, c)
  <2>1. at \in D
    BY <1>2
  <2>2. t2 = [t EXCEPT ![at] = y]
    BY <1>2 DEF Linked, Relinked
  <2>3. t[at] = Fields(t[at]) /\ t[at].children \in [BOOLEAN -> Node]
    BY <2>1 DEF NodesFit, NodeAt
  <2>4. /\ y.addr = t[at].addr /\ y.name = t[at].name /\ y.parent = t[at].parent
        /\ y.children \in [BOOLEAN -> Node]
        /\ \A b \in BOOLEAN :
             y.children[b] = IF b = side THEN c ELSE t[at].children[b]
        /\ y = Fields(y)
    BY <2>3, RelinkedIs
  <2> HIDE DEF y, t2
  <2>5. t2 = [n \in D |-> t2[n]] /\ t2[at] = y
        /\ \A n \in D : n # at => t2[n] = t[n]
    BY <2>1, <2>2 DEF NodesFit
  <2>6. ASSUME NEW n \in D
        PROVE  /\ t2[n].addr = t[n].addr /\ t2[n].name = t[n].name
               /\ t2[n].parent = t[n].parent
               /\ \A b \in BOOLEAN : t2[n].children[b] =
                              IF n = at /\ b = side THEN c ELSE t[n].children[b]
               /\ NodeAt(t2, n)
    <3>1. CASE n = at
      <4>1. t2[n] = y
        BY <2>5, <3>1
      <4>2. NodeAt(t, at)
        BY <2>1 DEF NodesFit
      <4>3. NodeAt(t2, n)
        BY <2>4, <4>1, <4>2 DEF NodeAt
      <4> QED
        BY <2>4, <3>1, <4>1, <4>3
    <3>2. CASE n # at
      <4>1. t2[n] = t[n]
        BY <2>5, <3>2
      <4>2. NodeAt(t, n)
        BY DEF NodesFit
      <4>3. NodeAt(t2, n)
        BY <4>1, <4>2 DEF NodeAt
      <4> QED
        BY <3>2, <4>1, <4>3
    <3> QED
      BY <3>1, <3>2
  <2>7. NodesFit(t2, D)
    BY <2>5, <2>6 DEF NodesFit
  <2> QED
    BY <2>6, <2>7 DEF t2
<1> QED
  BY <1>1, <1>2

\* LogTyped by nodes.
LEMMA TypedShape ==
  LogTyped <=>
    /\ NodesFit(iplogs, DOMAIN iplogs)
    /\ DOMAIN iplogs = IF iplog_full THEN Slot ELSE 0..iplog_next - 1
    /\ iplog_head \in Node /\ iplog_next \in Slot /\ iplog_full \in BOOLEAN
    /\ merge \in Merging
    /\ merge.on => iplog_full
BY DEF LogTyped, NodesFit, NodeAt, EntryOf

-----------------------------------------------------------------------------
(* The steps of a merge.                                                   *)

\* A node with another parent.
LEMMA ParentIs ==
  ASSUME NEW x, x = Fields(x), NEW v
  PROVE  LET y == [x EXCEPT !.parent = v] IN
         /\ y.addr = x.addr /\ y.name = x.name /\ y.parent = v
         /\ y.children = x.children /\ y = Fields(y)
<1> DEFINE y == [x EXCEPT !.parent = v]
<1>1. x = [addr |-> x.addr, name |-> x.name, parent |-> x.parent,
           children |-> x.children]
  BY DEF Fields
<1>2. y = [addr |-> x.addr, name |-> x.name, parent |-> v, children |-> x.children]
  BY <1>1
<1> HIDE DEF y
<1>3. /\ y.addr = x.addr /\ y.name = x.name /\ y.parent = v
      /\ y.children = x.children /\ y = Fields(y)
  BY <1>2 DEF Fields
<1> QED
  BY <1>3 DEF y

\* The nodes after Place.
LEMMA PlacedNode ==
  ASSUME NEW D, NodesFit(iplogs, D), NoNode \notin D, D \subseteq Slot,
         merge \in Merging, merge.on, merge.at \in D \cup {NoNode},
         NEW n \in D \cup {NoNode}, Place(n)
  PROVE  /\ NodesFit(iplogs', D)
         /\ Placed(iplogs, iplog_head, merge, D, iplogs', iplog_head', n)
         /\ \A m \in D : iplogs'[m].name = iplogs[m].name
<1> DEFINE nodes == Linked(iplogs, merge.at, merge.side, n)
           t2 == iplogs'
           y == [nodes[n] EXCEPT !.parent = merge.at]
<1>1. merge.side \in BOOLEAN /\ merge.at \in Node /\ n \in Node
  BY DEF Merging, Node
<1>2. /\ NodesFit(nodes, D)
      /\ \A m \in D : /\ nodes[m].addr = iplogs[m].addr
                      /\ nodes[m].name = iplogs[m].name
                      /\ nodes[m].parent = iplogs[m].parent
                      /\ \A b \in BOOLEAN : nodes[m].children[b] =
                           IF m = merge.at /\ b = merge.side THEN n
                           ELSE iplogs[m].children[b]
  BY <1>1, LinkedIs
<1>3. t2 = (IF n = NoNode THEN nodes ELSE [nodes EXCEPT ![n] = y])
      /\ iplog_head' = IF merge.at = NoNode THEN n ELSE iplog_head
  BY DEF Place
<1> HIDE DEF nodes, t2
<1>4. /\ NodesFit(t2, D)
      /\ \A m \in D : /\ t2[m].addr = nodes[m].addr /\ t2[m].name = nodes[m].name
                      /\ t2[m].parent = IF m = n THEN merge.at ELSE nodes[m].parent
                      /\ t2[m].children = nodes[m].children
  <2>1. CASE n = NoNode
    BY <1>2, <1>3, <2>1
  <2>2. CASE n # NoNode
    <3>1. n \in D /\ nodes[n] = Fields(nodes[n])
      BY <1>2, <2>2 DEF NodesFit, NodeAt
    <3>2. /\ y.addr = nodes[n].addr /\ y.name = nodes[n].name
          /\ y.parent = merge.at /\ y.children = nodes[n].children /\ y = Fields(y)
      BY <3>1, ParentIs
    <3> HIDE DEF y
    <3>3. t2 = [m \in D |-> t2[m]] /\ t2[n] = y
          /\ \A m \in D : m # n => t2[m] = nodes[m]
      BY <1>2, <1>3, <2>2, <3>1 DEF NodesFit
    <3>4. ASSUME NEW m \in D
          PROVE  NodeAt(t2, m)
      <4>1. NodeAt(nodes, m)
        BY <1>2 DEF NodesFit
      <4>2. CASE m = n
        <5>1. t2[m] = y /\ NodeAt(nodes, n)
          BY <3>3, <4>1, <4>2
        <5> QED
          BY <1>1, <3>2, <5>1 DEF NodeAt
      <4>3. CASE m # n
        <5>1. t2[m] = nodes[m]
          BY <3>3, <4>3
        <5> QED
          BY <4>1, <5>1 DEF NodeAt
      <4> QED
        BY <4>2, <4>3
    <3>5. ASSUME NEW m \in D
          PROVE  /\ t2[m].addr = nodes[m].addr /\ t2[m].name = nodes[m].name
                 /\ t2[m].parent = IF m = n THEN merge.at ELSE nodes[m].parent
                 /\ t2[m].children = nodes[m].children
      <4>1. CASE m = n
        BY <3>2, <3>3, <4>1
      <4>2. CASE m # n
        BY <3>3, <4>2
      <4> QED
        BY <4>1, <4>2
    <3>6. NodesFit(t2, D)
      BY <3>3, <3>4 DEF NodesFit
    <3> QED
      BY <3>5, <3>6
  <2> QED
    BY <2>1, <2>2
<1>5. \A m \in D : /\ t2[m].addr = iplogs[m].addr
                   /\ t2[m].parent = IF m = n THEN merge.at ELSE iplogs[m].parent
                   /\ t2[m].name = iplogs[m].name
  BY <1>2, <1>4
<1>6. \A m \in D, b \in BOOLEAN :
        t2[m].children[b] = IF AtHole(merge, m, b) THEN n ELSE iplogs[m].children[b]
  <2>1. \A m, b : AtHole(merge, m, b) <=> m = merge.at /\ b = merge.side
    BY DEF AtHole
  <2> QED
    BY <1>2, <1>4, <2>1
<1>7. Placed(iplogs, iplog_head, merge, D, t2, iplog_head', n)
  BY <1>3, <1>5, <1>6 DEF Placed
<1> QED
  BY <1>4, <1>5, <1>7 DEF t2

\* It may be said of fewer nodes.
LEMMA PlacedFewer ==
  ASSUME NEW t, NEW h, NEW g, NEW D, NEW R, R \subseteq D, NEW t2, NEW h2, NEW p,
         Placed(t, h, g, D, t2, h2, p)
  PROVE  Placed(t, h, g, R, t2, h2, p)
BY DEF Placed

\* Who keeps its address and name in every slot keeps the records.
LEMMA SameRecords ==
  ASSUME LogTyped, UNCHANGED <<iplog_next, iplog_full>>,
         \A n \in DOMAIN iplogs :
           iplogs'[n].addr = iplogs[n].addr /\ iplogs'[n].name = iplogs[n].name
  PROVE  /\ Records' = Records
         /\ Logged' = Logged /\ Many' = Many /\ AgesIs' = AgesIs
         /\ \A i \in 1..Many : iplogs'[AgesIs[i]].addr = iplogs[AgesIs[i]].addr
<1>1. iplog_next \in Slot /\ iplog_full \in BOOLEAN /\ Logged \subseteq DOMAIN iplogs
  BY TypedIs
<1>2. DOMAIN Ring = 1..Many /\ Ring = AgesIs
  BY <1>1, RingIs DEF Many, AgesIs
<1>3. Ring' = Ring
  BY DEF Ring
<1>4. \A i \in 1..Many : AgesIs[i] \in DOMAIN iplogs
  BY <1>1, TypedIs DEF Numbers
<1>5. Records' = [i \in DOMAIN Ring' |-> [addr |-> iplogs'[Ring'[i]].addr,
                                           name |-> iplogs'[Ring'[i]].name]]
  BY DEF Records, EntryOf
<1>6. Records = [i \in DOMAIN Ring |-> [addr |-> iplogs[Ring[i]].addr,
                                         name |-> iplogs[Ring[i]].name]]
  BY DEF Records, EntryOf
<1>7. Records' = Records
  BY <1>2, <1>3, <1>4, <1>5, <1>6
<1>8. Logged' = Logged /\ Many' = Many /\ AgesIs' = AgesIs
  BY DEF Logged, Many, AgesIs
<1> QED
  BY <1>4, <1>7, <1>8

\* The order of age in larger trees.
LEMMA WiderOrder ==
  ASSUME NEW t, NEW t2, NEW r, NEW K, NEW R, NEW sub, NEW sub2, Numbers(r, K, R),
         AgeOrder(t, r, K, sub), \A i \in 1..K : t2[r[i]].addr = t[r[i]].addr,
         \A n \in R : sub[n] \subseteq sub2[n]
  PROVE  AgeOrder(t2, r, K, sub2)
BY DEF AgeOrder, Numbers

\* A step of the merge keeps the tree, ...
LEMMA MergeStep ==
  ASSUME LogTyped, NEW sub, LogTree(sub), IPLog_Merge
  PROVE  /\ merge' \in Merging
         /\ \E n \in Logged \cup {NoNode} : Place(n)
         /\ \E sub2 : /\ IsTree(iplogs', iplog_head', merge', Logged, sub2)
                      /\ \A n \in Logged : sub[n] \subseteq sub2[n]
<1>1. merge.on /\ merge \in Merging /\ HoledTree(iplogs, iplog_head, merge, Logged, sub)
  BY TypedIs DEF IPLog_Merge, HoledTree, LogTree, LogTyped
<1>2. /\ merge.left \in Logged \cup {NoNode} /\ merge.right \in Logged \cup {NoNode}
      /\ merge.at \in Logged \cup {NoNode}
  <2>1. HoleIsWhole(iplogs, iplog_head, merge, Logged, sub)
    BY <1>1, TreeRoot DEF HoledTree
  <2> QED
    BY <1>1, <2>1 DEF HoleIsWhole
<1> DEFINE D == DOMAIN iplogs
<1>3. Logged \subseteq D /\ D \subseteq Slot /\ NodesFit(iplogs, D) /\ NoNode \notin D
  BY TypedIs, TypedShape, SizeIs
<1>4. \A n \in Logged : iplogs[n].children \in [BOOLEAN -> Node] /\ n \in Node
  BY TypedIs DEF Node
<1>5. ASSUME NEW n \in Logged \cup {NoNode}, Place(n)
      PROVE  Placed(iplogs, iplog_head, merge, Logged, iplogs', iplog_head', n)
  <2> HIDE DEF D
  <2>1. n \in D \cup {NoNode} /\ merge.at \in D \cup {NoNode}
    BY <1>2, <1>3
  <2>2. Placed(iplogs, iplog_head, merge, D, iplogs', iplog_head', n)
    BY <1>1, <1>3, <1>5, <2>1, PlacedNode
  <2> QED
    BY <1>3, <2>2, PlacedFewer
<1> HIDE DEF D
<1>6. CASE /\ merge.left = NoNode \/ merge.right = NoNode
           /\ Place(IF merge.left = NoNode THEN merge.right ELSE merge.left)
           /\ merge' = NoMerge
  <2> DEFINE n == IF merge.left = NoNode THEN merge.right ELSE merge.left
             d == merge.left # NoNode
  <2>1. n \in Logged \cup {NoNode} /\ Place(n) /\ d \in BOOLEAN
    BY <1>2, <1>6
  <2>2. Parted(merge, n, NoNode, d)
    BY <1>6 DEF Parted
  <2>3. ~merge'.on /\ merge' \in Merging
    BY <1>6 DEF NoMerge, Merging, Node
  <2> HIDE DEF n, d
  <2>4. Placed(iplogs, iplog_head, merge, Logged, iplogs', iplog_head', n)
    BY <1>5, <2>1
  <2>5. IsTree(iplogs', iplog_head', merge', Logged, sub)
    BY <1>1, <2>1, <2>2, <2>3, <2>4, HoleCloses
  <2> QED
    BY <2>1, <2>3, <2>5
<1>7. CASE /\ merge.left # NoNode /\ merge.right # NoNode
           /\ Place(merge.left)
           /\ merge' = [merge EXCEPT
                       !.at = merge.left, !.side = TRUE,
                       !.left = iplogs[merge.left].children[TRUE]]
  <2> DEFINE p == merge.left
             q == merge.right
             c == iplogs[p].children[TRUE]
  <2>1. p \in Logged /\ Place(p) /\ c \in Node /\ p \in Node
    BY <1>2, <1>4, <1>7
  <2>2. Parted(merge, p, q, TRUE)
    BY DEF Parted
  <2>3. merge' = [on |-> merge.on, left |-> c, right |-> q, at |-> p, side |-> TRUE]
    BY <1>1, <1>7 DEF Merging
  <2>4. merge' \in Merging /\ merge'.on
    BY <1>1, <2>1, <2>3 DEF Merging
  <2>5. MergesOn(iplogs, merge', p, q, TRUE)
    BY <1>1, <2>3 DEF MergesOn, Parted
  <2>6. p # NoNode /\ q # NoNode
    BY <1>7
  <2> HIDE DEF p, q, c
  <2>7. Placed(iplogs, iplog_head, merge, Logged, iplogs', iplog_head', p)
    BY <1>5, <2>1
  <2>8. IsTree(iplogs', iplog_head', merge', Logged, Joined(Logged, sub, p, q))
    BY <1>1, <2>2, <2>5, <2>6, <2>7, MergeGoesOn
  <2>9. \A n \in Logged : sub[n] \subseteq Joined(Logged, sub, p, q)[n]
    BY DEF Joined
  <2> QED
    BY <2>1, <2>4, <2>8, <2>9
<1>8. CASE /\ merge.left # NoNode /\ merge.right # NoNode
           /\ Place(merge.right)
           /\ merge' = [merge EXCEPT
                       !.at = merge.right, !.side = FALSE,
                       !.right = iplogs[merge.right].children[FALSE]]
  <2> DEFINE p == merge.right
             q == merge.left
             c == iplogs[p].children[FALSE]
  <2>1. p \in Logged /\ Place(p) /\ c \in Node /\ p \in Node
    BY <1>2, <1>4, <1>8
  <2>2. Parted(merge, p, q, FALSE)
    BY DEF Parted
  <2>3. merge' = [on |-> merge.on, left |-> q, right |-> c, at |-> p, side |-> FALSE]
    BY <1>1, <1>8 DEF Merging
  <2>4. merge' \in Merging /\ merge'.on
    BY <1>1, <2>1, <2>3 DEF Merging
  <2>5. MergesOn(iplogs, merge', p, q, FALSE)
    BY <1>1, <2>3 DEF MergesOn, Parted
  <2>6. p # NoNode /\ q # NoNode
    BY <1>8
  <2> HIDE DEF p, q, c
  <2>7. Placed(iplogs, iplog_head, merge, Logged, iplogs', iplog_head', p)
    BY <1>5, <2>1
  <2>8. IsTree(iplogs', iplog_head', merge', Logged, Joined(Logged, sub, p, q))
    BY <1>1, <2>2, <2>5, <2>6, <2>7, MergeGoesOn
  <2>9. \A n \in Logged : sub[n] \subseteq Joined(Logged, sub, p, q)[n]
    BY DEF Joined
  <2> QED
    BY <2>1, <2>4, <2>8, <2>9
<1> QED
  BY <1>6, <1>7, <1>8 DEF IPLog_Merge

\* ... and the log, and takes nothing from the records.
LEMMA AfterMerge ==
  ASSUME LogTyped, NEW sub, LogTree(sub), IPLog_Merge
  PROVE  /\ LogTyped' /\ \E sub2 : LogTree(sub2)'
         /\ Records' = Records
<1> DEFINE D == DOMAIN iplogs
<1>1. merge.on /\ merge \in Merging /\ UNCHANGED <<iplog_next, iplog_full>>
  BY DEF IPLog_Merge, LogTyped
<1>2. /\ NodesFit(iplogs, D) /\ iplog_head \in Node /\ iplog_next \in Slot
      /\ iplog_full \in BOOLEAN /\ (merge.on => iplog_full)
      /\ D = IF iplog_full THEN Slot ELSE 0..iplog_next - 1
  BY TypedShape
<1>3. Logged \subseteq D /\ D \subseteq Slot /\ NoNode \notin D
  BY TypedIs, SizeIs
<1>4. merge.at \in Logged \cup {NoNode}
  <2>1. HoleIsWhole(iplogs, iplog_head, merge, Logged, sub)
    BY TreeRoot DEF LogTree
  <2> QED
    BY <1>1, <2>1 DEF HoleIsWhole
<1>5. merge' \in Merging
  BY MergeStep
<1>6. PICK n \in Logged \cup {NoNode} : Place(n)
  BY MergeStep
<1>7. PICK sub2 : /\ IsTree(iplogs', iplog_head', merge', Logged, sub2)
                  /\ \A m \in Logged : sub[m] \subseteq sub2[m]
  BY MergeStep
<1>8. /\ NodesFit(iplogs', D)
      /\ Placed(iplogs, iplog_head, merge, D, iplogs', iplog_head', n)
      /\ \A m \in D : iplogs'[m].name = iplogs[m].name
  <2> HIDE DEF D
  <2>1. n \in D \cup {NoNode} /\ merge.at \in D \cup {NoNode}
    BY <1>3, <1>4, <1>6
  <2> QED
    BY <1>1, <1>2, <1>3, <1>6, <2>1, PlacedNode
<1>9. \A m \in D : iplogs'[m].addr = iplogs[m].addr
  BY <1>8 DEF Placed
<1>10. /\ Records' = Records
       /\ Logged' = Logged /\ Many' = Many /\ AgesIs' = AgesIs
       /\ \A i \in 1..Many : iplogs'[AgesIs[i]].addr = iplogs[AgesIs[i]].addr
  BY <1>1, <1>8, <1>9, SameRecords
<1>11. AgeOrder(iplogs', AgesIs, Many, sub2)
  <2>1. Numbers(AgesIs, Many, Logged) /\ AgeOrder(iplogs, AgesIs, Many, sub)
    BY TypedIs DEF LogTree
  <2> QED
    BY <1>7, <1>10, <2>1, WiderOrder
<1>12. LogTree(sub2)'
  BY <1>7, <1>10, <1>11 DEF LogTree
<1>13. LogTyped'
  <2>1. DOMAIN iplogs' = D /\ NodesFit(iplogs', DOMAIN iplogs')
    <3>1. iplogs' = [m \in D |-> iplogs'[m]]
      BY <1>8 DEF NodesFit
    <3> HIDE DEF D
    <3>2. DOMAIN iplogs' = D
      BY <3>1
    <3> QED
      BY <1>8, <3>2
  <2>2. iplog_head' \in Node
    <3>1. iplog_head' = n \/ iplog_head' = iplog_head
      BY <1>8 DEF Placed
    <3> QED
      BY <1>2, <1>3, <3>1 DEF Node
  <2>3. iplog_full'
    BY <1>1, <1>2
  <2> HIDE DEF D
  <2>4. DOMAIN iplogs' = IF iplog_full' THEN Slot ELSE 0..iplog_next' - 1
    BY <1>1, <1>2, <2>1
  <2>5. iplog_next' \in Slot /\ iplog_full' \in BOOLEAN
    BY <1>1, <1>2
  <2>6. LogTyped' <=>
    (/\ NodesFit(iplogs, DOMAIN iplogs)
     /\ DOMAIN iplogs = IF iplog_full THEN Slot ELSE 0..iplog_next - 1
     /\ iplog_head \in Node /\ iplog_next \in Slot /\ iplog_full \in BOOLEAN
     /\ merge \in Merging
     /\ merge.on => iplog_full)'
    BY DEF LogTyped, NodesFit, NodeAt, EntryOf
  <2> QED
    BY <1>5, <2>1, <2>2, <2>3, <2>4, <2>5, <2>6
<1> QED
  BY <1>10, <1>12, <1>13

-----------------------------------------------------------------------------
(* A new node.                                                             *)

RecordsOf(t) ==
  [i \in 1..Many |-> [addr |-> t[AgesIs[i]].addr, name |-> t[AgesIs[i]].name]]

\* The ring, now and after a step.
LEMMA RingOnly ==
  iplog_next \in Slot /\ iplog_full \in BOOLEAN =>
    Ring = AgesIs /\ DOMAIN Ring = 1..Many
BY RingIs DEF AgesIs, Many

LEMMA RecordsNext ==
  (iplog_next \in Slot /\ iplog_full \in BOOLEAN =>
     Ring = AgesIs /\ DOMAIN Ring = 1..Many)'
<1>1. iplog_next \in Slot /\ iplog_full \in BOOLEAN =>
        Ring = AgesIs /\ DOMAIN Ring = 1..Many
  BY RingOnly
<1> QED
  BY <1>1, PTL

\* The nodes with a new one that is linked at p.
NewNodes(e, p) ==
  [n \in DOMAIN iplogs \cup {iplog_next} |->
     IF n = iplog_next THEN New(e, p) ELSE iplogs[n]]
Grafted(e, p) ==
  Linked(NewNodes(e, p), p, p # NoNode /\ e.addr > iplogs[p].addr, iplog_next)

\* Where the way to address a ends.
EndOf(a, p) ==
  IF iplog_head = NoNode THEN p = NoNode ELSE p \in Path(a) /\ Down(a, p) = NoNode

\* AddNode in these terms.
LEMMA AddNodeIs ==
  ASSUME NEW R, NEW sub, Looked(R, sub), NEW e \in Entry, AddNode(e)
  PROVE  \E p \in R \cup {NoNode} :
           /\ EndOf(e.addr, p)
           /\ p = NoNode <=> iplog_head = NoNode
           /\ iplogs' = Grafted(e, p)
           /\ iplog_head' = IF p = NoNode THEN iplog_next ELSE iplog_head
           /\ iplog_next' = Following(iplog_next)
           /\ iplog_full' = (iplog_full \/ Following(iplog_next) = 0)
           /\ iplog_full' => TakesOut(iplogs', merge', iplog_next')
           /\ ~iplog_full' => merge' = NoMerge
<1> DEFINE a == e.addr
           Ends(n) == iplogs[n].children[e.addr > iplogs[n].addr] = NoNode
           p == IF iplog_head = NoNode THEN NoNode
                ELSE CHOOSE n \in Path(e.addr) : Ends(n)
           o == iplog_next'
           g == merge'
<1>1. a \in Int
  BY EntriesAre
<1>2. EndOf(a, p)
  <2>1. CASE iplog_head = NoNode
    BY <2>1 DEF EndOf
  <2>2. CASE iplog_head # NoNode
    <3>1. \E n \in Path(e.addr) : Ends(n)
      BY <1>1, <2>2, PathEnds DEF Down
    <3> QED
      BY <2>2, <3>1 DEF EndOf, Down
  <2> QED
    BY <2>1, <2>2
<1>3. /\ iplogs' = Grafted(e, p)
      /\ iplog_head' = IF p = NoNode THEN iplog_next ELSE iplog_head
      /\ iplog_next' = Following(iplog_next)
      /\ iplog_full' = (iplog_full \/ Following(iplog_next) = 0)
      /\ merge' = IF ~iplog_full' THEN NoMerge
                  ELSE LET old == iplogs'[iplog_next']
                           above == old.parent IN
                       [on |-> TRUE, left |-> old.children[FALSE],
                        right |-> old.children[TRUE], at |-> above,
                        side |-> above # NoNode /\ old.addr > iplogs'[above].addr]
  <2> DEFINE next == Following(iplog_next)
             new == Grafted(e, p)
             old == new[next]
             above == old.parent
  <2>1. /\ iplogs' = new
        /\ iplog_head' = IF p = NoNode THEN iplog_next ELSE iplog_head
        /\ iplog_next' = next
        /\ iplog_full' = (iplog_full \/ next = 0)
        /\ merge' = IF ~iplog_full' THEN NoMerge
                    ELSE [on |-> TRUE, left |-> old.children[FALSE],
                          right |-> old.children[TRUE], at |-> above,
                          side |-> above # NoNode /\ old.addr > new[above].addr]
    BY ONLY AddNode(e) DEF AddNode, Grafted, NewNodes
  <2> HIDE DEF p, new, next
  <2> QED
    BY ONLY <2>1 DEF next, new
<1> HIDE DEF p
<1>4. p \in R \cup {NoNode} /\ (p = NoNode <=> iplog_head = NoNode)
  <2>1. NoNode \notin R
    BY LookedRoot
  <2>2. Path(a) \subseteq R
    BY <1>1, PathIs
  <2> QED
    BY <1>2, <2>1, <2>2 DEF EndOf
<1>5. iplog_full' => TakesOut(iplogs', merge', iplog_next')
  BY <1>3 DEF TakesOut
<1>6. ~iplog_full' => merge' = NoMerge
  BY <1>3
<1> QED
  BY <1>2, <1>3, <1>4, <1>5, <1>6

\* A new node.
LEMMA NewIs ==
  ASSUME NEW e \in Entry, NEW p
  PROVE  LET y == New(e, p) IN
         /\ y = Fields(y) /\ y.addr = e.addr /\ y.name = e.name /\ y.parent = p
         /\ y.children \in [BOOLEAN -> Node] /\ \A b \in BOOLEAN : y.children[b] = NoNode
         /\ [addr |-> y.addr, name |-> y.name] \in Entry
BY EntriesAre DEF New, Fields, Node

\* The nodes with the new one.
LEMMA GraftIs ==
  ASSUME LogTyped, NEW sub, LogTree(sub), ~merge.on, NEW e \in Entry,
         NEW p \in Logged \cup {NoNode}, EndOf(e.addr, p)
  PROVE  LET t2 == Grafted(e, p) IN
         /\ NodesFit(t2, DOMAIN iplogs \cup {iplog_next})
         /\ PutUnder(t2, Logged, e.addr, iplog_next, p)
         /\ \A n \in Logged : t2[n].name = iplogs[n].name
         /\ t2[iplog_next].name = e.name
<1> DEFINE D == DOMAIN iplogs
           x == iplog_next
           D2 == D \cup {x}
           t1 == NewNodes(e, p)
           s == p # NoNode /\ e.addr > iplogs[p].addr
           t2 == Grafted(e, p)
<1>1. /\ x \in Slot /\ NoNode \notin Slot /\ D \subseteq Slot /\ Logged \subseteq D
      /\ NodesFit(iplogs, D)
  BY TypedIs, TypedShape, SizeIs
<1>2. x \notin Logged
  BY TypedIs, RingApart DEF Logged
<1>3. NodesFit(t1, D2)
  <2>1. t1 = [n \in D2 |-> t1[n]]
    BY DEF NewNodes
  <2>2. ASSUME NEW n \in D2
        PROVE  NodeAt(t1, n)
    <3>1. CASE n = x
      <4>1. t1[n] = New(e, p)
        BY <3>1 DEF NewNodes
      <4>2. p \in Node
        BY <1>1 DEF Node
      <4> QED
        BY <4>1, <4>2, NewIs DEF NodeAt
    <3>2. CASE n # x
      <4>1. t1[n] = iplogs[n] /\ n \in D
        BY <3>2 DEF NewNodes
      <4>2. NodeAt(iplogs, n)
        BY <1>1, <4>1 DEF NodesFit
      <4> QED
        BY <4>1, <4>2 DEF NodeAt
    <3> QED
      BY <3>1, <3>2
  <2> HIDE DEF t1, D2
  <2> QED
    BY <2>1, <2>2 DEF NodesFit
<1>4. t1[x] = New(e, p) /\ \A n \in Logged : t1[n] = iplogs[n]
  BY <1>1, <1>2 DEF NewNodes
<1>5. t2 = Linked(t1, p, s, x)
  BY DEF Grafted
<1>6. s \in BOOLEAN /\ x \in Node /\ p \in D2 \cup {NoNode} /\ NoNode \notin D2
  BY <1>1 DEF Node
<1>7. p # NoNode => s = Side(e.addr, p)
  BY DEF Side
<1>8. p # x
  BY <1>1, <1>2
<1> HIDE DEF D2, t1, s, t2
<1>9. /\ NodesFit(t2, D2)
      /\ \A n \in D2 : /\ t2[n].addr = t1[n].addr /\ t2[n].name = t1[n].name
                       /\ t2[n].parent = t1[n].parent
                       /\ \A b \in BOOLEAN : t2[n].children[b] =
                            IF n = p /\ b = s THEN x ELSE t1[n].children[b]
  BY <1>3, <1>5, <1>6, LinkedIs
<1>10. x \in D2 /\ Logged \subseteq D2
  BY <1>1 DEF D2
<1>11. /\ t2[x].addr = e.addr /\ t2[x].parent = p /\ t2[x].name = e.name
       /\ \A b \in BOOLEAN : t2[x].children[b] = NoNode
  <2> DEFINE y == New(e, p)
  <2>1. y.addr = e.addr /\ y.name = e.name /\ y.parent = p
        /\ \A b \in BOOLEAN : y.children[b] = NoNode
    BY NewIs
  <2> HIDE DEF y
  <2>2. t1[x] = y
    BY <1>4 DEF y
  <2> QED
    BY <1>8, <1>9, <1>10, <2>1, <2>2
<1>12. \A n \in Logged : /\ t2[n].addr = iplogs[n].addr /\ t2[n].name = iplogs[n].name
                       /\ t2[n].parent = iplogs[n].parent
  BY <1>4, <1>9, <1>10
<1>13. \A n \in Logged, b \in BOOLEAN :
         t2[n].children[b] = IF n = p /\ b = Side(e.addr, p) THEN x
                             ELSE iplogs[n].children[b]
  <2> QED
    BY <1>1, <1>4, <1>7, <1>9, <1>10
<1>14. PutUnder(t2, Logged, e.addr, x, p)
  BY <1>11, <1>12, <1>13 DEF PutUnder, EndOf
<1> QED
  BY <1>9, <1>11, <1>12, <1>14 DEF D2, t2

\* The ring with one more at its end.
More(r, K, x) == [i \in 1..K + 1 |-> IF i = K + 1 THEN x ELSE r[i]]

\* The order of age with one more, ...
LEMMA OrderOfMore ==
  ASSUME NEW R, NEW sub, Looked(R, sub), NEW r, NEW K, Numbers(r, K, R),
         AgeOrder(iplogs, r, K, sub), NEW a \in Int, NEW x, x \notin R,
         NEW t2, \A n \in R : t2[n].addr = iplogs[n].addr, t2[x].addr = a
  PROVE  AgeOrder(t2, More(r, K, x), K + 1, Grown(R, sub, a, x))
<1> DEFINE r2 == More(r, K, x)
           sub2 == Grown(R, sub, a, x)
<1>1. /\ K \in Nat /\ \A i \in 1..K : r[i] \in R
      /\ \A n \in R : sub[n] \subseteq sub2[n]
      /\ \A n \in R : n \in Path(a) => x \in sub2[n]
      /\ \A n \in R : iplogs[n].addr = a => n \in Path(a)
  <2>1. \A n \in R : iplogs[n].addr = a => n \in Path(a)
    BY PathIs
  <2> QED
    BY <2>1 DEF Numbers, Grown
<1>2. r2[K + 1] = x /\ \A i \in 1..K : r2[i] = r[i]
  BY <1>1 DEF More
<1> HIDE DEF r2, sub2
<1>3. ASSUME NEW i \in 1..K + 1, NEW j \in 1..K + 1, i < j,
             t2[r2[i]].addr = t2[r2[j]].addr
      PROVE  r2[j] \in sub2[r2[i]]
  <2>1. i \in 1..K /\ r2[i] = r[i] /\ r[i] \in R
    BY <1>1, <1>2, <1>3
  <2>2. CASE j = K + 1
    <3>1. iplogs[r[i]].addr = a
      BY <1>2, <1>3, <2>1, <2>2
    <3> QED
      BY <1>1, <1>2, <2>1, <2>2, <3>1
  <2>3. CASE j # K + 1
    <3>1. j \in 1..K /\ r2[j] = r[j] /\ r[j] \in R
      BY <1>1, <1>2, <1>3, <2>3
    <3>2. iplogs[r[i]].addr = iplogs[r[j]].addr
      BY <1>3, <2>1, <3>1
    <3>3. r[j] \in sub[r[i]]
      BY <1>3, <2>1, <3>1, <3>2 DEF AgeOrder
    <3> QED
      BY <1>1, <2>1, <3>1, <3>3
  <2> QED
    BY <2>2, <2>3
<1> QED
  BY <1>3 DEF AgeOrder, r2, sub2

\* ... and without the oldest.
LEMMA OrderOfLess ==
  ASSUME NEW t, NEW r, NEW K \in Nat, NEW R, NEW sub, AgeOrder(t, r, K + 1, sub),
         \A i \in 1..K + 1 : r[i] \in R,
         \A i, j \in 1..K + 1 : r[i] = r[j] => i = j,
         NEW r2, \A i \in 1..K : r2[i] = r[i + 1]
  PROVE  AgeOrder(t, r2, K, WithoutNode(R, sub, r[1]))
<1> DEFINE o == r[1]
           sub2 == WithoutNode(R, sub, o)
<1>1. ASSUME NEW i \in 1..K, NEW j \in 1..K, i < j, t[r2[i]].addr = t[r2[j]].addr
      PROVE  r2[j] \in sub2[r2[i]]
  <2>1. /\ i + 1 \in 1..K + 1 /\ j + 1 \in 1..K + 1 /\ i + 1 < j + 1 /\ 1 \in 1..K + 1
        /\ i + 1 # 1 /\ j + 1 # 1
    BY <1>1
  <2>2. r2[i] = r[i + 1] /\ r2[j] = r[j + 1]
    OBVIOUS
  <2>3. r[j + 1] \in sub[r[i + 1]]
    BY <1>1, <2>1, <2>2 DEF AgeOrder
  <2>4. r[i + 1] \in R /\ r[i + 1] # o /\ r[j + 1] # o
    BY <2>1
  <2> HIDE DEF o
  <2>5. sub2[r[i + 1]] = sub[r[i + 1]] \ {o}
    BY <2>4 DEF WithoutNode
  <2> QED
    BY <2>2, <2>3, <2>4, <2>5
<1> QED
  BY <1>1 DEF AgeOrder

\* The slots the ring and the tree have after a new node.
LEMMA SlotsAfter ==
  ASSUME LogTyped, iplog_next' = Following(iplog_next),
         iplog_full' = (iplog_full \/ Following(iplog_next) = 0)
  PROVE  /\ iplog_next' \in Slot /\ iplog_full' \in BOOLEAN
         /\ DOMAIN iplogs \cup {iplog_next} =
              IF iplog_full' THEN Slot ELSE 0..iplog_next' - 1
         /\ Many' \in Nat /\ Many' < iplog_size
         /\ iplog_full' =>
              /\ Many + 1 = iplog_size /\ Many' = Many /\ 1 \in 1..Many
              /\ AgesIs[1] = iplog_next' /\ iplog_next' # iplog_next
              /\ Logged' = (Logged \cup {iplog_next}) \ {iplog_next'}
              /\ \A i \in 1..Many :
                   AgesIs'[i] = More(AgesIs, Many, iplog_next)[i + 1]
         /\ ~iplog_full' =>
              /\ Many' = Many + 1 /\ Logged' = Logged \cup {iplog_next}
              /\ \A i \in 1..Many + 1 :
                   AgesIs'[i] = More(AgesIs, Many, iplog_next)[i]
<1> DEFINE next == iplog_next
           full == iplog_full
           after == Following(next)
           full2 == full \/ after = 0
           K == Used(next, full)
           r == InAgeOf(next, full)
           r2 == InAgeOf(after, full2)
<1>1. next \in Slot /\ full \in BOOLEAN /\ iplog_size \in Nat \ {0, 1}
      /\ Slot = 0..iplog_size - 1
      /\ after = IF next + 1 = iplog_size THEN 0 ELSE next + 1
  BY TypedIs, SizeIs
<1>2. /\ after \in Slot /\ full2 \in BOOLEAN
      /\ full2 => /\ K = iplog_size - 1 /\ Used(after, full2) = K /\ K >= 1
                  /\ r[1] = after /\ r2[K] = next /\ after # next
                  /\ \A i \in 1..K - 1 : r2[i] = r[i + 1]
                  /\ LiveSlots(after, full2) =
                       (LiveSlots(next, full) \cup {next}) \ {after}
      /\ ~full2 => /\ Used(after, full2) = K + 1 /\ r2[K + 1] = next
                   /\ \A i \in 1..K : r2[i] = r[i]
                   /\ LiveSlots(after, full2) = LiveSlots(next, full) \cup {next}
                   /\ after = next + 1 /\ ~full
  BY <1>1, RingGoesOn
<1>3. Used(after, full2) \in Nat /\ Used(after, full2) < iplog_size
      /\ K \in Nat /\ K < iplog_size
  BY <1>1, <1>2, RingApart
<1>4. /\ Many = K /\ AgesIs = r /\ Logged = LiveSlots(next, full)
      /\ Many' = Used(after, full2) /\ AgesIs' = r2
      /\ Logged' = LiveSlots(after, full2)
  BY DEF Many, AgesIs, Logged
<1>5. DOMAIN iplogs = IF full THEN Slot ELSE 0..next - 1
  BY DEF LogTyped
<1> DEFINE m == More(r, K, next)
<1>6. m[K + 1] = next /\ \A i \in 1..K : m[i] = r[i]
  BY <1>3 DEF More
<1> HIDE DEF K, r, r2, m, full2
<1>7. full2 => \A i \in 1..K : r2[i] = m[i + 1]
  <2>1. SUFFICES ASSUME full2, NEW i \in 1..K
                 PROVE  r2[i] = m[i + 1]
    OBVIOUS
  <2>2. CASE i = K
    BY <1>2, <1>6, <2>1, <2>2
  <2>3. CASE i # K
    <3>1. i \in 1..K - 1 /\ i + 1 \in 1..K
      BY <1>3, <2>3
    <3> QED
      BY <1>2, <1>6, <2>1, <3>1
  <2> QED
    BY <2>2, <2>3
<1>8. ~full2 => \A i \in 1..K + 1 : r2[i] = m[i]
  <2>1. SUFFICES ASSUME ~full2, NEW i \in 1..K + 1
                 PROVE  r2[i] = m[i]
    OBVIOUS
  <2>2. CASE i = K + 1
    BY <1>2, <1>6, <2>1, <2>2
  <2>3. CASE i # K + 1
    <3>1. i \in 1..K
      BY <1>3, <2>3
    <3> QED
      BY <1>2, <1>6, <2>1, <3>1
  <2> QED
    BY <2>2, <2>3
<1>9. DOMAIN iplogs \cup {next} = IF full2 THEN Slot ELSE 0..after - 1
  <2>1. CASE full
    BY <1>1, <1>5, <2>1 DEF full2
  <2>2. CASE ~full /\ full2
    <3>1. next = iplog_size - 1
      BY <1>1, <2>2 DEF full2
    <3> QED
      BY <1>1, <1>5, <2>2, <3>1
  <2>3. CASE ~full /\ ~full2
    <3>1. after = next + 1
      BY <1>2, <2>3
    <3> QED
      BY <1>1, <1>5, <2>3, <3>1
  <2> QED
    BY <2>1, <2>2, <2>3 DEF full2
<1>10. iplog_next' = after /\ iplog_full' = full2
  BY DEF full2
<1>11. full2 => 1 \in 1..K /\ K + 1 = iplog_size
  BY <1>1, <1>2, <1>3
<1> HIDE DEF after
<1> QED
  BY <1>2, <1>3, <1>4, <1>7, <1>8, <1>9, <1>10, <1>11 DEF m

\* The tree with the new node in it, and what the ring says of it.
LEMMA NodeIsIn ==
  ASSUME LogTyped, NEW sub, LogTree(sub), ~merge.on, NEW e \in Entry, AddNode(e)
  PROVE  LET x == iplog_next
             R2 == Logged \cup {x}
             sub2 == Grown(Logged, sub, e.addr, x)
         IN
         /\ NodesFit(iplogs', DOMAIN iplogs \cup {x})
         /\ WholeTree(iplogs', iplog_head', NoMerge, R2, sub2)
         /\ AgeOrder(iplogs', More(AgesIs, Many, x), Many + 1, sub2)
         /\ \A n \in Logged : /\ iplogs'[n].addr = iplogs[n].addr
                            /\ iplogs'[n].name = iplogs[n].name
         /\ iplogs'[x].addr = e.addr /\ iplogs'[x].name = e.name
         /\ x \notin Logged
<1> DEFINE x == iplog_next
           a == e.addr
           R2 == Logged \cup {x}
           sub2 == Grown(Logged, sub, a, x)
           t2 == iplogs'
<1>1. /\ Looked(Logged, sub) /\ a \in Int /\ Numbers(AgesIs, Many, Logged)
      /\ AgeOrder(iplogs, AgesIs, Many, sub)
  BY TreeIsLooked, EntriesAre, TypedIs DEF LogTree
<1>2. /\ x \in Slot /\ NoNode \notin Slot /\ x # NoNode /\ x \notin Logged
      /\ Logged \subseteq DOMAIN iplogs /\ DOMAIN iplogs \subseteq Slot
  BY TypedIs, SizeIs, RingApart DEF Logged
<1>3. PICK p \in Logged \cup {NoNode} :
         /\ EndOf(a, p)
         /\ p = NoNode <=> iplog_head = NoNode
         /\ t2 = Grafted(e, p)
         /\ iplog_head' = IF p = NoNode THEN x ELSE iplog_head
  BY <1>1, AddNodeIs
<1>4. /\ NodesFit(t2, DOMAIN iplogs \cup {x})
      /\ PutUnder(t2, Logged, a, x, p)
      /\ \A n \in Logged : t2[n].name = iplogs[n].name
      /\ t2[x].name = e.name
  BY <1>3, GraftIs
<1>5. /\ \A n \in Logged : t2[n].addr = iplogs[n].addr
      /\ t2[x].addr = a
  BY <1>4 DEF PutUnder
<1>6. ~NoMerge.on
  BY DEF NoMerge
<1>7. iplog_head' = IF iplog_head = NoNode THEN x ELSE iplog_head
  BY <1>3
<1> HIDE DEF x, a, R2, sub2, t2
<1>8. IsTree(t2, iplog_head', NoMerge, R2, sub2)
  <2> DEFINE h2 == iplog_head'
             g2 == NoMerge
  <2>1. h2 = (IF iplog_head = NoNode THEN x ELSE iplog_head) /\ ~g2.on
    BY <1>6, <1>7
  <2> HIDE DEF h2, g2
  <2>2. IsTree(t2, h2, g2, Logged \cup {x}, Grown(Logged, sub, a, x))
    BY <1>1, <1>2, <1>4, <2>1, TreeGrows
  <2> QED
    BY <2>2 DEF h2, g2, R2, sub2
<1>9. NodesAre(t2, R2)
  <2>1. R2 \subseteq Slot /\ R2 \subseteq DOMAIN iplogs \cup {x}
    BY <1>2 DEF R2
  <2>2. ASSUME NEW n \in R2
        PROVE  /\ t2[n].addr \in Int /\ t2[n].children \in [BOOLEAN -> Node]
               /\ t2[n].parent \in Node
    <3>1. NodeAt(t2, n)
      BY <1>4, <2>1 DEF NodesFit
    <3>2. [addr |-> t2[n].addr, name |-> t2[n].name].addr \in Int
      BY <3>1, EntriesAre DEF NodeAt
    <3> QED
      BY <3>1, <3>2 DEF NodeAt
  <2> QED
    BY <2>1, <2>2 DEF NodesAre
<1>10. WholeTree(t2, iplog_head', NoMerge, R2, sub2)
  BY <1>6, <1>8, <1>9 DEF WholeTree
<1>11. AgeOrder(t2, More(AgesIs, Many, x), Many + 1, sub2)
  <2> DEFINE r == AgesIs
             K == Many
  <2>1. Numbers(r, K, Logged) /\ AgeOrder(iplogs, r, K, sub)
    BY <1>1
  <2> HIDE DEF r, K
  <2>2. AgeOrder(t2, More(r, K, x), K + 1, Grown(Logged, sub, a, x))
    BY <1>1, <1>2, <1>5, <2>1, OrderOfMore
  <2> QED
    BY <2>2 DEF r, K, sub2
<1> QED
  BY <1>2, <1>4, <1>5, <1>10, <1>11 DEF x, a, R2, sub2, t2

\* It stays, or the oldest is taken out of it.
LEMMA TreeAfterNode ==
  ASSUME LogTyped, NEW sub, LogTree(sub), ~merge.on, NEW e \in Entry, AddNode(e)
  PROVE  /\ \E sub2 : /\ IsTree(iplogs', iplog_head', merge', Logged', sub2)
                      /\ AgeOrder(iplogs', AgesIs', Many', sub2)
         /\ merge' \in Merging /\ iplog_head' \in Node
         /\ merge'.on <=> iplog_full'
<1> DEFINE x == iplog_next
           o == iplog_next'
           R2 == Logged \cup {x}
           sub2 == Grown(Logged, sub, e.addr, x)
           m == More(AgesIs, Many, x)
           K == Many
<1>1. /\ WholeTree(iplogs', iplog_head', NoMerge, R2, sub2)
      /\ NodesFit(iplogs', DOMAIN iplogs \cup {x})
      /\ AgeOrder(iplogs', m, K + 1, sub2)
      /\ x \notin Logged
  BY NodeIsIn
<1>2. Looked(Logged, sub) /\ Numbers(AgesIs, K, Logged)
  BY TreeIsLooked, TypedIs
<1>3. \E p \in Logged \cup {NoNode} :
         /\ iplog_next' = Following(iplog_next)
         /\ iplog_full' = (iplog_full \/ Following(iplog_next) = 0)
         /\ iplog_full' => TakesOut(iplogs', merge', o)
         /\ ~iplog_full' => merge' = NoMerge
  BY <1>2, AddNodeIs
<1>4. /\ iplog_full' =>
           /\ K + 1 = iplog_size /\ Many' = K /\ 1 \in 1..K
           /\ AgesIs[1] = o /\ o # x
           /\ Logged' = R2 \ {o}
           /\ \A i \in 1..K : AgesIs'[i] = m[i + 1]
      /\ ~iplog_full' =>
           /\ Many' = K + 1 /\ Logged' = R2
           /\ \A i \in 1..K + 1 : AgesIs'[i] = m[i]
  BY <1>3, SlotsAfter
<1>5. K \in Nat /\ m[K + 1] = x /\ \A i \in 1..K : m[i] = AgesIs[i]
  BY <1>2 DEF More, Numbers
<1>6. /\ \A i \in 1..K + 1 : m[i] \in R2
      /\ \A i, j \in 1..K + 1 : m[i] = m[j] => i = j
  <2>1. /\ \A i \in 1..K : AgesIs[i] \in Logged
        /\ \A i, j \in 1..K : AgesIs[i] = AgesIs[j] => i = j
    BY <1>2 DEF Numbers
  <2> HIDE DEF m, K, x
  <2>2. \A i \in 1..K + 1 : i = K + 1 \/ i \in 1..K
    BY <1>5
  <2> QED
    BY <1>1, <1>5, <2>1, <2>2
<1>7. IsTree(iplogs', iplog_head', NoMerge, R2, sub2) /\ NodesAre(iplogs', R2)
      /\ ~NoMerge.on
  BY <1>1 DEF WholeTree
<1>8. iplog_head' \in Node
  <2>1. R2 # {}
    OBVIOUS
  <2>2. iplog_head' \in R2
    <3> DEFINE h2 == iplog_head'
               g2 == NoMerge
    <3>1. WholeTree(iplogs', h2, g2, R2, sub2)
      BY <1>1
    <3> HIDE DEF h2, g2, R2, sub2
    <3>2. h2 \in R2
      BY <2>1, <3>1, WholeRoot
    <3> QED
      BY <3>2 DEF h2
  <2>3. R2 \subseteq Slot
    BY <1>7 DEF NodesAre
  <2> QED
    BY <2>2, <2>3 DEF Node
<1> HIDE DEF x, o, R2, sub2, m, K
<1>9. CASE ~iplog_full'
  <2>1. merge' = NoMerge /\ merge' \in Merging /\ ~merge'.on
    <3>1. NoMerge \in Merging /\ ~NoMerge.on
      BY DEF NoMerge, Merging, Node
    <3>2. merge' = NoMerge
      BY <1>3, <1>9
    <3> QED
      BY ONLY <3>1, <3>2
  <2>2. AgeOrder(iplogs', AgesIs', K + 1, sub2)
    BY <1>1, <1>4, <1>9 DEF AgeOrder
  <2>3. Many' = K + 1 /\ Logged' = R2
    BY <1>4, <1>9
  <2> QED
    BY <1>7, <1>8, <1>9, <2>1, <2>2, <2>3
<1>10. CASE iplog_full'
  <2>1. TakesOut(iplogs', merge', o) /\ o \in R2
    <3>1. o \in R2
      <4>1. 1 \in 1..K /\ AgesIs[1] = o
        BY <1>4, <1>10
      <4>2. 1 \in 1..K + 1 /\ m[1] = o
        BY <1>5, <4>1
      <4> QED
        BY <1>6, <4>2
    <3> QED
      BY <1>3, <1>10, <3>1
  <2>2. m[1] = o
    BY <1>4, <1>5, <1>10
  <2> DEFINE sub3 == WithoutNode(R2, sub2, o)
             h2 == iplog_head'
             g2 == merge'
  <2>3. IsTree(iplogs', h2, g2, R2 \ {o}, sub3)
    <3> DEFINE g0 == NoMerge
    <3>1. WholeTree(iplogs', h2, g0, R2, sub2) /\ TakesOut(iplogs', g2, o)
      BY <1>1, <2>1
    <3> HIDE DEF g0, h2, g2
    <3> QED
      BY <2>1, <3>1, TreeShrinks
  <2>4. AgeOrder(iplogs', AgesIs', K, sub3)
    <3> DEFINE r2 == AgesIs'
               t2 == iplogs'
    <3>1. AgeOrder(t2, m, K + 1, sub2) /\ \A i \in 1..K : r2[i] = m[i + 1]
      BY <1>1, <1>4, <1>10
    <3> HIDE DEF r2, t2
    <3>2. AgeOrder(t2, r2, K, WithoutNode(R2, sub2, m[1]))
      BY <1>5, <1>6, <3>1, OrderOfLess
    <3> QED
      BY <2>2, <3>2 DEF r2, t2
  <2>5. merge' \in Merging /\ merge'.on
    <3>1. iplogs'[o].children \in [BOOLEAN -> Node] /\ iplogs'[o].parent \in Node
      BY <1>7, <2>1 DEF NodesAre
    <3>2. merge' = [on |-> merge'.on, left |-> merge'.left, right |-> merge'.right,
                    at |-> merge'.at, side |-> merge'.side]
      BY <1>10 DEF AddNode
    <3>3. /\ merge'.on = TRUE /\ merge'.left \in Node /\ merge'.right \in Node
          /\ merge'.at \in Node /\ merge'.side \in BOOLEAN
      BY <1>10, <2>1, <3>1 DEF TakesOut, AddNode
    <3> QED
      BY <3>2, <3>3 DEF Merging
  <2>6. Many' = K /\ Logged' = R2 \ {o}
    BY <1>4, <1>10
  <2> QED
    BY <1>8, <1>10, <2>3, <2>4, <2>5, <2>6
<1> QED
  BY <1>9, <1>10

\* The book forgets the oldest when it is full.
LEMMA ForgetIs ==
  ASSUME NEW s \in Seq(Entry), NEW e \in Entry, Len(s) < iplog_size
  PROVE  /\ Len(s) + 1 < iplog_size =>
              Book!Forget(Append(s, e)) = Append(s, e)
         /\ Len(s) + 1 = iplog_size =>
              Book!Forget(Append(s, e)) = Tail(Append(s, e))
<1>1. Len(Append(s, e)) = Len(s) + 1 /\ Len(s) \in Nat
  BY AppendProperties, LenProperties
<1>2. iplog_size \in Nat
  BY SizeIs
<1> QED
  BY <1>1, <1>2 DEF Book!Forget

\* What a list is that has the records of a ring with one more at its end.
\* c has the records s at the slots r, and a list one longer at the slots m.
IsAt(s, r, K, c) == \A i \in 1..K : c[r[i]] = s[i]
IsMoreAt(q, m, K, c) ==
  /\ q \in Seq(Entry) /\ Len(q) = K + 1
  /\ \A i \in 1..K + 1 : q[i] = c[m[i]]
  /\ Tail(q) \in Seq(Entry) /\ Len(Tail(q)) = K
  /\ \A i \in 1..K : Tail(q)[i] = c[m[i + 1]]

\* Who is appended to the records is at the end of the ring.
LEMMA ListOfMore ==
  ASSUME NEW s \in Seq(Entry), NEW e \in Entry, NEW r, NEW x, NEW c,
         NEW K, K = Len(s), IsAt(s, r, K, c), c[x] = e
  PROVE  IsMoreAt(Append(s, e), More(r, K, x), K, c)
<1> DEFINE q == Append(s, e)
           m == More(r, K, x)
<1>1. /\ q \in Seq(Entry) /\ q # <<>> /\ Len(q) = K + 1 /\ K \in Nat
      /\ \A i \in 1..K : q[i] = s[i]
      /\ q[K + 1] = e
  BY AppendProperties, LenProperties
<1> HIDE DEF q
<1>2. /\ Tail(q) \in Seq(Entry) /\ Len(Tail(q)) = Len(q) - 1
      /\ \A i \in 1..Len(Tail(q)) : Tail(q)[i] = q[i + 1]
  BY <1>1, HeadTailProperties
<1>3. m[K + 1] = x /\ \A i \in 1..K : m[i] = r[i]
  BY <1>1 DEF More
<1> HIDE DEF m
<1>4. \A i \in 1..K : c[r[i]] = s[i]
  BY DEF IsAt
<1>5. ASSUME NEW i \in 1..K + 1
      PROVE  q[i] = c[m[i]]
  <2>1. CASE i = K + 1
    BY <1>1, <1>3, <2>1
  <2>2. CASE i # K + 1
    <3>1. i \in 1..K
      BY <1>1, <2>2
    <3> QED
      BY <1>1, <1>3, <1>4, <3>1
  <2> QED
    BY <2>1, <2>2
<1>6. Len(Tail(q)) = K
  BY <1>1, <1>2
<1>7. \A i \in 1..K : Tail(q)[i] = c[m[i + 1]]
  <2>1. \A i \in 1..K : i + 1 \in 1..K + 1
    BY <1>1
  <2> QED
    BY <1>2, <1>5, <1>6, <2>1
<1> QED
  BY <1>1, <1>2, <1>5, <1>6, <1>7 DEF q, m, IsMoreAt

\* The variables after AddNode.
LEMMA TypedAfterNode ==
  ASSUME LogTyped, NEW sub, LogTree(sub), ~merge.on, NEW e \in Entry, AddNode(e)
  PROVE  LogTyped'
<1> DEFINE D2 == DOMAIN iplogs \cup {iplog_next}
<1>1. /\ iplog_next' = Following(iplog_next)
      /\ iplog_full' = (iplog_full \/ Following(iplog_next) = 0)
  BY DEF AddNode
<1>2. /\ iplog_next' \in Slot /\ iplog_full' \in BOOLEAN
      /\ D2 = IF iplog_full' THEN Slot ELSE 0..iplog_next' - 1
  BY <1>1, SlotsAfter
<1>3. merge' \in Merging /\ iplog_head' \in Node /\ (merge'.on => iplog_full')
  BY TreeAfterNode
<1>4. NodesFit(iplogs', D2)
  BY NodeIsIn
<1> HIDE DEF D2
<1>5. DOMAIN iplogs' = D2
  <2>1. iplogs' = [n \in D2 |-> iplogs'[n]]
    BY <1>4 DEF NodesFit
  <2> QED
    BY <2>1
<1>6. NodesFit(iplogs', DOMAIN iplogs')
  BY <1>4, <1>5
<1>7. LogTyped' <=>
    (/\ NodesFit(iplogs, DOMAIN iplogs)
     /\ DOMAIN iplogs = IF iplog_full THEN Slot ELSE 0..iplog_next - 1
     /\ iplog_head \in Node /\ iplog_next \in Slot /\ iplog_full \in BOOLEAN
     /\ merge \in Merging
     /\ merge.on => iplog_full)'
  BY DEF LogTyped, NodesFit, NodeAt, EntryOf
<1> QED
  BY <1>2, <1>3, <1>5, <1>6, <1>7

\* The slots of the ring are in use.
LEMMA AgesInside ==
  (LogTyped => \A i \in 1..Many : AgesIs[i] \in DOMAIN iplogs)'
<1>1. LogTyped => \A i \in 1..Many : AgesIs[i] \in DOMAIN iplogs
  BY TypedIs DEF Numbers
<1> QED
  BY <1>1, PTL

\* The log after AddNode, whether or not the oldest is taken out of it.
LEMMA AfterNode ==
  ASSUME LogTyped, NEW sub, LogTree(sub), ~merge.on, NEW e \in Entry, AddNode(e)
  PROVE  /\ LogTyped' /\ \E sub2 : LogTree(sub2)'
         /\ Records' = Book!Forget(Append(Records, e))
<1> DEFINE x == iplog_next
           c == [n \in DOMAIN iplogs' |->
                   [addr |-> iplogs'[n].addr, name |-> iplogs'[n].name]]
           r == AgesIs
           s == Records
           K == Many
           m == More(r, K, x)
           q == Append(s, e)
<1>1. LogTyped'
  BY TypedAfterNode
<1>2. \E sub2 : LogTree(sub2)'
  <2>1. PICK sub2 : /\ IsTree(iplogs', iplog_head', merge', Logged', sub2)
                    /\ AgeOrder(iplogs', AgesIs', Many', sub2)
    BY TreeAfterNode
  <2>2. LogTree(sub2)'
    BY <2>1 DEF LogTree
  <2> QED
    BY <2>2
<1>3. /\ iplog_next' = Following(iplog_next)
      /\ iplog_full' = (iplog_full \/ Following(iplog_next) = 0)
  BY DEF AddNode
<1>4. /\ iplog_next' \in Slot /\ iplog_full' \in BOOLEAN
      /\ iplog_full' =>
           /\ K + 1 = iplog_size /\ Many' = K
           /\ \A i \in 1..K : AgesIs'[i] = m[i + 1]
      /\ ~iplog_full' =>
           /\ Many' = K + 1 /\ Many' < iplog_size
           /\ \A i \in 1..K + 1 : AgesIs'[i] = m[i]
  BY <1>3, SlotsAfter
<1>5. /\ s \in Seq(Entry) /\ Len(s) = K /\ K \in Nat /\ K < iplog_size
      /\ \A i \in 1..K : /\ r[i] \in Logged
                         /\ s[i] = [addr |-> iplogs[r[i]].addr,
                                    name |-> iplogs[r[i]].name]
  BY RecordsAre DEF EntryOf
<1>6. /\ NodesFit(iplogs', DOMAIN iplogs \cup {x})
      /\ \A n \in Logged : /\ iplogs'[n].addr = iplogs[n].addr
                         /\ iplogs'[n].name = iplogs[n].name
      /\ iplogs'[x].addr = e.addr /\ iplogs'[x].name = e.name
  BY NodeIsIn
<1>7. DOMAIN iplogs' = DOMAIN iplogs \cup {x} /\ Logged \subseteq DOMAIN iplogs
  <2> DEFINE D2 == DOMAIN iplogs \cup {x}
  <2>1. iplogs' = [n \in D2 |-> iplogs'[n]]
    BY <1>6 DEF NodesFit
  <2> HIDE DEF D2
  <2>2. DOMAIN iplogs' = D2
    BY <2>1
  <2> QED
    BY <2>2, TypedIs DEF D2
<1>8. c[x] = e /\ \A i \in 1..K : c[r[i]] = s[i]
  <2>1. c[x] = [addr |-> e.addr, name |-> e.name]
    BY <1>6, <1>7
  <2>2. e = [addr |-> e.addr, name |-> e.name]
    BY EntriesAre
  <2>3. \A i \in 1..K : c[r[i]] = s[i]
    BY <1>5, <1>6, <1>7
  <2> QED
    BY <2>1, <2>2, <2>3
<1>9. Records' = [i \in 1..Many' |-> [addr |-> iplogs'[AgesIs'[i]].addr,
                                       name |-> iplogs'[AgesIs'[i]].name]]
  <2>1. Ring' = AgesIs' /\ DOMAIN Ring' = 1..Many'
    BY <1>4, RecordsNext
  <2>2. Records' = [i \in DOMAIN Ring' |-> [addr |-> iplogs'[Ring'[i]].addr,
                                             name |-> iplogs'[Ring'[i]].name]]
    BY DEF Records, EntryOf
  <2> QED
    BY <2>1, <2>2
<1>10. \A i \in 1..Many' : AgesIs'[i] \in DOMAIN iplogs'
  <2>1. (LogTyped => \A i \in 1..Many : AgesIs[i] \in DOMAIN iplogs)'
    BY AgesInside
  <2> QED
    BY <1>1, <2>1
<1>11. Records' = [i \in 1..Many' |-> c[AgesIs'[i]]]
  BY <1>9, <1>10
<1> HIDE DEF c, r, s, K, x, m, q
<1>12. /\ q \in Seq(Entry) /\ Len(q) = K + 1
       /\ \A i \in 1..K + 1 : q[i] = c[m[i]]
       /\ Tail(q) \in Seq(Entry) /\ Len(Tail(q)) = K
       /\ \A i \in 1..K : Tail(q)[i] = c[m[i + 1]]
  <2>1. s \in Seq(Entry) /\ K = Len(s) /\ c[x] = e /\ IsAt(s, r, K, c)
    BY <1>5, <1>8 DEF IsAt
  <2>2. IsMoreAt(q, m, K, c)
    BY <2>1, ListOfMore DEF q, m
  <2> QED
    BY <2>2 DEF IsMoreAt
<1>13. CASE iplog_full'
  <2>1. Records' = [i \in 1..K |-> c[m[i + 1]]]
    BY <1>4, <1>11, <1>13
  <2>2. Tail(q) = [i \in 1..K |-> Tail(q)[i]]
    <3>1. Tail(q) \in [1..K -> Entry]
      BY <1>12, LenProperties
    <3> QED
      BY <3>1
  <2>3. Tail(q) = [i \in 1..K |-> c[m[i + 1]]]
    BY <1>12, <2>2
  <2>4. Records' = Tail(q)
    BY <2>1, <2>3
  <2>5. Book!Forget(q) = Tail(q)
    BY <1>4, <1>5, <1>13, ForgetIs DEF q
  <2> QED
    BY <1>1, <1>2, <2>4, <2>5 DEF q, s
<1>14. CASE ~iplog_full'
  <2>1. Records' = [i \in 1..K + 1 |-> c[m[i]]]
    BY <1>4, <1>11, <1>14
  <2>2. q = [i \in 1..K + 1 |-> q[i]]
    <3>1. q \in [1..K + 1 -> Entry]
      BY <1>12, LenProperties
    <3> QED
      BY <3>1
  <2>3. q = [i \in 1..K + 1 |-> c[m[i]]]
    BY <1>12, <2>2
  <2>4. Records' = q
    BY <2>1, <2>3
  <2>5. Book!Forget(q) = q
    BY <1>4, <1>5, <1>14, ForgetIs DEF q
  <2> QED
    BY <1>1, <1>2, <2>4, <2>5 DEF q, s
<1> QED
  BY <1>13, <1>14

-----------------------------------------------------------------------------
(* What is in the book.                                                    *)

Seen(b, a) == {i \in DOMAIN b : b[i].addr = a}
NoneTwice(b) == \A i, j \in DOMAIN b : b[i] = b[j] => i = j
FewNames(b) == \A a \in Int : Cardinality(Seen(b, a)) <= MAX_REPITITION
BookOK(b) ==
  b \in Seq(Entry) /\ Len(b) < iplog_size /\ NoneTwice(b) /\ FewNames(b)

\* The places of an address are finitely many.
LEMMA SeenIs ==
  ASSUME NEW b \in Seq(Entry), NEW a
  PROVE  /\ DOMAIN b = 1..Len(b) /\ Len(b) \in Nat
         /\ Seen(b, a) \in SUBSET (1..Len(b)) /\ IsFiniteSet(Seen(b, a))
         /\ Cardinality(Seen(b, a)) \in Nat
<1>1. DOMAIN b = 1..Len(b) /\ Len(b) \in Nat
  BY LenProperties
<1>2. Seen(b, a) \in SUBSET (1..Len(b))
  BY <1>1 DEF Seen
<1>3. IsFiniteSet(1..Len(b))
  BY <1>1, FS_Interval
<1>4. IsFiniteSet(Seen(b, a))
  BY <1>2, <1>3, FS_Subset
<1> QED
  BY <1>1, <1>2, <1>4, FS_CardinalityType

\* A part of a book is one.
LEMMA PartOfBook ==
  ASSUME NEW b \in Seq(Entry), NoneTwice(b), FewNames(b), NEW b2 \in Seq(Entry),
         NEW d \in Nat,
         \A i \in 1..Len(b2) : i + d \in 1..Len(b) /\ b2[i] = b[i + d]
  PROVE  NoneTwice(b2) /\ FewNames(b2)
<1>1. /\ DOMAIN b = 1..Len(b) /\ Len(b) \in Nat
      /\ DOMAIN b2 = 1..Len(b2) /\ Len(b2) \in Nat
  BY LenProperties
<1>2. NoneTwice(b2)
  <2>1. SUFFICES ASSUME NEW i \in 1..Len(b2), NEW j \in 1..Len(b2), b2[i] = b2[j]
                 PROVE  i = j
    BY <1>1 DEF NoneTwice
  <2>2. i + d = j + d
    BY <1>1, <2>1 DEF NoneTwice
  <2> QED
    BY <1>1, <2>2
<1>3. ASSUME NEW a \in Int
      PROVE  Cardinality(Seen(b2, a)) <= MAX_REPITITION
  <2> DEFINE P == Seen(b, a)
             P2 == Seen(b2, a)
             f == [i \in P2 |-> i + d]
  <2>1. /\ P \in SUBSET Nat /\ P2 \in SUBSET Nat /\ IsFiniteSet(P) /\ IsFiniteSet(P2)
        /\ Cardinality(P) \in Nat /\ Cardinality(P2) \in Nat
    BY SeenIs
  <2>2. \A i \in P2 : i + d \in P
    BY <1>1 DEF Seen
  <2>3. Cardinality(P) <= MAX_REPITITION
    BY DEF FewNames
  <2> HIDE DEF P, P2
  <2>4. f \in Injection(P2, P)
    <3>1. f \in [P2 -> P]
      BY <2>2
    <3>2. \A i, j \in P2 : f[i] = f[j] => i = j
      BY <2>1
    <3> QED
      BY <3>1, <3>2 DEF Injection, IsInjective
  <2> HIDE DEF f
  <2>5. Cardinality(P2) <= Cardinality(P)
    BY <2>1, <2>4, FS_Injection
  <2> DEFINE c == Cardinality(P)
             c2 == Cardinality(P2)
  <2>6. c \in Nat /\ c2 \in Nat /\ c2 <= c /\ c <= MAX_REPITITION
    BY <2>1, <2>3, <2>5
  <2> HIDE DEF c, c2
  <2>7. c2 <= MAX_REPITITION
    BY <2>6, IPLogAssumption
  <2> QED
    BY <2>7 DEF c2, P2
<1> QED
  BY <1>2, <1>3 DEF FewNames

\* One more.
LEMMA LongerBook ==
  ASSUME NEW b \in Seq(Entry), NoneTwice(b), FewNames(b), NEW e \in Entry,
         \A i \in DOMAIN b : b[i] # e,
         Cardinality(Seen(b, e.addr)) # MAX_REPITITION
  PROVE  NoneTwice(Append(b, e)) /\ FewNames(Append(b, e))
<1> DEFINE q == Append(b, e)
           K == Len(b)
<1>1. DOMAIN b = 1..K /\ K \in Nat
  BY LenProperties
<1>2. /\ q \in Seq(Entry) /\ Len(q) = K + 1 /\ q[K + 1] = e
      /\ \A i \in 1..K : q[i] = b[i]
  BY AppendProperties
<1> HIDE DEF q
<1>3. DOMAIN q = 1..K + 1
  BY <1>2, LenProperties
<1>4. \A i \in 1..K + 1 : i = K + 1 \/ i \in 1..K
  BY <1>1
<1>5. NoneTwice(q)
  BY <1>1, <1>2, <1>3, <1>4 DEF NoneTwice
<1>6. ASSUME NEW a \in Int
      PROVE  Cardinality(Seen(q, a)) <= MAX_REPITITION
  <2> DEFINE P == Seen(b, a)
             P2 == Seen(q, a)
  <2>1. P \in SUBSET (1..K) /\ IsFiniteSet(P) /\ Cardinality(P) \in Nat
    BY SeenIs
  <2>2. Cardinality(P) <= MAX_REPITITION
    BY DEF FewNames
  <2>3. CASE a # e.addr
    <3>1. P2 = P
      BY <1>1, <1>2, <1>3, <1>4, <2>3 DEF Seen
    <3> QED
      BY <2>2, <3>1
  <2>4. CASE a = e.addr
    <3>1. P2 = P \cup {K + 1}
      BY <1>1, <1>2, <1>3, <1>4, <2>4 DEF Seen
    <3>2. K + 1 \notin P
      BY <1>1, <2>1
    <3> HIDE DEF P, P2
    <3>3. Cardinality(P2) = Cardinality(P) + 1
      BY <2>1, <3>1, <3>2, FS_AddElement
    <3> DEFINE c == Cardinality(P)
    <3>4. c # MAX_REPITITION
      BY <2>4 DEF P
    <3>5. c \in Nat /\ c <= MAX_REPITITION
      BY <2>1, <2>2
    <3> HIDE DEF c
    <3>6. c + 1 <= MAX_REPITITION
      BY <3>4, <3>5, IPLogAssumption
    <3> QED
      BY <3>3, <3>6 DEF c, P2
  <2> QED
    BY <2>3, <2>4
<1> QED
  BY <1>5, <1>6 DEF FewNames, q

\* One of the books kept when there is no more room.
LEMMA ShorterBook ==
  ASSUME NEW b \in Seq(Entry), Len(b) < iplog_size, NoneTwice(b), FewNames(b),
         NEW e \in Entry, \A i \in DOMAIN b : b[i] # e,
         Cardinality(Seen(b, e.addr)) # MAX_REPITITION
  PROVE  BookOK(Book!Forget(Append(b, e)))
<1> DEFINE q == Append(b, e)
           K == Len(b)
<1>1. K \in Nat /\ iplog_size \in Nat /\ q \in Seq(Entry) /\ Len(q) = K + 1 /\ q # <<>>
  BY LenProperties, AppendProperties, SizeIs
<1>2. NoneTwice(q) /\ FewNames(q)
  BY LongerBook
<1>3. /\ K + 1 < iplog_size => Book!Forget(q) = q
      /\ K + 1 = iplog_size => Book!Forget(q) = Tail(q)
  BY ForgetIs
<1>4. K + 1 < iplog_size \/ K + 1 = iplog_size
  BY <1>1
<1> HIDE DEF q
<1>5. /\ Tail(q) \in Seq(Entry) /\ Len(Tail(q)) = Len(q) - 1
      /\ \A i \in 1..Len(Tail(q)) : Tail(q)[i] = q[i + 1]
  BY <1>1, HeadTailProperties
<1> HIDE DEF K
<1>6. CASE K + 1 < iplog_size
  BY <1>1, <1>2, <1>3, <1>6 DEF BookOK, q
<1>7. CASE K + 1 = iplog_size
  <2>1. Len(Tail(q)) = K /\ \A i \in 1..K : i + 1 \in 1..Len(q)
    BY <1>1, <1>5
  <2>2. NoneTwice(Tail(q)) /\ FewNames(Tail(q))
    <3> DEFINE s == Tail(q)
    <3>1. s \in Seq(Entry)
          /\ \A i \in 1..Len(s) : i + 1 \in 1..Len(q) /\ s[i] = q[i + 1]
      BY <1>5, <2>1
    <3> HIDE DEF s
    <3>2. NoneTwice(s) /\ FewNames(s)
      BY <1>1, <1>2, <3>1, PartOfBook
    <3> QED
      BY <3>2 DEF s
  <2>3. K < iplog_size
    BY <1>1, <1>7
  <2>4. BookOK(Tail(q))
    BY <1>5, <2>1, <2>2, <2>3 DEF BookOK
  <2>5. Book!Forget(q) = Tail(q)
    BY <1>3, <1>7
  <2>6. BookOK(Book!Forget(q))
    BY ONLY <2>4, <2>5
  <2> QED
    BY <2>6 DEF q
<1> QED
  BY <1>4, <1>6, <1>7

\* The book with the names of an address moved by one.
LEMMA BookAfterName ==
  ASSUME LogTyped, NoneTwice(Records), FewNames(Records), NEW e \in Entry,
         \A i \in DOMAIN Records : Records[i] # e
  PROVE  BookOK(Book!ForgetName(e))
<1> DEFINE b == Records
           b2 == Book!ForgetName(e)
           K == Many
           P == PlacesOf(iplogs, AgesIs, Many, e.addr)
           Next(i) == Soonest(LaterThan(P, i))
<1>1. /\ b \in Seq(Entry) /\ Len(b) = K /\ DOMAIN b = 1..K /\ K \in Nat /\ K < iplog_size
      /\ \A i \in 1..K : b[i].addr = iplogs[AgesIs[i]].addr
  BY RecordsAre
<1>2. b2 = [i \in 1..K |-> IF i \notin P THEN b[i]
                           ELSE IF LaterThan(P, i) = {} THEN e ELSE b[Next(i)]]
  BY ForgetNameIs
<1>3. b2 \in [1..K -> Entry]
  BY NameIsMoved
<1>4. b2 \in Seq(Entry) /\ Len(b2) = K /\ DOMAIN b2 = 1..K
  <2> HIDE DEF b2, K
  <2> QED
    BY <1>1, <1>3, SeqDef, LenProperties
<1>5. P \subseteq 1..K /\ \A i \in 1..K : i \in P <=> b[i].addr = e.addr
  BY <1>1 DEF PlacesOf
<1> HIDE DEF b, b2, K, P
<1>6. ASSUME NEW i \in P, LaterThan(P, i) # {}
      PROVE  Next(i) \in P /\ Next(i) > i /\ \A j \in P : j > i => Next(i) <= j
  <2> DEFINE A == LaterThan(P, i)
  <2>1. A \in SUBSET Nat /\ A # {}
    <3>1. A \in SUBSET P
      BY DEF LaterThan
    <3>2. A # {}
      BY <1>6
    <3>3. P \subseteq 1..K /\ K \in Nat
      BY <1>1, <1>5
    <3>4. P \subseteq Nat
      BY ONLY <3>3
    <3> HIDE DEF A
    <3> QED
      BY ONLY <3>1, <3>2, <3>4
  <2> HIDE DEF A
  <2>2. Soonest(A) \in A /\ \A k \in A : Soonest(A) <= k
    BY <2>1, SoonestIs
  <2> QED
    BY <2>2 DEF A, LaterThan
<1> HIDE DEF Next
<1>7. \A i \in 1..K : b2[i].addr = b[i].addr
  <2>1. SUFFICES ASSUME NEW i \in 1..K
                 PROVE  b2[i].addr = b[i].addr
    OBVIOUS
  <2>2. CASE i \notin P
    BY <1>2, <2>2
  <2>3. CASE i \in P /\ LaterThan(P, i) = {}
    BY <1>2, <1>5, <2>3
  <2>4. CASE i \in P /\ LaterThan(P, i) # {}
    <3>1. Next(i) \in P
      BY <1>6, <2>4
    <3>2. b2[i] = b[Next(i)]
      BY <1>2, <2>4
    <3> QED
      BY <1>5, <2>4, <3>1, <3>2
  <2> QED
    BY <2>2, <2>3, <2>4
<1>8. ASSUME NEW i \in 1..K, NEW j \in 1..K, i < j, b2[i] = b2[j]
      PROVE  FALSE
  <2>1. b[i].addr = b[j].addr
    BY <1>7, <1>8
  <2>2. CASE i \notin P
    <3>1. j \notin P
      BY <1>5, <2>1, <2>2
    <3>2. b[i] = b[j]
      BY <1>2, <1>8, <2>2, <3>1
    <3> QED
      BY <1>1, <1>8, <3>2 DEF NoneTwice, b
  <2>3. CASE i \in P
    <3>1. j \in P
      BY <1>5, <2>1, <2>3
    <3>2. LaterThan(P, i) # {}
      BY <1>8, <3>1 DEF LaterThan
    <3>3. Next(i) \in P /\ Next(i) <= j
      BY <1>6, <1>8, <2>3, <3>1, <3>2
    <3>4. b2[i] = b[Next(i)]
      BY <1>2, <2>3, <3>2
    <3>5. Next(i) \in 1..K
      BY <1>5, <3>3
    <3>6. CASE LaterThan(P, j) = {}
      <4>1. b2[j] = e
        BY <1>2, <3>1, <3>6
      <4> QED
        BY <1>1, <1>8, <3>4, <3>5, <4>1 DEF b
    <3>7. CASE LaterThan(P, j) # {}
      <4>1. Next(j) \in P /\ Next(j) > j /\ b2[j] = b[Next(j)]
        BY <1>2, <1>6, <3>1, <3>7
      <4>2. Next(j) \in 1..K
        BY <1>5, <4>1
      <4>3. Next(i) = Next(j)
        BY <1>1, <1>8, <3>4, <3>5, <4>1, <4>2 DEF NoneTwice, b
      <4> QED
        BY <1>1, <3>3, <3>5, <4>1, <4>2, <4>3
    <3> QED
      BY <3>6, <3>7
  <2> QED
    BY <2>2, <2>3
<1>9. NoneTwice(b2)
  <2>1. \A i, j \in 1..K : ~(i < j) /\ ~(j < i) => i = j
    BY <1>1
  <2> QED
    BY <1>4, <1>8, <2>1 DEF NoneTwice
<1>10. FewNames(b2)
  <2>1. \A a \in Int : Seen(b2, a) = Seen(b, a)
    BY <1>1, <1>4, <1>7 DEF Seen
  <2> QED
    BY <2>1 DEF FewNames, b
<1> QED
  BY <1>1, <1>4, <1>9, <1>10 DEF BookOK, b2

\* As much of a book as was written.
LEMMA PrefixOfBook ==
  ASSUME NEW b, BookOK(b), NEW n \in 0..Len(b)
  PROVE  BookOK(SubSeq(b, 1, n))
<1> DEFINE s == SubSeq(b, 1, n)
<1>1. b \in Seq(Entry) /\ Len(b) \in Nat /\ n \in Nat /\ n <= Len(b)
      /\ \A i \in 1..Len(b) : b[i] \in Entry
  BY LenProperties DEF BookOK
<1>2. s \in Seq(Entry) /\ Len(s) = n /\ \A i \in 1..n : s[i] = b[i]
  <2>1. 1 \in Int /\ n \in Int /\ \A i \in 1..n : b[i] \in Entry
    BY <1>1
  <2>2. /\ s \in Seq(Entry)
        /\ Len(s) = IF 1 <= n THEN n - 1 + 1 ELSE 0
        /\ \A i \in 1..n - 1 + 1 : s[i] = b[1 + i - 1]
    BY <2>1, SubSeqProperties
  <2> HIDE DEF s
  <2>3. Len(s) = n
    BY <1>1, <2>2
  <2>4. \A i \in 1..n : i \in 1..n - 1 + 1 /\ 1 + i - 1 = i
    BY <1>1
  <2> QED
    BY <2>2, <2>3, <2>4
<1> HIDE DEF s
<1>3. NoneTwice(s) /\ FewNames(s)
  <2>1. \A i \in 1..Len(s) : i + 0 \in 1..Len(b) /\ s[i] = b[i + 0]
    BY <1>1, <1>2
  <2> QED
    BY <1>1, <1>2, <2>1, PartOfBook DEF BookOK
<1>4. Len(s) < iplog_size
  BY <1>1, <1>2, SizeIs DEF BookOK
<1> QED
  BY <1>2, <1>3, <1>4 DEF BookOK, s

\* A sequence and its first element.
LEMMA FirstAndRest ==
  ASSUME NEW s \in Seq(Entry), s # <<>>
  PROVE  /\ Head(s) = s[1] /\ Head(s) \in Entry /\ Tail(s) \in Seq(Entry)
         /\ s = <<Head(s)>> \o Tail(s)
<1>1. Head(s) = s[1] /\ Head(s) \in Entry /\ Tail(s) \in Seq(Entry)
  OBVIOUS
<1>2. s = <<Head(s)>> \o Tail(s)
  OBVIOUS
<1> QED
  BY <1>1, <1>2

\* While a file is read into the empty log, each of its records is new.
LEMMA NextIsNew ==
  ASSUME NEW b \in Seq(Entry), NEW rest \in Seq(Entry), rest # <<>>,
         BookOK(b \o rest)
  PROVE  /\ \A i \in DOMAIN b : b[i] # Head(rest)
         /\ Cardinality(Seen(b, Head(rest).addr)) < MAX_REPITITION
         /\ Len(b) + 1 < iplog_size
         /\ Append(b, Head(rest)) \o Tail(rest) = b \o rest
         /\ Head(rest) \in Entry /\ Tail(rest) \in Seq(Entry)
<1> DEFINE f == b \o rest
           K == Len(b)
           e == Head(rest)
           P == Seen(b, e.addr)
           F == Seen(f, e.addr)
<1>1. /\ f \in Seq(Entry) /\ Len(f) = K + Len(rest) /\ K \in Nat /\ Len(rest) \in Nat
      /\ \A i \in 1..K + Len(rest) : f[i] = IF i <= K THEN b[i] ELSE rest[i - K]
      /\ DOMAIN b = 1..K /\ Len(rest) # 0
  BY ConcatProperties, LenProperties, EmptySeq
<1>2. e \in Entry /\ e = rest[1] /\ Tail(rest) \in Seq(Entry) /\ rest = <<e>> \o Tail(rest)
  BY FirstAndRest
<1>3. DOMAIN f = 1..Len(f)
  BY <1>1, LenProperties
<1> HIDE DEF f, K, e
<1>4. f[K + 1] = e /\ K + 1 \in DOMAIN f
      /\ \A i \in 1..K : f[i] = b[i] /\ i \in DOMAIN f /\ i # K + 1
  BY <1>1, <1>2, <1>3
<1>5. NoneTwice(f) /\ FewNames(f) /\ Len(f) < iplog_size
  BY DEF BookOK, f
<1>6. \A i \in DOMAIN b : b[i] # e
  BY <1>1, <1>4, <1>5 DEF NoneTwice
<1>7. Cardinality(P) < MAX_REPITITION
  <2>1. P \in SUBSET (1..K) /\ IsFiniteSet(P) /\ Cardinality(P) \in Nat
    BY SeenIs DEF K
  <2>2. IsFiniteSet(F) /\ Cardinality(F) \in Nat /\ Cardinality(F) <= MAX_REPITITION
    <3>1. e.addr \in Int
      BY <1>2, EntriesAre
    <3> QED
      BY <1>1, <1>5, <3>1, SeenIs DEF FewNames
  <2>3. P \cup {K + 1} \in SUBSET F /\ K + 1 \notin P
    BY <1>1, <1>4, <2>1 DEF Seen
  <2> HIDE DEF P, F
  <2>4. Cardinality(P \cup {K + 1}) = Cardinality(P) + 1
    BY <2>1, <2>3, FS_AddElement
  <2>5. Cardinality(P \cup {K + 1}) <= Cardinality(F)
    BY <2>2, <2>3, FS_Subset
  <2> DEFINE c == Cardinality(P)
             d == Cardinality(F)
  <2>6. c \in Nat /\ d \in Nat /\ c + 1 <= d /\ d <= MAX_REPITITION
    BY <2>1, <2>2, <2>4, <2>5
  <2> HIDE DEF c, d
  <2>7. c < MAX_REPITITION
    BY <2>6, IPLogAssumption
  <2> QED
    BY <2>7 DEF c
<1>8. K + 1 < iplog_size
  BY <1>1, <1>5, SizeIs
<1>9. Append(b, e) \o Tail(rest) = f
  <2>1. Append(b, e) = b \o <<e>>
    BY <1>2, AppendIsConcat
  <2>2. <<e>> \in Seq(Entry)
    BY <1>2
  <2>3. (b \o <<e>>) \o Tail(rest) = b \o (<<e>> \o Tail(rest))
    BY <1>2, <2>2, ConcatAssociative
  <2>4. (b \o <<e>>) \o Tail(rest) = b \o rest
    BY ONLY <1>2, <2>3
  <2> QED
    BY ONLY <2>1, <2>4 DEF f
<1> QED
  BY <1>2, <1>6, <1>7, <1>8, <1>9 DEF e, K, f, P

-----------------------------------------------------------------------------
(* The log through its steps.                                              *)

\* The log when the tree stays as it is.
LEMMA SameLog ==
  ASSUME LogTyped, UNCHANGED treeVars
  PROVE  /\ LogTyped' /\ Records' = Records
         /\ \A sub : LogTree(sub) => LogTree(sub)'
<1>1. UNCHANGED <<iplogs, iplog_head, iplog_next, iplog_full, merge>>
  BY DEF treeVars
<1>2. LogTyped'
  BY <1>1 DEF LogTyped, EntryOf
<1>3. Records' = Records
  BY <1>1 DEF Records, Ring, EntryOf
<1>4. ASSUME NEW sub, LogTree(sub)
      PROVE  LogTree(sub)'
  BY <1>1, <1>4 DEF LogTree, Logged, AgesIs, Many
<1> QED
  BY <1>2, <1>3, <1>4

Emptied ==
  /\ iplogs = <<>> /\ iplog_head = NoNode /\ iplog_next = 0 /\ iplog_full = FALSE
  /\ merge = NoMerge

\* The log when the program starts.
LEMMA EmptyLog ==
  Emptied => /\ LogTyped /\ \E sub : LogTree(sub)
             /\ Records = <<>> /\ merge.on = FALSE
<1> SUFFICES ASSUME Emptied
             PROVE  /\ LogTyped /\ \E sub : LogTree(sub)
                    /\ Records = <<>> /\ merge.on = FALSE
  OBVIOUS
<1>1. NoMerge.on = FALSE /\ NoMerge \in Merging
  BY DEF NoMerge, Merging, Node
<1>2. merge.on = FALSE /\ merge \in Merging
  BY <1>1 DEF Emptied
<1>3. iplog_next \in Slot /\ iplog_full \in BOOLEAN /\ iplog_head \in Node
  BY SizeIs DEF Emptied, Node
<1>4. DOMAIN iplogs = {} /\ iplogs = [n \in {} |-> iplogs[n]]
  BY DEF Emptied
<1>5. LogTyped
  <2>1. DOMAIN iplogs = 0..iplog_next - 1
    BY <1>4 DEF Emptied
  <2> QED
    BY <1>2, <1>3, <1>4, <2>1 DEF LogTyped, Emptied
<1>6. Logged = {} /\ Many = 0
  BY DEF Logged, LiveSlots, Many, Used, Emptied
<1>7. LogTree([n \in {} |-> {}])
  <2>1. IsTree(iplogs, iplog_head, merge, {}, [n \in {} |-> {}])
    BY <1>2 DEF IsTree, NoHead, SubOf, HoleIsWhole, Emptied
  <2>2. AgeOrder(iplogs, AgesIs, 0, [n \in {} |-> {}])
    BY DEF AgeOrder
  <2> QED
    BY <1>6, <2>1, <2>2 DEF LogTree
<1>8. Records = <<>>
  BY <1>5, <1>6, RecordsAre, EmptySeq
<1> QED
  BY <1>2, <1>5, <1>7, <1>8

\* The same after a step.
LEMMA EmptyLogNext ==
  (Emptied => /\ LogTyped /\ \E sub : LogTree(sub)
              /\ Records = <<>> /\ merge.on = FALSE)'
BY EmptyLog, PTL

\* The empty book.
LEMMA EmptyBook == BookOK(<<>>)
<1>1. <<>> \in Seq(Entry) /\ Len(<<>>) = 0 /\ DOMAIN <<>> = {}
  BY EmptySeq
<1>2. 0 < iplog_size /\ NoneTwice(<<>>)
  BY <1>1, SizeIs DEF NoneTwice
<1>3. ASSUME NEW a \in Int
      PROVE  Cardinality(Seen(<<>>, a)) <= MAX_REPITITION
  <2>1. Seen(<<>>, a) = {}
    BY <1>1 DEF Seen
  <2> QED
    <3>1. Cardinality({}) = 0 /\ MAX_REPITITION \in Nat
      BY FS_EmptySet, IPLogAssumption
    <3>2. Cardinality({}) <= MAX_REPITITION
      BY <3>1
    <3> QED
      BY ONLY <2>1, <3>2
<1> QED
  BY <1>1, <1>2, <1>3 DEF BookOK, FewNames

\* What IPLog_Add makes of the records.
Added(old, new, e) ==
  /\ \A i \in DOMAIN old : old[i] # e
  /\ \/ /\ Cardinality(Seen(old, e.addr)) = MAX_REPITITION
        /\ new = Book!ForgetName(e)
     \/ /\ Cardinality(Seen(old, e.addr)) # MAX_REPITITION
        /\ new = Book!Forget(Append(old, e))

\* The log after IPLog_Add.
LEMMA AfterAdd ==
  ASSUME LogTyped, NEW sub, LogTree(sub), ~merge.on, BookOK(Records),
         NEW e \in Entry, IPLog_Add(e)
  PROVE  /\ LogTyped' /\ \E sub2 : LogTree(sub2)'
         /\ BookOK(Records')
         /\ \/ Records' = Records /\ \E i \in DOMAIN Records : Records[i] = e
            \/ Added(Records, Records', e)
<1>1. Known(e) <=> \E i \in DOMAIN Records : Records[i] = e
  BY KnownIs DEF Book!Known
<1>2. Cardinality(Matches(e.addr)) = Cardinality(Seen(Records, e.addr))
  <2>1. e.addr \in Int
    BY EntriesAre
  <2>2. Book!Places(e.addr) = Seen(Records, e.addr)
    BY DEF Book!Places, Seen
  <2> QED
    BY <2>1, <2>2, MatchesCount
<1>3. Cardinality(Seen(Records, e.addr)) \in Nat /\ NoneTwice(Records)
      /\ FewNames(Records) /\ Records \in Seq(Entry) /\ Len(Records) < iplog_size
  BY SeenIs DEF BookOK
<1>4. CASE AddKnown(e)
  <2>1. LogTyped' /\ Records' = Records /\ LogTree(sub)'
    BY <1>4, SameLog DEF AddKnown
  <2> QED
    BY <1>1, <1>4, <2>1 DEF AddKnown
<1>5. CASE AddName(e)
  <2>1. /\ \A i \in DOMAIN Records : Records[i] # e
        /\ Cardinality(Seen(Records, e.addr)) = MAX_REPITITION
    BY <1>1, <1>2, <1>5 DEF AddName
  <2>2. LogTyped' /\ LogTree(sub)' /\ Records' = Book!ForgetName(e)
    BY <1>5, AfterName
  <2>3. BookOK(Records')
    BY <1>3, <2>1, <2>2, BookAfterName
  <2> QED
    BY <2>1, <2>2, <2>3 DEF Added
<1>6. CASE AddNode(e)
  <2>1. /\ \A i \in DOMAIN Records : Records[i] # e
        /\ Cardinality(Seen(Records, e.addr)) # MAX_REPITITION
    <3>1. ~Known(e) /\ Cardinality(Matches(e.addr)) < MAX_REPITITION
      BY <1>6 DEF AddNode
    <3> QED
      BY <1>1, <1>2, <1>3, <3>1, IPLogAssumption
  <2>2. LogTyped' /\ (\E sub2 : LogTree(sub2)')
        /\ Records' = Book!Forget(Append(Records, e))
    BY <1>6, AfterNode
  <2>3. BookOK(Records')
    BY <1>3, <2>1, <2>2, ShorterBook
  <2> QED
    BY <2>1, <2>2, <2>3 DEF Added
<1> QED
  BY <1>4, <1>5, <1>6 DEF IPLog_Add

\* It is what the address book does.
LEMMA AddedIsAdd ==
  ASSUME NEW e \in Entry, UNCHANGED file, Added(Records, Records', e)
  PROVE  Book!Next
<1>1. Book!Places(e.addr) = Seen(Records, e.addr)
  BY DEF Book!Places, Seen
<1>2. Book!Cardinality(Seen(Records, e.addr)) = Cardinality(Seen(Records, e.addr))
  BY DEF Cardinality, Book!Cardinality
<1>3. ~Book!Known(e)
  BY DEF Book!Known, Added
<1>4. Records' = IF Book!Cardinality(Book!Places(e.addr)) = MAX_REPITITION
                 THEN Book!ForgetName(e) ELSE Book!Forget(Append(Records, e))
  BY <1>1, <1>2 DEF Added
<1>5. Book!Add(e)
  BY <1>3, <1>4 DEF Book!Add
<1> QED
  BY <1>5 DEF Book!Next

\* The inductive invariant: what the variables are, that the slots of the
\* ring make a tree, with a hole while a node is taken out of it, in which a
\* younger record of an address is below the older ones, and that the records
\* and the file are books.
LogInv ==
  /\ LogTyped /\ FilesTyped
  /\ \E sub : LogTree(sub)
  /\ phase = "down" =>
       iplog_next = 0 /\ iplog_full = FALSE /\ merge.on = FALSE /\ reading = <<>>
  /\ BookOK(Records) /\ BookOK(file)
  /\ LoadRestores

\* The invariant has the types, ...
LEMMA LogInvType == LogInv => IPLogTypeOK
<1> SUFFICES ASSUME LogInv
             PROVE  IPLogTypeOK
  OBVIOUS
<1>1. /\ iplog_next \in Slot /\ iplog_full \in BOOLEAN /\ iplog_head \in Node
      /\ DOMAIN iplogs \subseteq Slot
      /\ \A n \in DOMAIN iplogs :
           /\ EntryOf(n) \in Entry
           /\ iplogs[n].parent \in Node
           /\ iplogs[n].children \in [BOOLEAN -> Node]
  BY TypedIs DEF LogInv
<1> QED
  BY <1>1 DEF LogInv, FilesTyped, IPLogTypeOK

\* ... has it that the tree is whole, ...
LEMMA LogInvWhole == LogInv => IPLogIsWhole
<1> SUFFICES ASSUME LogInv
             PROVE  IPLogIsWhole
  OBVIOUS
<1>1. ASSUME ~merge.on
      PROVE  /\ \A n \in InRing : n \in Path(iplogs[n].addr)
             /\ \A n \in InRing, b \in BOOLEAN :
                  LET c == iplogs[n].children[b] IN
                  c # NoNode => c \in InRing /\ iplogs[c].parent = n
             /\ iplog_head # NoNode =>
                  iplog_head \in InRing /\ iplogs[iplog_head].parent = NoNode
  <2>1. PICK sub : LogTree(sub)
    BY DEF LogInv
  <2>2. LogTyped
    BY DEF LogInv
  <2>3. Looked(Logged, sub)
    BY <1>1, <2>1, <2>2, TreeIsLooked
  <2>4. InRing = Logged
    BY <2>2, TypedIs, RingIs DEF Logged
  <2>5. ASSUME NEW n \in Logged
        PROVE  n \in Path(iplogs[n].addr)
    <3>1. iplogs[n].addr \in Int
      BY <2>3, LookedNode
    <3> QED
      BY <2>3, <3>1, PathIs
  <2>6. ASSUME NEW n \in Logged, NEW b \in BOOLEAN, iplogs[n].children[b] # NoNode
        PROVE  /\ iplogs[n].children[b] \in Logged
               /\ iplogs[iplogs[n].children[b]].parent = n
    BY <2>3, <2>6, LookedChild
  <2>7. iplog_head # NoNode =>
          iplog_head \in Logged /\ iplogs[iplog_head].parent = NoNode
    <3>1. ~NoHead(merge)
      BY <2>3, LookedRoot
    <3>2. IsTree(iplogs, iplog_head, merge, Logged, sub)
      BY <2>1 DEF LogTree
    <3> QED
      BY <3>1, <3>2, TreeRoot
  <2> QED
    BY <2>4, <2>5, <2>6, <2>7
<1> QED
  BY <1>1 DEF LogInv, IPLogIsWhole, TreeIsRing, BetweenAdds

\* ... and holds at first.
LEMMA LogInvInit == IPLogInit => LogInv /\ Book!Init
<1> SUFFICES ASSUME IPLogInit
             PROVE  LogInv /\ Book!Init
  OBVIOUS
<1>1. Emptied /\ phase = "down" /\ reading = <<>> /\ file = <<>>
  BY DEF IPLogInit, Emptied
<1>2. LogTyped /\ (\E sub : LogTree(sub)) /\ Records = <<>> /\ merge.on = FALSE
  BY <1>1, EmptyLog
<1>3. FilesTyped
  BY <1>1, EmptySeq DEF FilesTyped
<1>4. BookOK(Records) /\ BookOK(file)
  BY <1>1, <1>2, EmptyBook
<1>5. LoadRestores
  BY <1>1 DEF LoadRestores
<1>6. iplog_next = 0 /\ iplog_full = FALSE
  BY <1>1 DEF Emptied
<1> QED
  BY <1>1, <1>2, <1>3, <1>4, <1>5, <1>6 DEF LogInv, Book!Init

\* The address book does a step or nothing.
BookStep == Book!Next \/ UNCHANGED <<Records, file>>

\* The steps that leave the log as it is.
LEMMA AfterOther ==
  ASSUME LogInv, UNCHANGED treeVars, FilesTyped', phase' # "down", BookOK(file'),
         phase' = "loading" =>
           /\ UNCHANGED file
           /\ (phase = "down" /\ reading' = file) \/ UNCHANGED <<phase, reading>>
  PROVE  LogInv' /\ Records' = Records
<1>1. LogTyped /\ BookOK(Records) /\ LoadRestores
      /\ (phase = "down" => iplog_next = 0 /\ iplog_full = FALSE)
      /\ FilesTyped
  BY DEF LogInv
<1>2. PICK sub : LogTree(sub)
  BY DEF LogInv
<1>3. LogTyped' /\ Records' = Records /\ LogTree(sub)'
  BY <1>1, <1>2, SameLog
<1>4. BookOK(Records)'
  BY <1>1, <1>3 DEF BookOK, NoneTwice, FewNames, Seen
<1>5. BookOK(file)'
  BY DEF BookOK, NoneTwice, FewNames, Seen
<1>6. LoadRestores'
  <2>1. SUFFICES ASSUME phase' = "loading"
                 PROVE  Records' \o reading' = file'
    BY DEF LoadRestores
  <2>2. CASE phase = "down" /\ reading' = file
    <3>1. Many = 0
      BY <1>1, <2>2 DEF Many, Used
    <3>2. Records = <<>>
      BY <1>1, <3>1, RecordsAre, EmptySeq
    <3>3. <<>> \o file = file
      BY <1>1, ConcatEmptySeq DEF FilesTyped
    <3> QED
      BY <1>3, <2>1, <2>2, <3>2, <3>3
  <2>3. CASE UNCHANGED <<phase, reading>>
    BY <1>1, <1>3, <2>1, <2>3 DEF LoadRestores
  <2> QED
    BY <2>1, <2>2, <2>3
<1> QED
  BY <1>3, <1>4, <1>5, <1>6 DEF LogInv

\* The steps that add an entry.
LEMMA AfterEntry ==
  ASSUME LogInv, ~merge.on, phase # "down", NEW e \in Entry, IPLog_Add(e),
         UNCHANGED <<phase, file>>, reading' \in Seq(Entry),
         phase = "loading" =>
           reading # <<>> /\ e = Head(reading) /\ reading' = Tail(reading)
  PROVE  LogInv' /\ BookStep
<1>1. LogTyped /\ BookOK(Records) /\ BookOK(file) /\ LoadRestores /\ FilesTyped
  BY DEF LogInv
<1>2. PICK sub : LogTree(sub)
  BY DEF LogInv
<1>3. /\ LogTyped' /\ \E sub2 : LogTree(sub2)'
      /\ BookOK(Records')
      /\ \/ Records' = Records /\ \E i \in DOMAIN Records : Records[i] = e
         \/ Added(Records, Records', e)
  BY <1>1, <1>2, AfterAdd
<1>4. FilesTyped'
  BY <1>1 DEF FilesTyped
<1>5. BookOK(Records)' /\ BookOK(file)'
  BY <1>1, <1>3 DEF BookOK, NoneTwice, FewNames, Seen
<1>6. LoadRestores'
  <2>1. SUFFICES ASSUME phase = "loading"
                 PROVE  Records' \o reading' = file'
    BY DEF LoadRestores
  <2> DEFINE b == Records
             rest == reading
  <2>2. b \in Seq(Entry) /\ rest \in Seq(Entry) /\ rest # <<>> /\ BookOK(b \o rest)
        /\ e = Head(rest) /\ b \o rest = file
    BY <1>1, <2>1 DEF LoadRestores, FilesTyped, BookOK
  <2> HIDE DEF b, rest
  <2>3. /\ \A i \in DOMAIN b : b[i] # e
        /\ Cardinality(Seen(b, e.addr)) < MAX_REPITITION
        /\ Len(b) + 1 < iplog_size
        /\ Append(b, e) \o Tail(rest) = b \o rest
    BY <2>2, NextIsNew
  <2>4. Cardinality(Seen(b, e.addr)) \in Nat /\ Len(b) \in Nat
    BY <2>2, SeenIs
  <2>5. Cardinality(Seen(b, e.addr)) # MAX_REPITITION
    BY <2>3, <2>4, IPLogAssumption
  <2>6. Records' = Book!Forget(Append(b, e))
    BY <1>3, <2>3, <2>5 DEF Added, b
  <2>7. Book!Forget(Append(b, e)) = Append(b, e)
    <3>1. Len(b) < iplog_size
      BY <2>3, <2>4, SizeIs
    <3> QED
      BY <2>2, <2>3, <3>1, ForgetIs
  <2>8. reading' = Tail(rest) /\ file' = file
    BY <2>1 DEF rest
  <2> QED
    BY <2>2, <2>3, <2>6, <2>7, <2>8
<1>7. BookStep
  <2>1. CASE Records' = Records
    BY <2>1 DEF BookStep
  <2>2. CASE Added(Records, Records', e)
    BY <2>2, AddedIsAdd DEF BookStep
  <2> QED
    BY <1>3, <2>1, <2>2
<1> QED
  BY <1>3, <1>4, <1>5, <1>6, <1>7 DEF LogInv

\* The steps of a merge.
LEMMA AfterMerging ==
  ASSUME LogInv, IPLog_Merge
  PROVE  LogInv' /\ BookStep
<1>1. LogTyped /\ BookOK(Records) /\ BookOK(file) /\ LoadRestores /\ FilesTyped
      /\ (phase = "down" => merge.on = FALSE)
  BY DEF LogInv
<1>2. PICK sub : LogTree(sub)
  BY DEF LogInv
<1>3. LogTyped' /\ (\E sub2 : LogTree(sub2)') /\ Records' = Records
  BY <1>1, <1>2, AfterMerge
<1>4. merge.on /\ UNCHANGED <<phase, reading, file>>
  BY DEF IPLog_Merge
<1>5. FilesTyped' /\ LoadRestores'
  BY <1>1, <1>3, <1>4 DEF FilesTyped, LoadRestores
<1>6. BookOK(Records)' /\ BookOK(file)'
  BY <1>1, <1>3, <1>4 DEF BookOK, NoneTwice, FewNames, Seen
<1>7. phase' # "down"
  BY <1>1, <1>4
<1>8. BookStep
  BY <1>3, <1>4 DEF BookStep
<1> QED
  BY <1>3, <1>5, <1>6, <1>7, <1>8 DEF LogInv

\* The end of the program, and what a crash leaves of the file.
LEMMA AfterStop ==
  ASSUME LogInv, Stop
  PROVE  LogInv' /\ BookStep
<1>1. LogTyped /\ BookOK(Records) /\ BookOK(file) /\ FilesTyped
  BY DEF LogInv
<1>2. Emptied' /\ phase' = "down" /\ reading' = <<>>
  BY DEF Stop, Forgotten, Emptied
<1>3. LogTyped' /\ (\E sub : LogTree(sub)') /\ Records' = <<>> /\ merge'.on = FALSE
  BY <1>2, EmptyLogNext
<1>4. iplog_next' = 0 /\ iplog_full' = FALSE
  BY <1>2 DEF Emptied
<1>5. file' = file \/ \E n \in 0..Len(Records) : file' = SubSeq(Records, 1, n)
  BY DEF Stop
<1>6. BookOK(file')
  BY <1>1, <1>5, PrefixOfBook
<1>7. BookOK(Records)' /\ BookOK(file)'
  BY <1>3, <1>6, EmptyBook DEF BookOK, NoneTwice, FewNames, Seen
<1>8. FilesTyped' /\ LoadRestores'
  BY <1>2, <1>6, EmptySeq DEF FilesTyped, LoadRestores, BookOK
<1>9. BookStep
  <2>1. Book!Stop
    BY <1>3, <1>5 DEF Book!Stop
  <2> QED
    BY <2>1 DEF BookStep, Book!Next
<1> QED
  BY <1>2, <1>3, <1>4, <1>7, <1>8, <1>9 DEF LogInv

\* Every step keeps the invariant, and is one of the address book or none.
LEMMA LogInvStep ==
  ASSUME LogInv, [IPLogNext]_iplogVars
  PROVE  LogInv' /\ BookStep
<1>1. LogTyped /\ BookOK(Records) /\ BookOK(file) /\ FilesTyped
  BY DEF LogInv
<1>2. CASE IPLog_Init
  <2>1. UNCHANGED treeVars /\ FilesTyped' /\ phase' # "down" /\ BookOK(file')
        /\ UNCHANGED file /\ phase = "down" /\ reading' = file
    BY <1>1, <1>2 DEF IPLog_Init, FilesTyped
  <2>2. LogInv' /\ Records' = Records
    BY <2>1, AfterOther
  <2> QED
    BY <2>1, <2>2 DEF BookStep
<1>3. CASE \E records \in Imports : IPLog_Import_f(records)
  <2>1. PICK records \in Imports : IPLog_Import_f(records)
    BY <1>3
  <2>2. records \in Seq(Entry)
    BY IPLogAssumption
  <2>3. UNCHANGED treeVars /\ FilesTyped' /\ phase' = "importing" /\ BookOK(file')
        /\ UNCHANGED file
    BY <1>1, <2>1, <2>2 DEF IPLog_Import_f, FilesTyped
  <2>4. LogInv' /\ Records' = Records
    BY <2>3, AfterOther
  <2> QED
    BY <2>3, <2>4 DEF BookStep
<1>4. CASE \E e \in Entry : See(e)
  <2>1. PICK e \in Entry : See(e)
    BY <1>4
  <2>2. ~merge.on /\ phase = "running" /\ IPLog_Add(e)
        /\ UNCHANGED <<phase, reading, file>>
    BY <2>1 DEF See, BetweenAdds
  <2>3. reading' \in Seq(Entry)
    BY <1>1, <2>2 DEF FilesTyped
  <2> QED
    BY <2>2, <2>3, AfterEntry
<1>5. CASE AddRecord
  <2> DEFINE e == Head(reading)
  <2>1. ~merge.on /\ reading # <<>> /\ IPLog_Add(e) /\ reading' = Tail(reading)
        /\ UNCHANGED <<phase, file>>
    BY <1>5 DEF AddRecord, BetweenAdds
  <2>2. e \in Entry /\ Tail(reading) \in Seq(Entry)
    BY <1>1, <2>1, FirstAndRest DEF FilesTyped
  <2>3. phase # "down"
    BY <2>1 DEF LogInv
  <2> HIDE DEF e
  <2>4. e = Head(reading)
    BY DEF e
  <2> QED
    BY <2>1, <2>2, <2>3, <2>4, AfterEntry
<1>6. CASE IPLog_Merge
  BY <1>6, AfterMerging
<1>7. CASE FileRead
  <2>1. UNCHANGED treeVars /\ FilesTyped' /\ phase' = "running" /\ BookOK(file')
        /\ UNCHANGED file
    BY <1>1, <1>7 DEF FileRead, FilesTyped
  <2>2. LogInv' /\ Records' = Records
    BY <2>1, AfterOther
  <2> QED
    BY <2>1, <2>2 DEF BookStep
<1>8. CASE IPLog_WriteLog
  <2>1. UNCHANGED treeVars /\ FilesTyped' /\ phase' = "saving" /\ BookOK(file')
        /\ UNCHANGED file
    BY <1>1, <1>8 DEF IPLog_WriteLog, FilesTyped
  <2>2. LogInv' /\ Records' = Records
    BY <2>1, AfterOther
  <2> QED
    BY <2>1, <2>2 DEF BookStep
<1>9. CASE WriteFile
  <2>1. UNCHANGED treeVars /\ file' = Records /\ phase' = "saved" /\ UNCHANGED reading
    BY <1>9 DEF WriteFile
  <2>2. FilesTyped' /\ BookOK(file')
    BY <1>1, <2>1, RecordsAre DEF FilesTyped
  <2>3. LogInv' /\ Records' = Records
    BY <2>1, <2>2, AfterOther
  <2>4. Book!Save
    BY <2>1, <2>3 DEF Book!Save
  <2> QED
    BY <2>3, <2>4 DEF BookStep, Book!Next
<1>10. CASE Stop
  BY <1>10, AfterStop
<1>11. CASE UNCHANGED iplogVars
  <2>1. UNCHANGED treeVars /\ UNCHANGED <<phase, reading, file>>
    BY <1>11 DEF iplogVars
  <2>2. CASE phase # "down"
    <3>1. FilesTyped' /\ BookOK(file')
      BY <1>1, <2>1 DEF FilesTyped
    <3>2. LogInv' /\ Records' = Records
      BY <2>1, <2>2, <3>1, AfterOther
    <3> QED
      BY <2>1, <3>2 DEF BookStep
  <2>3. CASE phase = "down"
    <3>1. PICK sub : LogTree(sub)
      BY DEF LogInv
    <3>2. LogTyped' /\ LogTree(sub)' /\ Records' = Records
      BY <1>1, <2>1, <3>1, SameLog
    <3>3. BookOK(Records)' /\ BookOK(file)'
      BY <1>1, <2>1, <3>2 DEF BookOK, NoneTwice, FewNames, Seen
    <3>4. FilesTyped' /\ LoadRestores'
      BY <1>1, <2>1, <2>3 DEF FilesTyped, LoadRestores
    <3>5. iplog_next' = 0 /\ iplog_full' = FALSE /\ merge'.on = FALSE
          /\ reading' = <<>>
      BY <2>1, <2>3 DEF LogInv, treeVars
    <3> QED
      BY <2>1, <3>2, <3>3, <3>4, <3>5 DEF LogInv, BookStep
  <2> QED
    BY <2>2, <2>3
<1> QED
  BY <1>2, <1>3, <1>4, <1>5, <1>6, <1>7, <1>8, <1>9, <1>10, <1>11 DEF IPLogNext

\* The inductive invariant of the IP log, in every state of the log
\* (IPLog_Add, IPLog_Delete, IPLog_Merge, IPLog_Init, IPLog_WriteLog).
THEOREM LogInvAlways == IPLogSpec => []LogInv
<1>1. IPLogInit => LogInv
  BY LogInvInit
<1>2. LogInv /\ [IPLogNext]_iplogVars => LogInv'
  BY LogInvStep
<1> QED
  BY <1>1, <1>2, PTL DEF IPLogSpec

\* The nodes are slots of the ring and so is all they link to, for a ring of
\* any size and any entries (iplog_t, IPLog_Add, IPLog_Merge).
THEOREM IPLogTypesHold == IPLogSpec => []IPLogTypeOK
BY LogInvAlways, LogInvType, PTL

\* Whenever nothing is being taken out, the tree has the nodes of the ring,
\* each found by its address and known to the node above it, whatever rand
\* has said; and what is read at the start is the file, in its order and with
\* nothing dropped (IPLog_Add, IPLog_Delete, IPLog_Merge, IPLog_Init).
THEOREM IPLogIsAlwaysWhole == IPLogSpec => []IPLogIsWhole
BY LogInvAlways, LogInvWhole, PTL

\* The tree and the ring do what the address book promises: nothing is in it
\* twice, no more than MAX_REPITITION names of an address, none is lost but
\* the oldest, and what is saved is what is in it (IPLog_Add,
\* IPLog_WriteLog).
THEOREM IPLogImplementsAddressBook == IPLogSpec => ImplementsAddressBook
<1>1. IPLogInit => Book!Init
  BY LogInvInit
<1>2. LogInv /\ [IPLogNext]_iplogVars => [Book!Next]_(Book!vars)
  BY LogInvStep DEF BookStep, Book!vars
<1> QED
  BY <1>1, <1>2, LogInvAlways, PTL DEF IPLogSpec, ImplementsAddressBook, Book!Spec
=============================================================================
