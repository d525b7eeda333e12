-------------------------------- MODULE Heap --------------------------------
(***************************************************************************)
(* What the zone (memory_zone.c) promises its callers, with no block list, *)
(* fragments or rover in it.                                               *)
(*                                                                         *)
(* Z_Malloc hands out pieces of one memory that do not overlap, each at    *)
(* least as large as was asked, and they stay as they are until Z_Free     *)
(* takes them back.  It fails only when no free stretch is large enough.   *)
(***************************************************************************)
EXTENDS Integers

CONSTANTS
  Memory,          \* the addresses of the heap
  Request          \* the sizes that may be asked for

VARIABLES
  live,            \* the pieces in use, each from its first to its last address
  asked,           \* the size of the allocation under way, 0 if there is none
  failed           \* whether an allocation has failed

vars == <<live, asked, failed>>

Piece(first, last) == [first |-> first, last |-> last]
Apart(p, q) == p.last < q.first \/ q.last < p.first

IsFree(p) == p.first..p.last \subseteq Memory /\ \A q \in live : Apart(p, q)

Init ==
  /\ live = {}
  /\ asked = 0
  /\ failed = FALSE

Ask(n) ==
  /\ ~failed /\ asked = 0
  /\ asked' = n
  /\ UNCHANGED <<live, failed>>

Allocate(p) ==
  /\ ~failed /\ asked # 0
  /\ p.last - p.first + 1 >= asked
  /\ IsFree(p)
  /\ live' = live \cup {p}
  /\ asked' = 0
  /\ UNCHANGED failed

Fail ==
  /\ ~failed /\ asked # 0
  /\ \A a \in Memory : ~IsFree(Piece(a, a + asked - 1))
  /\ failed' = TRUE
  /\ UNCHANGED <<live, asked>>

Free(p) ==
  /\ ~failed /\ asked = 0
  /\ live' = live \ {p}
  /\ UNCHANGED <<asked, failed>>

Next ==
  \/ \E n \in Request : Ask(n)
  \/ \E a, b \in Memory : a <= b /\ Allocate(Piece(a, b))
  \/ Fail
  \/ \E p \in live : Free(p)

Spec == Init /\ [][Next]_vars
=============================================================================
