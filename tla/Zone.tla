-------------------------------- MODULE Zone --------------------------------
(***************************************************************************)
(* The zone (memory_zone.c): small allocations out of one block of the     *)
(* hunk, which hold the console's lines and arguments, the text of cvars   *)
(* and aliases, key bindings and files.                                    *)
(*                                                                         *)
(* The zone is a doubly linked circular list of blocks that fill it, used  *)
(* (their tag is not 0) and free, closed by a cap of size 0 that counts as *)
(* used.  Freeing merges a block with the free neighbours; allocating      *)
(* looks for a free block from the rover on, and cuts off what is left     *)
(* over unless it is a small fragment.                                     *)
(*                                                                         *)
(* Memory is counted in units of 8 bytes.  A block is known by the address *)
(* of its header; the blocks are the domain of the function zone.          *)
(***************************************************************************)
EXTENDS Integers

CONSTANTS
  ZoneSize,        \* the units of the zone after its own header
  MINFRAGMENT,     \* a rest not larger than this stays with its block
  Allocsize        \* what requests come to with header and trash tester

ASSUME ZoneAssumption ==
  /\ ZoneSize \in Nat \ {0}
  /\ MINFRAGMENT \in Nat
  /\ Allocsize \subseteq Nat \ {0}

VARIABLES
  zone,            \* the headers: zone[a] of each block and of the cap
  rover,           \* mainzone->rover
  scan,            \* the running Z_TagMalloc: its locals, size 0 if none runs
  outOfZone        \* Z_Malloc has failed, and the program ended

zoneVars == <<zone, rover, scan, outOfZone>>

cap == 0
Header(size, used, prev, next) ==
  [size |-> size, used |-> used, prev |-> prev, next |-> next]
NoScan == [size |-> 0, base |-> cap, at |-> cap, start |-> cap]

\* Memory_InitZone: one free block.
ZoneInit ==
  /\ zone = [a \in {cap, 1} |-> IF a = cap THEN Header(0, TRUE, 1, 1)
                                ELSE Header(ZoneSize, FALSE, cap, cap)]
  /\ rover = 1
  /\ scan = NoScan
  /\ outOfZone = FALSE

Blocks == DOMAIN zone \ {cap}
Ready == scan.size = 0 /\ ~outOfZone

\* Mutant: the block after goes on pointing at what is gone.
MergedKeepsBackLink(z, a, b) ==
  [c \in DOMAIN z \ {b} |->
     IF c = a THEN [z[a] EXCEPT !.size = @ + z[b].size, !.next = z[b].next]
              ELSE z[c]]

\* The list z without block b, whose memory goes to block a before it.
Merged(z, a, b) ==
  LET grown == [c \in DOMAIN z \ {b} |->
                  IF c = a THEN [z[a] EXCEPT !.size = @ + z[b].size,
                                             !.next = z[b].next]
                           ELSE z[c]]
  IN [grown EXCEPT ![z[b].next].prev = a]

\* Mutant: the rover is only moved off the block that is freed.
Z_FreeLeavesRover(b) ==
  /\ Ready
  /\ zone[b].used
  /\ LET freed == [zone EXCEPT ![b].used = FALSE]
         other == freed[b].prev
         block == IF freed[other].used THEN b ELSE other
         low == IF block = b THEN freed ELSE Merged(freed, block, b)
         above == low[block].next
     IN /\ zone' = IF low[above].used THEN low ELSE Merged(low, block, above)
        /\ rover' = IF rover = b THEN block ELSE rover
  /\ UNCHANGED <<scan, outOfZone>>

\* Z_Free of a block in use: merged with the block before if that is free,
\* then with the block after, the rover never left at what is gone.
Z_Free(b) ==
  /\ Ready
  /\ zone[b].used
  /\ LET freed == [zone EXCEPT ![b].used = FALSE]
         other == freed[b].prev
         block == IF freed[other].used THEN b ELSE other
         low == IF block = b THEN freed ELSE Merged(freed, block, b)
         above == low[block].next
     IN /\ zone' = IF low[above].used THEN low ELSE Merged(low, block, above)
        /\ rover' = IF \/ rover = b
                       \/ rover = above /\ ~low[above].used
                    THEN block ELSE rover
  /\ UNCHANGED <<scan, outOfZone>>

\* Mutant: the scan ends at the cap instead of going all the way around.
Z_MallocToCap(n) ==
  /\ Ready
  /\ scan' = [size |-> n, base |-> rover, at |-> rover, start |-> cap]
  /\ UNCHANGED <<zone, rover, outOfZone>>

\* Z_Malloc enters Z_TagMalloc, whose scan begins at the rover and ends at
\* the block before it.
Z_Malloc(n) ==
  /\ Ready
  /\ scan' = [size |-> n, base |-> rover, at |-> rover,
              start |-> zone[rover].prev]
  /\ UNCHANGED <<zone, rover, outOfZone>>

\* The list z with base cut to n units, unless what is left is too small.
Cut(z, base, n) ==
  LET extra == z[base].size - n
      new == base + n
      next == z[base].next
  IN IF extra <= MINFRAGMENT
     THEN [z EXCEPT ![base].used = TRUE]
     ELSE [c \in DOMAIN z \cup {new} |->
             CASE c = base -> Header(n, TRUE, z[base].prev, new)
               [] c = new -> Header(extra, FALSE, base, next)
               [] c = next -> [z[c] EXCEPT !.prev = new]
               [] OTHER -> z[c]]

\* One round of the loop of Z_TagMalloc and, when it has found a block, what
\* follows the loop.
Z_TagMalloc ==
  /\ scan.size # 0
  /\ ~outOfZone
  /\ LET next == zone[scan.at].next
         base == IF zone[scan.at].used THEN next ELSE scan.base
         found == ~zone[base].used /\ zone[base].size >= scan.size
     IN \/ /\ scan.at = scan.start
           /\ outOfZone' = TRUE
           /\ UNCHANGED <<zone, rover, scan>>
        \/ /\ scan.at # scan.start /\ ~found
           /\ scan' = [scan EXCEPT !.base = base, !.at = next]
           /\ UNCHANGED <<zone, rover, outOfZone>>
        \/ /\ scan.at # scan.start /\ found
           /\ zone' = Cut(zone, base, scan.size)
           /\ rover' = zone'[base].next
           /\ scan' = NoScan
           /\ UNCHANGED outOfZone

ZoneNext ==
  \/ \E n \in Allocsize : Z_Malloc(n)
  \/ Z_TagMalloc
  \/ \E b \in Blocks : Z_Free(b)

ZoneSpec == ZoneInit /\ [][ZoneNext]_zoneVars

-----------------------------------------------------------------------------
(* Properties.                                                             *)

Address == 1..ZoneSize

\* Headers lie in the zone, and what they and the scan point at is a header.
ZoneTypeOK ==
  /\ DOMAIN zone \subseteq Address \cup {cap}
  /\ \A a \in DOMAIN zone :
       /\ zone[a] \in [size : 0..ZoneSize, used : BOOLEAN,
                       prev : DOMAIN zone, next : DOMAIN zone]
  /\ scan \in [size : {0} \cup Allocsize, base : DOMAIN zone,
               at : DOMAIN zone, start : DOMAIN zone]
  /\ outOfZone \in BOOLEAN

\* The header comment of the zone and Z_CheckHeap: the blocks fill the zone
\* with no space between them, the links agree, no two free blocks follow each
\* other, and the rover, which Z_TagMalloc follows without a check, stands on
\* a block or on the cap.
ZoneIsWhole ==
  /\ rover \in DOMAIN zone
  /\ \A a \in Blocks :
       /\ zone[a].size > 0
       /\ LET end == a + zone[a].size
          IN zone[a].next = IF end > ZoneSize THEN cap ELSE end
       /\ ~zone[a].used => zone[zone[a].next].used
  /\ \A a \in DOMAIN zone :
       /\ zone[zone[a].next].prev = a
       /\ zone[zone[a].prev].next = a
  /\ zone[cap].next = 1
  /\ zone[cap].used

\* The zone implements the heap: what is in use stays apart from all else,
\* and an allocation that fails would have failed anywhere.
TheHeap == INSTANCE Heap WITH
  Memory <- Address,
  Request <- Allocsize,
  live <- {[first |-> a, last |-> a + zone[a].size - 1] :
             a \in {b \in Blocks : zone[b].used}},
  asked <- scan.size,
  failed <- outOfZone
ImplementsHeap == TheHeap!Spec
=============================================================================
