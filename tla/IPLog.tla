-------------------------------- MODULE IPLog --------------------------------
(***************************************************************************)
(* The IP log (iplog.c): which names were seen at which addresses.         *)
(*                                                                         *)
(* The records are a ring, iplogs, in which the oldest is overwritten, and *)
(* at the same time the nodes of a binary search tree over the addresses.  *)
(* Once the ring has gone round, one of its records is always out of the   *)
(* tree.  The log is read from iplog.dat when the program starts, and when *)
(* it ends it is merged with the file and written there.                   *)
(***************************************************************************)
EXTENDS Integers, Sequences, FiniteSets

CONSTANTS
  iplog_size,      \* the slots of the ring
  Entry,           \* the players that may be seen: an address and a name
  MAX_REPITITION,  \* names of one address
  Imports          \* the files that may be merged in by "ipmerge"

ASSUME IPLogAssumption ==
  /\ iplog_size \in Nat \ {0, 1}
  /\ \A e \in Entry : e.addr \in Int /\ e = [addr |-> e.addr, name |-> e.name]
  /\ MAX_REPITITION \in Nat \ {0}
  /\ Imports \subseteq Seq(Entry)

Slot == 0..iplog_size - 1
NoNode == -1
Node == Slot \cup {NoNode}

VARIABLES
  iplogs,          \* the records of the slots that have been used
  iplog_head, iplog_next, iplog_full,
  merge,           \* the running IPLog_Merge: the trees that are left and
                   \* where the result goes, at = NoNode for iplog_head
  phase,           \* "down", "loading", "running", "importing", "saving"
  reading,            \* the records of a file that are still to be added
  file             \* iplog.dat

treeVars == <<iplogs, iplog_head, iplog_next, iplog_full, merge>>
iplogVars == <<treeVars, phase, reading, file>>

NoMerge == [on |-> FALSE, left |-> NoNode, right |-> NoNode, at |-> NoNode,
            side |-> FALSE]

Forgotten ==
  /\ iplogs' = <<>>
  /\ iplog_head' = NoNode /\ iplog_next' = 0 /\ iplog_full' = FALSE
  /\ merge' = NoMerge

IPLogInit ==
  /\ iplogs = <<>>
  /\ iplog_head = NoNode /\ iplog_next = 0 /\ iplog_full = FALSE
  /\ merge = NoMerge
  /\ phase = "down"
  /\ reading = <<>>
  /\ file = <<>>

-----------------------------------------------------------------------------
(* The tree.  children[0] holds the addresses that are not greater.        *)

\* Where one is after n steps down from the head, looking for address a.
Way(a) ==
  LET w[n \in 0..iplog_size] ==
        IF n = 0 THEN iplog_head
        ELSE IF w[n - 1] = NoNode THEN NoNode
        ELSE iplogs[w[n - 1]].children[a > iplogs[w[n - 1]].addr]
  IN  w

\* The nodes one meets, and the steps after which one meets a itself.
Path(a) == {Way(a)[n] : n \in 0..iplog_size} \ {NoNode}
Matches(a) ==
  {n \in 0..iplog_size : Way(a)[n] # NoNode /\ iplogs[Way(a)[n]].addr = a}
Known(e) == \E n \in Matches(e.addr) : iplogs[Way(e.addr)[n]].name = e.name

\* The slot after slot n.
Following(n) == (n + 1) % iplog_size

New(e, parent) ==
  [addr |-> e.addr, name |-> e.name, parent |-> parent,
   children |-> [b \in BOOLEAN |-> NoNode]]

\* The tree with c in the place (at, side).
Linked(nodes, at, side, c) ==
  IF at = NoNode THEN nodes ELSE [nodes EXCEPT ![at].children[side] = c]

\* IPLog_Add finds e there, ...
AddKnown(e) == Known(e) /\ UNCHANGED treeVars

\* ... or shifts up the names of the address, which has enough of them, ...
AddNameMovesNone(e) ==
  LET way == Way(e.addr)
      m == Matches(e.addr)
      last == CHOOSE i \in m : \A j \in m : j <= i
  IN
  /\ ~Known(e)
  /\ Cardinality(m) = MAX_REPITITION
  /\ iplogs' = [iplogs EXCEPT ![way[last]].name = e.name]
  /\ UNCHANGED <<iplog_head, iplog_next, iplog_full, merge>>
AddName(e) ==
  LET way == Way(e.addr)
      m == Matches(e.addr)
      later(i) == {j \in m : j > i}
      name(i) == IF later(i) = {} THEN e.name
                 ELSE iplogs[way[CHOOSE j \in later(i) :
                                   \A k \in later(i) : j <= k]].name
  IN
  /\ ~Known(e)
  /\ Cardinality(m) = MAX_REPITITION
  /\ iplogs' = [n \in DOMAIN iplogs |->
       IF \A i \in m : way[i] # n THEN iplogs[n]
       ELSE [iplogs[n] EXCEPT !.name = name(CHOOSE i \in m : way[i] = n)]]
  /\ UNCHANGED <<iplog_head, iplog_next, iplog_full, merge>>

\* ... or puts it into the next slot of the ring and, when the ring has gone
\* round, begins IPLog_Delete of the slot after it.
AddNode(e) ==
  LET Ends(n) == iplogs[n].children[e.addr > iplogs[n].addr] = NoNode
      parent == IF iplog_head = NoNode THEN NoNode
                ELSE CHOOSE n \in Path(e.addr) : Ends(n)
      side == parent # NoNode /\ e.addr > iplogs[parent].addr
      nodes == [n \in DOMAIN iplogs \cup {iplog_next} |->
                  IF n = iplog_next THEN New(e, parent) ELSE iplogs[n]]
      new == Linked(nodes, parent, side, iplog_next)
      next == Following(iplog_next)
      old == new[next]
      above == old.parent
  IN
  /\ ~Known(e)
  /\ Cardinality(Matches(e.addr)) < MAX_REPITITION
  /\ iplogs' = new
  /\ iplog_head' = IF parent = NoNode THEN iplog_next ELSE iplog_head
  /\ iplog_next' = next
  /\ iplog_full' = (iplog_full \/ next = 0)
  /\ merge' = IF ~iplog_full' THEN NoMerge
              ELSE [on |-> TRUE, left |-> old.children[FALSE],
                    right |-> old.children[TRUE], at |-> above,
                    side |-> above # NoNode /\ old.addr > new[above].addr]

IPLog_Add(e) == AddKnown(e) \/ AddName(e) \/ AddNode(e)

\* Node n, which may be NoNode, takes the place where the result goes.
PlaceLeavesParent(n) ==
  /\ iplogs' = Linked(iplogs, merge.at, merge.side, n)
  /\ iplog_head' = IF merge.at = NoNode THEN n ELSE iplog_head
Place(n) ==
  LET nodes == Linked(iplogs, merge.at, merge.side, n) IN
  /\ iplogs' = IF n = NoNode THEN nodes
               ELSE [nodes EXCEPT ![n].parent = merge.at]
  /\ iplog_head' = IF merge.at = NoNode THEN n ELSE iplog_head

\* One call of IPLog_Merge: one tree is empty, or the greater part of the left
\* tree is merged with the right one, or the left tree with the smaller part
\* of the right one, as rand says.
IPLog_Merge ==
  /\ merge.on
  /\ \/ /\ merge.left = NoNode \/ merge.right = NoNode
        /\ Place(IF merge.left = NoNode THEN merge.right ELSE merge.left)
        /\ merge' = NoMerge
     \/ /\ merge.left # NoNode /\ merge.right # NoNode
        /\ \E rand \in BOOLEAN :
             IF rand
             THEN /\ Place(merge.left)
                  /\ merge' = [merge EXCEPT
                       !.at = merge.left, !.side = TRUE,
                       !.left = iplogs[merge.left].children[TRUE]]
             ELSE /\ Place(merge.right)
                  /\ merge' = [merge EXCEPT
                       !.at = merge.right, !.side = FALSE,
                       !.right = iplogs[merge.right].children[FALSE]]
  /\ UNCHANGED <<iplog_next, iplog_full, phase, reading, file>>

-----------------------------------------------------------------------------
(* The program and the file.                                               *)

BetweenAdds == ~merge.on

\* The slots that are in the log, oldest first.
Ring ==
  [i \in 1..(IF iplog_full THEN iplog_size - 1 ELSE iplog_next) |->
     IF iplog_full THEN (iplog_next + i) % iplog_size ELSE i - 1]
EntryOf(n) == [addr |-> iplogs[n].addr, name |-> iplogs[n].name]
InRing == {Ring[i] : i \in DOMAIN Ring}
Records == [i \in DOMAIN Ring |-> EntryOf(Ring[i])]

\* IPLog_Init, as far as reading the file.
IPLog_Init ==
  /\ phase = "down"
  /\ phase' = "loading"
  /\ reading' = file
  /\ UNCHANGED <<treeVars, file>>

\* The command "ipmerge".
IPLog_Import_f(records) ==
  /\ phase = "running" /\ BetweenAdds
  /\ phase' = "importing"
  /\ reading' = records
  /\ UNCHANGED <<treeVars, file>>

\* A player is seen: Host_Name_f, CL_ParseProQuakeString.
See(e) ==
  /\ phase = "running" /\ BetweenAdds
  /\ IPLog_Add(e)
  /\ UNCHANGED <<phase, reading, file>>

\* The next record of the file.
AddRecord ==
  /\ BetweenAdds
  /\ reading # <<>>
  /\ IPLog_Add(Head(reading))
  /\ reading' = Tail(reading)
  /\ UNCHANGED <<phase, file>>

\* IPLog_WriteLog, called by Host_Shutdown: the file is merged in ...
IPLog_WriteLog ==
  /\ phase = "running" /\ BetweenAdds
  /\ phase' = "saving"
  /\ reading' = file
  /\ UNCHANGED <<treeVars, file>>

\* ... and then written.
WriteFile ==
  /\ phase = "saving" /\ BetweenAdds /\ reading = <<>>
  /\ file' = Records
  /\ phase' = "saved"
  /\ UNCHANGED <<treeVars, reading>>

FileRead ==
  /\ phase \in {"loading", "importing"} /\ BetweenAdds /\ reading = <<>>
  /\ phase' = "running"
  /\ UNCHANGED <<treeVars, reading, file>>

\* The program ends; it may crash at any time, and when it does so while it
\* writes, the file ends there.
Stop ==
  /\ phase # "down"
  /\ \/ UNCHANGED file
     \/ /\ phase = "saving" /\ BetweenAdds /\ reading = <<>>
        /\ \E n \in 0..Len(Records) : file' = SubSeq(Records, 1, n)
  /\ phase' = "down"
  /\ reading' = <<>>
  /\ Forgotten

IPLogNext ==
  \/ IPLog_Init
  \/ \E records \in Imports : IPLog_Import_f(records)
  \/ \E e \in Entry : See(e)
  \/ AddRecord
  \/ IPLog_Merge
  \/ FileRead
  \/ IPLog_WriteLog
  \/ WriteFile
  \/ Stop

IPLogSpec == IPLogInit /\ [][IPLogNext]_iplogVars

-----------------------------------------------------------------------------
(* Properties.                                                             *)

\* The nodes are slots of the ring, and what they point at are slots.
IPLogTypeOK ==
  /\ DOMAIN iplogs \subseteq Slot
  /\ \A n \in DOMAIN iplogs :
       /\ EntryOf(n) \in Entry
       /\ iplogs[n].parent \in Node
       /\ iplogs[n].children \in [BOOLEAN -> Node]
  /\ iplog_head \in Node /\ iplog_next \in Slot /\ iplog_full \in BOOLEAN
  /\ phase \in {"down", "loading", "running", "importing", "saving", "saved"}
  /\ reading \in Seq(Entry) /\ file \in Seq(Entry)

\* Between two additions, whatever rand said when nodes were deleted: the
\* tree has the nodes of the ring, each is found by its address, and linked to
\* the node above it.
TreeIsRing ==
  BetweenAdds =>
    /\ \A n \in InRing : n \in Path(iplogs[n].addr)
    /\ \A n \in InRing, b \in BOOLEAN :
         LET c == iplogs[n].children[b] IN
         c # NoNode => c \in InRing /\ iplogs[c].parent = n
    /\ iplog_head # NoNode =>
         iplog_head \in InRing /\ iplogs[iplog_head].parent = NoNode

\* What was read back when the program started is in the order in which it
\* was written, and none of it is dropped, from a file cut off by a crash too.
LoadRestores ==
  phase = "loading" => Records \o reading = file

\* The tree, and the file it is read from.
IPLogIsWhole == TreeIsRing /\ LoadRestores

\* The tree and the ring implement the address book: nothing is in it twice,
\* no name is lost but the oldest, and what is saved is what is in it.
Book == INSTANCE AddressBook WITH
  Entry <- Entry,
  Capacity <- iplog_size - 1,
  NamesPerAddress <- MAX_REPITITION,
  log <- Records,
  saved <- file
ImplementsAddressBook == Book!Spec
=============================================================================
