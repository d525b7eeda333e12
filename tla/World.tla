-------------------------------- MODULE World --------------------------------
(***************************************************************************)
(* The edicts of a level (pr_edict.c), the tree of areas they are linked   *)
(* into (sv_world.c), and the touch functions that are run while a list of *)
(* the tree is being walked.                                               *)
(*                                                                         *)
(* An edict that moves is linked into the list of the smallest area it     *)
(* lies in, a trigger apart from what is solid, and then every trigger in  *)
(* the areas it reaches is touched: SV_TouchLinks walks the list and runs  *)
(* programs, which may remove, spawn and move edicts, those in the list    *)
(* among them, and by moving one begin a walk inside the walk.             *)
(*                                                                         *)
(* The tree is a root with two leaves.  The boxes of edicts are given by   *)
(* the areas they lie in; whether two that may meet do meet is not.        *)
(***************************************************************************)
EXTENDS Integers, Sequences

CONSTANTS
  max_edicts,      \* sv.max_edicts, without the world's and the players'
  MaxCalls,        \* what a touch function calls
  MaxWalks,        \* walks inside walks
  Assigned,        \* the solids programs give to an edict that has one
  Relinks,         \* whether touch functions move edicts that are linked
  Early            \* whether edicts may be freed in the first two seconds

ASSUME WorldAssumption ==
  /\ {max_edicts, MaxWalks} \subseteq Nat \ {0}
  /\ MaxCalls \in Nat
  /\ Assigned \subseteq {"not", "trigger", "solid"}
  /\ Relinks \in BOOLEAN /\ Early \in BOOLEAN

Edict == 1..max_edicts

\* Where a box lies: in the area of a leaf, whose node it is linked to, or in
\* both, and linked to the root.
Box == {"left", "right", "both"}
NodeOf(box) == IF box = "both" THEN "root" ELSE box

\* The links: those of the edicts, NULL, and the heads of the lists.
NULL_LINK == 0
Trigger_edicts(node) ==
  CASE node = "root" -> -1 [] node = "left" -> -2 [] node = "right" -> -3
Solid_edicts(node) == Trigger_edicts(node) - 3
Head_links == -6..-1

VARIABLES
  edicts,          \* free: "no", or whether ED_Alloc may take it: "now" or
                   \* "later";  solid, box: of the others
  num_edicts,
  link,            \* prev and next: the fields of the links
  walks,           \* the calls of SV_TouchLinks, the innermost last: who has
                   \* moved, the node, l and next, and how much more the touch
                   \* function of l may call, -1 if it does not run
  sv_time          \* "early" in the first two seconds, "late", or "over"
                   \* after a Host_Error

worldVars == <<edicts, num_edicts, link, walks, sv_time>>

\* SV_ClearWorld, before the entities of the level are spawned.
WorldInit ==
  /\ edicts = [e \in Edict |-> [free |-> "no", solid |-> "not",
                                box |-> "both"]]
  /\ num_edicts = 0
  /\ link = [next |-> [l \in Edict \cup Head_links |->
                         IF l \in Edict THEN NULL_LINK ELSE l],
             prev |-> [l \in Edict \cup Head_links |->
                         IF l \in Edict THEN NULL_LINK ELSE l]]
  /\ walks = <<>>
  /\ sv_time \in {"late", IF Early THEN "early" ELSE "late"}

InUse == 1..num_edicts
Going == sv_time # "over"

-----------------------------------------------------------------------------
(* The links.                                                              *)

IsLinked(k, e) == k.prev[e] # NULL_LINK

RemoveLink(k, e) ==
  [next |-> [k.next EXCEPT ![k.prev[e]] = k.next[e]],
   prev |-> [k.prev EXCEPT ![k.next[e]] = k.prev[e]]]

\* Mutant: the fields of the edict go on pointing into the list.
SV_UnlinkEdictKeepsFields(k, e) == IF IsLinked(k, e) THEN RemoveLink(k, e) ELSE k

SV_UnlinkEdict(k, e) ==
  IF ~IsLinked(k, e) THEN k
  ELSE LET out == RemoveLink(k, e)
       IN [next |-> [out.next EXCEPT ![e] = NULL_LINK],
           prev |-> [out.prev EXCEPT ![e] = NULL_LINK]]

InsertLinkBefore(k, e, before) ==
  [next |-> [k.next EXCEPT ![e] = before, ![k.prev[before]] = e],
   prev |-> [k.prev EXCEPT ![e] = k.prev[before], ![before] = e]]

\* SV_LinkEdict as far as SV_TouchLinks, for an edict ent in the place e.
Relinked(e, ent) ==
  LET out == SV_UnlinkEdict(link, e) IN
  IF ent.free # "no" \/ ent.solid = "not" THEN out
  ELSE InsertLinkBefore(out, e, IF ent.solid = "trigger"
                                THEN Trigger_edicts(NodeOf(ent.box))
                                ELSE Solid_edicts(NodeOf(ent.box)))

-----------------------------------------------------------------------------
(* SV_TouchLinks.                                                          *)

Walk == walks[Len(walks)]
Top(walk) == walks' = [walks EXCEPT ![Len(walks)] = walk]
NoFunction == -1

Walking == Going /\ walks # <<>> /\ Walk.calls = NoFunction
TouchRuns == Going /\ walks # <<>> /\ Walk.calls # NoFunction

Enter(e, node) ==
  [ent |-> e, node |-> node, l |-> link.next[Trigger_edicts(node)],
   next |-> NULL_LINK, calls |-> NoFunction]

\* The list is at its end, or a link is missing: on to the leaves that the
\* box, which a touch function may have moved, reaches.
NodeDone ==
  /\ Walking
  /\ Walk.l \in {Trigger_edicts(Walk.node), NULL_LINK}
  /\ LET ahead == CASE Walk.node = "root" -> {"left", "right"}
                    [] Walk.node = "left" -> {"right"}
                    [] Walk.node = "right" -> {}
         reached == {n \in ahead : edicts[Walk.ent].box \in {n, "both"}}
     IN IF reached = {}
        THEN walks' = SubSeq(walks, 1, Len(walks) - 1)
        ELSE Top(Enter(Walk.ent, IF "left" \in reached THEN "left"
                                 ELSE "right"))
  /\ UNCHANGED <<edicts, num_edicts, link, sv_time>>

\* l itself, what is no trigger (any more), has no touch function, or is not
\* met.
Skip ==
  /\ Walking
  /\ Walk.l \in Edict
  /\ Top([Walk EXCEPT !.l = link.next[Walk.l]])
  /\ UNCHANGED <<edicts, num_edicts, link, sv_time>>

Touch ==
  /\ Walking
  /\ Walk.l \in Edict \ {Walk.ent}
  /\ edicts[Walk.l].free = "no" /\ edicts[Walk.l].solid = "trigger"
  /\ \/ edicts[Walk.l].box \in {"both", edicts[Walk.ent].box}
     \/ edicts[Walk.ent].box = "both"
  /\ Top([Walk EXCEPT !.next = link.next[Walk.l], !.calls = MaxCalls])
  /\ UNCHANGED <<edicts, num_edicts, link, sv_time>>

\* PR_ExecuteProgram returns.  If l has got another successor, the walk goes
\* on with that one, wherever it is.
TouchReturns ==
  /\ TouchRuns
  /\ LET next == link.next[Walk.l] IN
     Top([Walk EXCEPT !.l = IF next # NULL_LINK THEN next ELSE Walk.next,
                      !.next = NULL_LINK, !.calls = NoFunction])
  /\ UNCHANGED <<edicts, num_edicts, link, sv_time>>

-----------------------------------------------------------------------------
(* What programs call: touch functions, and what is run between the walks. *)

MayCall == Going /\ (walks # <<>> => Walk.calls > 0)
Called == IF walks = <<>> THEN walks
          ELSE [walks EXCEPT ![Len(walks)].calls = @ - 1]

Reusable(e) == edicts[e].free = "now"

\* ED_Alloc; the program then gives the edict a solid of its own, and it lies
\* where the level's middle is until setorigin.
PF_Spawn(solid) ==
  /\ MayCall
  /\ LET free == {e \in InUse : Reusable(e)}
         new == IF free # {} THEN CHOOSE e \in free : \A x \in free : e <= x
                ELSE num_edicts + 1
     IN IF new \in Edict
        THEN /\ edicts' = [edicts EXCEPT ![new] =
                             [free |-> "no", solid |-> solid, box |-> "both"]]
             /\ num_edicts' = IF new > num_edicts THEN new ELSE num_edicts
             /\ walks' = Called
             /\ UNCHANGED <<link, sv_time>>
        ELSE /\ sv_time' = "over"
             /\ UNCHANGED <<edicts, num_edicts, link, walks>>

\* Mutant: the edict stays where it is in its list.
ED_FreeStaysLinked(e) ==
  /\ edicts' = [edicts EXCEPT
       ![e].free = IF sv_time = "early" THEN "now" ELSE "later",
       ![e].solid = "not"]
  /\ UNCHANGED link

\* ED_Free, which leaves the world, also of an edict that is free.
ED_Free(e) ==
  /\ edicts' = [edicts EXCEPT
       ![e].free = IF sv_time = "early" THEN "now" ELSE "later",
       ![e].solid = "not"]
  /\ link' = SV_UnlinkEdict(link, e)

PF_Remove(e) ==
  /\ MayCall
  /\ ED_Free(e)
  /\ walks' = Called
  /\ UNCHANGED <<num_edicts, sv_time>>

\* A program assigns to the field; the links follow with the next move.
SetSolid(e, solid) ==
  /\ MayCall
  /\ edicts[e].free = "no" /\ edicts[e].solid # solid
  /\ edicts' = [edicts EXCEPT ![e].solid = solid]
  /\ walks' = Called
  /\ UNCHANGED <<num_edicts, link, sv_time>>

MayMove(e) ==
  MayCall /\ (walks # <<>> /\ ~Relinks => ~IsLinked(link, e))

\* Also setsize, setmodel and droptofloor: SV_LinkEdict(e, false).
PF_setorigin(e, box) ==
  /\ MayMove(e)
  /\ LET moved == [edicts[e] EXCEPT !.box = box] IN
     /\ edicts' = [edicts EXCEPT ![e] = moved]
     /\ link' = Relinked(e, moved)
  /\ walks' = Called
  /\ UNCHANGED <<num_edicts, sv_time>>

\* SV_LinkEdict(e, true), called by SV_PushEntity and the rest of the physics
\* for e, and by walkmove and movetogoal of a program.
SV_LinkEdict(e, box) ==
  /\ MayMove(e)
  /\ Len(walks) < MaxWalks
  /\ edicts[e].free = "no" /\ edicts[e].solid # "not"
  /\ LET moved == [edicts[e] EXCEPT !.box = box] IN
     /\ edicts' = [edicts EXCEPT ![e] = moved]
     /\ link' = Relinked(e, moved)
     /\ walks' = Append(Called,
                   [ent |-> e, node |-> "root",
                    l |-> link'.next[Trigger_edicts("root")],
                    next |-> NULL_LINK, calls |-> NoFunction])
  /\ UNCHANGED <<num_edicts, sv_time>>

\* Half a second passes; within a frame no time does.
TimePasses ==
  /\ Going /\ walks = <<>>
  /\ edicts' = [e \in Edict |-> IF edicts[e].free = "later"
                                THEN [edicts[e] EXCEPT !.free = "now"]
                                ELSE edicts[e]]
  /\ sv_time' \in {sv_time, "late"}
  /\ UNCHANGED <<num_edicts, link, walks>>

WorldNext ==
  \/ NodeDone \/ Skip \/ Touch \/ TouchReturns
  \/ \E solid \in {"trigger", "solid"} : PF_Spawn(solid)
  \/ \E e \in InUse :
       \/ PF_Remove(e)
       \/ \E solid \in Assigned : SetSolid(e, solid)
       \/ \E box \in Box : PF_setorigin(e, box) \/ SV_LinkEdict(e, box)
  \/ TimePasses

WorldSpec == WorldInit /\ [][WorldNext]_worldVars

-----------------------------------------------------------------------------
(* Properties.                                                             *)

\* What one comes by from link l on, and the edicts of a list.
From(k, l) ==
  LET c[n \in 0..max_edicts] == IF n = 0 THEN k.next[l]
                                ELSE IF c[n - 1] \in Edict
                                THEN k.next[c[n - 1]] ELSE c[n - 1]
  IN c
Members(k, head) == {From(k, head)[n] : n \in 0..max_edicts} \cap Edict

\* Whatever programs do to each other's edicts, the lists are rings that can
\* be walked both ways, no edict is in two of them, and one that is free is in
\* none.
WorldIsWhole ==
  /\ \A h \in Head_links :
       /\ From(link, h)[max_edicts] = h
       /\ \A e \in Members(link, h) : edicts[e].free = "no" /\ e \in InUse
  /\ \A l \in Edict \cup Head_links :
       link.next[l] # NULL_LINK => link.prev[link.next[l]] = l
  /\ \A e \in Edict :
       IsLinked(link, e) <=> \E h \in Head_links : e \in Members(link, h)

\* A walk never leaves its list: it stands on the head where it ends, on an
\* edict of the list, or on one that has been taken out of every list.
WalkStaysInList ==
  Walking =>
    LET head == Trigger_edicts(Walk.node) IN
    \/ Walk.l \in {head, NULL_LINK} \cup Members(link, head)
    \/ Walk.l \in Edict /\ ~IsLinked(link, Walk.l)
=============================================================================
