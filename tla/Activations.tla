----------------------------- MODULE Activations -----------------------------
(***************************************************************************)
(* What a QuakeC program may rely on when its functions call each other:   *)
(* an activation of a function has its locals to itself from the call to   *)
(* the return, whatever is called in between.  No stacks in it.            *)
(*                                                                         *)
(* Locals are not cleared: those that are no parameters have the values    *)
(* their cells had before the call, in the innermost activation that has   *)
(* the cell, or in none (base).                                            *)
(***************************************************************************)
EXTENDS Naturals, Sequences

CONSTANTS
  Func,            \* the functions
  Cell,            \* the words in which functions have their locals
  Parms(_),        \* those of a function in which it gets its parameters
  Locals(_),       \* its parameters and locals
  Value            \* what is assigned; 0 is what a level begins with

VARIABLES
  active,          \* the activations: f, and own, the values of its locals
  base             \* the cells as they are when no function is active

vars == <<active, base>>

Init == active = <<>> /\ base = [a \in Cell |-> 0]

Seen(a) ==
  LET has == {i \in DOMAIN active : a \in DOMAIN active[i].own} IN
  IF has = {} THEN base[a]
  ELSE LET i == CHOOSE j \in has : \A h \in has : h <= j IN active[i].own[a]

Call(f) ==
  /\ \E given \in [Parms(f) -> Value] :
       active' = Append(active,
                        [f |-> f,
                         own |-> [a \in Locals(f) |->
                                    IF a \in Parms(f) THEN given[a]
                                    ELSE Seen(a)]])
  /\ UNCHANGED base

Assign ==
  /\ active # <<>>
  /\ \E a \in Locals(active[Len(active)].f), v \in Value :
       active' = [active EXCEPT ![Len(active)].own[a] = v]
  /\ UNCHANGED base

Return ==
  /\ active # <<>>
  /\ active' = SubSeq(active, 1, Len(active) - 1)
  /\ UNCHANGED base

\* An error ends all of them where they are.
Abort ==
  /\ active # <<>>
  /\ active' = <<>>
  /\ base' = [a \in Cell |-> Seen(a)]

\* A new level begins.
Load ==
  /\ active = <<>>
  /\ base' = [a \in Cell |-> 0]
  /\ UNCHANGED active

Next == (\E f \in Func : Call(f)) \/ Assign \/ Return \/ Abort \/ Load
Spec == Init /\ [][Next]_vars
=============================================================================
