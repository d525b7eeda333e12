------------------------------ MODULE DelayLine ------------------------------
(***************************************************************************)
(* What a synthetic lag promises to the player: the moves of a level reach *)
(* the server late, but one by one in the order they were made, none twice *)
(* and none missing, except that what is made before the first two have    *)
(* come due is thrown away.  No ring and no clock in it.                   *)
(***************************************************************************)
EXTENDS Naturals, Sequences

VARIABLES
  made,            \* how many moves were made on this level
  pending,         \* the numbers of those still to be sent
  dumps,           \* how often what was pending has been thrown away
  out              \* the numbers of those sent

vars == <<made, pending, dumps, out>>

Init == made = 0 /\ pending = <<>> /\ dumps = 0 /\ out = <<>>

Make ==
  /\ made' = made + 1
  /\ pending' = Append(pending, made + 1)
  /\ UNCHANGED <<dumps, out>>

Dump ==
  /\ dumps < 2
  /\ dumps' = dumps + 1
  /\ pending' = <<>>
  /\ UNCHANGED <<made, out>>

Send ==
  /\ dumps = 2
  /\ pending # <<>>
  /\ out' = Append(out, Head(pending))
  /\ pending' = Tail(pending)
  /\ UNCHANGED <<made, dumps>>

\* The connection ends with what is under way.
End == pending' = <<>> /\ UNCHANGED <<made, dumps, out>>

NextLevel == made' = 0 /\ pending' = <<>> /\ dumps' = 0 /\ out' = <<>>

Next == Make \/ Dump \/ Send \/ End \/ NextLevel
Spec == Init /\ [][Next]_vars
=============================================================================
