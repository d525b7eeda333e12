------------------------------ MODULE MCProgs ------------------------------
(* An instance of Progs for TLC.  A thinking function may call itself and   *)
(* touch another, whose locals overlap its own, as compilers make them do.  *)
EXTENDS Progs

MCFunctions ==
  [think |-> [parm_start |-> 0, locals |-> 1, numparms |-> 1],
   touch |-> [parm_start |-> 0, locals |-> 2, numparms |-> 0],
   gone  |-> [parm_start |-> 1, locals |-> 1, numparms |-> 0]]

MCCalls == [think |-> {"think", "touch"}, touch |-> {"think"},
            gone |-> {"touch"}]

\* With a ClientDisconnect that calls nothing.
MCCallsPlain == [MCCalls EXCEPT !["gone"] = {}]
=============================================================================
