----------------------------- MODULE MCLocalGame -----------------------------
(* An instance of LocalGame for TLC.  Sizes are in bytes, of which a buffer *)
(* has 40 (32000 in the program).  The baselines fill it, and so, nearly,   *)
(* does an update with what is said before it is read; most sizes are no    *)
(* multiple of four, so that alignment matters.                             *)
EXTENDS LocalGame

MCCommandSize ==
  [c \in {"nop", "move", "say", "prespawn", "spawn", "begin", "serverinfo",
          "baselines", "signonnum", "reconnect", "update", "print"} |->
     CASE c = "baselines" -> 36
       [] c = "serverinfo" -> 17
       [] c = "update" -> 17
       [] c = "reconnect" -> 11
       [] c = "print" -> 4
       [] OTHER -> 3]

MCScripts == {<<"say">>, <<"wait", "say">>, <<"changelevel", "say">>,
              <<"say", "changelevel", "wait", "wait", "wait">>}
=============================================================================
