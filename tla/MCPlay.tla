------------------------------- MODULE MCPlay -------------------------------
(***************************************************************************)
(* A game that is played, on small instances: the world of the server, the *)
(* machine that runs its programs, the game of the host's own player, the  *)
(* keys he presses and the moves he makes.  As modelled they share no      *)
(* state, so a behaviour looks at one of them.                             *)
(***************************************************************************)
EXTENDS World, MCProgs, MCLocalGame, Keys, Moves

JumpBindings == <<"jump", "jump">>
MCBindings == {JumpBindings, <<"jump", "up">>}

VARIABLE part

playVars == <<worldVars, progsVars, localVars, keysVars, movesVars,
              part>>

PlayInit ==
  /\ part \in {"world", "progs", "game", "keys", "moves"}
  /\ WorldInit /\ ProgsInit /\ LocalInit /\ KeysInit /\ MovesInit
  /\ part # "keys" => ~in_smartjump /\ keybindings = JumpBindings

PlayNext ==
  \/ /\ part = "world" /\ WorldNext
     /\ UNCHANGED <<progsVars, localVars, keysVars, movesVars, part>>
  \/ /\ part = "progs" /\ ProgsNext
     /\ UNCHANGED <<worldVars, localVars, keysVars, movesVars, part>>
  \/ /\ part = "game" /\ LocalNext
     /\ UNCHANGED <<worldVars, progsVars, keysVars, movesVars, part>>
  \/ /\ part = "keys" /\ KeysNext
     /\ UNCHANGED <<worldVars, progsVars, localVars, movesVars, part>>
  \/ /\ part = "moves" /\ MovesNext
     /\ UNCHANGED <<worldVars, progsVars, localVars, keysVars, part>>

\* As in each of the modules; the game is only asked to go on where it is
\* looked at.
PlayFairness == ProgsFairness /\ WF_localVars(part = "game" /\ LocalNext)

PlaySpec == PlayInit /\ [][PlayNext]_playVars /\ PlayFairness

\* The variables of the machine and of the local game have their types.
PlayTypeOK == ProgsTypeOK /\ LocalTypeOK

\* A player of the host's own comes to be in the game, and stays there, on
\* the last level (CL_SignonReply, Host_Begin_f), where it is looked at.
GameArrives == part = "game" => LocalArrives
=============================================================================
