------------------------------- MODULE Stages -------------------------------
(***************************************************************************)
(* The commands by which a client signs on to a level, and what the server *)
(* does with those of a client: the handlers of sv_main.c, sv_user.c and   *)
(* host_cmd.c that SignOn (a remote client) and LocalGame (the host's own  *)
(* player) share.  Of the slot of a client they touch                      *)
(*   spawned      the player is in the game,                               *)
(*   sendsignon   the message is one to send to a client signing on,       *)
(*   message      what is to be sent reliably.                             *)
(***************************************************************************)
EXTENDS Naturals, Sequences

SIGNONS == 4

Cmd(name, n) == [name |-> name, n |-> n]
Nop == Cmd("nop", 0)
Signonnum(n) == Cmd("signonnum", n)

-----------------------------------------------------------------------------
(* The server's handlers: what a command does to the client's slot s.      *)

\* Mutant: the client is not asked to sign on again.
SV_SendServerinfoKeepsSpawned(s, l) ==
  [s EXCEPT !.message = @ \o <<Cmd("serverinfo", l), Signonnum(1)>>,
            !.sendsignon = TRUE]
\* Mutant: the message is not marked as one to send to a client signing on.
SV_SendServerinfoUnmarked(s, l) ==
  [s EXCEPT !.message = @ \o <<Cmd("serverinfo", l), Signonnum(1)>>,
            !.spawned = FALSE]

SV_SendServerinfo(s, l) ==
  [s EXCEPT !.message = @ \o <<Cmd("serverinfo", l), Signonnum(1)>>,
            !.sendsignon = TRUE,
            !.spawned = FALSE]

Host_PreSpawn_f(s) ==
  IF s.spawned THEN s
  ELSE [s EXCEPT !.message = Append(@, Signonnum(2)), !.sendsignon = TRUE]

\* What still waits for the client is thrown away (SZ_Clear).
Host_Spawn_f(s) ==
  IF s.spawned THEN s
  ELSE [s EXCEPT !.message = <<Signonnum(3)>>, !.sendsignon = TRUE]

Host_Begin_f(s) == [s EXCEPT !.spawned = TRUE]

\* Host_Say_f prints to the clients in the game, the speaker included.
Host_Say_f(s) ==
  IF s.spawned THEN [s EXCEPT !.message = Append(@, Cmd("print", 0))] ELSE s

\* SV_ReadClientMessage on one command.
Execute(s, c) ==
  CASE c.name = "prespawn" -> Host_PreSpawn_f(s)
    [] c.name = "spawn" -> Host_Spawn_f(s)
    [] c.name = "begin" -> Host_Begin_f(s)
    [] c.name = "say" -> Host_Say_f(s)
    [] c.name \in {"nop", "move"} -> s

\* ... and on the commands of a message, one by one.
ExecuteAll(s, cmds) ==
  LET after[i \in 0..Len(cmds)] ==
        IF i = 0 THEN s ELSE Execute(after[i - 1], cmds[i])
  IN  after[Len(cmds)]

-----------------------------------------------------------------------------
\* CL_SignonReply: what the client asks for when it has come to a stage.
CL_SignonReply(n) == Cmd(CASE n = 1 -> "prespawn"
                           [] n = 2 -> "spawn"
                           [] n = 3 -> "begin", 0)
=============================================================================
