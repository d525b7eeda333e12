------------------------------- MODULE SignOn -------------------------------
(***************************************************************************)
(* Signing on: how a remote client gets into the game, level after level.  *)
(* The server (sv_main.c, sv_user.c, host_cmd.c) and the client            *)
(* (cl_main.c, cl_parse.c, cl_parse_serverinfo.c) each run one thread and  *)
(* talk over the reliable channel of module Datagram, of which only what   *)
(* the hosts see is left: a reliable message comes through once, and the   *)
(* sender may send the next one when its acknowledgement is back.          *)
(*                                                                         *)
(*   serverinfo, signonnum 1 ->  loads the level                           *)
(*                               <- prespawn                               *)
(*   baselines, signonnum 2  ->                                            *)
(*                               <- name, color, spawn                     *)
(*   the game's state, signonnum 3 ->                                      *)
(*                               <- begin                                  *)
(*   entity updates          ->  the first is the fourth stage             *)
(*                                                                         *)
(* A change of level sends "reconnect" and starts over.  What the hosts do *)
(* not guard against themselves is named by the setting of a behaviour.    *)
(***************************************************************************)
EXTENDS Stages

CONSTANT
  Settings       \* of each behaviour that is to be looked at:
                 \* disturbances  what may happen besides the orderly run:
                 \*   "reorder"  a packet is lost, and comes later by resending
                 \*   "early"    the level changes while the client signs on
                 \*   "timeout"  NET_SendToAll gives up after its blocktime
                 \*   "fast"     a level is up before the client's next frame
                 \*   "slow"     an ack takes longer than a keepalive period
                 \* levels        bound: levels the server ever plays
                 \* says          bound: things the player ever says

ASSUME SettingsAssumption ==
  \A s \in Settings :
    /\ s.disturbances \subseteq {"reorder", "early", "timeout", "fast", "slow"}
    /\ s.levels \in Nat \ {0}
    /\ s.says \in Nat

VARIABLES
  setting,      \* one of Settings, for good
  phase,        \* where the server is in its frame: "commands", "clients",
                \* or in SV_SendReconnect: "sending", "waiting"
  draining,     \* ... there, inside a call of NET_GetMessage
  level,        \* the level the server plays
  host_client,  \* the client's slot: spawned, sendsignon, message, net_wait
  cls,          \* the client: signon, message (to the server), reconnect
                \* (waits in the command buffer), level (last serverinfo)
  parsing,      \* what is left of the message the client is parsing
  loading,      \* precaching a level: "no", "yes", "yes, and sent a nop"
  says,
  canSend, net, \* the channel: packets on their way to each end
  failure       \* the error that ended the client's game, or "none"

serverVars == <<phase, draining, level, host_client>>
clientVars == <<cls, parsing, loading, says>>
gameVars == <<serverVars, clientVars, canSend, net, failure>>
vars == <<setting, gameVars>>

MayHappen(d) == d \in setting.disturbances

ServerCmd == {Cmd("serverinfo", l) : l \in 1..setting.levels}
             \cup {Signonnum(n) : n \in 1..3}
             \cup {Cmd("reconnect", 0), Cmd("print", 0), Cmd("update", 0), Nop}
ClientCmd == {Cmd(c, 0) : c \in {"nop", "say", "prespawn", "spawn", "begin"}}

-----------------------------------------------------------------------------
(* The channel.                                                            *)

Ack == [type |-> "ACK", body |-> <<>>]
Data(body) == [type |-> "DATA", body |-> body]
Datagram(c) == [type |-> "UNRELIABLE", body |-> <<c>>]

Peer(e) == IF e = "client" THEN "server" ELSE "client"

\* NET_SendMessage: body goes out, and no other until it is acknowledged.
Send(e, body) ==
  /\ net' = [net EXCEPT ![Peer(e)] = Append(@, Data(body))]
  /\ canSend' = [canSend EXCEPT ![e] = FALSE]

\* Without its element i.
Without(q, i) ==
  [j \in 1..(Len(q) - 1) |-> IF j < i THEN q[j] ELSE q[j + 1]]

\* The packets one of which e may read next.
Readable(e) ==
  {i \in DOMAIN net[e] : i = 1 \/ MayHappen("reorder")}

\* Datagram_GetMessage as far as the channel goes: e takes packet i.
Take(e, i) ==
  LET p == net[e][i]
      rest == [net EXCEPT ![e] = Without(@, i)]
  IN  /\ net' = IF p.type = "DATA"
                THEN [rest EXCEPT ![Peer(e)] = Append(@, Ack)]
                ELSE rest
      /\ canSend' = [canSend EXCEPT ![e] = @ \/ p.type = "ACK"]

-----------------------------------------------------------------------------
(* The server's frame: commands, then what the clients sent, then what     *)
(* they are sent.                                                          *)

\* SV_RunClients takes one packet off the socket.  The first one to come
\* ends net_wait (the client's address is known).
SV_ReadClientMessage(i) ==
  /\ phase \in {"commands", "clients"}
  /\ i \in Readable("server")
  /\ Take("server", i)
  /\ phase' = "clients"
  /\ host_client' = [ExecuteAll(host_client, net["server"][i].body)
                       EXCEPT !.net_wait = FALSE]
  /\ UNCHANGED <<draining, level, clientVars, failure>>

\* Mutant: updates do not wait for the player to be in the game.
ClientDatagramForAll(s) == Datagram(Cmd("update", 0))

\* The unreliable part of SV_SendClientMessages: an update for a player in
\* the game, a nop (now and then) for one signing on with nothing to get.
ClientDatagram(s) ==
  Datagram(IF s.spawned THEN Cmd("update", 0) ELSE Nop)

\* Bound: one such packet in flight; a further one counts as lost.
DatagramInFlight ==
  \E i \in DOMAIN net["client"] : net["client"][i].type = "UNRELIABLE"

\* SV_SendClientMessages: the datagram, which may be lost, and the reliable
\* message if there is one and the client may get it.
SV_SendClientMessages(lost) ==
  LET s == host_client
      quiet == lost \/ DatagramInFlight \/ (~s.spawned /\ s.sendsignon)
      reliable == /\ s.spawned \/ s.sendsignon
                  /\ ~s.net_wait
                  /\ s.message # <<>>
                  /\ canSend["server"]
      first == IF quiet THEN net["client"]
               ELSE Append(net["client"], ClientDatagram(s))
  IN
  /\ phase \in {"commands", "clients"}
  /\ phase' = "commands"
  /\ net' = [net EXCEPT !["client"] =
               IF reliable THEN Append(first, Data(s.message)) ELSE first]
  /\ canSend' = [canSend EXCEPT !["server"] = @ /\ ~reliable]
  /\ host_client' = IF reliable
                    THEN [s EXCEPT !.message = <<>>, !.sendsignon = FALSE]
                    ELSE s
  /\ UNCHANGED <<draining, level, clientVars, failure>>

-----------------------------------------------------------------------------
(* A change of level: SV_SpawnServer, called among the commands, with      *)
(* SV_SendReconnect and so NET_SendToAll at its start.                     *)

Host_Changelevel_f ==
  /\ phase = "commands"
  /\ level < setting.levels
  /\ host_client.spawned \/ MayHappen("early")
  /\ phase' = "sending"
  /\ UNCHANGED <<draining, level, host_client, clientVars, canSend, net,
                 failure>>

\* NET_SendToAll, first state: the message goes when it can.
SV_SendReconnect ==
  /\ phase = "sending"
  /\ ~draining
  /\ canSend["server"]
  /\ Send("server", <<Cmd("reconnect", 0)>>)
  /\ phase' = "waiting"
  /\ UNCHANGED <<draining, level, host_client, clientVars, failure>>

\* Until it can, and then until it is acknowledged: NET_GetMessage.
Drain ==
  /\ phase \in {"sending", "waiting"}
  /\ ~draining
  /\ ~canSend["server"]
  /\ draining' = TRUE
  /\ UNCHANGED <<phase, level, host_client, clientVars, canSend, net, failure>>

\* It passes over acks; a message ends it, and nobody looks at the message.
DrainRead(i) ==
  /\ draining
  /\ i \in Readable("server")
  /\ Take("server", i)
  /\ draining' = (net["server"][i].type = "ACK")
  /\ host_client' = [host_client EXCEPT !.net_wait = FALSE]
  /\ UNCHANGED <<phase, level, clientVars, failure>>

\* Nothing more has come yet (or a move of the player, equally ignored).
DrainNothing ==
  /\ draining
  /\ draining' = FALSE
  /\ UNCHANGED <<phase, level, host_client, clientVars, canSend, net, failure>>

\* The rest of SV_SpawnServer.  Loading the level takes the server longer
\* than the client takes to come to its next frame, unless "fast".
SV_SpawnServer ==
  /\ \/ phase = "waiting" /\ canSend["server"]
     \/ phase \in {"sending", "waiting"} /\ MayHappen("timeout")
  /\ ~draining
  /\ (parsing = <<>> /\ ~cls.reconnect) \/ MayHappen("fast")
  /\ level' = level + 1
  /\ host_client' = SV_SendServerinfo(host_client, level + 1)
  /\ phase' = "commands"
  /\ UNCHANGED <<draining, clientVars, canSend, net, failure>>

-----------------------------------------------------------------------------
(* The client's frame: commands, then a message to the server if it can,   *)
(* then what the server sent.                                              *)

Between == parsing = <<>> /\ loading = "no"

\* "reconnect", when it comes up in the command buffer.
Host_Reconnect_f(c) ==
  IF c.reconnect THEN [c EXCEPT !.signon = 0, !.reconnect = FALSE] ELSE c

\* Cbuf_Execute, where the player may say something, and CL_SendCmd.
ClientFrame(said) ==
  LET c == Host_Reconnect_f(cls)
      out == IF said THEN Append(c.message, Cmd("say", 0)) ELSE c.message
  IN
  /\ Between
  /\ said => says < setting.says
  /\ says' = IF said THEN says + 1 ELSE says
  /\ IF out # <<>> /\ canSend["client"]
     THEN /\ Send("client", out)
          /\ cls' = [c EXCEPT !.message = <<>>]
     ELSE /\ cls' = [c EXCEPT !.message = out]
          /\ UNCHANGED <<canSend, net>>
  /\ UNCHANGED <<serverVars, parsing, loading, failure>>

\* CL_ReadFromServer takes one packet off the socket.
CL_ReadFromServer(i) ==
  /\ Between
  /\ i \in Readable("client")
  /\ Take("client", i)
  /\ parsing' = net["client"][i].body
  /\ UNCHANGED <<serverVars, cls, loading, says, failure>>

\* CL_ParseServerMessage, one command, name by name.
Parse(name) ==
  /\ parsing # <<>>
  /\ loading = "no"
  /\ Head(parsing).name = name
  /\ parsing' = Tail(parsing)
  /\ UNCHANGED <<serverVars, says, canSend, net>>

\* CL_ParseServerInfo, up to its loops over the files to precache.  It starts
\* with CL_ClearState and, as no server is active in this program, with
\* Host_ClearMemory: back to before the first stage, reconnect or not.
CL_ParseServerInfo ==
  /\ Parse("serverinfo")
  /\ cls' = [cls EXCEPT !.message = <<>>, !.level = Head(parsing).n,
                        !.signon = 0]
  /\ loading' = "yes"
  /\ UNCHANGED failure

ParseSignonnum ==
  LET n == Head(parsing).n IN
  /\ Parse("signonnum")
  /\ IF n <= cls.signon
     THEN failure' = "signon" /\ UNCHANGED cls
     ELSE /\ cls' = [cls EXCEPT !.signon = n,
                                !.message = Append(@, CL_SignonReply(n))]
          /\ UNCHANGED failure
  /\ UNCHANGED loading

\* svc_stufftext: into the command buffer, for the next frame.
ParseStufftext ==
  /\ Parse("reconnect")
  /\ cls' = [cls EXCEPT !.reconnect = TRUE]
  /\ UNCHANGED <<loading, failure>>

\* Mutant: every update after the last stage is one more stage.
CL_ParseUpdateCountsOn ==
  /\ Parse("update")
  /\ cls' = [cls EXCEPT !.signon = IF @ >= SIGNONS - 1 THEN @ + 1 ELSE @]
  /\ UNCHANGED <<loading, failure>>

\* The first update is the last stage of signing on.
CL_ParseUpdate ==
  /\ Parse("update")
  /\ cls' = [cls EXCEPT !.signon = IF @ = SIGNONS - 1 THEN SIGNONS ELSE @]
  /\ UNCHANGED <<loading, failure>>

ParseOther ==
  /\ Parse("nop") \/ Parse("print")
  /\ UNCHANGED <<cls, loading, failure>>

\* CL_KeepaliveMessage, between two files: it takes what has come ...
KeepaliveRead(i) ==
  LET p == net["client"][i] IN
  /\ loading # "no"
  /\ i \in Readable("client")
  /\ Take("client", i)
  /\ failure' = IF p.type = "DATA" THEN "message"
                ELSE IF p.type = "UNRELIABLE" /\ p.body # <<Nop>>
                     THEN "datagram"
                     ELSE failure
  /\ UNCHANGED <<serverVars, cls, parsing, loading, says>>

\* ... and, when it is time, sends a nop.  Datagram_SendMessage asserts that
\* it can; where the assertion is compiled out the message in flight is
\* overwritten and never acknowledged.
CL_KeepaliveMessage ==
  /\ loading = "yes" \/ (loading # "no" /\ MayHappen("slow"))
  /\ IF canSend["client"]
     THEN /\ Send("client", Append(cls.message, Nop))
          /\ UNCHANGED failure
     ELSE failure' = "canSend" /\ UNCHANGED <<canSend, net>>
  /\ cls' = [cls EXCEPT !.message = <<>>]
  /\ loading' = "yes, and sent a nop"
  /\ UNCHANGED <<serverVars, parsing, says>>

LoadingEnds ==
  /\ loading # "no"
  /\ loading' = "no"
  /\ UNCHANGED <<serverVars, cls, parsing, says, canSend, net, failure>>

-----------------------------------------------------------------------------
\* SV_ConnectClient on the one side, CL_EstablishConnection on the other.
Init ==
  /\ setting \in Settings
  /\ phase = "clients"
  /\ draining = FALSE
  /\ level = 1
  /\ host_client =
       SV_SendServerinfo([spawned |-> FALSE, sendsignon |-> FALSE,
                          message |-> <<>>, net_wait |-> TRUE], 1)
  /\ cls = [signon |-> 0, message |-> <<Nop>>, reconnect |-> FALSE,
            level |-> 0]
  /\ parsing = <<>>
  /\ loading = "no"
  /\ says = 0
  /\ canSend = [e \in {"client", "server"} |-> TRUE]
  /\ net = [e \in {"client", "server"} |-> <<>>]
  /\ failure = "none"

ServerNext ==
  \/ \E i \in DOMAIN net["server"] : SV_ReadClientMessage(i)
  \/ \E lost \in BOOLEAN : SV_SendClientMessages(lost)
  \/ Host_Changelevel_f
  \/ SV_SendReconnect
  \/ Drain
  \/ \E i \in DOMAIN net["server"] : DrainRead(i)
  \/ DrainNothing
  \/ SV_SpawnServer

ParseNext ==
  \/ CL_ParseServerInfo
  \/ ParseSignonnum
  \/ ParseStufftext
  \/ CL_ParseUpdate
  \/ ParseOther

ClientNext ==
  \/ \E said \in BOOLEAN : ClientFrame(said)
  \/ \E i \in DOMAIN net["client"] : CL_ReadFromServer(i)
  \/ ParseNext
  \/ \E i \in DOMAIN net["client"] : KeepaliveRead(i)
  \/ CL_KeepaliveMessage
  \/ LoadingEnds

\* After an error the client's game is over: Host_Error disconnects it.
Next ==
  /\ failure = "none"
  /\ ServerNext \/ ClientNext
  /\ UNCHANGED setting

Spec == Init /\ [][Next]_vars

(* Fairness: both hosts run frame after frame, and a frame ends: its loop  *)
(* over the socket comes to find nothing (the server sends once a frame);  *)
(* a file is loaded in finite time; not every datagram is lost; a call of  *)
(* NET_GetMessage made again and again finds what has come.                *)
Fairness ==
  /\ WF_gameVars(failure = "none" /\ 1 \in DOMAIN net["server"]
             /\ SV_ReadClientMessage(1))
  /\ WF_gameVars(failure = "none" /\ SV_SendClientMessages(FALSE))
  /\ WF_gameVars(failure = "none" /\ SV_SendReconnect)
  /\ WF_gameVars(failure = "none" /\ Drain)
  /\ SF_gameVars(failure = "none" /\ 1 \in DOMAIN net["server"] /\ DrainRead(1))
  /\ WF_gameVars(failure = "none" /\ DrainNothing)
  /\ WF_gameVars(failure = "none" /\ SV_SpawnServer)
  /\ SF_gameVars(failure = "none" /\ ClientFrame(FALSE))
  /\ WF_gameVars(failure = "none" /\ 1 \in DOMAIN net["client"]
             /\ CL_ReadFromServer(1))
  /\ WF_gameVars(failure = "none" /\ ParseNext)
  /\ WF_gameVars(failure = "none" /\ LoadingEnds)

FairSpec == Spec /\ Fairness

-----------------------------------------------------------------------------
(* Properties.                                                             *)

TypeOK ==
  /\ setting \in Settings
  /\ phase \in {"commands", "clients", "sending", "waiting"}
  /\ draining \in BOOLEAN
  /\ level \in 1..setting.levels
  /\ host_client \in [spawned : BOOLEAN, sendsignon : BOOLEAN,
                      message : Seq(ServerCmd), net_wait : BOOLEAN]
  /\ cls \in [signon : 0..SIGNONS, message : Seq(ClientCmd),
              reconnect : BOOLEAN, level : 0..setting.levels]
  /\ parsing \in Seq(ServerCmd)
  /\ loading \in {"no", "yes", "yes, and sent a nop"}
  /\ says \in 0..setting.says
  /\ canSend \in [{"client", "server"} -> BOOLEAN]
  /\ \A e \in {"client", "server"} : \A i \in DOMAIN net[e] :
       net[e][i].body \in Seq(IF e = "client" THEN ServerCmd ELSE ClientCmd)
  /\ failure \in {"none", "signon", "message", "datagram", "canSend"}

\* Nothing disturbs the hosts, and the player does not talk.
Orderly == setting.disturbances = {} /\ setting.says = 0

\* A client the server counts as spawned is in the game.
SlotMatches ==
  host_client.spawned /\ phase \in {"commands", "clients"} =>
    /\ cls.level = level
    /\ cls.signon >= SIGNONS - 1

\* The level the client connects to, not yet left.
OnFirstLevel == level = 1 /\ phase \in {"commands", "clients"}

\* In an orderly run no check of the client fails: the stages come in order
\* (svc_signonnum), nothing but nops comes while a level loads, and a
\* keepalive finds the channel free (CL_KeepaliveMessage).  Whatever happens to
\* packets, and whatever the player says, on the first level only the last of
\* these may fail.
NoFailure ==
  /\ Orderly => failure = "none"
  /\ OnFirstLevel => failure \in {"none", "canSend"}

\* In an orderly run, and whatever happens on the first level, a client the
\* server counts as spawned has loaded the level the server plays and been
\* through its stages, so the datagrams it gets mean what it takes them to
\* mean (Host_Begin_f does not check).
SpawnedIsSignedOn == Orderly \/ OnFirstLevel => SlotMatches

\* However often the level changes, in an orderly run the client ends up
\* playing the level the server plays, all stages done.
Arrives ==
  Orderly =>
    <>[](host_client.spawned /\ cls.signon = SIGNONS /\ cls.level = level)

\* "Received signon %i when at %i" never ends a game (cl_parse.c; the client
\* was told to wait for the signon messages again).
NoSignonError == failure # "signon"

\* NET_SendMessage is only called when the message before is acknowledged
\* (the assertion of Datagram_SendMessage).
SendsWhenItCan == failure # "canSend"
=============================================================================
