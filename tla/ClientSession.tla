---------------------------- MODULE ClientSession ----------------------------
(***************************************************************************)
(* What the client is doing (client_static_t cls): connected to a server,  *)
(* with or without one of its own, or playing a demo, or neither, and      *)
(* recording or not; and the ways from one to another: the commands of     *)
(* host_cmd.c and cl_demo.c, messages of the server, Host_Error and        *)
(* Host_EndGame, which end a frame by a longjmp to its setjmp.             *)
(*                                                                         *)
(* A server's message may name a model the client lacks.  It is then       *)
(* downloaded while the message is being parsed, and so that the game goes *)
(* on meanwhile, the download runs whole frames: frames within a frame.    *)
(*                                                                         *)
(* No demo is ever in the demo loop (Host_Startdemos_f returns at once),   *)
(* so that CL_NextDemo only disconnects.                                   *)
(***************************************************************************)
EXTENDS Naturals, Sequences

CONSTANT NumQSockets   \* qsockets the client can come to hold

ASSUME ClientSessionAssumption == NumQSockets \in Nat \ {0}

VARIABLES
  game,
    \* state, netcon (whether it is an open qsocket), demoplayback,
    \* demorecording, demofile: of cls;  web, disconnect: of cls.download
    \* sv_active: of sv;  qsockets: those the client has opened and not closed
    \* putOff: whether a CL_Disconnect ever returned because of a download
    \* broken: whether a closed file was used or a frame that is gone resumed
  stack,
    \* what each running frame and the download between them are at, the
    \* outermost first
  host_abortserver,    \* the place in the stack of the last setjmp
  cmd_source

sessionVars == <<game, stack, host_abortserver, cmd_source>>

SessionInit ==
  /\ game = [state |-> "disconnected", netcon |-> FALSE,
             demoplayback |-> FALSE, demorecording |-> FALSE,
             demofile |-> "none", web |-> FALSE, disconnect |-> FALSE,
             sv_active |-> FALSE, qsockets |-> 0,
             putOff |-> FALSE, broken |-> FALSE]
  /\ stack = <<>>
  /\ host_abortserver = 0
  /\ cmd_source = "command"

-----------------------------------------------------------------------------
(* Functions of the code: what becomes of g.                               *)

CL_StopPlayback(g) ==
  IF ~g.demoplayback THEN g
  ELSE [g EXCEPT !.demoplayback = FALSE, !.demofile = "none",
                 !.state = "disconnected",
                 !.broken = @ \/ g.demofile = "none"]

\* CL_Stop_f, also from CL_Disconnect, but then too only if the last command
\* was the user's.  The file may be one that is being played.
CL_Stop_f(g, source) ==
  IF ~g.demorecording \/ source # "command" THEN g
  ELSE [g EXCEPT !.demorecording = FALSE, !.demofile = "none",
                 !.broken = @ \/ g.demofile = "none"]

\* CL_Disconnect.  When its server is shut down the client has left it.
CL_Disconnect(g, source) ==
  IF g.web THEN [g EXCEPT !.disconnect = TRUE, !.putOff = TRUE]
  ELSE IF g.demoplayback THEN CL_StopPlayback(g)
  ELSE IF g.state = "connected"
  THEN [CL_Stop_f(g, source) EXCEPT
          !.qsockets = IF g.netcon THEN @ - 1 ELSE @,
          !.netcon = FALSE,
          !.state = "disconnected",
          !.sv_active = FALSE]
  ELSE g

Host_ShutdownServer(g, source) ==
  IF ~g.sv_active THEN g
  ELSE LET down == [g EXCEPT !.sv_active = FALSE]
       IN IF g.state = "connected" THEN CL_Disconnect(down, source) ELSE down

CL_Disconnect_f(g) ==
  IF g.web THEN CL_Disconnect(g, "command")
  ELSE Host_ShutdownServer(CL_Disconnect(g, "command"), "command")

\* What Host_Error and Host_EndGame do before they jump.
ShutDownBoth(g, source) ==
  CL_Disconnect(Host_ShutdownServer(g, source), source)

\* CL_EstablishConnection when NET_Connect succeeds, ...
Established(g) ==
  [CL_Disconnect(g, "command") EXCEPT !.qsockets = @ + 1, !.netcon = TRUE,
                                      !.state = "connected"]
\* ... and as far as its Host_Error when it fails.
NotEstablished(g) == [CL_Disconnect(g, "command") EXCEPT !.netcon = FALSE]

-----------------------------------------------------------------------------
(* The frames.                                                             *)

Stage == stack[Len(stack)]
At(stage) == stack # <<>> /\ Stage = stage /\ ~game.broken
GoTo(stage) == stack' = [stack EXCEPT ![Len(stack)] = stage]
Returns == stack' = SubSeq(stack, 1, Len(stack) - 1)
InDownload == \E i \in DOMAIN stack : stack[i] = "download"

\* longjmp (host_abortserver): back to the frame that called setjmp last,
\* which returns, and with which all that it called is gone.
Longjmp(g) ==
  IF host_abortserver <= Len(stack)
  THEN game' = g /\ stack' = SubSeq(stack, 1, host_abortserver - 1)
  ELSE game' = [g EXCEPT !.broken = TRUE] /\ UNCHANGED stack

Host_Error(g, source) ==
  /\ Longjmp(ShutDownBoth(g, source))
  /\ cmd_source' = source
  /\ UNCHANGED host_abortserver

\* _Host_Frame as far as Cbuf_Execute, called by the main loop or by
\* CL_WebDownloadProgress, after which a download that is to end does.
_Host_Frame ==
  /\ \/ stack = <<>> /\ ~game.broken
     \/ At("download") /\ ~game.disconnect
  /\ stack' = Append(stack, "commands")
  /\ host_abortserver' = Len(stack')
  /\ UNCHANGED <<game, cmd_source>>

\* Host_FilterTime ends the frame before it has begun, except for the moves
\* CL_SendLagMove has held back, which may find the connection lost; or
\* Cbuf_Execute and NET_Poll are over.
CommandsDone ==
  /\ At("commands")
  /\ \/ Returns /\ UNCHANGED game
     \/ /\ game.state = "connected" /\ ~game.demoplayback /\ ~game.sv_active
        /\ game' = CL_Disconnect(game, cmd_source)
        /\ Returns
     \/ /\ GoTo(IF game.sv_active THEN "server" ELSE "client")
        /\ UNCHANGED game
  /\ UNCHANGED <<host_abortserver, cmd_source>>

\* Host_ServerFrame, in which the commands of the players are run; what goes
\* wrong in it ends in Host_Error.
Host_ServerFrame ==
  /\ At("server")
  /\ \E source \in {cmd_source, "client"} :
       \/ /\ GoTo("client")
          /\ cmd_source' = source
          /\ UNCHANGED <<game, host_abortserver>>
       \/ Host_Error(game, source)

\* CL_SendCmd finds the connection lost: for moves CL_SendLagMove disconnects,
\* for what is reliable there is a Host_Error.
CL_SendCmd ==
  /\ At("client")
  /\ game.state = "connected" /\ ~game.demoplayback
  /\ \/ /\ game' = CL_Disconnect(game, cmd_source)
        /\ UNCHANGED <<stack, host_abortserver, cmd_source>>
     \/ Host_Error(game, cmd_source)

\* CL_ReadFromServer and CL_GetMessage: no message (any more), ...
NoMessage ==
  /\ At("client")
  /\ Returns
  /\ UNCHANGED <<game, host_abortserver, cmd_source>>

\* ... one of the demo, whose end ends the playback, ...
DemoMessage ==
  /\ At("client")
  /\ game.demoplayback
  /\ IF game.demofile = "none"
     THEN game' = [game EXCEPT !.broken = TRUE] /\ UNCHANGED stack
     ELSE \/ GoTo("parsing") /\ UNCHANGED game
          \/ Returns /\ game' = CL_StopPlayback(game)
  /\ UNCHANGED <<host_abortserver, cmd_source>>

\* ... or one of the server, which is recorded, or the connection is lost.
ServerMessage ==
  /\ At("client")
  /\ game.state = "connected" /\ ~game.demoplayback
  /\ \/ /\ game.netcon
        /\ game' = [game EXCEPT !.broken =
                      game.demorecording /\ game.demofile = "none"]
        /\ GoTo("parsing")
        /\ UNCHANGED <<host_abortserver, cmd_source>>
     \/ Host_Error(game, cmd_source)

\* CL_ParseServerMessage: the message is over, or it is svc_disconnect
\* (Host_EndGame), illegible, or of a kind that must not come (Host_Error).
CL_ParseServerMessage ==
  /\ At("parsing")
  /\ \/ /\ IF game.state = "connected" THEN GoTo("client") ELSE Returns
        /\ UNCHANGED <<game, host_abortserver, cmd_source>>
     \/ Host_Error(game, cmd_source)

\* CL_ParseServerInfo misses a model.  Web_Get takes the curl handle away
\* from a download that is already running.
DownloadBegins ==
  /\ At("parsing")
  /\ ~game.demoplayback
  /\ game' = [game EXCEPT !.web = TRUE, !.disconnect = FALSE,
                          !.broken = InDownload]
  /\ stack' = Append(stack, "download")
  /\ UNCHANGED <<host_abortserver, cmd_source>>

\* CL_KeepaliveMessage in CL_WebDownloadProgress gets a message, or none ever
\* again.
KeepaliveFails ==
  /\ At("download") /\ ~game.disconnect
  /\ ~game.sv_active /\ ~game.demoplayback
  /\ Host_Error(game, cmd_source)

\* Web_Get returns, at the latest when a disconnect has been asked for.  With
\* a success "connect" is put into the command buffer; cls.download.disconnect
\* is looked at behind a return.
DownloadEnds ==
  /\ At("download")
  /\ game' = [game EXCEPT !.web = FALSE]
  /\ Returns
  /\ UNCHANGED <<host_abortserver, cmd_source>>

-----------------------------------------------------------------------------
(* The commands.                                                           *)

\* A command of the user comes to an end with g.
Completes(g) ==
  /\ At("commands")
  /\ game' = g
  /\ cmd_source' = "command"
  /\ UNCHANGED <<stack, host_abortserver>>
Fails(g) == At("commands") /\ Host_Error(g, "command")

\* NET_Connect finds the server and a free qsocket.
Connects(g) == CL_Disconnect(g, "command").qsockets < NumQSockets

\* Also "gamedir" while connected.
Disconnect == Completes(CL_Disconnect_f(game))

\* Host_Connect_f.
Left(g) == IF g.demoplayback
           THEN CL_Disconnect(CL_StopPlayback(g), "command") ELSE g
Host_Connect_f ==
  \/ Connects(Left(game)) /\ Completes(Established(Left(game)))
  \/ Fails(NotEstablished(Left(game)))

\* Host_Map_f: SV_SpawnServer does not find the map, or fails, or the client
\* connects to the new server, leaving a demo first.
Host_Map_f ==
  LET left == Host_ShutdownServer(CL_Disconnect(game, "command"), "command")
      up == Left([left EXCEPT !.sv_active = TRUE])
  IN \/ Completes(left)
     \/ Fails(left)
     \/ Connects(up) /\ Completes(Established(up))
     \/ Fails(NotEstablished(up))

\* Host_Loadgame_f: as "map", but CL_EstablishConnection does not leave a
\* demo: it does nothing.
Host_Loadgame_f ==
  LET left == CL_Disconnect_f(game)
      up == [left EXCEPT !.sv_active = TRUE]
  IN \/ Completes([left EXCEPT !.sv_active = FALSE])
     \/ Fails([left EXCEPT !.sv_active = FALSE])
     \/ up.demoplayback /\ Completes(up)
     \/ ~up.demoplayback /\ Connects(up) /\ Completes(Established(up))
     \/ ~up.demoplayback /\ Fails(NotEstablished(up))

\* Host_Changelevel_f and Host_Restart_f: the map is there or not, or fails.
Host_Changelevel_f ==
  /\ game.sv_active /\ ~game.demoplayback
  /\ \/ Completes(game)
     \/ Completes([game EXCEPT !.sv_active = FALSE])
     \/ Fails([game EXCEPT !.sv_active = FALSE])

\* Mutant: the client does not leave the server first.
CL_PlayDemo_fStaysConnected ==
  Completes([game EXCEPT !.demofile = "played", !.demoplayback = TRUE,
                    !.state = "connected"])

\* CL_PlayDemo_f: the file is there or not.
CL_PlayDemo_f ==
  LET left == CL_Disconnect(game, "command") IN
  \/ Completes([left EXCEPT !.demofile = "none"])
  \/ Completes([left EXCEPT !.demofile = "played", !.demoplayback = TRUE,
                       !.state = "connected"])

Host_Stopdemo_f ==
  /\ game.demoplayback
  /\ Completes(CL_Disconnect(CL_StopPlayback(game), "command"))

\* CL_Record_f without a map, connected or not; with one, "map" comes first.
CL_Record_f ==
  /\ ~game.demoplayback
  /\ LET stopped == CL_Stop_f(game, "command") IN
     \/ Completes([stopped EXCEPT !.demofile = "none"])
     \/ Completes([stopped EXCEPT !.demofile = "recorded",
                                  !.demorecording = TRUE])

Stop_f == game.demorecording /\ Completes(CL_Stop_f(game, "command"))

\* Host_Demos_f: CL_NextDemo finds no demo and disconnects once more.
Host_Demos_f == Completes(CL_Disconnect(CL_Disconnect_f(game), "command"))

SessionNext ==
  \/ _Host_Frame \/ CommandsDone
  \/ Host_ServerFrame \/ CL_SendCmd
  \/ NoMessage \/ DemoMessage \/ ServerMessage
  \/ CL_ParseServerMessage
  \/ DownloadBegins \/ KeepaliveFails \/ DownloadEnds
  \/ Disconnect \/ Host_Connect_f \/ Host_Map_f \/ Host_Loadgame_f
  \/ Host_Changelevel_f
  \/ CL_PlayDemo_f \/ Host_Stopdemo_f \/ Host_Demos_f
  \/ CL_Record_f \/ Stop_f

SessionSpec == SessionInit /\ [][SessionNext]_sessionVars

-----------------------------------------------------------------------------
(* Properties.                                                             *)

\* Wherever commands, messages, errors and frames within frames have led, the
\* client holds one qsocket when it is connected and none when it plays a demo
\* or is not; it has a server of its own only while it is on it; it plays only
\* while a level of the demo is on; no file is left open; and it takes itself
\* to be downloading while it does.  All this until the first time a
\* CL_Disconnect is put off by a download.
SessionIsWhole ==
  ~game.putOff /\ ~game.broken =>
    /\ game.qsockets = IF game.state = "connected" /\ ~game.demoplayback
                       THEN 1 ELSE 0
    /\ game.netcon <=> game.qsockets = 1
    /\ game.sv_active => game.netcon
    /\ game.demoplayback => game.state = "connected"
    /\ game.demofile # "none" => game.demoplayback \/ game.demorecording
    /\ game.web <=> InDownload
=============================================================================
