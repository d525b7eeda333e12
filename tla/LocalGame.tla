------------------------------ MODULE LocalGame ------------------------------
(***************************************************************************)
(* A listen server and the player at its keyboard.  Both live in one       *)
(* program and one thread, which runs them by turns in every frame         *)
(* (_Host_Frame): commands, the player's intentions, the server's frame,   *)
(* what the player gets.  They talk over the loop driver (net_loop.c):     *)
(* each end has a buffer, receiveMessage, into which the other writes its  *)
(* messages one behind the other, aligned, and canSend says whether the    *)
(* last reliable one has been read.                                        *)
(*                                                                         *)
(* The player signs on as in SignOn.  Two things are different: a new      *)
(* level's serverinfo does not put it back to the first stage (that is     *)
(* left to Host_Reconnect_f, since sv.active), and NET_SendToAll does not  *)
(* ask canSend before it writes to it.                                     *)
(***************************************************************************)
EXTENDS Stages

CONSTANTS
  NET_MAXMESSAGE,  \* bytes in a receiveMessage
  CommandSize,     \* CommandSize[c]: bytes of command c and its arguments
  Scripts,         \* what may be put into the command buffer at a time
  MaxScripts,      \* bound: how often that happens
  MaxLevel,        \* bound: levels the server ever plays
  MaxMoves,        \* bound: moves sent in a frame
  MaxMessages      \* bound: reliable messages of an end, for ReliableChannel

ASSUME NET_MAXMESSAGEAssumption == NET_MAXMESSAGE \in Nat
ASSUME CommandSizeAssumption ==
  \A name \in {"nop", "move", "say", "prespawn", "spawn", "begin",
               "serverinfo", "baselines", "signonnum", "reconnect", "update",
               "print"} : CommandSize[name] \in Nat
ASSUME LocalBoundsAssumption ==
  /\ MaxScripts \in Nat /\ MaxLevel \in Nat \ {0}
  /\ MaxMoves \in Nat /\ MaxMessages \in Nat

VARIABLES
  turn,         \* the part of the frame that is running
  cbuf,         \* the command buffer, command by command
  scripts,      \* scripts put into it so far
  level,        \* the level the server plays
  host_client,  \* the player's slot
  cls,          \* the player: signon, message, level (last serverinfo)
  sock,         \* loop_client and loop_server
  failure,      \* what ended the program or the game, or "none"
  sent, delivered  \* the numbers of the reliable messages so far

gameVars == <<turn, cbuf, scripts, level, host_client, cls>>
driverVars == <<sock, sent, delivered>>
localVars == <<gameVars, driverVars, failure>>

Endpoint == {"client", "server"}
Peer(e) == IF e = "client" THEN "server" ELSE "client"

-----------------------------------------------------------------------------
(* The driver.  receiveMessage maps the offset of a message's first byte   *)
(* to the message: its type (1 reliable, 2 not) and its commands.          *)

\* Stage 2 comes behind the baselines of the level (Host_PreSpawn_f).
Kind(c) == IF c = Signonnum(2) THEN "baselines" ELSE c.name
Total(numbers) ==
  LET upto[i \in 0..Len(numbers)] ==
        IF i = 0 THEN 0 ELSE upto[i - 1] + numbers[i]
  IN  upto[Len(numbers)]
Length(body) == Total([i \in 1..Len(body) |-> CommandSize[Kind(body[i])]])
IntAlign(value) == ((value + 3) \div 4) * 4

\* e writes a message into its peer's buffer, a header of four before it.
Put(k, e, type, num, body) ==
  LET at == k[Peer(e)].receiveMessageLength
      m == [type |-> type, num |-> num, body |-> body]
  IN
  [k EXCEPT ![Peer(e)].receiveMessage =
              [o \in DOMAIN @ \cup {at} |-> IF o = at THEN m ELSE @[o]],
            ![Peer(e)].receiveMessageLength =
              IntAlign(at + Length(body) + 4)]

RoomFor(k, e) == NET_MAXMESSAGE - k[Peer(e)].receiveMessageLength

\* Mutant: the sender may go on at once.
Loop_SendMessageCanSend(k, e, num, body) == Put(k, e, 1, num, body)

Loop_SendMessage(k, e, num, body) ==
  [Put(k, e, 1, num, body) EXCEPT ![e].canSend = FALSE]

\* Loop_SendUnreliableMessage drops what it has no room for.
Loop_SendUnreliableMessage(k, e, body) ==
  IF Length(body) + 3 > RoomFor(k, e) THEN k ELSE Put(k, e, 2, 0, body)

\* The first bytes of e's buffer go, the rest moves up.
Drop(k, e, bytes) ==
  LET b == k[e].receiveMessage
      rest == {o \in DOMAIN b : o >= bytes}
  IN  [k EXCEPT ![e].receiveMessage =
                  [o \in {p - bytes : p \in rest} |-> b[o + bytes]],
                ![e].receiveMessageLength = @ - bytes]

\* Mutant: the rest of the buffer moves up by too little.
Loop_GetMessageUnaligned(k, e) ==
  LET m == k[e].receiveMessage[0] IN
  [Drop(k, e, Length(m.body) + 4)
     EXCEPT ![Peer(e)].canSend = @ \/ m.type = 1]
\* Mutant: the reader, not the sender, may send again.
Loop_GetMessageFreesItself(k, e) ==
  LET m == k[e].receiveMessage[0] IN
  [Drop(k, e, IntAlign(Length(m.body) + 4))
     EXCEPT ![e].canSend = @ \/ m.type = 1]

\* Loop_GetMessage takes the message at the front; one that was reliable
\* allows its sender the next.
Loop_GetMessage(k, e) ==
  LET m == k[e].receiveMessage[0] IN
  [Drop(k, e, IntAlign(Length(m.body) + 4))
     EXCEPT ![Peer(e)].canSend = @ \/ m.type = 1]

-----------------------------------------------------------------------------
(* NET_GetMessage and NET_SendMessage as the two hosts call them.          *)

Waiting(e) == sock[e].receiveMessageLength # 0
First(e) == sock[e].receiveMessage[0]

\* e takes the message at the front of its buffer.
Get(e) ==
  /\ Waiting(e)
  /\ sock' = Loop_GetMessage(sock, e)
  /\ delivered' = IF First(e).type = 1
                  THEN [delivered EXCEPT ![e] = Append(@, First(e).num)]
                  ELSE delivered
  /\ UNCHANGED sent

\* e sends body, when k is what the two sockets are by then.  The program
\* ends (Sys_Error in Loop_SendMessage) when there is no room.
SendReliably(k, e, body) ==
  LET num == Len(sent[e]) + 1 IN
  IF Length(body) + 4 > RoomFor(k, e)
  THEN failure' = "overflow" /\ UNCHANGED driverVars
  ELSE /\ sock' = Loop_SendMessage(k, e, num, body)
       /\ sent' = [sent EXCEPT ![e] = Append(@, num)]
       /\ UNCHANGED <<delivered, failure>>

\* It sends nothing reliably.
SendNothing(k) == sock' = k /\ UNCHANGED <<sent, delivered, failure>>

-----------------------------------------------------------------------------
(* Commands.                                                               *)

InGame == host_client.spawned /\ cls.signon = SIGNONS /\ cls.level = level

Count(script, name) ==
  Total([i \in 1..Len(script) |-> IF script[i] = name THEN 1 ELSE 0])
Changes(script) == Count(script, "changelevel")

\* Keys, and the programs of the level that is played, put a script into the
\* command buffer, behind what waits there.  Bound: the level only changes
\* for a player in the game with no text waiting (see signon_early).
Sys_SendKeyEvents ==
  /\ turn = "keys"
  /\ turn' = "commands"
  /\ \/ UNCHANGED <<cbuf, scripts>>
     \/ \E script \in Scripts :
          /\ scripts < MaxScripts
          /\ Changes(script) > 0 =>
               InGame /\ cbuf = <<>> /\ level + Changes(script) <= MaxLevel
          /\ cbuf' = cbuf \o script
          /\ scripts' = scripts + 1
  /\ UNCHANGED <<level, host_client, cls, driverVars, failure>>

\* Cbuf_Execute takes the next command ...
NextCommand(name) ==
  /\ turn = "commands"
  /\ cbuf # <<>>
  /\ Head(cbuf) = name
  /\ cbuf' = Tail(cbuf)
  /\ UNCHANGED scripts

\* ... until none is left, or the rest is to wait for the next frame.
Cbuf_ExecuteEnds ==
  /\ \/ turn = "commands" /\ cbuf = <<>> /\ UNCHANGED <<cbuf, scripts>>
     \/ NextCommand("wait")
  /\ turn' = "move"
  /\ UNCHANGED <<level, host_client, cls, driverVars, failure>>

\* "say" is forwarded to the server.
Cmd_ForwardToServer ==
  /\ NextCommand("say")
  /\ cls' = [cls EXCEPT !.message = Append(@, Cmd("say", 0))]
  /\ UNCHANGED <<turn, level, host_client, driverVars, failure>>

Host_Reconnect_f ==
  /\ NextCommand("reconnect")
  /\ cls' = [cls EXCEPT !.signon = 0]
  /\ UNCHANGED <<turn, level, host_client, driverVars, failure>>

\* Host_Changelevel_f with all of SV_SpawnServer: SV_SendReconnect writes
\* "reconnect" to the player whatever canSend says, and executes it as well.
Changelevel_f ==
  /\ NextCommand("changelevel")
  /\ SendReliably(sock, "server", <<Cmd("reconnect", 0)>>)
  /\ cls' = [cls EXCEPT !.signon = 0]
  /\ level' = level + 1
  /\ host_client' = SV_SendServerinfo(host_client, level + 1)
  /\ UNCHANGED turn

-----------------------------------------------------------------------------
(* CL_SendCmd and the server's frame.                                      *)

\* CL_SendLagMove: the moves that are due, none or several (the first ones
\* of a level are dropped, a lag may be asked for).
CL_SendLagMove(moves) ==
  LET after[i \in 0..moves] ==
        IF i = 0 THEN sock
        ELSE Loop_SendUnreliableMessage(after[i - 1], "client",
                                        <<Cmd("move", 0)>>)
  IN  after[moves]

\* CL_SendCmd: moves, and what is to be sent reliably, when it can.
SendCmd(moves) ==
  LET k == CL_SendLagMove(moves)
      sends == cls.message # <<>> /\ k["client"].canSend
  IN
  /\ turn = "move"
  /\ turn' = "clients"
  /\ moves > 0 => cls.signon = SIGNONS
  /\ IF sends
     THEN /\ SendReliably(k, "client", cls.message)
          /\ cls' = [cls EXCEPT !.message = <<>>]
     ELSE SendNothing(k) /\ UNCHANGED cls
  /\ UNCHANGED <<cbuf, scripts, level, host_client>>

\* SV_ReadClientMessage reads message after message.
SV_ReadClientMessage ==
  /\ turn = "clients"
  /\ Get("server")
  /\ host_client' = ExecuteAll(host_client, First("server").body)
  /\ UNCHANGED <<turn, cbuf, scripts, level, cls, failure>>

SV_ReadClientMessageEnds ==
  /\ turn = "clients"
  /\ ~Waiting("server")
  /\ turn' = "messages"
  /\ UNCHANGED <<cbuf, scripts, level, host_client, cls, driverVars, failure>>

\* SV_SendClientMessages: an update for a player in the game, a nop (now
\* and then) for one signing on with nothing to get, and the reliable part.
SV_SendClientMessages(nop) ==
  LET s == host_client
      idle == ~s.spawned /\ ~s.sendsignon
      datagram == IF s.spawned THEN Cmd("update", 0) ELSE Nop
      k == IF s.spawned \/ nop
           THEN Loop_SendUnreliableMessage(sock, "server", <<datagram>>)
           ELSE sock
      sends == ~idle /\ s.message # <<>> /\ k["server"].canSend
  IN
  /\ turn = "messages"
  /\ turn' = "results"
  /\ nop => idle
  /\ IF sends
     THEN /\ SendReliably(k, "server", s.message)
          /\ host_client' = [s EXCEPT !.message = <<>>, !.sendsignon = FALSE]
     ELSE SendNothing(k) /\ UNCHANGED host_client
  /\ UNCHANGED <<cbuf, scripts, level, cls>>

-----------------------------------------------------------------------------
(* CL_ReadFromServer.                                                      *)

\* CL_ParseUpdate: the first update is the last stage of signing on.
CL_ParseUpdate(signon) == IF signon = SIGNONS - 1 THEN SIGNONS ELSE signon

\* CL_ParseServerMessage on one command c of a message: to the player, the
\* command buffer and the game.  After Host_Error nothing more is parsed.
ParseServerMessage(r, c) ==
  IF r.failure # "none" THEN r
  ELSE CASE c.name = "serverinfo" ->
              [r EXCEPT !.cls.message = <<>>, !.cls.level = c.n]
         [] c.name = "signonnum" /\ c.n <= r.cls.signon ->
              [r EXCEPT !.failure = "signon"]
         [] c.name = "signonnum" /\ c.n > r.cls.signon ->
              [r EXCEPT !.cls.signon = c.n,
                        !.cls.message = Append(@, CL_SignonReply(c.n))]
         [] c.name = "reconnect" ->
              [r EXCEPT !.cbuf = Append(@, "reconnect")]
         [] c.name = "update" ->
              [r EXCEPT !.cls.signon = CL_ParseUpdate(@)]
         [] c.name \in {"nop", "print"} -> r

\* ... and on the commands of a message, one by one.
ParseServerMessages(r, cmds) ==
  LET after[i \in 0..Len(cmds)] ==
        IF i = 0 THEN r ELSE ParseServerMessage(after[i - 1], cmds[i])
  IN  after[Len(cmds)]

\* CL_ReadFromServer parses message after message.
CL_ReadFromServer ==
  /\ turn = "results"
  /\ Get("client")
  /\ LET r == ParseServerMessages([cls |-> cls, cbuf |-> cbuf,
                                   failure |-> failure],
                                  First("client").body)
     IN  cls' = r.cls /\ cbuf' = r.cbuf /\ failure' = r.failure
  /\ UNCHANGED <<turn, scripts, level, host_client>>

\* Mutant: one message a frame.
CL_ReadFromServerEndsAnyway ==
  /\ turn = "results"
  /\ turn' = "keys"
  /\ UNCHANGED <<cbuf, scripts, level, host_client, cls, driverVars, failure>>

CL_ReadFromServerEnds ==
  /\ turn = "results"
  /\ ~Waiting("client")
  /\ turn' = "keys"
  /\ UNCHANGED <<cbuf, scripts, level, host_client, cls, driverVars, failure>>

-----------------------------------------------------------------------------
\* After Loop_Connect, Loop_CheckNewConnections and SV_ConnectClient on the
\* one side, CL_EstablishConnection on the other.
LocalInit ==
  /\ turn = "clients"
  /\ cbuf = <<>>
  /\ scripts = 0
  /\ level = 1
  /\ host_client =
       SV_SendServerinfo([spawned |-> FALSE, sendsignon |-> FALSE,
                          message |-> <<>>], 1)
  /\ cls = [signon |-> 0, message |-> <<Nop>>, level |-> 0]
  /\ sock = [e \in Endpoint |->
               [canSend |-> TRUE, receiveMessageLength |-> 0,
                receiveMessage |-> <<>>]]
  /\ failure = "none"
  /\ sent = [e \in Endpoint |-> <<>>]
  /\ delivered = [e \in Endpoint |-> <<>>]

Frame ==
  \/ Sys_SendKeyEvents
  \/ Cmd_ForwardToServer
  \/ Host_Reconnect_f
  \/ Changelevel_f
  \/ Cbuf_ExecuteEnds
  \/ \E moves \in 0..MaxMoves : SendCmd(moves)
  \/ SV_ReadClientMessage
  \/ SV_ReadClientMessageEnds
  \/ \E nop \in BOOLEAN : SV_SendClientMessages(nop)
  \/ CL_ReadFromServer
  \/ CL_ReadFromServerEnds

\* After an error the game is over.
LocalNext == failure = "none" /\ Frame

\* The main loop runs frame after frame.
LocalFairness == WF_localVars(LocalNext)
LocalSpec == LocalInit /\ [][LocalNext]_localVars /\ LocalFairness

-----------------------------------------------------------------------------
(* Properties.                                                             *)

LocalTypeOK ==
  /\ turn \in {"keys", "commands", "move", "clients", "messages", "results"}
  /\ cbuf \in Seq({"say", "wait", "changelevel", "reconnect"})
  /\ scripts \in 0..MaxScripts
  /\ level \in 1..MaxLevel
  /\ host_client.spawned \in BOOLEAN
  /\ host_client.sendsignon \in BOOLEAN
  /\ cls.signon \in 0..SIGNONS
  /\ cls.level \in 0..MaxLevel
  /\ \A e \in Endpoint : /\ sock[e].canSend \in BOOLEAN
                         /\ sock[e].receiveMessageLength \in Nat
  /\ failure \in {"none", "overflow", "signon"}
  /\ \A e \in Endpoint : sent[e] \in Seq(1..MaxMessages)

\* The messages in a receiveMessage lie one behind the other from its start
\* to receiveMessageLength, which is inside it: wherever Loop_GetMessage and
\* the writers of net_loop.c add up lengths, they agree.
RingIsWhole ==
  \A e \in Endpoint :
    LET b == sock[e].receiveMessage
        end == sock[e].receiveMessageLength
        Behind(o) == o + IntAlign(Length(b[o].body) + 4)
    IN  /\ end <= NET_MAXMESSAGE
        /\ \A o \in DOMAIN b : Behind(o) \in DOMAIN b \cup {end}
        /\ end # 0 => 0 \in DOMAIN b

\* Neither ends an orderly game: a message the driver has no room for
\* (Loop_SendMessage) nor a stage of signing on that was passed before
\* (svc_signonnum), however many messages of a frame meet in the buffers.
NothingFails == failure = "none"

\* A player the server counts as spawned has loaded the level the server
\* plays and been through its stages, whatever the command buffer holds back.
LocalSpawnedIsSignedOn ==
  host_client.spawned => cls.level = level /\ cls.signon >= SIGNONS - 1

\* The driver's buffers and the server's view of its own player.
LocalIsWhole == RingIsWhole /\ LocalSpawnedIsSignedOn

\* The player comes to be in the game, and stays there, on the last level.
LocalArrives == <>[]InGame

Channel == INSTANCE ReliableChannel WITH Message <- 1..MaxMessages

\* The loop driver, as the hosts use it, is a reliable channel like that of
\* module Datagram: every message once, in order, and the next one only when
\* the one before has been read, the unasked "reconnect" of NET_SendToAll
\* included.
ImplementsReliableChannel == Channel!Spec
=============================================================================
