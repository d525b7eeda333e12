---------------------------- MODULE Connections ----------------------------
(***************************************************************************)
(* Who is connected: the pool of qsockets (net_main.c), the server's slots *)
(* svs.clients that hold them (sv_main.c, host.c), the loopback pair of    *)
(* the host's own player (net_loop.c) and the handshake by which a remote  *)
(* player gets a qsocket (_Datagram_Connect, _Datagram_CheckNewConnections *)
(* in net_dgrm.c).                                                         *)
(*                                                                         *)
(* The host is one process with one thread: a listen server with a player  *)
(* of its own, or a dedicated server.  Its state is the record host; a C   *)
(* function that changes it is an operator from a host to a host, so that  *)
(* a command that calls several of them is one step, as in the program.    *)
(* Each remote attempt to connect is one run of _Datagram_Connect from a   *)
(* UDP port of its own.                                                    *)
(***************************************************************************)
EXTENDS Naturals, Sequences, FiniteSets

CONSTANTS
  MaxClients,    \* svs.maxclients
  Dedicated,     \* cls.state is ca_dedicated
  NumSockets,    \* net_numsockets: maxclientslimit, + 1 unless dedicated
  Attempt,       \* the remote attempts to connect
  MaxReps,       \* requests an attempt sends before it gives up (3)
  Settings       \* the sets of disturbances that are to be looked at, of
                 \* what may go wrong besides loss and delay of packets:
                 \*   "badmap"  the map of a command does not exist
                 \*   "outage"  a connected player is not heard of for long
                 \*   "late"    a silence comes to its limit in NET_SendToAll

ASSUME PoolAssumption ==
  /\ MaxClients \in Nat \ {0}
  /\ Dedicated \in BOOLEAN
  /\ NumSockets \in Nat
  /\ NumSockets >= MaxClients
  /\ NumSockets > MaxClients \/ Dedicated
ASSUME MaxRepsAssumption == MaxReps \in Nat \ {0}
ASSUME SettingsAssumption ==
  Settings \subseteq SUBSET {"badmap", "outage", "late"}

Slot == 1..MaxClients
Socket == 1..NumSockets
None == 0              \* a NULL pointer to a qsocket

VARIABLES
  setting,   \* one of Settings, for good
  host,      \* active: sv.active;  clients: the slots;  count:
             \* net_activeconnections;  free: net_freeSockets;  sock: the
             \* qsockets;  netcon: cls.netcon while ca_connected;
             \* loop_client, loop_server, pending: localconnectpending;
             \* error: the Sys_Error that ended the program
  remote,    \* state of each attempt: "idle", "trying", "playing", "gone"
  reps,      \* requests it has sent
  told,      \* the qsocket whose port it was told
  requests,  \* CCREQ_CONNECT packets in flight, by attempt
  replies    \* answers in flight: <<attempt, qsocket>>, None for a reject

gameVars == <<host, remote, reps, told, requests, replies>>
vars == <<setting, gameVars>>

MayHappen(d) == d \in setting

NoSocket == [driver |-> "none", peer |-> "none", fresh |-> FALSE,
             net_wait |-> FALSE]
NoClient == [active |-> FALSE, socket |-> None]

IsOpen(h, s) == s # None /\ h.sock[s].driver # "none"   \* not disconnected

-----------------------------------------------------------------------------
(* The pool.                                                               *)

\* NET_NewQSocket returns NULL when this does not hold.
CanOpen(h) == h.free # <<>> /\ h.count < MaxClients

\* NET_NewQSocket, when it can: the head of the free list.
NET_NewQSocket(h, driver, peer) ==
  [h EXCEPT !.free = Tail(@),
            !.sock[Head(h.free)] =
              [driver |-> driver, peer |-> peer, fresh |-> peer \in Attempt,
               net_wait |-> peer \in Attempt]]

\* Mutant: the qsocket is marked disconnected, and forgotten.
NET_FreeQSocketForgets(h, s) ==
  IF IsOpen(h, s) THEN [h EXCEPT !.sock[s] = NoSocket]
  ELSE [h EXCEPT !.error = "NET_FreeQSocket: not active"]

NET_FreeQSocket(h, s) ==
  IF IsOpen(h, s) THEN [h EXCEPT !.free = <<s>> \o @, !.sock[s] = NoSocket]
  ELSE [h EXCEPT !.error = "NET_FreeQSocket: not active"]

\* Mutant: the loop driver keeps pointing at the qsocket it gave back.
Loop_CloseKeepsPointer(h, s) == h

\* Loop_Close forgets which of the pair is closed.
Loop_Close(h, s) ==
  IF s = h.loop_client THEN [h EXCEPT !.loop_client = None]
  ELSE [h EXCEPT !.loop_server = None]

\* Mutant: a qsocket closed already is freed once more.
NET_CloseTwice(h, s) ==
  IF s = None THEN h
  ELSE NET_FreeQSocket(
         IF h.sock[s].driver = "loop" THEN Loop_Close(h, s) ELSE h, s)

NET_Close(h, s) ==
  IF ~IsOpen(h, s) THEN h
  ELSE NET_FreeQSocket(
         IF h.sock[s].driver = "loop" THEN Loop_Close(h, s) ELSE h, s)

-----------------------------------------------------------------------------
(* The server's slots.                                                     *)

\* SV_CheckForNewClients, for the qsocket s a driver handed out: the first
\* slot that is not active, by SV_ConnectClient.
SV_CheckForNewClients(h, s) ==
  LET idle == {i \in Slot : ~h.clients[i].active} IN
  IF idle = {}
  THEN [h EXCEPT !.error = "SV_CheckForNewClients: no free clients"]
  ELSE [h EXCEPT !.clients[CHOOSE i \in idle : \A j \in idle : i <= j] =
                   [active |-> TRUE, socket |-> s],
                 !.count = @ + 1]

\* Mutant: the connection is taken off the count of a slot that is free.
SV_DropClientUnguarded(h, i) ==
  [NET_Close(h, h.clients[i].socket)
     EXCEPT !.clients[i] = NoClient, !.count = @ - 1]

\* Mutant: the connection is not taken off the count.
SV_DropClientKeepsCount(h, i) ==
  IF ~h.clients[i].active THEN h
  ELSE [NET_Close(h, h.clients[i].socket) EXCEPT !.clients[i] = NoClient]

SV_DropClient(h, i) ==
  IF ~h.clients[i].active THEN h
  ELSE [NET_Close(h, h.clients[i].socket)
          EXCEPT !.clients[i] = NoClient, !.count = @ - 1]

\* Host_ShutdownServer once sv.active is cleared: everybody is dropped, slot
\* by slot.
DropEverybody(h) ==
  LET after[i \in 0..MaxClients] ==
        IF i = 0 THEN h ELSE SV_DropClient(after[i - 1], i)
  IN  after[MaxClients]

\* CL_Disconnect without what it may call in turn.
CloseNetcon(h) == [NET_Close(h, h.netcon) EXCEPT !.netcon = None]

\* Host_ShutdownServer, which disconnects the host's own player first.
Host_ShutdownServer(h) ==
  IF ~h.active THEN h
  ELSE DropEverybody(CloseNetcon([h EXCEPT !.active = FALSE]))

\* CL_Disconnect, which shuts the host's own server down.
CL_Disconnect(h) ==
  IF h.netcon = None THEN h ELSE Host_ShutdownServer(CloseNetcon(h))

\* Host_Error, and the commands "disconnect" and "quit".
CL_Disconnect_f(h) == Host_ShutdownServer(CL_Disconnect(h))

-----------------------------------------------------------------------------
(* The players: the host's own, and the remote ones.                       *)

\* Loop_Connect makes what is missing of the pair.  NET_NewQSocket may
\* refuse either; CL_EstablishConnection then ends in Host_Error.
Loop_Connect(h) ==
  LET h1 == [h EXCEPT !.pending = TRUE]
      h2 == IF h1.loop_client # None THEN h1
            ELSE [NET_NewQSocket(h1, "loop", "server")
                    EXCEPT !.loop_client = Head(h1.free)]
      h3 == IF h2.loop_server # None THEN h2
            ELSE [NET_NewQSocket(h2, "loop", "client")
                    EXCEPT !.loop_server = Head(h2.free)]
  IN  IF h1.loop_client = None /\ ~CanOpen(h1) THEN CL_Disconnect_f(h1)
      ELSE IF h2.loop_server = None /\ ~CanOpen(h2) THEN CL_Disconnect_f(h2)
      ELSE [h3 EXCEPT !.netcon = h3.loop_client]

\* Is s open, and the player that it serves there?
Alive(s) ==
  /\ IsOpen(host, s)
  /\ \/ host.sock[s].driver = "loop"
     \/ \E a \in Attempt : /\ remote[a] = "playing"
                           /\ told[a] = s
                           /\ host.sock[s].peer = a

\* NET_GetMessage finds s closed, or finds nothing for longer than
\* net_messagetimeout (or net_connecttimeout), or SV_ReadClientMessage a
\* clc_disconnect or bad data.
Quiet(s) ==
  Alive(s) => host.sock[s].driver = "dgrm" /\ MayHappen("outage")

\* The qsockets that may time out while NET_SendToAll waits.
MayTimeOut ==
  {s \in {host.clients[i].socket : i \in Slot} :
     IsOpen(host, s) /\ Quiet(s) /\ ~host.sock[s].fresh
                     /\ MayHappen("late")}

-----------------------------------------------------------------------------
(* The host's steps.                                                       *)

Running == host.error = "none"
RemoteUnchanged == UNCHANGED <<remote, reps, told, requests, replies>>

\* NET_SendToAll goes through the slots and calls NET_GetMessage, which closes
\* the qsockets that time out; their slots stay active.
NET_SendToAll(h, late) ==
  LET after[i \in 0..MaxClients] ==
        IF i = 0 THEN h
        ELSE IF h.clients[i].socket \in late
             THEN NET_Close(after[i - 1], h.clients[i].socket)
             ELSE after[i - 1]
  IN  after[MaxClients]

\* Host_Changelevel_f: SV_SpawnServer begins with SV_SendReconnect, which
\* calls NET_SendToAll.  Without the map the server is not active.
Host_Changelevel_f ==
  /\ Running /\ host.active
  /\ \E late \in SUBSET MayTimeOut, found \in BOOLEAN :
       /\ found \/ MayHappen("badmap")
       /\ host' = [NET_SendToAll(host, late) EXCEPT !.active = found]
  /\ RemoteUnchanged

\* Host_Map_f, to the end of its "connect local".
Host_Map_f ==
  /\ Running
  /\ \E found \in BOOLEAN :
       LET h == Host_ShutdownServer(CL_Disconnect(host)) IN
       /\ found \/ MayHappen("badmap")
       /\ host' = IF ~found THEN h
                  ELSE IF Dedicated THEN [h EXCEPT !.active = TRUE]
                  ELSE Loop_Connect([h EXCEPT !.active = TRUE])
  /\ RemoteUnchanged

\* Host_Connect_f to another host: _Datagram_Connect gets a qsocket, and
\* gives it back when no answer comes.
Host_Connect_f ==
  /\ Running /\ ~Dedicated
  /\ \E answered \in BOOLEAN :
       LET h == CL_Disconnect(host) IN
       host' = IF answered /\ CanOpen(h)
               THEN [NET_NewQSocket(h, "dgrm", "elsewhere")
                       EXCEPT !.netcon = Head(h.free)]
               ELSE CL_Disconnect_f(h)
  /\ RemoteUnchanged

Disconnect ==
  /\ Running
  /\ host.active \/ host.netcon # None
  /\ host' = CL_Disconnect_f(host)
  /\ RemoteUnchanged

\* SV_CheckForNewClients asks the loop driver first.
Loop_CheckNewConnections ==
  /\ Running /\ host.active /\ host.pending
  /\ host' = SV_CheckForNewClients([host EXCEPT !.pending = FALSE],
                                   host.loop_server)
  /\ RemoteUnchanged

\* A request of attempt a comes in; a copy of it may stay under way.
Request(a) ==
  /\ Running /\ host.active /\ ~host.pending
  /\ a \in requests
  /\ requests' \in {requests, requests \ {a}}
  /\ UNCHANGED <<remote, reps, told>>

\* An answer is read only while the attempt waits for one.
Reply(a, s) ==
  replies' = IF remote[a] = "trying" THEN replies \cup {<<a, s>>} ELSE replies

\* The qsockets that have a request of a answered already: same address, and
\* connected less than two seconds ago.
Duplicates(a) ==
  {s \in Socket : /\ host.sock[s].peer = a
                  /\ host.sock[s].net_wait
                  /\ host.sock[s].fresh}

\* _Datagram_CheckNewConnections: the same answer again ...
AnswerDuplicate(a) ==
  /\ Request(a)
  /\ \E s \in Duplicates(a) : Reply(a, s)
  /\ UNCHANGED host

\* ... or a qsocket and a slot, unless no UDP socket can be opened ...
Accept(a) ==
  /\ Request(a)
  /\ Duplicates(a) = {}
  /\ CanOpen(host)
  /\ \E opened \in BOOLEAN :
       IF opened
       THEN /\ host' = SV_CheckForNewClients(NET_NewQSocket(host, "dgrm", a),
                                             Head(host.free))
            /\ Reply(a, Head(host.free))
       ELSE UNCHANGED <<host, replies>>

\* ... or "Server is full."
Reject(a) ==
  /\ Request(a)
  /\ Duplicates(a) = {}
  /\ ~CanOpen(host)
  /\ Reply(a, None)
  /\ UNCHANGED host

\* SV_ReadClientMessage hears of the player in slot i: the address of its
\* qsocket is now the one it plays from.
Hear(i) ==
  LET s == host.clients[i].socket IN
  /\ Running /\ host.active /\ host.clients[i].active
  /\ Alive(s) /\ host.sock[s].net_wait
  /\ host' = [host EXCEPT !.sock[s].net_wait = FALSE]
  /\ RemoteUnchanged

\* Mutant: a connection not heard of yet is not timed.
DropIfHeard(i) ==
  LET s == host.clients[i].socket IN
  /\ Running /\ host.active /\ host.clients[i].active
  /\ Quiet(s) /\ ~host.sock[s].net_wait
  /\ host' = SV_DropClient(NET_Close(host, s), i)
  /\ RemoteUnchanged

\* SV_RunClients drops the client in slot i: NET_GetMessage says -1, as it
\* has closed the qsocket now or finds it disconnected.
Drop(i) ==
  LET s == host.clients[i].socket IN
  /\ Running /\ host.active /\ host.clients[i].active
  /\ Quiet(s)
  /\ host' = SV_DropClient(NET_Close(host, s), i)
  /\ RemoteUnchanged

\* Two seconds pass.
Age(s) ==
  /\ Running
  /\ host.sock[s].fresh
  /\ host' = [host EXCEPT !.sock[s].fresh = FALSE]
  /\ RemoteUnchanged

-----------------------------------------------------------------------------
(* The remote players: _Datagram_Connect, and what becomes of them.        *)

\* It sends a request, again after two and a half seconds without an answer.
Ask(a) ==
  /\ remote[a] \in {"idle", "trying"}
  /\ reps[a] < MaxReps
  /\ remote' = [remote EXCEPT ![a] = "trying"]
  /\ reps' = [reps EXCEPT ![a] = @ + 1]
  /\ requests' = requests \cup {a}
  /\ UNCHANGED <<host, told, replies>>

\* The first answer counts; those that come later find the port closed.
Answered(a, s) ==
  /\ remote[a] = "trying"
  /\ <<a, s>> \in replies
  /\ remote' = [remote EXCEPT ![a] = IF s = None THEN "gone" ELSE "playing"]
  /\ told' = [told EXCEPT ![a] = s]
  /\ reps' = [reps EXCEPT ![a] = 0]
  /\ replies' = {r \in replies : r[1] # a}
  /\ UNCHANGED <<host, requests>>

\* "No Response"; or a player leaves, crashes, or finds itself dropped.
Leave(a) ==
  /\ \/ remote[a] = "trying" /\ reps[a] = MaxReps
     \/ remote[a] = "playing"
  /\ remote' = [remote EXCEPT ![a] = "gone"]
  /\ reps' = [reps EXCEPT ![a] = 0]
  /\ told' = [told EXCEPT ![a] = None]
  /\ replies' = {r \in replies : r[1] # a}
  /\ UNCHANGED <<host, requests>>

Lose ==
  /\ \/ \E a \in requests : requests' = requests \ {a} /\ UNCHANGED replies
     \/ \E r \in replies : replies' = replies \ {r} /\ UNCHANGED requests
  /\ UNCHANGED <<host, remote, reps, told>>

-----------------------------------------------------------------------------
Init ==
  /\ setting \in Settings
  /\ host = [active |-> FALSE, clients |-> [i \in Slot |-> NoClient],
             count |-> 0,
             free |-> [s \in Socket |-> NumSockets + 1 - s],
             sock |-> [s \in Socket |-> NoSocket], netcon |-> None,
             loop_client |-> None, loop_server |-> None, pending |-> FALSE,
             error |-> "none"]
  /\ remote = [a \in Attempt |-> "idle"]
  /\ reps = [a \in Attempt |-> 0]
  /\ told = [a \in Attempt |-> None]
  /\ requests = {}
  /\ replies = {}

Commands == Host_Changelevel_f \/ Host_Map_f \/ Host_Connect_f \/ Disconnect

GameNext ==
  \/ Commands
  \/ Loop_CheckNewConnections
  \/ \E a \in Attempt : AnswerDuplicate(a) \/ Accept(a) \/ Reject(a)
  \/ \E i \in Slot : Hear(i) \/ Drop(i)
  \/ \E s \in Socket : Age(s)
  \/ \E a \in Attempt : \/ Ask(a)
                        \/ \E s \in {None} \cup Socket : Answered(a, s)
                        \/ Leave(a)
  \/ Lose

Next == GameNext /\ UNCHANGED setting
Spec == Init /\ [][Next]_vars

\* The frame loop: SV_CheckForNewClients asks the loop driver and
\* SV_RunClients reads every client, every frame the server is active; a
\* silence that lasts comes to its limit.
FairSpec ==
  /\ Spec
  /\ WF_gameVars(Loop_CheckNewConnections)
  /\ \A i \in Slot : WF_gameVars(~Alive(host.clients[i].socket) /\ Drop(i))

-----------------------------------------------------------------------------
(* Properties.                                                             *)

Driver == {"none", "loop", "dgrm"}
Peers == Attempt \cup {"none", "server", "client", "elsewhere"}

TypeOK ==
  /\ setting \in Settings
  /\ host.active \in BOOLEAN /\ host.pending \in BOOLEAN
  /\ host.clients \in [Slot -> [active : BOOLEAN, socket : Socket \cup {None}]]
  /\ host.count \in 0..MaxClients
  /\ host.free \in Seq(Socket)
  /\ host.sock \in [Socket -> [driver : Driver, peer : Peers,
                               fresh : BOOLEAN, net_wait : BOOLEAN]]
  /\ {host.netcon, host.loop_client, host.loop_server}
       \subseteq Socket \cup {None}
  /\ remote \in [Attempt -> {"idle", "trying", "playing", "gone"}]
  /\ reps \in [Attempt -> 0..MaxReps]
  /\ told \in [Attempt -> Socket \cup {None}]
  /\ requests \subseteq Attempt
  /\ replies \subseteq Attempt \X (Socket \cup {None})

Active == {i \in Slot : host.clients[i].active}
Held == {host.clients[i].socket : i \in Active}

\* The program never ends in the Sys_Error of SV_CheckForNewClients or of
\* NET_FreeQSocket, nor does the loop driver hand out a NULL loop_server:
\* NET_NewQSocket's test of the count is what keeps a slot free.
NoSysError ==
  /\ host.error = "none"
  /\ host.active /\ host.pending => host.loop_server # None

\* net_activeconnections, which is kept in two files, is the number of
\* active slots: the server is neither full for ever nor overfull.  And one
\* with a slot to give has a qsocket to give with it, so that "Server is full."
\* is only said when it is (NET_Init counts one more for a player of the host).
CountMatches ==
  /\ host.count = Cardinality(Active)
  /\ host.active /\ ~host.pending /\ host.count < MaxClients =>
       host.free # <<>>

\* Every qsocket is in the free list once, or open, and an open one is held:
\* by a slot, by cls.netcon or by the loop driver.  None leaks.
PoolIsWhole ==
  /\ \A s \in Socket :
       Cardinality({k \in DOMAIN host.free : host.free[k] = s})
         = IF IsOpen(host, s) THEN 0 ELSE 1
  /\ \A s \in Socket : IsOpen(host, s) =>
       s \in Held \cup {host.netcon, host.loop_client, host.loop_server}

\* No two active slots hold one qsocket: what one player sends is never read
\* for the other, and dropping one does not cut the other off.
OneSocketPerClient ==
  \A i, j \in Active :
    host.clients[i].socket = host.clients[j].socket => i = j

\* That is so as long as every map exists and no silence comes to its limit
\* in NET_SendToAll: outages alone, and requests that come twice, late or
\* after their answer, do not make two slots share a qsocket.
OneSocketWhenOrderly ==
  setting \subseteq {"outage"} => OneSocketPerClient

\* A slot whose player is gone, or whose qsocket was closed behind its back
\* (in NET_SendToAll), becomes free while the server runs, unless somebody
\* comes to be there: ghosts of repeated connection requests do not keep
\* players out for ever.
GhostsAreDropped ==
  \A i \in Slot :
    host.clients[i].active /\ ~Alive(host.clients[i].socket)
      ~> \/ ~host.clients[i].active
         \/ Alive(host.clients[i].socket)
         \/ ~host.active

\* "Active clients are kicked off": after the command "map" no slot is held
\* by a player of the game before (Host_Map_f).
MapKicksEverybody ==
  [][Host_Map_f => \A i \in Slot : ~host'.clients[i].active]_vars
=============================================================================
