-------------------------- MODULE ConnectionsProofs --------------------------
(* Theorems about Connections, for every number of slots, qsockets and      *)
(* remote attempts, with and without a player of the host's own.            *)
EXTENDS Connections, Loops, FiniteSetTheorems, TLAPS

-----------------------------------------------------------------------------
(* The inductive invariant.  All of Whole holds at every point inside a     *)
(* command too; Serving and Orderly hold between commands.                  *)

\* The hosts of a program that has not ended.
Hosts == [active : BOOLEAN,
          clients : [Slot -> [active : BOOLEAN, socket : Socket \cup {None}]],
          count : 0..MaxClients,
          free : Seq(Socket),
          sock : [Socket -> [driver : Driver, peer : Peers,
                             fresh : BOOLEAN, net_wait : BOOLEAN]],
          netcon : Socket \cup {None},
          loop_client : Socket \cup {None},
          loop_server : Socket \cup {None},
          pending : BOOLEAN,
          error : {"none"}]

ActiveIn(h) == {i \in Slot : h.clients[i].active}
HeldIn(h) == {h.clients[i].socket : i \in ActiveIn(h)}

\* The free list holds the closed qsockets, each of them once.
FreeIsClosed(h) ==
  /\ \A k, l \in 1..Len(h.free) : h.free[k] = h.free[l] => k = l
  /\ \A k \in 1..Len(h.free) : ~IsOpen(h, h.free[k])
  /\ \A s \in Socket : ~IsOpen(h, s) => \E k \in 1..Len(h.free) : h.free[k] = s

\* An open qsocket is held by a slot, by cls.netcon or by the loop driver.
OpenIsHeld(h) ==
  \A s \in Socket : IsOpen(h, s) =>
    s \in HeldIn(h) \cup {h.netcon, h.loop_client, h.loop_server}

\* The loop driver points at its open qsockets, which differ; the player of
\* the host holds the one and, once it is handed out, a slot the other.  A
\* dedicated server has neither.
LoopPair(h) ==
  /\ h.loop_client # None =>
       h.netcon = h.loop_client /\ h.sock[h.loop_client].driver = "loop"
  /\ h.loop_server # None =>
       /\ h.loop_server # h.loop_client
       /\ h.sock[h.loop_server].driver = "loop"
       /\ h.pending \/ h.loop_server \in HeldIn(h)
  /\ \A s \in Socket : h.sock[s].driver = "loop" =>
       s = h.loop_client \/ s = h.loop_server
  /\ Dedicated => /\ h.netcon = None
                  /\ h.loop_client = None /\ h.loop_server = None
                  /\ ~h.pending

Whole(h) ==
  /\ h \in Hosts
  /\ FreeIsClosed(h)
  /\ OpenIsHeld(h)
  /\ h.count = Cardinality(ActiveIn(h))
  /\ LoopPair(h)

\* While the server is active, the player of the host is connected to it, and
\* there is a slot for it as long as it waits for one.
Serving(h) ==
  h.active => /\ ~Dedicated => h.loop_client # None
              /\ h.pending => h.loop_server # None /\ h.count < MaxClients

\* Without missing maps and timeouts in NET_SendToAll, every active slot has
\* an open qsocket that nobody else holds.
Orderly(h) ==
  /\ \A i, j \in ActiveIn(h) :
       h.clients[i].socket = h.clients[j].socket => i = j
  /\ \A i \in ActiveIn(h) : /\ IsOpen(h, h.clients[i].socket)
                            /\ h.clients[i].socket # h.netcon
                            /\ h.pending => h.clients[i].socket # h.loop_server
  /\ ~h.active => ActiveIn(h) = {}

\* Between two steps of the host.
HostInv(h, st) ==
  Whole(h) /\ Serving(h) /\ (st \subseteq {"outage"} => Orderly(h))

\* The attempts to connect, and what is in flight.
OthersInv ==
  /\ setting \in Settings
  /\ remote \in [Attempt -> {"idle", "trying", "playing", "gone"}]
  /\ reps \in [Attempt -> 0..MaxReps]
  /\ told \in [Attempt -> Socket \cup {None}]
  /\ requests \subseteq Attempt
  /\ replies \subseteq Attempt \X (Socket \cup {None})

IInv == HostInv(host, setting) /\ OthersInv

-----------------------------------------------------------------------------
(* The pool.                                                               *)

\* No qsocket is NULL.
LEMMA NoneIsNoSocket == None \notin Socket
BY PoolAssumption DEF None, Socket

\* What NET_Close makes of a host in which the qsocket s is open.
Closed(h, s) ==
  [h EXCEPT !.free = <<s>> \o @, !.sock[s] = NoSocket,
            !.loop_client = IF s = @ THEN None ELSE @,
            !.loop_server = IF s = @ THEN None ELSE @]

\* NET_Close and the Close of the driver together: Loop_Close forgets the one
\* of the pair that is closed, and only that one.
LEMMA CloseShape ==
  ASSUME NEW h \in Hosts, LoopPair(h), NEW s \in Socket \cup {None}
  PROVE  NET_Close(h, s) = IF IsOpen(h, s) THEN Closed(h, s) ELSE h
<1>1. CASE ~IsOpen(h, s)
  BY <1>1 DEF NET_Close
<1>2. CASE IsOpen(h, s)
  <2>1. s \in Socket
    BY <1>2, NoneIsNoSocket DEF IsOpen
  <2>2. CASE h.sock[s].driver = "loop"
    <3>1. s = h.loop_client \/ (s # h.loop_client /\ s = h.loop_server)
      BY <2>1, <2>2 DEF LoopPair
    <3>2. IsOpen(Loop_Close(h, s), s)
      BY <1>2 DEF IsOpen, Loop_Close, Hosts
    <3>3. NET_Close(h, s) = [Loop_Close(h, s) EXCEPT
                               !.free = <<s>> \o @, !.sock[s] = NoSocket]
      BY <1>2, <2>2, <3>2 DEF NET_Close, NET_FreeQSocket
    <3>4. CASE s = h.loop_client
      <4>1. s # h.loop_server
        BY <3>4, <2>1, NoneIsNoSocket DEF LoopPair
      <4> QED
        BY <1>2, <3>3, <3>4, <4>1 DEF Loop_Close, Hosts, Closed
    <3>5. CASE s # h.loop_client /\ s = h.loop_server
      BY <1>2, <3>3, <3>5 DEF Loop_Close, Hosts, Closed
    <3> QED
      BY <3>1, <3>4, <3>5
  <2>3. CASE h.sock[s].driver # "loop"
    <3>1. s # h.loop_client /\ s # h.loop_server
      BY <2>1, <2>3, NoneIsNoSocket DEF LoopPair
    <3> QED
      BY <1>2, <2>3, <3>1 DEF NET_Close, NET_FreeQSocket, Hosts, Closed
  <2> QED
    BY <2>2, <2>3
<1> QED
  BY <1>1, <1>2

\* The host with one qsocket closed, field by field.
LEMMA ClosedFields ==
  ASSUME NEW h \in Hosts, NEW s \in Socket
  PROVE  /\ Closed(h, s) \in Hosts
         /\ Closed(h, s).active = h.active
         /\ Closed(h, s).clients = h.clients
         /\ Closed(h, s).count = h.count
         /\ Closed(h, s).netcon = h.netcon
         /\ Closed(h, s).pending = h.pending
         /\ Closed(h, s).free = <<s>> \o h.free
         /\ Closed(h, s).sock = [h.sock EXCEPT ![s] = NoSocket]
         /\ Closed(h, s).loop_client =
              IF s = h.loop_client THEN None ELSE h.loop_client
         /\ Closed(h, s).loop_server =
              IF s = h.loop_server THEN None ELSE h.loop_server
<1>1. NoSocket \in [driver : Driver, peer : Peers, fresh : BOOLEAN,
                    net_wait : BOOLEAN]
  BY DEF NoSocket, Driver, Peers
<1>2. [h.sock EXCEPT ![s] = NoSocket] \in
        [Socket -> [driver : Driver, peer : Peers, fresh : BOOLEAN,
                    net_wait : BOOLEAN]]
  BY <1>1 DEF Hosts
<1>3. <<s>> \o h.free \in Seq(Socket)
  BY DEF Hosts
<1> QED
  BY <1>2, <1>3 DEF Closed, Hosts

\* Closing an open qsocket takes that one from the open ones.
LEMMA ClosedIsOpen ==
  ASSUME NEW h \in Hosts, NEW s \in Socket, NEW t \in Socket \cup {None}
  PROVE  IsOpen(Closed(h, s), t) <=> IsOpen(h, t) /\ t # s
<1>1. h.sock \in [Socket -> [driver : Driver, peer : Peers, fresh : BOOLEAN,
                             net_wait : BOOLEAN]]
  BY DEF Hosts
<1>2. Closed(h, s).sock = [h.sock EXCEPT ![s] = NoSocket]
  BY ClosedFields
<1>3. CASE t = None
  BY <1>3 DEF IsOpen
<1>4. CASE t \in Socket /\ t # s
  BY <1>1, <1>2, <1>4 DEF IsOpen
<1>5. CASE t = s
  BY <1>1, <1>2, <1>5 DEF IsOpen, NoSocket
<1> QED
  BY <1>3, <1>4, <1>5

\* Nothing that NET_Close does breaks the pool, the slots or the loop driver.
LEMMA CloseWhole ==
  ASSUME NEW h, Whole(h), NEW s \in Socket \cup {None}
  PROVE  /\ Whole(NET_Close(h, s))
         /\ ~IsOpen(NET_Close(h, s), s)
         /\ NET_Close(h, s).active = h.active
         /\ NET_Close(h, s).clients = h.clients
         /\ NET_Close(h, s).count = h.count
         /\ NET_Close(h, s).netcon = h.netcon
         /\ NET_Close(h, s).pending = h.pending
         /\ \A t \in Socket : t # s => NET_Close(h, s).sock[t] = h.sock[t]
         /\ s # h.loop_client => NET_Close(h, s).loop_client = h.loop_client
         /\ s # h.loop_server => NET_Close(h, s).loop_server = h.loop_server
<1> DEFINE g == Closed(h, s)
<1>1. CASE ~IsOpen(h, s)
  BY <1>1, CloseShape DEF Whole
<1>2. CASE IsOpen(h, s)
  <2>1. s \in Socket /\ h \in Hosts /\ NET_Close(h, s) = g
    BY <1>2, CloseShape, NoneIsNoSocket DEF IsOpen, Whole
  <2>2. /\ g \in Hosts
        /\ g.active = h.active /\ g.clients = h.clients /\ g.count = h.count
        /\ g.netcon = h.netcon /\ g.pending = h.pending
        /\ g.free = <<s>> \o h.free
        /\ g.sock = [h.sock EXCEPT ![s] = NoSocket]
        /\ g.loop_client = IF s = h.loop_client THEN None ELSE h.loop_client
        /\ g.loop_server = IF s = h.loop_server THEN None ELSE h.loop_server
    BY <2>1, ClosedFields
  <2>3. \A t \in Socket : t # s => g.sock[t] = h.sock[t]
    BY <2>1, <2>2 DEF Hosts
  <2>4. \A t \in Socket : IsOpen(g, t) <=> IsOpen(h, t) /\ t # s
    BY <2>1, ClosedIsOpen
  <2>5. FreeIsClosed(g)
    <3>1. h.free \in Seq(Socket) /\ FreeIsClosed(h)
      BY <2>1 DEF Hosts, Whole
    <3>2. Len(g.free) = Len(h.free) + 1 /\ g.free[1] = s
      BY <2>1, <2>2, <3>1
    <3>3. \A k \in 1..Len(g.free) :
            k # 1 => k - 1 \in 1..Len(h.free) /\ g.free[k] = h.free[k - 1]
      BY <2>1, <2>2, <3>1
    <3>4. \A k \in 1..Len(h.free) :
            k + 1 \in 1..Len(g.free) /\ g.free[k + 1] = h.free[k]
      BY <2>1, <2>2, <3>1
    <3>5. \A k \in 1..Len(h.free) :
            h.free[k] \in Socket /\ h.free[k] # s
      BY <3>1, <1>2 DEF FreeIsClosed
    <3>6. ASSUME NEW k \in 1..Len(g.free), NEW l \in 1..Len(g.free),
                 g.free[k] = g.free[l]
          PROVE  k = l
      <4>1. CASE k = 1 /\ l = 1
        BY <4>1
      <4>2. CASE k = 1 /\ l # 1
        BY <4>2, <3>2, <3>3, <3>5, <3>6
      <4>3. CASE k # 1 /\ l = 1
        BY <4>3, <3>2, <3>3, <3>5, <3>6
      <4>4. CASE k # 1 /\ l # 1
        <5>1. k - 1 = l - 1
          BY <4>4, <3>1, <3>3, <3>6 DEF FreeIsClosed
        <5> QED
          BY <5>1
      <4> QED
        BY <4>1, <4>2, <4>3, <4>4
    <3>7. ASSUME NEW k \in 1..Len(g.free)
          PROVE  ~IsOpen(g, g.free[k])
      <4>1. CASE k = 1
        BY <4>1, <3>2, <2>1, <2>4
      <4>2. CASE k # 1
        BY <4>2, <3>1, <3>3, <3>5, <2>4 DEF FreeIsClosed
      <4> QED
        BY <4>1, <4>2
    <3>8. ASSUME NEW t \in Socket, ~IsOpen(g, t)
          PROVE  \E k \in 1..Len(g.free) : g.free[k] = t
      <4>1. CASE t = s
        <5>1. 1 \in 1..Len(g.free)
          BY <3>1, <3>2
        <5> QED
          BY <5>1, <4>1, <3>2
      <4>2. CASE t # s
        <5>1. PICK k \in 1..Len(h.free) : h.free[k] = t
          BY <4>2, <3>1, <3>8, <2>4 DEF FreeIsClosed
        <5> QED
          BY <5>1, <3>4
      <4> QED
        BY <4>1, <4>2
    <3> QED
      BY <3>6, <3>7, <3>8 DEF FreeIsClosed
  <2>6. HeldIn(g) = HeldIn(h) /\ ActiveIn(g) = ActiveIn(h)
    BY <2>2 DEF HeldIn, ActiveIn
  <2>7. OpenIsHeld(g)
    BY <2>2, <2>4, <2>6 DEF OpenIsHeld, Whole
  <2>8. LoopPair(g)
    <3>1. LoopPair(h)
      BY DEF Whole
    <3>2. g.loop_client # None =>
            g.netcon = g.loop_client /\ g.sock[g.loop_client].driver = "loop"
      BY <2>1, <2>2, <2>3, <3>1 DEF LoopPair, Hosts
    <3>3. g.loop_server # None =>
            /\ g.loop_server # g.loop_client
            /\ g.sock[g.loop_server].driver = "loop"
            /\ g.pending \/ g.loop_server \in HeldIn(g)
      BY <2>1, <2>2, <2>3, <2>6, <3>1 DEF LoopPair, Hosts
    <3>4. \A t \in Socket : g.sock[t].driver = "loop" =>
            t = g.loop_client \/ t = g.loop_server
      <4>1. g.sock[s].driver = "none"
        BY <2>1, <2>2 DEF Hosts, NoSocket
      <4> QED
        BY <2>2, <2>3, <3>1, <4>1 DEF LoopPair
    <3>5. Dedicated => /\ g.netcon = None
                       /\ g.loop_client = None /\ g.loop_server = None
                       /\ ~g.pending
      BY <2>2, <3>1 DEF LoopPair
    <3> QED
      BY <3>2, <3>3, <3>4, <3>5 DEF LoopPair
  <2>9. Whole(g)
    BY <2>2, <2>5, <2>6, <2>7, <2>8 DEF Whole
  <2> QED
    BY <2>1, <2>2, <2>3, <2>4, <2>9
<1> QED
  BY <1>1, <1>2

\* The set of slots is finite, and so are its subsets.
LEMMA SlotsAreFinite ==
  /\ IsFiniteSet(Slot) /\ Cardinality(Slot) = MaxClients
  /\ \A S \in SUBSET Slot : /\ IsFiniteSet(S)
                            /\ Cardinality(S) \in 0..MaxClients
                            /\ Cardinality(S) = MaxClients => S = Slot
<1>1. IsFiniteSet(Slot) /\ Cardinality(Slot) = MaxClients
  <2>1. MaxClients \in Nat /\ 1 \in Int /\ MaxClients \in Int
    BY PoolAssumption
  <2> QED
    BY <2>1, FS_Interval DEF Slot
<1>2. ASSUME NEW S \in SUBSET Slot
      PROVE  /\ IsFiniteSet(S)
             /\ Cardinality(S) \in 0..MaxClients
             /\ Cardinality(S) = MaxClients => S = Slot
  <2>1. IsFiniteSet(S) /\ Cardinality(S) <= Cardinality(Slot)
        /\ (Cardinality(S) = Cardinality(Slot) => S = Slot)
    BY <1>1, FS_Subset
  <2>2. Cardinality(S) \in Nat
    BY <2>1, FS_CardinalityType
  <2> QED
    BY <2>1, <2>2, <1>1, PoolAssumption
<1> QED
  BY <1>1, <1>2

-----------------------------------------------------------------------------
(* The commands that disconnect.                                           *)

\* CL_Disconnect closes the qsocket of the host's own player, and with it the
\* client's end of the loop.
LEMMA CloseNetconWhole ==
  ASSUME NEW h, Whole(h)
  PROVE  /\ Whole(CloseNetcon(h))
         /\ CloseNetcon(h).netcon = None
         /\ CloseNetcon(h).active = h.active
         /\ CloseNetcon(h).clients = h.clients
         /\ CloseNetcon(h).pending = h.pending
<1> DEFINE g == NET_Close(h, h.netcon)
           n == CloseNetcon(h)
<1>1. h \in Hosts /\ h.netcon \in Socket \cup {None}
  BY DEF Whole, Hosts
<1>2. /\ Whole(g) /\ ~IsOpen(g, h.netcon)
      /\ g.active = h.active /\ g.clients = h.clients /\ g.count = h.count
      /\ g.netcon = h.netcon /\ g.pending = h.pending
  BY <1>1, CloseWhole
<1>3. n = [g EXCEPT !.netcon = None]
  BY DEF CloseNetcon
<1>4. g \in Hosts
  BY <1>2 DEF Whole
<1>5. /\ n \in Hosts /\ n.netcon = None
      /\ n.active = g.active /\ n.clients = g.clients /\ n.count = g.count
      /\ n.free = g.free /\ n.sock = g.sock /\ n.pending = g.pending
      /\ n.loop_client = g.loop_client /\ n.loop_server = g.loop_server
  BY <1>3, <1>4 DEF Hosts
<1>6. ActiveIn(n) = ActiveIn(g) /\ HeldIn(n) = HeldIn(g)
  BY <1>5 DEF ActiveIn, HeldIn
<1>7. \A s \in Socket \cup {None} : IsOpen(n, s) <=> IsOpen(g, s)
  BY <1>5 DEF IsOpen
<1>8. n.loop_client = None
  <2>1. SUFFICES ASSUME g.loop_client # None
                 PROVE  FALSE
    BY <1>5
  <2>2. g.loop_client = h.netcon /\ g.sock[h.netcon].driver = "loop"
    BY <1>2, <2>1 DEF Whole, LoopPair
  <2> QED
    BY <1>2, <2>1, <2>2 DEF IsOpen
<1>9. FreeIsClosed(n)
  <2>1. n.free \in Seq(Socket)
    BY <1>5 DEF Hosts
  <2> QED
    BY <1>2, <1>5, <1>7, <2>1 DEF FreeIsClosed, Whole
<1>10. OpenIsHeld(n)
  <2>1. ASSUME NEW s \in Socket, IsOpen(n, s)
        PROVE  s \in HeldIn(n) \cup {n.netcon, n.loop_client, n.loop_server}
    <3>1. IsOpen(g, s) /\ s # h.netcon
      BY <2>1, <1>2, <1>7
    <3>2. s \in HeldIn(g) \cup {g.netcon, g.loop_client, g.loop_server}
      BY <3>1, <1>2 DEF Whole, OpenIsHeld
    <3> QED
      BY <3>1, <3>2, <1>2, <1>5, <1>6
  <2> QED
    BY <2>1 DEF OpenIsHeld
<1>11. LoopPair(n)
  BY <1>2, <1>5, <1>6, <1>8 DEF Whole, LoopPair
<1> QED
  BY <1>2, <1>5, <1>6, <1>9, <1>10, <1>11 DEF Whole

\* SV_DropClient takes one slot, one connection and, unless NET_GetMessage or
\* another slot that shared it has closed it before, one qsocket.
LEMMA DropWhole ==
  ASSUME NEW h, Whole(h), NEW i \in Slot
  PROVE  /\ Whole(SV_DropClient(h, i))
         /\ SV_DropClient(h, i).active = h.active
         /\ SV_DropClient(h, i).netcon = h.netcon
         /\ SV_DropClient(h, i).pending = h.pending
         /\ ActiveIn(SV_DropClient(h, i)) = ActiveIn(h) \ {i}
         /\ \A j \in Slot \ {i} :
              SV_DropClient(h, i).clients[j] = h.clients[j]
         /\ \A t \in Socket : t # h.clients[i].socket =>
              SV_DropClient(h, i).sock[t] = h.sock[t]
         /\ h.clients[i].socket # h.loop_client =>
              SV_DropClient(h, i).loop_client = h.loop_client
         /\ h.clients[i].socket # h.loop_server =>
              SV_DropClient(h, i).loop_server = h.loop_server
<1>1. CASE ~h.clients[i].active
  <2>1. SV_DropClient(h, i) = h /\ i \notin ActiveIn(h)
    BY <1>1 DEF SV_DropClient, ActiveIn
  <2> QED
    BY <2>1
<1>2. CASE h.clients[i].active
  <2> DEFINE s == h.clients[i].socket
             g == NET_Close(h, s)
             n == SV_DropClient(h, i)
  <2>1. h \in Hosts /\ s \in Socket \cup {None}
    BY DEF Whole, Hosts
  <2>2. /\ Whole(g) /\ ~IsOpen(g, s)
        /\ g.active = h.active /\ g.clients = h.clients /\ g.count = h.count
        /\ g.netcon = h.netcon /\ g.pending = h.pending
        /\ \A t \in Socket : t # s => g.sock[t] = h.sock[t]
        /\ s # h.loop_client => g.loop_client = h.loop_client
        /\ s # h.loop_server => g.loop_server = h.loop_server
    BY <2>1, CloseWhole
  <2>3. g \in Hosts
    BY <2>2 DEF Whole
  <2>4. n = [g EXCEPT !.clients[i] = NoClient, !.count = @ - 1]
    BY <1>2 DEF SV_DropClient
  <2>5. ActiveIn(g) = ActiveIn(h) /\ i \in ActiveIn(g)
    BY <1>2, <2>2 DEF ActiveIn
  <2>6. /\ IsFiniteSet(ActiveIn(g)) /\ Cardinality(ActiveIn(g)) \in 0..MaxClients
        /\ Cardinality(ActiveIn(g) \ {i}) = Cardinality(ActiveIn(g)) - 1
        /\ Cardinality(ActiveIn(g) \ {i}) \in 0..MaxClients
    <3>1. ActiveIn(g) \in SUBSET Slot /\ ActiveIn(g) \ {i} \in SUBSET Slot
      BY DEF ActiveIn
    <3> QED
      BY <3>1, <2>5, SlotsAreFinite, FS_RemoveElement
  <2>7. g.count - 1 = Cardinality(ActiveIn(g) \ {i}) /\ g.count - 1 \in 0..MaxClients
    BY <2>2, <2>6 DEF Whole
  <2>8. [g.clients EXCEPT ![i] = NoClient] \in
          [Slot -> [active : BOOLEAN, socket : Socket \cup {None}]]
    BY <2>3 DEF Hosts, NoClient
  <2>9. /\ n \in Hosts
        /\ n.clients = [g.clients EXCEPT ![i] = NoClient]
        /\ n.count = g.count - 1
        /\ n.active = g.active /\ n.netcon = g.netcon
        /\ n.free = g.free /\ n.sock = g.sock /\ n.pending = g.pending
        /\ n.loop_client = g.loop_client /\ n.loop_server = g.loop_server
    BY <2>3, <2>4, <2>7, <2>8 DEF Hosts
  <2>10. \A j \in Slot \ {i} : n.clients[j] = g.clients[j]
    BY <2>3, <2>9 DEF Hosts
  <2>11. ActiveIn(n) = ActiveIn(g) \ {i}
    <3>1. ~n.clients[i].active
      BY <2>3, <2>9 DEF Hosts, NoClient
    <3> QED
      BY <3>1, <2>10 DEF ActiveIn
  <2>12. HeldIn(g) \subseteq HeldIn(n) \cup {s}
    <3>1. ASSUME NEW j \in ActiveIn(g)
          PROVE  g.clients[j].socket \in HeldIn(n) \cup {s}
      <4>1. CASE j = i
        BY <4>1, <2>2
      <4>2. CASE j # i
        <5>1. j \in ActiveIn(n) /\ n.clients[j] = g.clients[j]
          BY <4>2, <2>10, <2>11 DEF ActiveIn
        <5> QED
          BY <5>1 DEF HeldIn
      <4> QED
        BY <4>1, <4>2
    <3> QED
      BY <3>1 DEF HeldIn
  <2>13. \A t \in Socket \cup {None} : IsOpen(n, t) <=> IsOpen(g, t)
    BY <2>9 DEF IsOpen
  <2>14. FreeIsClosed(n)
    <3>1. n.free \in Seq(Socket)
      BY <2>9 DEF Hosts
    <3> QED
      BY <2>2, <2>9, <2>13, <3>1 DEF FreeIsClosed, Whole
  <2>15. OpenIsHeld(n)
    <3>1. ASSUME NEW t \in Socket, IsOpen(n, t)
          PROVE  t \in HeldIn(n) \cup {n.netcon, n.loop_client, n.loop_server}
      <4>1. IsOpen(g, t) /\ t # s
        BY <3>1, <2>2, <2>13
      <4>2. t \in HeldIn(g) \cup {g.netcon, g.loop_client, g.loop_server}
        BY <4>1, <2>2 DEF Whole, OpenIsHeld
      <4> QED
        BY <4>1, <4>2, <2>9, <2>12
    <3> QED
      BY <3>1 DEF OpenIsHeld
  <2>16. LoopPair(n)
    <3>1. LoopPair(g)
      BY <2>2 DEF Whole
    <3>2. g.loop_server # None => g.loop_server # s
      BY <2>2, <3>1 DEF LoopPair, IsOpen
    <3>3. g.loop_server # None => n.pending \/ n.loop_server \in HeldIn(n)
      BY <3>1, <3>2, <2>9, <2>12 DEF LoopPair
    <3> QED
      BY <3>1, <3>3, <2>9 DEF LoopPair
  <2>17. Whole(n)
    BY <2>7, <2>9, <2>11, <2>14, <2>15, <2>16 DEF Whole
  <2>18. /\ n.active = h.active /\ n.netcon = h.netcon /\ n.pending = h.pending
         /\ ActiveIn(n) = ActiveIn(h) \ {i}
         /\ \A j \in Slot \ {i} : n.clients[j] = h.clients[j]
    BY <2>2, <2>5, <2>9, <2>10, <2>11
  <2>19. /\ \A t \in Socket : t # s => n.sock[t] = h.sock[t]
         /\ s # h.loop_client => n.loop_client = h.loop_client
         /\ s # h.loop_server => n.loop_server = h.loop_server
    BY <2>2, <2>9
  <2> QED
    BY <2>17, <2>18, <2>19
<1> QED
  BY <1>1, <1>2

\* Host_ShutdownServer drops everybody, and nothing else.
LEMMA DropEverybodyWhole ==
  ASSUME NEW h, Whole(h)
  PROVE  /\ Whole(DropEverybody(h))
         /\ ActiveIn(DropEverybody(h)) = {}
         /\ DropEverybody(h).active = h.active
         /\ DropEverybody(h).netcon = h.netcon
         /\ DropEverybody(h).pending = h.pending
<1> DEFINE X == {x \in Hosts : Whole(x)}
           F == [p \in X \X (1..MaxClients) |-> SV_DropClient(p[1], p[2])]
           Turns(a) == a = [i \in 0..MaxClients |->
                              IF i = 0 THEN h ELSE SV_DropClient(a[i - 1], i)]
           after == CHOOSE a : Turns(a)
<1>1. DropEverybody(h) = after[MaxClients]
  BY DEF DropEverybody
<1>2. MaxClients \in Nat /\ Slot = 1..MaxClients
  BY PoolAssumption DEF Slot
<1>3. \E a : Turns(a)
  <2>1. h \in X
    BY DEF Whole
  <2>2. \A x \in X, i \in 1..MaxClients : SV_DropClient(x, i) \in X
    BY <1>2, DropWhole DEF Whole
  <2>3. F \in [X \X (1..MaxClients) -> X]
    BY <2>2
  <2>4. \A x \in X, i \in 1..MaxClients : F[<<x, i>>] = SV_DropClient(x, i)
    OBVIOUS
  <2>5. PICK g \in [0..MaxClients -> X] : IsLoop(g, MaxClients, h, F)
    <3> HIDE DEF X, F
    <3> QED
      BY <1>2, <2>1, <2>3, LoopIsDefined
  <2>6. \A i \in 1..MaxClients : g[i] = SV_DropClient(g[i - 1], i)
    <3>1. \A i \in 1..MaxClients : g[i - 1] \in X
      BY <1>2
    <3> HIDE DEF X, F
    <3> QED
      BY <2>4, <2>5, <3>1 DEF IsLoop
  <2>7. Turns(g)
    <3> HIDE DEF X
    <3>1. \A i \in 0..MaxClients : i # 0 => i \in 1..MaxClients
      BY <1>2
    <3> QED
      BY <2>5, <2>6, <3>1 DEF IsLoop
  <2> QED
    BY <2>7
<1>4. Turns(after)
  <2> HIDE DEF Turns
  <2> QED
    BY <1>3
<1> HIDE DEF after
<1>5. after[0] = h /\ \A i \in 1..MaxClients :
                        after[i] = SV_DropClient(after[i - 1], i)
  BY <1>2, <1>4
<1> DEFINE Kept(g, i) == /\ Whole(g)
                         /\ g.active = h.active
                         /\ g.netcon = h.netcon
                         /\ g.pending = h.pending
                         /\ \A j \in ActiveIn(g) : j > i
           S == {i \in 0..MaxClients : Kept(after[i], i)}
<1>6. 0 \in S
  BY <1>2, <1>5 DEF ActiveIn
<1>7. ASSUME NEW i \in 1..MaxClients, i - 1 \in S
      PROVE  i \in S
  <2> DEFINE g == after[i - 1]
  <2>1. Kept(g, i - 1)
    BY <1>7
  <2>2. after[i] = SV_DropClient(g, i) /\ i \in Slot
    BY <1>2, <1>5
  <2>3. /\ Whole(after[i])
        /\ after[i].active = g.active /\ after[i].netcon = g.netcon
        /\ after[i].pending = g.pending
        /\ ActiveIn(after[i]) = ActiveIn(g) \ {i}
    BY <2>1, <2>2, DropWhole
  <2>4. \A j \in ActiveIn(after[i]) : j > i
    <3>1. \A j \in ActiveIn(g) \ {i} : j \in Nat /\ j # i /\ j > i - 1
      BY <2>1, <1>2 DEF ActiveIn
    <3> QED
      BY <2>3, <3>1
  <2> QED
    BY <2>1, <2>3, <2>4, <1>2
<1>8. Kept(after[MaxClients], MaxClients)
  <2>1. 0..MaxClients \subseteq S
    <3> HIDE DEF S
    <3> QED
      BY <1>2, <1>6, <1>7, AfterEveryTurn
  <2> QED
    BY <1>2, <2>1
<1>9. ActiveIn(after[MaxClients]) = {}
  BY <1>2, <1>8 DEF ActiveIn
<1> QED
  BY <1>1, <1>8, <1>9

\* NET_SendToAll may close qsockets of players, and changes nothing else.
LEMMA SendToAllWhole ==
  ASSUME NEW h, Whole(h),
         NEW late \in SUBSET (Socket \ {h.loop_client, h.loop_server})
  PROVE  /\ Whole(NET_SendToAll(h, late))
         /\ NET_SendToAll(h, late).active = h.active
         /\ NET_SendToAll(h, late).clients = h.clients
         /\ NET_SendToAll(h, late).count = h.count
         /\ NET_SendToAll(h, late).netcon = h.netcon
         /\ NET_SendToAll(h, late).pending = h.pending
         /\ NET_SendToAll(h, late).loop_client = h.loop_client
         /\ NET_SendToAll(h, late).loop_server = h.loop_server
         /\ late = {} => NET_SendToAll(h, late) = h
<1> DEFINE X == {x \in Hosts : Whole(x)}
           Turn(x, i) == IF h.clients[i].socket \in late
                         THEN NET_Close(x, h.clients[i].socket) ELSE x
           F == [p \in X \X (1..MaxClients) |-> Turn(p[1], p[2])]
           Turns(a) == a = [i \in 0..MaxClients |->
                              IF i = 0 THEN h
                              ELSE IF h.clients[i].socket \in late
                                   THEN NET_Close(a[i - 1], h.clients[i].socket)
                                   ELSE a[i - 1]]
           after == CHOOSE a : Turns(a)
<1>1. NET_SendToAll(h, late) = after[MaxClients]
  BY DEF NET_SendToAll
<1>2. MaxClients \in Nat /\ Slot = 1..MaxClients
  BY PoolAssumption DEF Slot
<1>3. \E a : Turns(a)
  <2>1. h \in X
    BY DEF Whole
  <2>2. \A x \in X, i \in 1..MaxClients : Turn(x, i) \in X
    BY CloseWhole DEF Whole
  <2>3. F \in [X \X (1..MaxClients) -> X]
    <3> HIDE DEF X, Turn
    <3> QED
      BY <2>2
  <2>4. \A x \in X, i \in 1..MaxClients : F[<<x, i>>] = Turn(x, i)
    <3> HIDE DEF X, Turn
    <3> QED
      OBVIOUS
  <2>5. PICK g \in [0..MaxClients -> X] : IsLoop(g, MaxClients, h, F)
    <3> HIDE DEF X, F
    <3> QED
      BY <1>2, <2>1, <2>3, LoopIsDefined
  <2>6. \A i \in 1..MaxClients : g[i] = Turn(g[i - 1], i)
    <3>1. \A i \in 1..MaxClients : g[i - 1] \in X
      BY <1>2
    <3> HIDE DEF X, F, Turn
    <3> QED
      BY <2>4, <2>5, <3>1 DEF IsLoop
  <2>7. Turns(g)
    <3> HIDE DEF X
    <3>1. \A i \in 0..MaxClients : i # 0 => i \in 1..MaxClients
      BY <1>2
    <3> QED
      BY <2>5, <2>6, <3>1 DEF IsLoop
  <2> QED
    BY <2>7
<1>4. Turns(after)
  <2> HIDE DEF Turns
  <2> QED
    BY <1>3
<1> HIDE DEF after
<1>5. after[0] = h /\ \A i \in 1..MaxClients : after[i] = Turn(after[i - 1], i)
  BY <1>2, <1>4
<1> DEFINE Kept(g) == /\ Whole(g)
                      /\ g.active = h.active /\ g.clients = h.clients
                      /\ g.count = h.count
                      /\ g.netcon = h.netcon /\ g.pending = h.pending
                      /\ g.loop_client = h.loop_client
                      /\ g.loop_server = h.loop_server
                      /\ late = {} => g = h
           S == {i \in 0..MaxClients : Kept(after[i])}
<1>6. 0 \in S
  BY <1>2, <1>5
<1>7. ASSUME NEW i \in 1..MaxClients, i - 1 \in S
      PROVE  i \in S
  <2> DEFINE g == after[i - 1]
             s == h.clients[i].socket
  <2>1. Kept(g) /\ i \in 0..MaxClients
    BY <1>7, <1>2
  <2>2. after[i] = Turn(g, i)
    BY <1>5
  <2>3. CASE s \in late
    <3>1. s \in Socket /\ s # g.loop_client /\ s # g.loop_server
      BY <2>1, <2>3
    <3>2. after[i] = NET_Close(g, s)
      BY <2>2, <2>3
    <3> HIDE DEF g, s
    <3>3. Kept(NET_Close(g, s))
      BY <2>1, <2>3, <3>1, CloseWhole
    <3> QED
      BY <2>1, <3>2, <3>3
  <2>4. CASE s \notin late
    BY <2>1, <2>2, <2>4
  <2> QED
    BY <2>3, <2>4
<1>8. Kept(after[MaxClients])
  <2>1. 0..MaxClients \subseteq S
    <3> HIDE DEF S
    <3> QED
      BY <1>2, <1>6, <1>7, AfterEveryTurn
  <2> QED
    BY <1>2, <2>1
<1> QED
  BY <1>1, <1>8

\* A server that is shut down has nobody in its slots; one that was not active
\* keeps whoever was left in them.
LEMMA ShutdownWhole ==
  ASSUME NEW h, Whole(h)
  PROVE  /\ Whole(Host_ShutdownServer(h))
         /\ ~Host_ShutdownServer(h).active
         /\ Host_ShutdownServer(h).pending = h.pending
         /\ h.netcon = None => Host_ShutdownServer(h).netcon = None
         /\ h.active => /\ ActiveIn(Host_ShutdownServer(h)) = {}
                        /\ Host_ShutdownServer(h).netcon = None
         /\ ~h.active => Host_ShutdownServer(h) = h
<1>1. CASE ~h.active
  BY <1>1 DEF Host_ShutdownServer
<1>2. CASE h.active
  <2> DEFINE a == [h EXCEPT !.active = FALSE]
             c == CloseNetcon(a)
             d == DropEverybody(c)
  <2>1. Host_ShutdownServer(h) = d
    BY <1>2 DEF Host_ShutdownServer
  <2>2. /\ h \in Hosts /\ FreeIsClosed(h) /\ OpenIsHeld(h) /\ LoopPair(h)
        /\ h.count = Cardinality(ActiveIn(h))
    BY DEF Whole
  <2>3. /\ a \in Hosts /\ ~a.active /\ a.pending = h.pending
        /\ a.clients = h.clients /\ a.count = h.count /\ a.free = h.free
        /\ a.sock = h.sock /\ a.netcon = h.netcon
        /\ a.loop_client = h.loop_client /\ a.loop_server = h.loop_server
    BY <2>2 DEF Hosts
  <2>4. Whole(a)
    BY <2>2, <2>3 DEF Whole, FreeIsClosed, OpenIsHeld, LoopPair, HeldIn,
                      ActiveIn, IsOpen
  <2>5. /\ Whole(c) /\ c.netcon = None /\ ~c.active /\ c.pending = h.pending
    BY <2>3, <2>4, CloseNetconWhole
  <2>6. /\ Whole(d) /\ ActiveIn(d) = {} /\ ~d.active /\ d.netcon = None
        /\ d.pending = h.pending
    BY <2>5, DropEverybodyWhole
  <2> QED
    BY <1>2, <2>1, <2>6
<1> QED
  BY <1>1, <1>2

\* After CL_Disconnect cls.netcon is NULL.  If the host was connected to a
\* server of its own, that one is shut down.
LEMMA DisconnectWhole ==
  ASSUME NEW h, Whole(h)
  PROVE  /\ Whole(CL_Disconnect(h))
         /\ CL_Disconnect(h).netcon = None
         /\ CL_Disconnect(h).pending = h.pending
         /\ CL_Disconnect(h).active => h.active /\ h.netcon = None
         /\ ActiveIn(CL_Disconnect(h)) \in {ActiveIn(h), {}}
         /\ h.active /\ h.netcon # None => ActiveIn(CL_Disconnect(h)) = {}
<1>1. CASE h.netcon = None
  BY <1>1 DEF CL_Disconnect
<1>2. CASE h.netcon # None
  <2> DEFINE c == CloseNetcon(h)
  <2>1. CL_Disconnect(h) = Host_ShutdownServer(c)
    BY <1>2 DEF CL_Disconnect
  <2>2. /\ Whole(c) /\ c.netcon = None /\ c.active = h.active
        /\ c.clients = h.clients /\ c.pending = h.pending
    BY CloseNetconWhole
  <2>3. ActiveIn(c) = ActiveIn(h)
    BY <2>2 DEF ActiveIn
  <2> HIDE DEF c
  <2>4. CASE h.active
    <3> DEFINE d == Host_ShutdownServer(c)
    <3>1. /\ Whole(d) /\ ~d.active /\ d.pending = h.pending
          /\ d.netcon = None /\ ActiveIn(d) = {}
      BY <2>2, <2>4, ShutdownWhole
    <3> HIDE DEF d
    <3> QED
      BY <2>1, <3>1 DEF d
  <2>5. CASE ~h.active
    <3>1. Host_ShutdownServer(c) = c
      BY <2>2, <2>5 DEF Host_ShutdownServer
    <3> QED
      BY <2>1, <2>2, <2>3, <2>5, <3>1
  <2> QED
    BY <2>4, <2>5
<1> QED
  BY <1>1, <1>2

\* Host_Error and "disconnect" leave neither a server nor a connection.
LEMMA DisconnectCommandWhole ==
  ASSUME NEW h, Whole(h)
  PROVE  /\ Whole(CL_Disconnect_f(h))
         /\ CL_Disconnect_f(h).netcon = None
         /\ ~CL_Disconnect_f(h).active
         /\ CL_Disconnect_f(h).pending = h.pending
         /\ ActiveIn(CL_Disconnect_f(h)) \in {ActiveIn(h), {}}
         /\ h.active => ActiveIn(CL_Disconnect_f(h)) = {}
<1> DEFINE d == CL_Disconnect(h)
<1>1. /\ Whole(d) /\ d.netcon = None /\ d.pending = h.pending
      /\ (d.active => h.active /\ h.netcon = None)
      /\ ActiveIn(d) \in {ActiveIn(h), {}}
      /\ (h.active /\ h.netcon # None => ActiveIn(d) = {})
  BY DisconnectWhole
<1>2. CL_Disconnect_f(h) = Host_ShutdownServer(d)
  BY DEF CL_Disconnect_f
<1> HIDE DEF d
<1>3. h.netcon = None => d = h
  BY DEF CL_Disconnect, d
<1>4. CASE d.active
  BY <1>1, <1>2, <1>4, ShutdownWhole
<1>5. CASE ~d.active
  <2>1. Host_ShutdownServer(d) = d
    BY <1>5 DEF Host_ShutdownServer
  <2> QED
    BY <1>1, <1>2, <1>3, <1>5, <2>1
<1> QED
  BY <1>4, <1>5

-----------------------------------------------------------------------------
(* The steps that open qsockets.                                           *)

\* NET_NewQSocket takes a closed qsocket from the free list; the list remains
\* that of the closed ones.
LEMMA NewQSocketPool ==
  ASSUME NEW h \in Hosts, FreeIsClosed(h), CanOpen(h),
         NEW driver \in {"loop", "dgrm"}, NEW peer \in Peers
  PROVE  LET s == Head(h.free)
             g == NET_NewQSocket(h, driver, peer)
         IN  /\ s \in Socket /\ ~IsOpen(h, s)
             /\ g \in Hosts /\ FreeIsClosed(g)
             /\ g.active = h.active /\ g.clients = h.clients
             /\ g.count = h.count /\ g.netcon = h.netcon
             /\ g.loop_client = h.loop_client /\ g.loop_server = h.loop_server
             /\ g.pending = h.pending /\ g.free = Tail(h.free)
             /\ g.sock[s].driver = driver
             /\ \A t \in Socket : t # s => g.sock[t] = h.sock[t]
             /\ \A t \in Socket : IsOpen(g, t) <=> IsOpen(h, t) \/ t = s
<1> DEFINE s == Head(h.free)
           g == NET_NewQSocket(h, driver, peer)
           q == [driver |-> driver, peer |-> peer, fresh |-> peer \in Attempt,
                 net_wait |-> peer \in Attempt]
<1>1. h.free \in Seq(Socket) /\ h.free # <<>>
  BY DEF Hosts, CanOpen
<1>2. /\ s \in Socket /\ s = h.free[1] /\ 1 \in 1..Len(h.free)
      /\ Tail(h.free) \in Seq(Socket)
      /\ Len(Tail(h.free)) = Len(h.free) - 1
      /\ \A k \in 1..Len(h.free) - 1 :
           k + 1 \in 1..Len(h.free) /\ Tail(h.free)[k] = h.free[k + 1]
  BY <1>1
<1>3. ~IsOpen(h, s)
  BY <1>2 DEF FreeIsClosed
<1>4. q \in [driver : Driver, peer : Peers, fresh : BOOLEAN, net_wait : BOOLEAN]
  BY DEF Driver
<1>5. [h.sock EXCEPT ![s] = q] \in
        [Socket -> [driver : Driver, peer : Peers, fresh : BOOLEAN,
                    net_wait : BOOLEAN]]
  BY <1>2, <1>4 DEF Hosts
<1>6. g = [h EXCEPT !.free = Tail(h.free), !.sock = [h.sock EXCEPT ![s] = q]]
  BY DEF NET_NewQSocket, Hosts
<1> HIDE DEF g, q, s
<1>7. /\ g \in Hosts
      /\ g.active = h.active /\ g.clients = h.clients
      /\ g.count = h.count /\ g.netcon = h.netcon
      /\ g.loop_client = h.loop_client /\ g.loop_server = h.loop_server
      /\ g.pending = h.pending /\ g.free = Tail(h.free)
      /\ g.sock = [h.sock EXCEPT ![s] = q]
  BY <1>2, <1>5, <1>6 DEF Hosts
<1>8. g.sock[s] = q /\ \A t \in Socket : t # s => g.sock[t] = h.sock[t]
  BY <1>2, <1>7 DEF Hosts
<1>9. q.driver = driver
  BY DEF q
<1>10. ASSUME NEW t \in Socket
       PROVE  IsOpen(g, t) <=> IsOpen(h, t) \/ t = s
  BY <1>8, <1>9, NoneIsNoSocket DEF IsOpen
<1>11. FreeIsClosed(g)
  <2>1. Len(g.free) = Len(h.free) - 1
        /\ \A k \in 1..Len(g.free) :
             k + 1 \in 1..Len(h.free) /\ g.free[k] = h.free[k + 1]
    BY <1>2, <1>7
  <2>2. \A k, l \in 1..Len(h.free) : h.free[k] = h.free[l] => k = l
    BY DEF FreeIsClosed
  <2>3. \A k, l \in 1..Len(g.free) : g.free[k] = g.free[l] => k = l
    <3>1. ASSUME NEW k \in 1..Len(g.free), NEW l \in 1..Len(g.free),
                 g.free[k] = g.free[l]
          PROVE  k = l
      <4>1. k + 1 = l + 1
        BY <3>1, <2>1, <2>2
      <4> QED
        BY <4>1, <1>1
    <3> QED
      BY <3>1
  <2>4. ASSUME NEW k \in 1..Len(g.free)
        PROVE  ~IsOpen(g, g.free[k])
    <3>1. k + 1 # 1 /\ k + 1 \in 1..Len(h.free) /\ g.free[k] = h.free[k + 1]
      BY <2>1
    <3>2. g.free[k] # s /\ g.free[k] \in Socket
      BY <3>1, <2>2, <1>1, <1>2
    <3> QED
      BY <3>1, <3>2, <1>10 DEF FreeIsClosed
  <2>5. ASSUME NEW t \in Socket, ~IsOpen(g, t)
        PROVE  \E k \in 1..Len(g.free) : g.free[k] = t
    <3>1. ~IsOpen(h, t) /\ t # s
      BY <2>5, <1>10
    <3>2. PICK k \in 1..Len(h.free) : h.free[k] = t
      BY <3>1 DEF FreeIsClosed
    <3>3. k # 1
      BY <3>1, <3>2, <1>2
    <3>4. k - 1 \in 1..Len(g.free) /\ g.free[k - 1] = t
      BY <3>2, <3>3, <2>1, <1>1, <1>2
    <3> QED
      BY <3>4
  <2> QED
    BY <2>3, <2>4, <2>5 DEF FreeIsClosed
<1> QED
  BY <1>2, <1>3, <1>7, <1>8, <1>9, <1>10, <1>11 DEF s, g

\* SV_ConnectClient puts the qsocket in a slot that was not active; there is
\* one as long as NET_NewQSocket's test of the count holds.
LEMMA NewClientSlot ==
  ASSUME NEW h \in Hosts, h.count = Cardinality(ActiveIn(h)),
         h.count < MaxClients, NEW s \in Socket \cup {None}
  PROVE  LET n == SV_CheckForNewClients(h, s)
         IN  /\ n \in Hosts /\ n.count = Cardinality(ActiveIn(n))
             /\ n.active = h.active /\ n.netcon = h.netcon /\ n.free = h.free
             /\ n.sock = h.sock /\ n.pending = h.pending
             /\ n.loop_client = h.loop_client /\ n.loop_server = h.loop_server
             /\ \E i \in Slot \ ActiveIn(h) :
                  /\ ActiveIn(n) = ActiveIn(h) \cup {i}
                  /\ n.clients[i].socket = s
                  /\ \A j \in Slot : j # i => n.clients[j] = h.clients[j]
<1> DEFINE n == SV_CheckForNewClients(h, s)
           idle == {i \in Slot : ~h.clients[i].active}
           c == [active |-> TRUE, socket |-> s]
<1>1. ActiveIn(h) \in SUBSET Slot /\ ActiveIn(h) # Slot
  <2>1. Cardinality(ActiveIn(h)) < MaxClients
    OBVIOUS
  <2>2. MaxClients \in Nat
    BY PoolAssumption
  <2> QED
    BY <2>1, <2>2, SlotsAreFinite DEF ActiveIn
<1>2. idle \in SUBSET Nat /\ idle # {} /\ idle = Slot \ ActiveIn(h)
  BY <1>1 DEF ActiveIn, Slot
<1>3. \E i \in idle : \A j \in idle : i <= j
  <2> HIDE DEF idle
  <2> QED
    BY <1>2, LeastOfSet
<1> DEFINE i == CHOOSE k \in idle : \A j \in idle : k <= j
<1>4. i \in idle
  <2> HIDE DEF idle
  <2> QED
    BY <1>3
<1>5. n = [h EXCEPT !.clients = [h.clients EXCEPT ![i] = c], !.count = h.count + 1]
  BY <1>2 DEF SV_CheckForNewClients, Hosts
<1> HIDE DEF i, n
<1>6. [h.clients EXCEPT ![i] = c] \in
        [Slot -> [active : BOOLEAN, socket : Socket \cup {None}]]
  BY <1>4 DEF Hosts
<1>7. h.count + 1 \in 0..MaxClients
  BY PoolAssumption DEF Hosts
<1> HIDE DEF c
<1>8. /\ n \in Hosts
      /\ n.clients = [h.clients EXCEPT ![i] = c] /\ n.count = h.count + 1
      /\ n.active = h.active /\ n.netcon = h.netcon /\ n.free = h.free
      /\ n.sock = h.sock /\ n.pending = h.pending
      /\ n.loop_client = h.loop_client /\ n.loop_server = h.loop_server
  BY <1>5, <1>6, <1>7 DEF Hosts
<1>9. n.clients[i] = c /\ \A j \in Slot : j # i => n.clients[j] = h.clients[j]
  BY <1>4, <1>8 DEF Hosts
<1>10. ActiveIn(n) = ActiveIn(h) \cup {i}
  <2>1. c.active
    BY DEF c
  <2> QED
    BY <1>4, <1>9, <2>1 DEF ActiveIn
<1>11. Cardinality(ActiveIn(h) \cup {i}) = Cardinality(ActiveIn(h)) + 1
  <2>1. i \notin ActiveIn(h) /\ IsFiniteSet(ActiveIn(h))
    BY <1>1, <1>2, <1>4, SlotsAreFinite
  <2> QED
    BY <2>1, FS_AddElement
<1>12. c.socket = s
  BY DEF c
<1> QED
  BY <1>2, <1>4, <1>8, <1>9, <1>10, <1>11, <1>12 DEF n

\* Only slots hold qsockets, one each: were all of them, but for one perhaps,
\* held by slots, they would not be more than the connections, but for one.
LEMMA HeldAreFew ==
  ASSUME NEW h, Whole(h)
  PROVE  /\ Socket \subseteq HeldIn(h) => NumSockets <= h.count
         /\ \A x : Socket \subseteq HeldIn(h) \cup {x} =>
                     NumSockets <= h.count + 1
<1> DEFINE A == ActiveIn(h)
           f == [i \in A |-> h.clients[i].socket]
<1>1. IsFiniteSet(A) /\ Cardinality(A) \in Nat /\ h.count = Cardinality(A)
  <2>1. A \in SUBSET Slot
    BY DEF ActiveIn
  <2> QED
    BY <2>1, SlotsAreFinite DEF Whole
<1>2. f \in Surjection(A, HeldIn(h))
  BY DEF HeldIn, Surjection
<1>3. IsFiniteSet(HeldIn(h)) /\ Cardinality(HeldIn(h)) <= Cardinality(A)
  <2> HIDE DEF A, f
  <2> QED
    BY <1>1, <1>2, FS_Surjection
<1>4. Cardinality(HeldIn(h)) \in Nat
  BY <1>3, FS_CardinalityType
<1>5. Cardinality(Socket) = NumSockets /\ NumSockets \in Nat
  <2>1. NumSockets \in Nat /\ NumSockets \in Int /\ 1 \in Int /\ NumSockets >= 1
    BY PoolAssumption
  <2> QED
    BY <2>1, FS_Interval DEF Socket
<1>6. ASSUME Socket \subseteq HeldIn(h)
      PROVE  NumSockets <= h.count
  <2>1. Cardinality(Socket) <= Cardinality(HeldIn(h))
    BY <1>3, <1>6, FS_Subset
  <2> QED
    BY <2>1, <1>1, <1>3, <1>4, <1>5
<1>7. ASSUME NEW x, Socket \subseteq HeldIn(h) \cup {x}
      PROVE  NumSockets <= h.count + 1
  <2>1. IsFiniteSet(HeldIn(h) \cup {x})
        /\ Cardinality(HeldIn(h) \cup {x}) \in
             {Cardinality(HeldIn(h)), Cardinality(HeldIn(h)) + 1}
    BY <1>3, FS_AddElement
  <2>2. Cardinality(Socket) <= Cardinality(HeldIn(h) \cup {x})
    BY <1>7, <2>1, FS_Subset
  <2> QED
    BY <2>1, <2>2, <1>1, <1>3, <1>4, <1>5
<1> QED
  BY <1>6, <1>7

\* What Loop_Connect makes of a host, once its pair is complete.
LEMMA PairIsWhole ==
  ASSUME NEW h, Whole(h), ~Dedicated, h.netcon = None, h.loop_client = None,
         h.count < MaxClients,
         NEW n \in Hosts, FreeIsClosed(n),
         n.clients = h.clients, n.count = h.count, n.pending,
         n.netcon = n.loop_client,
         n.loop_client \in Socket, n.loop_server \in Socket,
         n.loop_server # n.loop_client,
         h.loop_server \in {None, n.loop_server},
         ~IsOpen(h, n.loop_client),
         n.sock[n.loop_client].driver = "loop",
         n.sock[n.loop_server].driver = "loop",
         \A t \in Socket \ {n.loop_client, n.loop_server} :
           n.sock[t] = h.sock[t]
  PROVE  Whole(n) /\ Serving(n) /\ ActiveIn(n) = ActiveIn(h)
<1>1. ActiveIn(n) = ActiveIn(h) /\ HeldIn(n) = HeldIn(h)
  BY DEF ActiveIn, HeldIn
<1>2. \A t \in Socket \ {n.loop_client, n.loop_server} :
        IsOpen(n, t) <=> IsOpen(h, t)
  BY DEF IsOpen
<1>3. OpenIsHeld(n)
  <2>1. ASSUME NEW t \in Socket \ {n.loop_client, n.loop_server}, IsOpen(n, t)
        PROVE  t \in HeldIn(n)
    <3>1. t \in HeldIn(h) \cup {h.netcon, h.loop_client, h.loop_server}
      BY <1>2, <2>1 DEF Whole, OpenIsHeld
    <3> QED
      BY <3>1, <1>1, NoneIsNoSocket
  <2> QED
    BY <2>1 DEF OpenIsHeld
<1>4. LoopPair(n)
  <2>1. ASSUME NEW t \in Socket \ {n.loop_client, n.loop_server}
        PROVE  n.sock[t].driver # "loop"
    BY NoneIsNoSocket DEF Whole, LoopPair
  <2> QED
    BY <2>1 DEF LoopPair
<1>5. Whole(n)
  BY <1>1, <1>3, <1>4 DEF Whole
<1>6. Serving(n)
  BY NoneIsNoSocket DEF Serving
<1> QED
  BY <1>1, <1>5, <1>6

\* Loop_Connect either connects the player of the host to its server or ends in
\* Host_Error.  It never ends there with one of the pair made and the other
\* refused: while there is room there is a qsocket for each.
LEMMA LoopConnectWhole ==
  ASSUME NEW h, Whole(h), ~Dedicated, h.netcon = None
  PROVE  /\ Whole(Loop_Connect(h)) /\ Serving(Loop_Connect(h))
         /\ ActiveIn(Loop_Connect(h)) \in {ActiveIn(h), {}}
<1> DEFINE h1 == [h EXCEPT !.pending = TRUE]
           g2 == NET_NewQSocket(h1, "loop", "server")
           h2 == [g2 EXCEPT !.loop_client = Head(h1.free)]
           g3 == NET_NewQSocket(h2, "loop", "client")
           h3 == [g3 EXCEPT !.loop_server = Head(h2.free)]
           a == Head(h1.free)
           b == Head(h2.free)
<1>1. h \in Hosts /\ h.loop_client = None /\ FreeIsClosed(h)
  BY DEF Whole, LoopPair
<1>2. /\ h1 \in Hosts /\ h1.pending /\ h1.clients = h.clients
      /\ h1.count = h.count /\ h1.free = h.free /\ h1.sock = h.sock
      /\ h1.netcon = None /\ h1.loop_client = None
      /\ h1.loop_server = h.loop_server /\ h1.active = h.active
  BY <1>1 DEF Hosts
<1>3. Whole(h1) /\ ActiveIn(h1) = ActiveIn(h)
  BY <1>2, <1>1 DEF Whole, FreeIsClosed, OpenIsHeld, LoopPair, HeldIn, ActiveIn,
                    IsOpen
<1>4. CASE ~CanOpen(h1)
  <2> HIDE DEF h1
  <2> DEFINE d == CL_Disconnect_f(h1)
  <2>1. Loop_Connect(h) = d
    BY <1>2, <1>4 DEF Loop_Connect, h1
  <2>2. Whole(d) /\ ~d.active /\ ActiveIn(d) \in {ActiveIn(h), {}}
    BY <1>3, DisconnectCommandWhole
  <2> HIDE DEF d
  <2> QED
    BY <2>1, <2>2 DEF Serving
<1>5. CASE CanOpen(h1)
  <2>1. h.count < MaxClients
    BY <1>2, <1>5 DEF CanOpen
  <2>2. /\ a \in Socket /\ ~IsOpen(h1, a)
        /\ g2 \in Hosts /\ FreeIsClosed(g2)
        /\ g2.active = h1.active /\ g2.clients = h1.clients
        /\ g2.count = h1.count /\ g2.netcon = h1.netcon
        /\ g2.loop_client = h1.loop_client /\ g2.loop_server = h1.loop_server
        /\ g2.pending = h1.pending /\ g2.free = Tail(h1.free)
        /\ g2.sock[a].driver = "loop"
        /\ \A t \in Socket : t # a => g2.sock[t] = h1.sock[t]
        /\ \A t \in Socket : IsOpen(g2, t) <=> IsOpen(h1, t) \/ t = a
    <3>1. FreeIsClosed(h1) /\ "server" \in Peers /\ "loop" \in {"loop", "dgrm"}
      BY <1>3 DEF Whole, Peers
    <3> HIDE DEF h1
    <3> QED
      BY <1>2, <1>5, <3>1, NewQSocketPool
  <2> HIDE DEF g2, a
  <2>3. /\ h2 \in Hosts /\ h2.loop_client = a
        /\ h2.active = h.active /\ h2.clients = h.clients
        /\ h2.count = h.count /\ h2.netcon = None
        /\ h2.loop_server = h.loop_server
        /\ h2.pending /\ h2.free = Tail(h1.free) /\ h2.sock = g2.sock
    BY <1>2, <2>2 DEF Hosts, a
  <2> HIDE DEF h2
  <2>4. FreeIsClosed(h2)
    <3>1. h2.free = g2.free /\ h2.sock = g2.sock
      BY <2>2, <2>3
    <3> QED
      BY <2>2, <3>1 DEF FreeIsClosed, IsOpen
  <2>5. \A t \in Socket : t # a => h2.sock[t] = h.sock[t]
    BY <1>2, <2>2, <2>3
  <2>6. ~IsOpen(h, a)
    BY <2>2, <1>2 DEF IsOpen
  <2>7. CASE h.loop_server # None
    <3> DEFINE n == [h2 EXCEPT !.netcon = h2.loop_client]
    <3>1. Loop_Connect(h) = n
      <4> HIDE DEF h1
      <4>1. h2 = [NET_NewQSocket(h1, "loop", "server") EXCEPT !.loop_client = Head(h1.free)]
        BY DEF g2, h2
      <4> QED
        BY <1>2, <1>5, <2>3, <2>7, <4>1 DEF Loop_Connect, h1
    <3>2. /\ n \in Hosts /\ n.netcon = a /\ n.loop_client = a
          /\ n.clients = h.clients /\ n.count = h.count /\ n.pending
          /\ n.loop_server = h.loop_server /\ n.free = h2.free
          /\ n.sock = h2.sock
      BY <2>2, <2>3 DEF Hosts
    <3>3. FreeIsClosed(n)
      BY <2>4, <3>2 DEF FreeIsClosed, IsOpen
    <3>4. /\ h.loop_server \in Socket /\ h.sock[h.loop_server].driver = "loop"
          /\ h.loop_server # a
      <4>1. h.loop_server \in Socket
        BY <1>1, <2>7 DEF Hosts
      <4>2. h.sock[h.loop_server].driver = "loop"
        BY <2>7 DEF Whole, LoopPair
      <4> QED
        BY <4>1, <4>2, <2>6, <2>7 DEF IsOpen
    <3>5. n.sock[a].driver = "loop" /\ n.sock[h.loop_server].driver = "loop"
      BY <2>2, <2>3, <2>5, <3>2, <3>4
    <3> HIDE DEF n
    <3> QED
      BY <1>1, <2>1, <2>2, <2>5, <2>6, <3>1, <3>2, <3>3, <3>4, <3>5, PairIsWhole
  <2>8. CASE h.loop_server = None
    <3>1. CanOpen(h2)
      <4>1. SUFFICES ASSUME h2.free = <<>>
                     PROVE  FALSE
        BY <2>1, <2>3 DEF CanOpen
      <4>2. \A t \in Socket : IsOpen(h2, t)
        BY <2>4, <4>1 DEF FreeIsClosed
      <4>3. \A t \in Socket \ {a} : IsOpen(h, t)
        BY <4>2, <2>5 DEF IsOpen
      <4>4. Socket \subseteq HeldIn(h) \cup {a}
        BY <4>3, <1>1, <2>8, NoneIsNoSocket DEF Whole, OpenIsHeld
      <4>5. NumSockets <= h.count + 1
        BY <4>4, HeldAreFew
      <4> QED
        BY <4>5, <2>1, <1>1, PoolAssumption DEF Hosts
    <3>2. /\ b \in Socket /\ ~IsOpen(h2, b)
          /\ g3 \in Hosts /\ FreeIsClosed(g3)
          /\ g3.active = h2.active /\ g3.clients = h2.clients
          /\ g3.count = h2.count /\ g3.netcon = h2.netcon
          /\ g3.loop_client = h2.loop_client
          /\ g3.loop_server = h2.loop_server
          /\ g3.pending = h2.pending
          /\ g3.sock[b].driver = "loop"
          /\ \A t \in Socket : t # b => g3.sock[t] = h2.sock[t]
      <4>1. "client" \in Peers /\ "loop" \in {"loop", "dgrm"}
        BY DEF Peers
      <4>2. h2 \in Hosts
        BY <2>3
      <4> QED
        BY <2>4, <3>1, <4>1, <4>2, NewQSocketPool
    <3> DEFINE n == [h3 EXCEPT !.netcon = h3.loop_client]
    <3>3. Loop_Connect(h) = n
      <4> HIDE DEF h1
      <4>1. h2 = [NET_NewQSocket(h1, "loop", "server") EXCEPT !.loop_client = Head(h1.free)]
        BY DEF g2, h2
      <4>2. Loop_Connect(h) = [h3 EXCEPT !.netcon = h3.loop_client]
        BY <1>2, <1>5, <2>3, <2>8, <3>1, <4>1 DEF Loop_Connect, h1
      <4> QED
        BY <4>2
    <3> HIDE DEF g3, b
    <3>4. /\ h3 \in Hosts /\ h3.loop_client = a /\ h3.loop_server = b
          /\ h3.clients = h.clients /\ h3.count = h.count /\ h3.pending
          /\ h3.free = g3.free /\ h3.sock = g3.sock
      BY <2>3, <3>2 DEF Hosts, b
    <3> HIDE DEF h3
    <3>5. /\ n \in Hosts /\ n.netcon = a /\ n.loop_client = a
          /\ n.loop_server = b
          /\ n.clients = h.clients /\ n.count = h.count /\ n.pending
          /\ n.free = g3.free /\ n.sock = g3.sock
      BY <2>2, <3>4 DEF Hosts
    <3>6. FreeIsClosed(n)
      BY <3>2, <3>5 DEF FreeIsClosed, IsOpen
    <3>7. IsOpen(h2, a) /\ a # b
      BY <2>2, <2>3, <3>2, NoneIsNoSocket DEF IsOpen
    <3>8. n.sock[a].driver = "loop" /\ n.sock[b].driver = "loop"
      BY <2>2, <2>3, <3>2, <3>5, <3>7
    <3>9. \A t \in Socket \ {a, b} : n.sock[t] = h.sock[t]
      BY <2>5, <3>2, <3>5
    <3> HIDE DEF n
    <3> QED
      BY <1>1, <2>1, <2>2, <2>6, <2>8, <3>2, <3>3, <3>5, <3>6, <3>7, <3>8,
         <3>9, PairIsWhole
  <2> QED
    BY <2>7, <2>8
<1> QED
  BY <1>4, <1>5

-----------------------------------------------------------------------------
(* The steps of the host.                                                  *)

\* sv.active is no part of Whole.
LEMMA ActiveIsApart ==
  ASSUME NEW h, Whole(h), NEW b \in BOOLEAN
  PROVE  LET n == [h EXCEPT !.active = b]
         IN  /\ Whole(n) /\ n.active = b /\ ActiveIn(n) = ActiveIn(h)
             /\ n.clients = h.clients /\ n.count = h.count /\ n.sock = h.sock
             /\ n.netcon = h.netcon /\ n.pending = h.pending
             /\ n.loop_client = h.loop_client /\ n.loop_server = h.loop_server
<1> DEFINE n == [h EXCEPT !.active = b]
<1>1. /\ n \in Hosts /\ n.active = b
      /\ n.clients = h.clients /\ n.count = h.count /\ n.free = h.free
      /\ n.sock = h.sock /\ n.netcon = h.netcon /\ n.pending = h.pending
      /\ n.loop_client = h.loop_client /\ n.loop_server = h.loop_server
  BY DEF Whole, Hosts
<1> HIDE DEF n
<1>2. ActiveIn(n) = ActiveIn(h)
  BY <1>1 DEF ActiveIn
<1>3. Whole(n)
  BY <1>1, <1>2 DEF Whole, FreeIsClosed, OpenIsHeld, LoopPair, HeldIn, IsOpen
<1> QED
  BY <1>1, <1>2, <1>3 DEF n

\* A player that is not heard of is not the host's own.
LEMMA QuietIsRemote ==
  ASSUME Whole(host), NEW s \in Socket \cup {None}, Quiet(s)
  PROVE  /\ s # None => s # host.loop_client /\ s # host.loop_server
         /\ host.loop_client # None => s # host.loop_client
         /\ host.loop_server # None => s # host.loop_server
<1>1. s # None => host.sock[s].driver # "loop"
  BY DEF Quiet, Alive, IsOpen
<1> QED
  BY <1>1 DEF Whole, LoopPair

\* Host_Changelevel_f, with the qsockets that NET_SendToAll closes.
LEMMA ChangelevelStep ==
  ASSUME IInv, Host_Changelevel_f
  PROVE  HostInv(host', setting)
<1>1. PICK late \in SUBSET MayTimeOut, found \in BOOLEAN :
        /\ found \/ MayHappen("badmap")
        /\ host' = [NET_SendToAll(host, late) EXCEPT !.active = found]
  BY DEF Host_Changelevel_f
<1> DEFINE g == NET_SendToAll(host, late)
           n == [g EXCEPT !.active = found]
<1>2. Whole(host) /\ Serving(host) /\ host.active /\ host \in Hosts
  BY DEF IInv, HostInv, Host_Changelevel_f, Whole
<1>3. late \in SUBSET (Socket \ {host.loop_client, host.loop_server})
  <2>1. ASSUME NEW s \in late
        PROVE  s \in Socket \ {host.loop_client, host.loop_server}
    <3>1. s \in Socket \cup {None} /\ IsOpen(host, s) /\ Quiet(s)
      BY <1>2 DEF MayTimeOut, Hosts
    <3>2. s \in Socket /\ s # None
      BY <3>1 DEF IsOpen
    <3> QED
      BY <1>2, <3>1, <3>2, QuietIsRemote
  <2> QED
    BY <2>1
<1>4. /\ Whole(g) /\ g.active = host.active /\ g.clients = host.clients
      /\ g.count = host.count /\ g.netcon = host.netcon
      /\ g.pending = host.pending /\ g.loop_client = host.loop_client
      /\ g.loop_server = host.loop_server
      /\ late = {} => g = host
  BY <1>2, <1>3, SendToAllWhole
<1> HIDE DEF g
<1>5. /\ Whole(n) /\ n.active = found
      /\ n.clients = g.clients /\ n.count = g.count /\ n.netcon = g.netcon
      /\ n.pending = g.pending /\ n.loop_client = g.loop_client
      /\ n.loop_server = g.loop_server /\ n.sock = g.sock
      /\ ActiveIn(n) = ActiveIn(g)
  BY <1>4, ActiveIsApart
<1> HIDE DEF n
<1>6. Serving(n)
  BY <1>2, <1>4, <1>5 DEF Serving
<1>7. ASSUME setting \subseteq {"outage"}
      PROVE  Orderly(n)
  <2>1. late = {} /\ found
    BY <1>1, <1>7 DEF MayTimeOut, MayHappen
  <2>2. Orderly(host)
    BY <1>7 DEF IInv, HostInv
  <2> QED
    BY <2>1, <2>2, <1>2, <1>4, <1>5 DEF Orderly, IsOpen
<1> QED
  BY <1>1, <1>5, <1>6, <1>7 DEF HostInv, n, g

\* Nobody is connected: nothing that two could share.
LEMMA NobodyIsOrderly ==
  ASSUME NEW h, ActiveIn(h) = {}
  PROVE  Orderly(h)
BY DEF Orderly

\* Between commands an orderly host that disconnects has nobody connected.
LEMMA OrderlyDisconnect ==
  ASSUME IInv, setting \subseteq {"outage"}
  PROVE  /\ ActiveIn(CL_Disconnect_f(host)) = {}
         /\ ~Dedicated => ActiveIn(CL_Disconnect(host)) = {}
<1>1. Whole(host) /\ Serving(host) /\ (~host.active => ActiveIn(host) = {})
  BY DEF IInv, HostInv, Orderly
<1>2. ActiveIn(CL_Disconnect_f(host)) = {}
  BY <1>1, DisconnectCommandWhole
<1>3. ASSUME ~Dedicated
      PROVE  ActiveIn(CL_Disconnect(host)) = {}
  <2>1. CASE host.active
    <3>1. host.netcon # None
      BY <1>1, <1>3, <2>1 DEF Serving, Whole, LoopPair
    <3> QED
      BY <1>1, <2>1, <3>1, DisconnectWhole
  <2>2. CASE ~host.active
    BY <1>1, <2>2, DisconnectWhole
  <2> QED
    BY <2>1, <2>2
<1> QED
  BY <1>2, <1>3

\* Host_Map_f: everybody is disconnected, then the host's own player connects.
LEMMA MapStep ==
  ASSUME IInv, Host_Map_f
  PROVE  HostInv(host', setting)
<1> DEFINE h == Host_ShutdownServer(CL_Disconnect(host))
           a == [h EXCEPT !.active = TRUE]
<1>1. PICK found \in BOOLEAN :
        /\ found \/ MayHappen("badmap")
        /\ host' = IF ~found THEN h
                   ELSE IF Dedicated THEN a
                   ELSE Loop_Connect(a)
  BY DEF Host_Map_f
<1>2. Whole(host)
  BY DEF IInv, HostInv
<1>3. Whole(h) /\ h.netcon = None /\ ~h.active
  BY <1>2, DisconnectCommandWhole DEF CL_Disconnect_f
<1>4. setting \subseteq {"outage"} => ActiveIn(h) = {} /\ found
  BY <1>1, OrderlyDisconnect DEF CL_Disconnect_f, MayHappen
<1> HIDE DEF h
<1>5. /\ Whole(a) /\ a.active /\ a.netcon = None /\ a.pending = h.pending
      /\ ActiveIn(a) = ActiveIn(h)
  BY <1>3, ActiveIsApart
<1> HIDE DEF a
<1>6. CASE ~found
  BY <1>1, <1>3, <1>4, <1>6 DEF HostInv, Serving
<1>7. CASE found /\ Dedicated
  <2>1. ~a.pending
    BY <1>5, <1>7 DEF Whole, LoopPair
  <2>2. Serving(a)
    BY <1>7, <2>1 DEF Serving
  <2> QED
    BY <1>1, <1>4, <1>5, <1>7, <2>2, NobodyIsOrderly DEF HostInv
<1>8. CASE found /\ ~Dedicated
  <2>1. /\ Whole(Loop_Connect(a)) /\ Serving(Loop_Connect(a))
        /\ ActiveIn(Loop_Connect(a)) \in {ActiveIn(a), {}}
    BY <1>5, <1>8, LoopConnectWhole
  <2> QED
    BY <1>1, <1>4, <1>5, <1>8, <2>1, NobodyIsOrderly DEF HostInv
<1> QED
  BY <1>6, <1>7, <1>8

\* Host_Connect_f: the host leaves its own server for another's.
LEMMA ConnectStep ==
  ASSUME IInv, Host_Connect_f
  PROVE  HostInv(host', setting)
<1> DEFINE h == CL_Disconnect(host)
           g == NET_NewQSocket(h, "dgrm", "elsewhere")
           s == Head(h.free)
           n == [g EXCEPT !.netcon = s]
<1>1. PICK answered \in BOOLEAN :
        host' = IF answered /\ CanOpen(h) THEN n ELSE CL_Disconnect_f(h)
  BY DEF Host_Connect_f
<1>2. Whole(host) /\ Serving(host) /\ ~Dedicated
  BY DEF IInv, HostInv, Host_Connect_f
<1>3. Whole(h) /\ h.netcon = None
  BY <1>2, DisconnectWhole
<1>4. ~h.active
  <2>1. host.active => host.netcon # None
    BY <1>2 DEF Serving, Whole, LoopPair
  <2> QED
    BY <1>2, <2>1, DisconnectWhole
<1>5. setting \subseteq {"outage"} => ActiveIn(h) = {}
  BY <1>2, OrderlyDisconnect
<1> HIDE DEF h
<1>6. CASE ~(answered /\ CanOpen(h))
  <2> DEFINE d == CL_Disconnect_f(h)
  <2>1. Whole(d) /\ ~d.active /\ ActiveIn(d) \in {ActiveIn(h), {}}
    BY <1>3, DisconnectCommandWhole
  <2>2. host' = d
    BY <1>1, <1>6
  <2> HIDE DEF d
  <2> QED
    BY <1>5, <2>1, <2>2, NobodyIsOrderly DEF HostInv, Serving
<1>7. CASE answered /\ CanOpen(h)
  <2>1. /\ h \in Hosts /\ FreeIsClosed(h) /\ OpenIsHeld(h) /\ LoopPair(h)
        /\ h.count = Cardinality(ActiveIn(h)) /\ h.loop_client = None
    BY <1>3 DEF Whole, LoopPair
  <2>2. /\ s \in Socket /\ ~IsOpen(h, s)
        /\ g \in Hosts /\ FreeIsClosed(g)
        /\ g.active = h.active /\ g.clients = h.clients
        /\ g.count = h.count /\ g.loop_client = h.loop_client
        /\ g.loop_server = h.loop_server /\ g.pending = h.pending
        /\ g.sock[s].driver = "dgrm"
        /\ \A t \in Socket : t # s => g.sock[t] = h.sock[t]
        /\ \A t \in Socket : IsOpen(g, t) <=> IsOpen(h, t) \/ t = s
    <3>1. "elsewhere" \in Peers /\ "dgrm" \in {"loop", "dgrm"}
      BY DEF Peers
    <3> QED
      BY <1>7, <2>1, <3>1, NewQSocketPool
  <2> HIDE DEF g, s
  <2>3. /\ n \in Hosts /\ n.netcon = s /\ n.active = h.active
        /\ n.clients = h.clients /\ n.count = h.count /\ n.free = g.free
        /\ n.sock = g.sock /\ n.loop_client = None
        /\ n.loop_server = h.loop_server /\ n.pending = h.pending
    BY <2>1, <2>2 DEF Hosts
  <2> HIDE DEF n
  <2>4. ActiveIn(n) = ActiveIn(h) /\ HeldIn(n) = HeldIn(h)
    BY <2>3 DEF ActiveIn, HeldIn
  <2>5. FreeIsClosed(n)
    BY <2>2, <2>3 DEF FreeIsClosed, IsOpen
  <2>6. OpenIsHeld(n)
    <3>1. ASSUME NEW t \in Socket, IsOpen(n, t), t # s
          PROVE  t \in HeldIn(n) \cup {n.loop_server}
      <4>1. IsOpen(h, t)
        BY <2>2, <2>3, <3>1 DEF IsOpen
      <4> QED
        BY <4>1, <1>3, <2>1, <2>3, <2>4, NoneIsNoSocket DEF OpenIsHeld
    <3> QED
      BY <3>1, <2>3 DEF OpenIsHeld
  <2>7. LoopPair(n)
    <3>1. h.loop_server # None =>
            /\ h.loop_server \in Socket
            /\ h.loop_server # s /\ n.sock[h.loop_server].driver = "loop"
      BY <2>1, <2>2, <2>3 DEF LoopPair, IsOpen, Hosts
    <3>2. \A t \in Socket : n.sock[t].driver = "loop" => t = n.loop_server
      <4>1. \A t \in Socket : h.sock[t].driver = "loop" => t = h.loop_server
        BY <2>1, NoneIsNoSocket DEF LoopPair
      <4> QED
        BY <4>1, <2>2, <2>3
    <3> QED
      BY <1>2, <2>1, <2>3, <2>4, <3>1, <3>2 DEF LoopPair
  <2>8. Whole(n) /\ Serving(n)
    BY <1>4, <2>1, <2>3, <2>4, <2>5, <2>6, <2>7 DEF Whole, Serving
  <2>9. host' = n
    BY <1>1, <1>7
  <2> QED
    BY <1>5, <2>4, <2>8, <2>9, NobodyIsOrderly DEF HostInv
<1> QED
  BY <1>6, <1>7

\* "disconnect", "quit" and Host_Error.
LEMMA DisconnectStep ==
  ASSUME IInv, Disconnect
  PROVE  HostInv(host', setting)
<1> DEFINE d == CL_Disconnect_f(host)
<1>1. Whole(host) /\ host' = d
  BY DEF IInv, HostInv, Disconnect
<1>2. Whole(d) /\ ~d.active
  BY <1>1, DisconnectCommandWhole
<1>3. setting \subseteq {"outage"} => ActiveIn(d) = {}
  BY OrderlyDisconnect
<1> HIDE DEF d
<1> QED
  BY <1>1, <1>2, <1>3, NobodyIsOrderly DEF HostInv, Serving

\* Loop_CheckNewConnections hands the server's end of the loop to a slot.
LEMMA LoopCheckStep ==
  ASSUME IInv, Loop_CheckNewConnections
  PROVE  HostInv(host', setting)
<1> DEFINE s == host.loop_server
           p == [host EXCEPT !.pending = FALSE]
           n == SV_CheckForNewClients(p, s)
<1>1. /\ host \in Hosts /\ Whole(host) /\ host' = n
      /\ FreeIsClosed(host) /\ OpenIsHeld(host) /\ LoopPair(host)
      /\ host.count = Cardinality(ActiveIn(host))
      /\ host.active /\ host.pending
      /\ s # None /\ host.count < MaxClients
      /\ ~Dedicated /\ host.loop_client # None
  BY DEF IInv, HostInv, Serving, Whole, LoopPair, Loop_CheckNewConnections
<1>2. /\ p \in Hosts /\ ~p.pending /\ p.clients = host.clients
      /\ p.count = host.count /\ p.free = host.free /\ p.sock = host.sock
      /\ p.netcon = host.netcon /\ p.loop_client = host.loop_client
      /\ p.loop_server = s /\ p.active
  BY <1>1 DEF Hosts
<1>3. ActiveIn(p) = ActiveIn(host)
  BY <1>2 DEF ActiveIn
<1>4. s \in Socket /\ host.sock[s].driver = "loop"
  BY <1>1 DEF LoopPair, Hosts
<1>5. /\ n \in Hosts /\ n.count = Cardinality(ActiveIn(n))
      /\ n.active = p.active /\ n.netcon = p.netcon /\ n.free = p.free
      /\ n.sock = p.sock /\ n.pending = p.pending
      /\ n.loop_client = p.loop_client /\ n.loop_server = p.loop_server
      /\ \E i \in Slot \ ActiveIn(p) :
           /\ ActiveIn(n) = ActiveIn(p) \cup {i}
           /\ n.clients[i].socket = s
           /\ \A j \in Slot : j # i => n.clients[j] = p.clients[j]
  <2> HIDE DEF p, s
  <2>1. p \in Hosts /\ p.count = Cardinality(ActiveIn(p)) /\ p.count < MaxClients
    BY <1>1, <1>2, <1>3
  <2>2. s \in Socket \cup {None}
    BY <1>4
  <2> QED
    BY <2>1, <2>2, NewClientSlot
<1> HIDE DEF n, p
<1>6. PICK i \in Slot \ ActiveIn(host) :
        /\ ActiveIn(n) = ActiveIn(host) \cup {i}
        /\ n.clients[i].socket = s
        /\ \A j \in Slot : j # i => n.clients[j] = host.clients[j]
  BY <1>2, <1>3, <1>5
<1>7. HeldIn(n) = HeldIn(host) \cup {s}
  <2>1. \A j \in ActiveIn(host) : j \in Slot /\ j # i
    BY DEF ActiveIn
  <2> QED
    BY <1>6, <2>1 DEF HeldIn
<1>8. \A t \in Socket \cup {None} : IsOpen(n, t) <=> IsOpen(host, t)
  BY <1>2, <1>5 DEF IsOpen
<1>9. FreeIsClosed(n) /\ OpenIsHeld(n) /\ LoopPair(n)
  <2>1. FreeIsClosed(n)
    BY <1>1, <1>2, <1>5 DEF FreeIsClosed, IsOpen
  <2>2. OpenIsHeld(n)
    BY <1>1, <1>2, <1>5, <1>7, <1>8 DEF OpenIsHeld
  <2>3. LoopPair(n)
    BY <1>1, <1>2, <1>5, <1>7 DEF LoopPair
  <2> QED
    BY <2>1, <2>2, <2>3
<1>10. Whole(n) /\ Serving(n)
  BY <1>1, <1>2, <1>5, <1>9 DEF Whole, Serving
<1>11. ASSUME setting \subseteq {"outage"}
       PROVE  Orderly(n)
  <2>1. Orderly(host)
    BY <1>11 DEF IInv, HostInv
  <2>2. IsOpen(n, s) /\ s # n.netcon
    BY <1>1, <1>2, <1>4, <1>5 DEF LoopPair, IsOpen
  <2>3. \A j \in ActiveIn(host) :
          /\ j # i /\ n.clients[j] = host.clients[j]
          /\ host.clients[j].socket # s
          /\ IsOpen(host, host.clients[j].socket)
          /\ host.clients[j].socket # host.netcon
    BY <1>1, <1>6, <2>1 DEF Orderly, ActiveIn
  <2>4. \A j \in ActiveIn(host) : IsOpen(n, n.clients[j].socket)
    <3>1. \A j \in ActiveIn(host) : host.clients[j].socket \in Socket \cup {None}
      BY <1>1 DEF Hosts, ActiveIn
    <3> QED
      BY <1>8, <2>3, <3>1
  <2>5. \A j, k \in ActiveIn(host) :
          host.clients[j].socket = host.clients[k].socket => j = k
    BY <2>1 DEF Orderly
  <2>6. \A j, k \in ActiveIn(n) :
          n.clients[j].socket = n.clients[k].socket => j = k
    BY <1>6, <2>3, <2>5
  <2> QED
    BY <1>2, <1>5, <1>6, <2>2, <2>3, <2>4, <2>6 DEF Orderly
<1> QED
  BY <1>1, <1>10, <1>11 DEF HostInv

\* _Datagram_CheckNewConnections gives a remote player a qsocket and a slot.
LEMMA AcceptStep ==
  ASSUME IInv, NEW a \in Attempt, Accept(a)
  PROVE  HostInv(host', setting)
<1> DEFINE s == Head(host.free)
           g == NET_NewQSocket(host, "dgrm", a)
           n == SV_CheckForNewClients(g, s)
<1>1. /\ host \in Hosts /\ Whole(host) /\ Serving(host)
      /\ FreeIsClosed(host) /\ OpenIsHeld(host) /\ LoopPair(host)
      /\ host.count = Cardinality(ActiveIn(host))
      /\ host.active /\ ~host.pending /\ CanOpen(host)
      /\ host.count < MaxClients
      /\ (host' = n \/ host' = host)
  BY DEF IInv, HostInv, Whole, Accept, Request, CanOpen
<1>2. CASE host' = host
  BY <1>2 DEF IInv
<1>3. CASE host' = n
  <2>1. /\ s \in Socket /\ ~IsOpen(host, s)
        /\ g \in Hosts /\ FreeIsClosed(g)
        /\ g.active = host.active /\ g.clients = host.clients
        /\ g.count = host.count /\ g.netcon = host.netcon
        /\ g.loop_client = host.loop_client
        /\ g.loop_server = host.loop_server /\ g.pending = host.pending
        /\ g.sock[s].driver = "dgrm"
        /\ \A t \in Socket : t # s => g.sock[t] = host.sock[t]
        /\ \A t \in Socket : IsOpen(g, t) <=> IsOpen(host, t) \/ t = s
    <3>1. a \in Peers /\ "dgrm" \in {"loop", "dgrm"}
      BY DEF Peers
    <3>2. host \in Hosts /\ FreeIsClosed(host) /\ CanOpen(host)
      BY <1>1
    <3> HIDE DEF n
    <3> QED
      BY <3>1, <3>2, NewQSocketPool
  <2> HIDE DEF g, s
  <2>2. ActiveIn(g) = ActiveIn(host)
    BY <2>1 DEF ActiveIn
  <2>3. /\ n \in Hosts /\ n.count = Cardinality(ActiveIn(n))
        /\ n.active = g.active /\ n.netcon = g.netcon /\ n.free = g.free
        /\ n.sock = g.sock /\ n.pending = g.pending
        /\ n.loop_client = g.loop_client /\ n.loop_server = g.loop_server
        /\ \E i \in Slot \ ActiveIn(g) :
             /\ ActiveIn(n) = ActiveIn(g) \cup {i}
             /\ n.clients[i].socket = s
             /\ \A j \in Slot : j # i => n.clients[j] = g.clients[j]
    <3>1. g \in Hosts /\ g.count = Cardinality(ActiveIn(g))
          /\ g.count < MaxClients /\ s \in Socket \cup {None}
      BY <1>1, <2>1, <2>2
    <3> QED
      BY <3>1, NewClientSlot
  <2> HIDE DEF n
  <2>4. PICK i \in Slot \ ActiveIn(host) :
          /\ ActiveIn(n) = ActiveIn(host) \cup {i}
          /\ n.clients[i].socket = s
          /\ \A j \in Slot : j # i => n.clients[j] = host.clients[j]
    BY <2>1, <2>2, <2>3
  <2>5. HeldIn(n) = HeldIn(host) \cup {s}
    <3>1. \A j \in ActiveIn(host) : j \in Slot /\ j # i
      BY DEF ActiveIn
    <3> QED
      BY <2>4, <3>1 DEF HeldIn
  <2>6. \A t \in Socket : IsOpen(n, t) <=> IsOpen(host, t) \/ t = s
    BY <2>1, <2>3 DEF IsOpen
  <2>7. FreeIsClosed(n) /\ OpenIsHeld(n) /\ LoopPair(n)
    <3>1. FreeIsClosed(n)
      BY <2>1, <2>3 DEF FreeIsClosed, IsOpen
    <3>2. OpenIsHeld(n)
      BY <1>1, <2>1, <2>3, <2>5, <2>6 DEF OpenIsHeld
    <3>3. host.loop_client # None =>
            /\ n.loop_client # s
            /\ n.sock[n.loop_client] = host.sock[host.loop_client]
      BY <1>1, <2>1, <2>3 DEF LoopPair, IsOpen, Hosts
    <3>4. host.loop_server # None =>
            /\ n.loop_server # s
            /\ n.sock[n.loop_server] = host.sock[host.loop_server]
      <4>1. host.loop_server # None =>
              host.loop_server \in Socket /\ IsOpen(host, host.loop_server)
        BY <1>1 DEF LoopPair, IsOpen, Hosts
      <4> QED
        BY <4>1, <2>1, <2>3
    <3>5. \A t \in Socket : n.sock[t].driver = "loop" =>
            t = n.loop_client \/ t = n.loop_server
      BY <1>1, <2>1, <2>3 DEF LoopPair
    <3>6. LoopPair(n)
      BY <1>1, <2>1, <2>3, <2>5, <3>3, <3>4, <3>5 DEF LoopPair
    <3> QED
      BY <3>1, <3>2, <3>6
  <2>8. Whole(n) /\ Serving(n)
    BY <1>1, <2>1, <2>3, <2>7 DEF Whole, Serving
  <2>9. ASSUME setting \subseteq {"outage"}
        PROVE  Orderly(n)
    <3>1. Orderly(host)
      BY <2>9 DEF IInv, HostInv
    <3>2. IsOpen(n, s) /\ ~n.pending
      BY <1>1, <2>1, <2>3, <2>6
    <3>3. s # n.netcon
      <4>1. host.netcon # None => IsOpen(host, host.netcon)
        <5>1. ~Dedicated => host.loop_client # None
          BY <1>1 DEF Serving
        <5> QED
          BY <1>1, <5>1 DEF LoopPair, IsOpen
      <4> QED
        BY <4>1, <2>1, <2>3, NoneIsNoSocket
    <3>4. \A j \in ActiveIn(host) :
            /\ j # i /\ n.clients[j] = host.clients[j]
            /\ host.clients[j].socket \in Socket
            /\ IsOpen(host, host.clients[j].socket)
            /\ host.clients[j].socket # host.netcon
      BY <1>1, <2>4, <3>1 DEF Orderly, ActiveIn, IsOpen, Hosts
    <3>5. \A j \in ActiveIn(host) : /\ host.clients[j].socket # s
                                    /\ IsOpen(n, n.clients[j].socket)
      BY <2>1, <2>6, <3>4
    <3>6. \A j, k \in ActiveIn(host) :
            host.clients[j].socket = host.clients[k].socket => j = k
      BY <3>1 DEF Orderly
    <3>7. \A j, k \in ActiveIn(n) :
            n.clients[j].socket = n.clients[k].socket => j = k
      BY <2>4, <3>4, <3>5, <3>6
    <3>8. \A j \in ActiveIn(n) : /\ IsOpen(n, n.clients[j].socket)
                                 /\ n.clients[j].socket # n.netcon
      BY <2>1, <2>3, <2>4, <3>2, <3>3, <3>4, <3>5
    <3> QED
      BY <1>1, <2>1, <2>3, <3>2, <3>7, <3>8 DEF Orderly
  <2> QED
    BY <1>3, <2>8, <2>9 DEF HostInv
<1> QED
  BY <1>1, <1>2, <1>3

\* The time of a qsocket and whether it was heard of are no part of HostInv.
LEMMA FlagsAreApart ==
  ASSUME IInv, NEW s \in Socket, NEW q \in [driver : Driver, peer : Peers,
                                            fresh : BOOLEAN, net_wait : BOOLEAN],
         q.driver = host.sock[s].driver,
         host' = [host EXCEPT !.sock = [host.sock EXCEPT ![s] = q]]
  PROVE  HostInv(host', setting)
<1> DEFINE n == [host EXCEPT !.sock = [host.sock EXCEPT ![s] = q]]
<1>1. /\ host \in Hosts /\ FreeIsClosed(host) /\ OpenIsHeld(host)
      /\ LoopPair(host) /\ Serving(host)
      /\ host.count = Cardinality(ActiveIn(host))
      /\ setting \subseteq {"outage"} => Orderly(host)
  BY DEF IInv, HostInv, Whole
<1>2. /\ n \in Hosts /\ n.active = host.active /\ n.clients = host.clients
      /\ n.count = host.count /\ n.free = host.free
      /\ n.netcon = host.netcon /\ n.loop_client = host.loop_client
      /\ n.loop_server = host.loop_server /\ n.pending = host.pending
      /\ \A t \in Socket : n.sock[t].driver = host.sock[t].driver
  BY <1>1 DEF Hosts
<1>3. host' = n
  OBVIOUS
<1> HIDE DEF n
<1>4. ActiveIn(n) = ActiveIn(host) /\ HeldIn(n) = HeldIn(host)
  BY <1>2 DEF ActiveIn, HeldIn
<1>5. \A t \in Socket \cup {None} : IsOpen(n, t) <=> IsOpen(host, t)
  BY <1>2 DEF IsOpen
<1>6. FreeIsClosed(n)
  <2>1. \A k \in 1..Len(n.free) : n.free[k] \in Socket
    BY <1>2 DEF Hosts
  <2> QED
    BY <1>1, <1>2, <1>5, <2>1 DEF FreeIsClosed
<1>7. OpenIsHeld(n)
  BY <1>1, <1>2, <1>4, <1>5 DEF OpenIsHeld
<1>8. LoopPair(n)
  <2>1. /\ n.loop_client # None =>
             n.sock[n.loop_client].driver = host.sock[host.loop_client].driver
        /\ n.loop_server # None =>
             n.sock[n.loop_server].driver = host.sock[host.loop_server].driver
    BY <1>1, <1>2 DEF Hosts
  <2> QED
    BY <1>1, <1>2, <1>4, <2>1 DEF LoopPair
<1>9. setting \subseteq {"outage"} => Orderly(n)
  <2>1. \A i \in ActiveIn(n) : n.clients[i].socket \in Socket \cup {None}
    BY <1>2 DEF Hosts, ActiveIn
  <2> QED
    BY <1>1, <1>2, <1>4, <1>5, <2>1 DEF Orderly
<1> QED
  BY <1>1, <1>2, <1>3, <1>4, <1>6, <1>7, <1>8, <1>9 DEF HostInv, Whole, Serving

\* The player in a slot is heard of for the first time.
LEMMA HearStep ==
  ASSUME IInv, NEW i \in Slot, Hear(i)
  PROVE  HostInv(host', setting)
<1> DEFINE s == host.clients[i].socket
           q == [host.sock[s] EXCEPT !.net_wait = FALSE]
<1>1. host \in Hosts /\ IsOpen(host, s)
  BY DEF IInv, HostInv, Whole, Hear, Alive
<1>2. s \in Socket
  BY <1>1 DEF Hosts, IsOpen
<1>3. host.sock[s] \in [driver : Driver, peer : Peers, fresh : BOOLEAN,
                        net_wait : BOOLEAN]
  BY <1>1, <1>2 DEF Hosts
<1>4. q \in [driver : Driver, peer : Peers, fresh : BOOLEAN, net_wait : BOOLEAN]
      /\ q.driver = host.sock[s].driver
  BY <1>3
<1>5. host' = [host EXCEPT !.sock = [host.sock EXCEPT ![s] = q]]
  BY DEF Hear
<1> HIDE DEF q, s
<1> QED
  BY <1>2, <1>4, <1>5, FlagsAreApart

\* Two seconds after a qsocket was opened.
LEMMA AgeStep ==
  ASSUME IInv, NEW s \in Socket, Age(s)
  PROVE  HostInv(host', setting)
<1> DEFINE q == [host.sock[s] EXCEPT !.fresh = FALSE]
<1>1. host.sock[s] \in [driver : Driver, peer : Peers, fresh : BOOLEAN,
                        net_wait : BOOLEAN]
  BY DEF IInv, HostInv, Whole, Hosts
<1>2. q \in [driver : Driver, peer : Peers, fresh : BOOLEAN, net_wait : BOOLEAN]
      /\ q.driver = host.sock[s].driver
  BY <1>1
<1>3. host' = [host EXCEPT !.sock = [host.sock EXCEPT ![s] = q]]
  BY DEF Age
<1> HIDE DEF q
<1> QED
  BY <1>2, <1>3, FlagsAreApart

\* SV_RunClients drops a player that is gone, or whose qsocket is closed.
LEMMA DropStep ==
  ASSUME IInv, NEW i \in Slot, Drop(i)
  PROVE  HostInv(host', setting)
<1> DEFINE s == host.clients[i].socket
           g == NET_Close(host, s)
           n == SV_DropClient(g, i)
<1>1. /\ Whole(host) /\ Serving(host) /\ host \in Hosts /\ LoopPair(host)
      /\ host.active /\ i \in ActiveIn(host) /\ Quiet(s) /\ host' = n
  BY DEF IInv, HostInv, Whole, Drop, ActiveIn
<1>2. s \in Socket \cup {None}
  BY <1>1 DEF Hosts
<1>3. /\ host.loop_client # None => s # host.loop_client
      /\ host.loop_server # None => s # host.loop_server
  <2> HIDE DEF s
  <2> QED
    BY <1>1, <1>2, QuietIsRemote
<1>4. /\ Whole(g) /\ g.active = host.active /\ g.clients = host.clients
      /\ g.netcon = host.netcon /\ g.pending = host.pending
      /\ \A t \in Socket : t # s => g.sock[t] = host.sock[t]
      /\ s # host.loop_client => g.loop_client = host.loop_client
      /\ s # host.loop_server => g.loop_server = host.loop_server
  <2> HIDE DEF s
  <2> QED
    BY <1>1, <1>2, CloseWhole
<1>5. ActiveIn(g) = ActiveIn(host) /\ g.clients[i].socket = s
  BY <1>4 DEF ActiveIn
<1> HIDE DEF g
<1>6. /\ Whole(n) /\ n.active = g.active /\ n.netcon = g.netcon
      /\ n.pending = g.pending /\ ActiveIn(n) = ActiveIn(g) \ {i}
      /\ \A j \in Slot \ {i} : n.clients[j] = g.clients[j]
      /\ \A t \in Socket : t # s => n.sock[t] = g.sock[t]
      /\ s # g.loop_client => n.loop_client = g.loop_client
      /\ s # g.loop_server => n.loop_server = g.loop_server
  <2> HIDE DEF s
  <2> QED
    BY <1>4, <1>5, DropWhole
<1> HIDE DEF n, s
<1>7. Serving(n)
  <2>1. host.loop_client # None => n.loop_client # None
    BY <1>3, <1>4, <1>6
  <2>2. host.loop_server # None => n.loop_server # None
    BY <1>3, <1>4, <1>6
  <2>3. n.count < MaxClients
    <3>1. ActiveIn(n) \in SUBSET Slot /\ ActiveIn(n) # Slot
      BY <1>6 DEF ActiveIn
    <3>2. Cardinality(ActiveIn(n)) \in 0..MaxClients
          /\ Cardinality(ActiveIn(n)) # MaxClients
      BY <3>1, SlotsAreFinite
    <3> QED
      BY <3>2, <1>6, PoolAssumption DEF Whole
  <2> QED
    BY <1>1, <1>4, <1>6, <2>1, <2>2, <2>3 DEF Serving
<1>8. ASSUME setting \subseteq {"outage"}
      PROVE  Orderly(n)
  <2>1. Orderly(host)
    BY <1>8 DEF IInv, HostInv
  <2>2. \A j \in ActiveIn(n) :
          /\ j \in ActiveIn(host) /\ n.clients[j] = host.clients[j]
          /\ host.clients[j].socket # s
    <3>1. \A j \in ActiveIn(n) : j \in ActiveIn(host) /\ j # i /\ j \in Slot
      BY <1>5, <1>6 DEF ActiveIn
    <3>2. \A j \in ActiveIn(host) : host.clients[j].socket = s => j = i
      BY <1>1, <2>1 DEF Orderly, s
    <3> QED
      BY <1>4, <1>6, <3>1, <3>2
  <2>3. \A j \in ActiveIn(n) : IsOpen(n, n.clients[j].socket)
    <3>1. \A j \in ActiveIn(n) : /\ host.clients[j].socket \in Socket
                                 /\ IsOpen(host, host.clients[j].socket)
      BY <1>1, <2>1, <2>2 DEF Orderly, Hosts, IsOpen, ActiveIn
    <3>2. \A t \in Socket : t # s => n.sock[t] = host.sock[t]
      BY <1>4, <1>6
    <3> QED
      BY <2>2, <3>1, <3>2 DEF IsOpen
  <2>4. n.pending => n.loop_server = host.loop_server
    BY <1>1, <1>3, <1>4, <1>6 DEF Serving
  <2>5. /\ \A j, k \in ActiveIn(n) :
             n.clients[j].socket = n.clients[k].socket => j = k
        /\ \A j \in ActiveIn(n) :
             /\ n.clients[j].socket # n.netcon
             /\ n.pending => n.clients[j].socket # n.loop_server
    BY <1>4, <1>6, <2>1, <2>2, <2>4 DEF Orderly
  <2> QED
    BY <1>1, <1>4, <1>6, <2>3, <2>5 DEF Orderly
<1> QED
  BY <1>1, <1>6, <1>7, <1>8 DEF HostInv

-----------------------------------------------------------------------------
(* The theorems.                                                           *)

\* The program starts with every qsocket in the free list.
LEMMA InitIInv == Init => IInv
<1> SUFFICES ASSUME Init PROVE IInv
  OBVIOUS
<1> USE DEF Init
<1>1. /\ NumSockets \in Nat /\ MaxClients \in Nat
      /\ host.free \in Seq(Socket) /\ Len(host.free) = NumSockets
      /\ \A k \in 1..NumSockets : host.free[k] = NumSockets + 1 - k
  <2>1. NumSockets \in Nat /\ MaxClients \in Nat
    BY PoolAssumption
  <2>2. \A k \in 1..NumSockets : NumSockets + 1 - k \in 1..NumSockets
    BY <2>1
  <2> QED
    BY <2>1, <2>2 DEF Socket
<1>2. host \in Hosts
  <2>1. NoSocket \in [driver : Driver, peer : Peers, fresh : BOOLEAN,
                      net_wait : BOOLEAN]
    BY DEF NoSocket, Driver, Peers
  <2>2. NoClient \in [active : BOOLEAN, socket : Socket \cup {None}]
    BY DEF NoClient
  <2> QED
    BY <1>1, <2>1, <2>2 DEF Hosts
<1>3. \A s \in Socket : ~IsOpen(host, s)
  BY DEF IsOpen, NoSocket
<1>4. ActiveIn(host) = {} /\ HeldIn(host) = {}
  BY DEF ActiveIn, HeldIn, NoClient
<1>5. FreeIsClosed(host)
  <2>1. \A k, l \in 1..NumSockets :
          NumSockets + 1 - k = NumSockets + 1 - l => k = l
    BY <1>1
  <2>2. \A s \in Socket : /\ NumSockets + 1 - s \in 1..NumSockets
                          /\ NumSockets + 1 - (NumSockets + 1 - s) = s
    BY <1>1 DEF Socket
  <2>3. \A s \in Socket : \E k \in 1..NumSockets : host.free[k] = s
    BY <1>1, <2>2
  <2>4. \A k \in 1..NumSockets : host.free[k] \in Socket
    BY <1>1
  <2>5. \A k, l \in 1..NumSockets : host.free[k] = host.free[l] => k = l
    BY <1>1, <2>1
  <2>6. \A k \in 1..NumSockets : ~IsOpen(host, host.free[k])
    BY <1>3, <2>4
  <2>7. Len(host.free) = NumSockets
    BY <1>1
  <2> HIDE DEF Init
  <2> QED
    BY <2>3, <2>5, <2>6, <2>7 DEF FreeIsClosed
<1>6. OpenIsHeld(host) /\ LoopPair(host)
  BY <1>3 DEF OpenIsHeld, LoopPair, NoSocket
<1>7. host.count = Cardinality(ActiveIn(host))
  BY <1>4, FS_EmptySet
<1>8. Whole(host) /\ Serving(host) /\ Orderly(host)
  BY <1>2, <1>4, <1>5, <1>6, <1>7, NobodyIsOrderly DEF Whole, Serving
<1>9. OthersInv
  BY MaxRepsAssumption DEF OthersInv
<1> QED
  BY <1>8, <1>9 DEF IInv, HostInv

\* No step of the host or of a remote player leaves the invariant.
LEMMA NextIInv == IInv /\ [Next]_vars => IInv'
<1> SUFFICES ASSUME IInv, [Next]_vars PROVE IInv'
  OBVIOUS
<1>1. OthersInv /\ HostInv(host, setting)
  BY DEF IInv
<1>2. ASSUME HostInv(host', setting), setting' = setting,
             RemoteUnchanged
      PROVE  IInv'
  <2>1. OthersInv'
    BY <1>1, <1>2 DEF OthersInv, RemoteUnchanged
  <2> QED
    BY <1>2, <2>1 DEF IInv
<1>3. ASSUME UNCHANGED <<setting, host>>, OthersInv'
      PROVE  IInv'
  BY <1>1, <1>3 DEF IInv
<1>4. CASE UNCHANGED vars
  BY <1>1, <1>4, <1>3 DEF vars, gameVars, OthersInv
<1>5. CASE Next
  <2> USE DEF Next
  <2>1. setting' = setting
    BY <1>5
  <2>2. CASE Commands
    BY <1>2, <2>1, <2>2, ChangelevelStep, MapStep, ConnectStep, DisconnectStep
       DEF Commands, Host_Changelevel_f, Host_Map_f, Host_Connect_f, Disconnect
  <2>3. CASE Loop_CheckNewConnections
    BY <1>2, <2>1, <2>3, LoopCheckStep DEF Loop_CheckNewConnections
  <2>4. ASSUME NEW a \in Attempt, AnswerDuplicate(a)
        PROVE  IInv'
    <3>1. PICK s \in Socket : Reply(a, s)
      BY <2>4 DEF AnswerDuplicate, Duplicates
    <3>2. OthersInv'
      BY <1>1, <2>1, <2>4, <3>1 DEF OthersInv, AnswerDuplicate, Request, Reply
    <3> QED
      BY <1>3, <2>1, <2>4, <3>2 DEF AnswerDuplicate
  <2>5. ASSUME NEW a \in Attempt, Accept(a)
        PROVE  IInv'
    <3>1. Head(host.free) \in Socket
      BY <1>1, <2>5 DEF HostInv, Whole, Hosts, Accept, CanOpen
    <3>2. OthersInv'
      BY <1>1, <2>1, <2>5, <3>1 DEF OthersInv, Accept, Request, Reply
    <3> QED
      BY <2>1, <2>5, <3>2, AcceptStep DEF IInv
  <2>6. ASSUME NEW a \in Attempt, Reject(a)
        PROVE  IInv'
    <3>1. OthersInv'
      BY <1>1, <2>1, <2>6 DEF OthersInv, Reject, Request, Reply
    <3> QED
      BY <1>3, <2>1, <2>6, <3>1 DEF Reject
  <2>7. ASSUME NEW i \in Slot, Hear(i) \/ Drop(i)
        PROVE  IInv'
    BY <1>2, <2>1, <2>7, HearStep, DropStep DEF Hear, Drop
  <2>8. ASSUME NEW s \in Socket, Age(s)
        PROVE  IInv'
    BY <1>2, <2>1, <2>8, AgeStep DEF Age
  <2>9. ASSUME NEW a \in Attempt, Ask(a)
        PROVE  IInv'
    <3>1. reps[a] + 1 \in 0..MaxReps
      BY <1>1, <2>9, MaxRepsAssumption DEF Ask, OthersInv
    <3>2. OthersInv'
      BY <1>1, <2>1, <2>9, <3>1 DEF OthersInv, Ask
    <3> QED
      BY <1>3, <2>1, <2>9, <3>2 DEF Ask
  <2>10. ASSUME NEW a \in Attempt, NEW s \in {None} \cup Socket, Answered(a, s)
         PROVE  IInv'
    <3>1. OthersInv'
      BY <1>1, <2>1, <2>10, MaxRepsAssumption DEF OthersInv, Answered
    <3> QED
      BY <1>3, <2>1, <2>10, <3>1 DEF Answered
  <2>11. ASSUME NEW a \in Attempt, Leave(a)
         PROVE  IInv'
    <3>1. OthersInv'
      BY <1>1, <2>1, <2>11, MaxRepsAssumption DEF OthersInv, Leave
    <3> QED
      BY <1>3, <2>1, <2>11, <3>1 DEF Leave
  <2>12. CASE Lose
    <3>1. OthersInv'
      BY <1>1, <2>1, <2>12 DEF OthersInv, Lose
    <3> QED
      BY <1>3, <2>1, <2>12, <3>1 DEF Lose
  <2> QED
    BY <1>5, <2>2, <2>3, <2>4, <2>5, <2>6, <2>7, <2>8, <2>9, <2>10, <2>11,
       <2>12 DEF GameNext
<1> QED
  BY <1>4, <1>5

\* The invariant holds in every state of every behaviour.
THEOREM IInvAlways == Spec => []IInv
BY InitIInv, NextIInv, PTL DEF Spec

\* The invariant implies what the runs check of it.
LEMMA IInvImplies ==
  ASSUME IInv
  PROVE  TypeOK /\ NoSysError /\ CountMatches /\ PoolIsWhole
         /\ OneSocketWhenOrderly
<1>1. /\ Whole(host) /\ Serving(host) /\ host \in Hosts /\ LoopPair(host)
      /\ FreeIsClosed(host) /\ OpenIsHeld(host)
      /\ (setting \subseteq {"outage"} => Orderly(host))
  BY DEF IInv, HostInv, Whole
<1>2. ActiveIn(host) = Active /\ HeldIn(host) = Held
  BY DEF ActiveIn, HeldIn, Active, Held
<1>3. TypeOK
  BY <1>1 DEF IInv, OthersInv, Hosts, TypeOK
<1>4. NoSysError
  BY <1>1 DEF Hosts, Serving, NoSysError
<1>5. CountMatches
  <2>1. host.count = Cardinality(Active)
    BY <1>1, <1>2 DEF Whole
  <2>2. ASSUME host.active, ~host.pending, host.count < MaxClients,
               host.free = <<>>
        PROVE  FALSE
    <3>1. \A s \in Socket : IsOpen(host, s)
      BY <1>1, <2>2 DEF FreeIsClosed
    <3>2. CASE Dedicated
      <4>1. Socket \subseteq HeldIn(host)
        BY <1>1, <3>1, <3>2, NoneIsNoSocket DEF OpenIsHeld, LoopPair
      <4>2. NumSockets <= host.count
        BY <1>1, <4>1, HeldAreFew
      <4> QED
        BY <4>2, <1>1, <2>2, PoolAssumption DEF Hosts
    <3>3. CASE ~Dedicated
      <4>1. host.netcon = host.loop_client
            /\ host.loop_server \in HeldIn(host) \cup {None}
        BY <1>1, <2>2, <3>3 DEF Serving, LoopPair
      <4>2. Socket \subseteq HeldIn(host) \cup {host.netcon}
        BY <1>1, <3>1, <4>1, NoneIsNoSocket DEF OpenIsHeld
      <4>3. NumSockets <= host.count + 1
        BY <1>1, <4>2, HeldAreFew
      <4> QED
        BY <4>3, <1>1, <2>2, <3>3, PoolAssumption DEF Hosts
    <3> QED
      BY <3>2, <3>3
  <2> QED
    BY <2>1, <2>2 DEF CountMatches
<1>6. PoolIsWhole
  <2>1. host.free \in Seq(Socket)
    BY <1>1 DEF Hosts
  <2>2. ASSUME NEW s \in Socket
        PROVE  Cardinality({k \in DOMAIN host.free : host.free[k] = s})
                 = IF IsOpen(host, s) THEN 0 ELSE 1
    <3> DEFINE K == {k \in DOMAIN host.free : host.free[k] = s}
    <3>1. CASE IsOpen(host, s)
      <4>1. K = {}
        BY <1>1, <2>1, <3>1 DEF FreeIsClosed
      <4> QED
        BY <3>1, <4>1, FS_EmptySet
    <3>2. CASE ~IsOpen(host, s)
      <4>1. PICK k \in 1..Len(host.free) : host.free[k] = s
        BY <1>1, <3>2 DEF FreeIsClosed
      <4>2. K = {k}
        BY <1>1, <2>1, <4>1 DEF FreeIsClosed
      <4> QED
        BY <3>2, <4>2, FS_Singleton
    <3> QED
      BY <3>1, <3>2
  <2> QED
    BY <1>1, <1>2, <2>2 DEF PoolIsWhole, OpenIsHeld
<1>7. OneSocketWhenOrderly
  BY <1>1, <1>2 DEF Orderly, OneSocketWhenOrderly, OneSocketPerClient
<1> QED
  BY <1>3, <1>4, <1>5, <1>6, <1>7

\* Every variable keeps its type.
THEOREM TypesAreKept == Spec => []TypeOK
BY IInvAlways, IInvImplies, PTL

\* The program never ends in the Sys_Error of SV_CheckForNewClients ("no free
\* clients") or of NET_FreeQSocket, and the loop driver never hands out NULL.
THEOREM NoSysErrorEver == Spec => []NoSysError
BY IInvAlways, IInvImplies, PTL

\* net_activeconnections, counted up in sv_main.c and down in host.c, is the
\* number of active slots, and a server with room has a qsocket to give.
THEOREM CountAlwaysMatches == Spec => []CountMatches
BY IInvAlways, IInvImplies, PTL

\* No qsocket leaks and none is in the free list twice.
THEOREM PoolIsAlwaysWhole == Spec => []PoolIsWhole
BY IInvAlways, IInvImplies, PTL

\* No two slots share a qsocket unless a map is missing or a silence comes to
\* its limit in NET_SendToAll.
THEOREM OneSocketPerOrderlyClient == Spec => []OneSocketWhenOrderly
BY IInvAlways, IInvImplies, PTL

\* "Active clients are kicked off" by the command "map" wherever a server is
\* active: the run that finds somebody left over needs a level change to a
\* missing map first, after which sv.active is false and the slots are held.
THEOREM MapKicksPlayersOfServer ==
  Spec => [][host.active /\ Host_Map_f =>
               \A i \in Slot : ~host'.clients[i].active]_vars
<1>1. ASSUME IInv, host.active, Host_Map_f
      PROVE  \A i \in Slot : ~host'.clients[i].active
  <2> DEFINE h == Host_ShutdownServer(CL_Disconnect(host))
             a == [h EXCEPT !.active = TRUE]
  <2>1. \/ host' = h
        \/ host' = a
        \/ ~Dedicated /\ host' = Loop_Connect(a)
    BY <1>1 DEF Host_Map_f
  <2>2. Whole(h) /\ h.netcon = None /\ ActiveIn(h) = {}
    BY <1>1, DisconnectCommandWhole DEF CL_Disconnect_f, IInv, HostInv
  <2> HIDE DEF h
  <2>3. Whole(a) /\ a.netcon = None /\ ActiveIn(a) = {}
    BY <2>2, ActiveIsApart
  <2> HIDE DEF a
  <2>4. ~Dedicated => ActiveIn(Loop_Connect(a)) = {}
    BY <2>3, LoopConnectWhole
  <2>5. ActiveIn(host') = {}
    BY <2>1, <2>2, <2>3, <2>4
  <2> QED
    BY <2>5 DEF ActiveIn
<1>2. IInv => [host.active /\ Host_Map_f =>
                 \A i \in Slot : ~host'.clients[i].active]_vars
  BY <1>1
<1> QED
  BY <1>2, IInvAlways, PTL DEF Spec
==============================================================================
