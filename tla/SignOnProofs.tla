---------------------------- MODULE SignOnProofs ----------------------------
(***************************************************************************)
(* The proof that a client signs on as the server thinks it does, for any  *)
(* number of levels and of things said: in an orderly run on every level,  *)
(* and whatever happens to packets on the first one.                       *)
(*                                                                         *)
(* The invariant follows the one thing that moves through a sign-on: stage *)
(* k is in the slot's message, on its way to the client, being parsed,     *)
(* answered by the client's message, or the answer is on its way; then the *)
(* client plays, and in an orderly run it leaves with the "reconnect" of   *)
(* the next level, which is on its way, parsed, in the command buffer and  *)
(* done.                                                                   *)
(***************************************************************************)
EXTENDS SignOn, Integers, Loops, TLAPS

End == {"client", "server"}
Name == {"serverinfo", "signonnum", "reconnect", "print", "update", "nop",
         "say", "prespawn", "spawn", "begin"}
Command == [name : Name, n : Nat]
Body == Seq(Command)
\* An acknowledgement carries nothing, a datagram a nop or an update.
Packet ==
  {p \in [type : {"ACK", "DATA", "UNRELIABLE"}, body : Body] :
     /\ p.type = "ACK" => p.body = <<>>
     /\ p.type = "UNRELIABLE" =>
          Len(p.body) = 1 /\ p.body[1].name \in {"nop", "update"}}

-----------------------------------------------------------------------------
(* Queues of packets, and what is in them: T and U are sets of packets.    *)

Has(q, T) == \E i \in DOMAIN q : q[i] \in T
Once(q, T) == \A i, j \in DOMAIN q : q[i] \in T /\ q[j] \in T => i = j
Before(q, T, U) == \A i, j \in DOMAIN q : q[i] \in T /\ q[j] \in U => i < j

DataPacket == {p \in Packet : p.type = "DATA"}
AckPacket == {p \in Packet : p.type = "ACK"}
OtherPacket == Packet \ DataPacket
\* Datagrams other than a nop.
UpdatePacket ==
  {p \in Packet : p.type = "UNRELIABLE"
                  /\ ~(Len(p.body) = 1 /\ p.body[1] = Nop)}

\* What e has sent is on its way, or its acknowledgement is, or neither.
Channel(e) ==
  /\ Once(net[Peer(e)], DataPacket) /\ Once(net[e], AckPacket)
  /\ canSend[e] <=>
       ~Has(net[Peer(e)], DataPacket) /\ ~Has(net[e], AckPacket)
  /\ ~(Has(net[Peer(e)], DataPacket) /\ Has(net[e], AckPacket))

-----------------------------------------------------------------------------
(* Messages.                                                               *)

\* The message of the server that begins stage k.
IsStage(m, k) ==
  IF k = 1
  THEN Len(m) = 2 /\ m[1] = Cmd("serverinfo", level) /\ m[2] = Signonnum(1)
  ELSE Len(m) = 1 /\ m[1] = Signonnum(k)

\* The rest of that of the first stage when the level is loaded.
IsLoaded(m) == Len(m) = 1 /\ m[1] = Signonnum(1)

IsReconnect(m) == Len(m) = 1 /\ m[1] = Cmd("reconnect", 0)
AreNops(m) == \A i \in DOMAIN m : m[i].name = "nop"
ArePrints(m) == \A i \in DOMAIN m : m[i].name = "print"
AreOfGame(m) == \A i \in DOMAIN m : m[i].name \in {"nop", "print", "update"}

\* What a client sends besides its answers.
IsTalk(c) == c.name = "nop" \/ (c.name = "say" /\ setting.says > 0)
AreTalk(m) == \A i \in DOMAIN m : IsTalk(m[i])
\* The client's answer to stage k is among it, once.
IsAnswer(m, k) ==
  \E a \in DOMAIN m : /\ m[a] = CL_SignonReply(k)
                      /\ \A i \in DOMAIN m : i # a => IsTalk(m[i])

\* The reliable packets that are not talk, ...
NoTalk == {p \in DataPacket : ~AreTalk(p.body)}
NoAnswer(k) == {p \in DataPacket : ~IsAnswer(p.body, k)}
NoStage(k) == {p \in DataPacket : ~IsStage(p.body, k)}
NoPrint == {p \in DataPacket : ~ArePrints(p.body)}
NoReconnect == {p \in DataPacket : ~IsReconnect(p.body)}

-----------------------------------------------------------------------------
(* The invariant.                                                          *)

\* In an orderly run, the client sends nothing, ...
Silent == cls.message = <<>> /\ ~Has(net["server"], DataPacket)

\* ... or is about to send the nop that tells the server its address.
Fresh ==
  /\ host_client.net_wait
  /\ ~Has(net["server"], OtherPacket)
  /\ Has(net["server"], DataPacket) => cls.message = <<>>

\* The client is loading the level, or about to, and has sent nothing yet.
BeforeKeepalive ==
  loading = "yes" \/ (loading = "no" /\ ~IsLoaded(parsing))

Place == {"message", "sent", "parsing", "answer", "answered"}

\* Stage k is at place w: the server's side, the client's, and what is on
\* its way.
ServerAt(k, w) ==
  /\ phase \in {"commands", "clients"}
  /\ ~host_client.spawned
  /\ IF w = "message"
     THEN IsStage(host_client.message, k) /\ host_client.sendsignon
     ELSE host_client.message = <<>>

ClientAt(k, w) ==
  /\ ~cls.reconnect
  /\ cls.signon = IF w \in {"answer", "answered"} THEN k ELSE k - 1
  /\ \/ k = 1 /\ w \in {"message", "sent"}
     \/ k = 1 /\ w = "parsing" /\ ~IsLoaded(parsing) /\ loading = "no"
     \/ cls.level = level
  /\ loading # "no" => k = 1 /\ w = "parsing" /\ IsLoaded(parsing)
  /\ IF w = "parsing"
     THEN IsStage(parsing, k) \/ (k = 1 /\ IsLoaded(parsing))
     ELSE AreNops(parsing)
  /\ IF w = "answer" THEN IsAnswer(cls.message, k) ELSE AreTalk(cls.message)

NetAt(k, w) ==
  /\ ~Has(net["client"], UpdatePacket)
  /\ IF w = "sent"
     THEN Has(net["client"], DataPacket) /\ ~Has(net["client"], NoStage(k))
     ELSE ~Has(net["client"], DataPacket)
  /\ IF w = "answered"
     THEN Has(net["server"], DataPacket) /\ ~Has(net["server"], NoAnswer(k))
     ELSE ~Has(net["server"], NoTalk)

AtStage(k, w) == ServerAt(k, w) /\ ClientAt(k, w) /\ NetAt(k, w)

\* In an orderly run the client is silent but for its first nop, its
\* keepalive and its answers.
OrderlyAtStage(k, w) ==
  /\ w = "message" => Silent \/ (k = 1 /\ Fresh)
  /\ w = "sent" => Silent
  /\ w = "parsing" =>
       /\ cls.message = <<>>
       /\ \/ k = 1 /\ ~BeforeKeepalive
          \/ Silent /\ ~Has(net["client"], AckPacket)
  /\ w = "answered" => cls.message = <<>>

\* The slot of a player in the game, who gets nothing but prints.
InGame(s) ==
  /\ s.spawned /\ ArePrints(s.message)
  /\ setting.says = 0 => s.message = <<>>

\* The client is in the game.
ServerPlays == phase # "waiting" /\ InGame(host_client)
ClientPlays ==
  /\ ~cls.reconnect /\ cls.level = level /\ cls.signon \in {SIGNONS - 1, SIGNONS}
  /\ loading = "no" /\ AreOfGame(parsing) /\ AreTalk(cls.message)
NetPlays == ~Has(net["client"], NoPrint) /\ ~Has(net["server"], NoTalk)

Playing == ServerPlays /\ ClientPlays /\ NetPlays

OrderlyPlaying == Silent /\ ~Has(net["client"], DataPacket)

\* It is told to reconnect, and "reconnect" is at w; nothing comes behind it.
Leaving(w) ==
  /\ phase = "waiting"
  /\ host_client.message = <<>>
  /\ loading = "no" /\ Silent
  /\ IF w = "sent"
     THEN /\ Has(net["client"], DataPacket) /\ ~Has(net["client"], NoReconnect)
          /\ Before(net["client"], OtherPacket, DataPacket)
          /\ AreOfGame(parsing) /\ cls.signon # 0
     ELSE /\ ~Has(net["client"], Packet)
          /\ IF w = "parsing" THEN IsReconnect(parsing) ELSE parsing = <<>>
  /\ cls.reconnect <=> w = "command"
  /\ w = "left" => cls.signon = 0

\* What the client may read later than the server's message is a nop.
InOrder ==
  Before(net["client"], AckPacket \cup UpdatePacket, DataPacket)

SignsOn ==
  \/ \E k \in 1..3, w \in Place :
       AtStage(k, w) /\ (Orderly => OrderlyAtStage(k, w))
  \/ Playing /\ (Orderly => OrderlyPlaying)
  \/ Orderly /\ \E w \in {"sent", "parsing", "command", "left"} : Leaving(w)

PhaseOK ==
  /\ draining => phase \in {"sending", "waiting"}
  /\ phase \in {"sending", "waiting"} => level < setting.levels

NetTypeOK ==
  /\ net \in [End -> Seq(Packet)]
  /\ \A e \in End : \A i \in DOMAIN net[e] :
       net[e][i].body \in Seq(IF e = "client" THEN ServerCmd ELSE ClientCmd)

SignOnInv ==
  /\ TypeOK /\ NetTypeOK /\ PhaseOK
  /\ \A e \in End : Channel(e)
  /\ NoFailure
  /\ Orderly \/ OnFirstLevel => SignsOn
  /\ Orderly => InOrder

-----------------------------------------------------------------------------
(* Lemmas about queues.                                                    *)

LEMMA WithoutIs ==
  ASSUME NEW S, NEW q \in Seq(S), NEW i \in DOMAIN q
  PROVE  LET r == Without(q, i) IN
         /\ r \in Seq(S) /\ Len(r) = Len(q) - 1
         /\ \A j \in DOMAIN r :
              LET k == IF j < i THEN j ELSE j + 1 IN
              k \in DOMAIN q /\ k # i /\ r[j] = q[k]
         /\ \A k \in DOMAIN q :
              LET j == IF k < i THEN k ELSE k - 1 IN
              k # i => j \in DOMAIN r /\ r[j] = q[k]
<1> DEFINE r == Without(q, i)
<1>1. Len(q) \in Nat /\ DOMAIN q = 1..Len(q) /\ i \in 1..Len(q)
  OBVIOUS
<1>2. r = [j \in 1..(Len(q) - 1) |-> IF j < i THEN q[j] ELSE q[j + 1]]
  BY DEF Without
<1>3. ASSUME NEW j \in 1..(Len(q) - 1)
      PROVE  r[j] \in S
  BY <1>1, <1>2
<1>4. r \in Seq(S) /\ Len(r) = Len(q) - 1 /\ DOMAIN r = 1..(Len(q) - 1)
  BY <1>1, <1>2, <1>3
<1> QED
  BY <1>1, <1>2, <1>4

LEMMA WithoutKeeps ==
  ASSUME NEW S, NEW q \in Seq(S), NEW i \in DOMAIN q, NEW T
  PROVE  LET r == Without(q, i) IN
         /\ Has(r, T) => Has(q, T)
         /\ q[i] \notin T => (Has(q, T) => Has(r, T))
         /\ Once(q, T) => Once(r, T)
         /\ Once(q, T) /\ q[i] \in T => ~Has(r, T)
<1> DEFINE r == Without(q, i)
           Old(j) == IF j < i THEN j ELSE j + 1
           New(k) == IF k < i THEN k ELSE k - 1
<1>1. /\ \A j \in DOMAIN r : Old(j) \in DOMAIN q /\ Old(j) # i
                             /\ r[j] = q[Old(j)]
      /\ \A k \in DOMAIN q : k # i => New(k) \in DOMAIN r /\ r[New(k)] = q[k]
  BY WithoutIs
<1>2. \A j, k \in DOMAIN r : Old(j) = Old(k) => j = k
  <2>1. r \in Seq(S) /\ DOMAIN r \subseteq Int /\ i \in Int
    BY WithoutIs
  <2> QED
    BY <2>1
<1> HIDE DEF r, Old, New
<1>3. Has(r, T) => Has(q, T)
  BY <1>1 DEF Has
<1>4. q[i] \notin T => (Has(q, T) => Has(r, T))
  BY <1>1 DEF Has
<1>5. Once(q, T) => Once(r, T)
  BY <1>1, <1>2 DEF Once
<1>6. Once(q, T) /\ q[i] \in T => ~Has(r, T)
  BY <1>1 DEF Once, Has
<1> QED
  BY <1>3, <1>4, <1>5, <1>6 DEF r

LEMMA WithoutInOrder ==
  ASSUME NEW S, NEW q \in Seq(S), NEW i \in DOMAIN q, NEW T, NEW U,
         Before(q, T, U)
  PROVE  Before(Without(q, i), T, U)
<1> DEFINE r == Without(q, i)
<1>1. /\ r \in Seq(S) /\ i \in Int /\ DOMAIN r \subseteq Int
      /\ \A j \in DOMAIN r :
              LET k == IF j < i THEN j ELSE j + 1 IN
              k \in DOMAIN q /\ k # i /\ r[j] = q[k]
  BY WithoutIs
<1> HIDE DEF r
<1>2. ASSUME NEW j \in DOMAIN r, NEW k \in DOMAIN r, r[j] \in T, r[k] \in U
      PROVE  j < k
  <2> DEFINE oj == IF j < i THEN j ELSE j + 1
             ok == IF k < i THEN k ELSE k + 1
  <2>1. /\ oj \in DOMAIN q /\ ok \in DOMAIN q
        /\ q[oj] \in T /\ q[ok] \in U
    BY <1>1, <1>2
  <2>2. oj < ok
    BY <2>1 DEF Before
  <2>3. j \in Int /\ k \in Int
    BY <1>1
  <2> QED
    BY <1>1, <2>2, <2>3
<1> QED
  BY <1>2 DEF Before, r

\* What is read first has nothing before it.
LEMMA FirstInOrder ==
  ASSUME NEW S, NEW q \in Seq(S), 1 \in DOMAIN q, NEW T, NEW U,
         Before(q, T, U), q[1] \in U
  PROVE  ~Has(q, T)
BY DEF Before, Has

LEMMA AppendKeeps ==
  ASSUME NEW S, NEW q \in Seq(S), NEW p \in S, NEW T
  PROVE  LET r == Append(q, p) IN
         /\ r \in Seq(S)
         /\ Has(r, T) <=> Has(q, T) \/ p \in T
         /\ Once(q, T) /\ (p \in T => ~Has(q, T)) => Once(r, T)
<1> DEFINE r == Append(q, p)
<1>1. /\ r \in Seq(S) /\ Len(r) = Len(q) + 1 /\ r[Len(q) + 1] = p
      /\ \A i \in 1..Len(q) : r[i] = q[i]
  OBVIOUS
<1>2. DOMAIN q = 1..Len(q) /\ DOMAIN r = 1..Len(r) /\ Len(q) \in Nat
  BY <1>1
<1> HIDE DEF r
<1>3. Has(r, T) <=> Has(q, T) \/ p \in T
  BY <1>1, <1>2 DEF Has
<1>4. Once(q, T) /\ (p \in T => ~Has(q, T)) => Once(r, T)
  BY <1>1, <1>2 DEF Once, Has
<1> QED
  BY <1>1, <1>3, <1>4 DEF r

LEMMA AppendInOrder ==
  ASSUME NEW S, NEW q \in Seq(S), NEW p \in S, NEW T, NEW U,
         Before(q, T, U), p \in T => ~Has(q, U) /\ p \notin U
  PROVE  Before(Append(q, p), T, U)
<1> DEFINE r == Append(q, p)
<1>1. /\ r \in Seq(S) /\ Len(r) = Len(q) + 1 /\ r[Len(q) + 1] = p
      /\ \A i \in 1..Len(q) : r[i] = q[i]
  OBVIOUS
<1>2. DOMAIN q = 1..Len(q) /\ DOMAIN r = 1..Len(r) /\ Len(q) \in Nat
  BY <1>1
<1> HIDE DEF r
<1> QED
  <2> SUFFICES ASSUME NEW i \in DOMAIN r, NEW j \in DOMAIN r,
                      r[i] \in T, r[j] \in U
               PROVE  i < j
    BY DEF Before, r
  <2>1. CASE i \in 1..Len(q)
    BY <1>1, <1>2, <2>1 DEF Before
  <2>2. CASE i = Len(q) + 1
    BY <1>1, <1>2, <2>2 DEF Has
  <2> QED
    BY <1>1, <1>2, <2>1, <2>2

-----------------------------------------------------------------------------
(* The channel.                                                            *)

CanSendOK == canSend \in [End -> BOOLEAN]

LEMMA PacketKinds ==
  /\ Ack \in AckPacket /\ Ack \notin DataPacket /\ Ack \notin UpdatePacket
  /\ \A b \in Body : /\ Data(b) \in DataPacket /\ Data(b) \notin AckPacket
                     /\ Data(b) \notin UpdatePacket
                     /\ Data(b).body = b
  /\ \A p \in AckPacket : p \notin DataPacket
<1>1. <<>> \in Body
  BY DEF Body
<1> QED
  BY <1>1 DEF Packet, AckPacket, DataPacket, UpdatePacket, Ack, Data

LEMMA CmdsAreCommands ==
  ASSUME setting \in Settings
  PROVE  /\ ServerCmd \subseteq Command /\ ClientCmd \subseteq Command
         /\ setting.levels \in Nat \ {0} /\ setting.says \in Nat
<1>1. setting.levels \in Nat \ {0} /\ setting.says \in Nat
  BY SettingsAssumption
<1>2. ASSUME NEW n \in Nat, NEW c \in Name
      PROVE  Cmd(c, n) \in Command
  BY DEF Command, Cmd
<1>3. ASSUME NEW c \in ServerCmd
      PROVE  \E name \in Name, n \in Nat : c = Cmd(name, n)
  BY <1>1 DEF ServerCmd, Signonnum, Nop, Name
<1>4. ASSUME NEW c \in ClientCmd
      PROVE  \E name \in Name, n \in Nat : c = Cmd(name, n)
  BY DEF ClientCmd, Name
<1> QED
  BY <1>1, <1>2, <1>3, <1>4

LEMMA PeerIs ==
  ASSUME NEW e \in End
  PROVE  Peer(e) \in End /\ Peer(e) # e /\ Peer(Peer(e)) = e
         /\ End = {e, Peer(e)}
BY DEF End, Peer

LEMMA TakeIs ==
  ASSUME NetTypeOK, CanSendOK, NEW e \in End, NEW i \in DOMAIN net[e],
         Take(e, i)
  PROVE  LET p == net[e][i]
             f == Peer(e)
         IN /\ net[e] \in Seq(Packet) /\ net[f] \in Seq(Packet)
            /\ p \in Packet
            /\ net'[e] = Without(net[e], i)
            /\ net'[f] = IF p.type = "DATA" THEN Append(net[f], Ack)
                         ELSE net[f]
            /\ canSend'[e] = (canSend[e] \/ p.type = "ACK")
            /\ canSend'[f] = canSend[f]
            /\ net' \in [End -> Seq(Packet)] /\ CanSendOK'
<1> DEFINE p == net[e][i]
           f == Peer(e)
           rest == [net EXCEPT ![e] = Without(net[e], i)]
<1>1. f \in End /\ f # e /\ End = {e, f}
  BY PeerIs
<1>2. net \in [End -> Seq(Packet)] /\ net[e] \in Seq(Packet)
      /\ net[f] \in Seq(Packet)
  BY <1>1 DEF NetTypeOK
<1>3. p \in Packet
  BY <1>2
<1>4. Without(net[e], i) \in Seq(Packet)
  BY <1>2, WithoutIs
<1>5. Ack \in Packet
  BY PacketKinds DEF AckPacket
<1>6. Append(net[f], Ack) \in Seq(Packet)
  BY <1>2, <1>5
<1>7. /\ net' = (IF p.type = "DATA"
                 THEN [rest EXCEPT ![f] = Append(rest[f], Ack)] ELSE rest)
      /\ canSend' = [canSend EXCEPT ![e] = canSend[e] \/ p.type = "ACK"]
  BY DEF Take
<1>8. rest \in [End -> Seq(Packet)] /\ rest[e] = Without(net[e], i)
      /\ rest[f] = net[f]
  BY <1>1, <1>2, <1>4
<1>9. /\ net' \in [End -> Seq(Packet)] /\ net'[e] = Without(net[e], i)
      /\ net'[f] = IF p.type = "DATA" THEN Append(net[f], Ack) ELSE net[f]
  <2> HIDE DEF rest
  <2> QED
    BY <1>1, <1>6, <1>7, <1>8
<1>10. /\ canSend' \in [End -> BOOLEAN] /\ canSend'[f] = canSend[f]
       /\ canSend'[e] = (canSend[e] \/ p.type = "ACK")
  BY <1>1, <1>7 DEF CanSendOK
<1> QED
  BY <1>2, <1>3, <1>9, <1>10 DEF CanSendOK

\* Packets of other commands than C.
Misfit(C) == {p \in Packet : p.body \notin Seq(C)}
CmdsFor(e) == IF e = "client" THEN ServerCmd ELSE ClientCmd

LEMMA FitsIs ==
  ASSUME NEW C, NEW q \in Seq(Packet)
  PROVE  (\A i \in DOMAIN q : q[i].body \in Seq(C)) <=> ~Has(q, Misfit(C))
<1>1. \A i \in DOMAIN q : q[i] \in Packet
  OBVIOUS
<1> QED
  BY <1>1 DEF Has, Misfit

LEMMA TakeTypes ==
  ASSUME NetTypeOK, CanSendOK, NEW e \in End, NEW i \in DOMAIN net[e],
         Take(e, i), setting' = setting
  PROVE  NetTypeOK' /\ CanSendOK'
<1> DEFINE f == Peer(e)
           Fits(q, C) == \A j \in DOMAIN q : q[j].body \in Seq(C)
<1>1. f \in End /\ f # e /\ End = {e, f}
  BY PeerIs
<1>2. /\ net[e] \in Seq(Packet) /\ net[f] \in Seq(Packet)
      /\ net'[e] = Without(net[e], i)
      /\ net'[f] = Append(net[f], Ack) \/ net'[f] = net[f]
      /\ net' \in [End -> Seq(Packet)] /\ CanSendOK'
  BY TakeIs
<1>3. Fits(net[e], CmdsFor(e)) /\ Fits(net[f], CmdsFor(f))
  BY <1>1 DEF NetTypeOK, CmdsFor
<1>4. Ack \in Packet /\ Ack \notin Misfit(CmdsFor(f))
  <2>1. Ack.body = <<>>
    BY DEF Ack
  <2>2. Ack \in Packet
    BY PacketKinds DEF AckPacket
  <2>3. <<>> \in Seq(CmdsFor(f))
    OBVIOUS
  <2> QED
    BY <2>1, <2>2, <2>3 DEF Misfit
<1>5. ~Has(net[e], Misfit(CmdsFor(e))) /\ ~Has(net[f], Misfit(CmdsFor(f)))
  BY <1>2, <1>3, FitsIs
<1>6. ~Has(net'[e], Misfit(CmdsFor(e)))
  BY <1>2, <1>5, WithoutKeeps
<1>7. ~Has(net'[f], Misfit(CmdsFor(f)))
  <2>1. ~Has(Append(net[f], Ack), Misfit(CmdsFor(f)))
    BY <1>2, <1>4, <1>5, AppendKeeps
  <2> QED
    BY <1>2, <1>5, <2>1
<1>8. net'[e] \in Seq(Packet) /\ net'[f] \in Seq(Packet)
  BY <1>1, <1>2
<1>9. Fits(net'[e], CmdsFor(e)) /\ Fits(net'[f], CmdsFor(f))
  BY <1>6, <1>7, <1>8, FitsIs
<1>10. ServerCmd' = ServerCmd /\ ClientCmd' = ClientCmd
  BY DEF ServerCmd, ClientCmd
<1> QED
  BY <1>1, <1>2, <1>9, <1>10 DEF NetTypeOK, CmdsFor

LEMMA TakeChannel ==
  ASSUME NetTypeOK, CanSendOK, NEW e \in End, NEW i \in DOMAIN net[e],
         Take(e, i), \A d \in End : Channel(d)
  PROVE  \A d \in End : Channel(d)'
<1> DEFINE f == Peer(e)
           p == net[e][i]
<1>1. f \in End /\ f # e /\ End = {e, f} /\ Peer(f) = e
  BY PeerIs
<1>2. /\ net[e] \in Seq(Packet) /\ net[f] \in Seq(Packet) /\ p \in Packet
      /\ net'[e] = Without(net[e], i)
      /\ net'[f] = IF p.type = "DATA" THEN Append(net[f], Ack) ELSE net[f]
      /\ canSend'[e] = (canSend[e] \/ p.type = "ACK")
      /\ canSend'[f] = canSend[f]
  BY TakeIs
<1>3. /\ p \in DataPacket <=> p.type = "DATA"
      /\ p \in AckPacket <=> p.type = "ACK"
      /\ ~(p \in DataPacket /\ p \in AckPacket)
      /\ p \in DataPacket => Has(net[e], DataPacket)
      /\ p \in AckPacket => Has(net[e], AckPacket)
  BY <1>2 DEF DataPacket, AckPacket, Has
<1>4. Channel(e) /\ Channel(f)
  BY <1>1
<1>5. /\ Once(net[e], DataPacket) => Once(net'[e], DataPacket)
      /\ Once(net[e], AckPacket) => Once(net'[e], AckPacket)
      /\ Has(net'[e], DataPacket) <=>
           Has(net[e], DataPacket) /\ p \notin DataPacket
      /\ Has(net'[e], AckPacket) <=>
           Has(net[e], AckPacket) /\ p \notin AckPacket
  BY <1>1, <1>2, <1>4, WithoutKeeps DEF Channel
<1>6. /\ Once(net[f], DataPacket) => Once(net'[f], DataPacket)
      /\ Has(net'[f], DataPacket) <=> Has(net[f], DataPacket)
      /\ Has(net'[f], AckPacket) <=> Has(net[f], AckPacket) \/ p \in DataPacket
      /\ Once(net[f], AckPacket) /\ (p \in DataPacket => ~Has(net[f], AckPacket))
           => Once(net'[f], AckPacket)
  <2>1. CASE p.type # "DATA"
    BY <1>2, <1>3, <2>1
  <2>2. CASE p.type = "DATA"
    <3>1. net'[f] = Append(net[f], Ack) /\ Ack \in Packet
          /\ Ack \in AckPacket /\ Ack \notin DataPacket
      BY <1>2, <2>2, PacketKinds DEF AckPacket
    <3> QED
      BY <1>2, <1>3, <2>2, <3>1, AppendKeeps
  <2> QED
    BY <2>1, <2>2
<1>7. Channel(e)'
  BY <1>1, <1>2, <1>3, <1>4, <1>5, <1>6 DEF Channel
<1>8. Channel(f)'
  BY <1>1, <1>2, <1>3, <1>4, <1>5, <1>6 DEF Channel
<1> QED
  BY <1>1, <1>7, <1>8

\* e puts a reliable message behind q, which is the queue to its peer, or
\* that with one more datagram.
LEMMA SentChannel ==
  ASSUME NetTypeOK, CanSendOK, \A d \in End : Channel(d),
         NEW e \in End, canSend[e], NEW body \in Body,
         NEW q \in Seq(Packet),
         \A T \in {DataPacket, AckPacket} :
           /\ Has(q, T) <=> Has(net[Peer(e)], T)
           /\ Once(net[Peer(e)], T) => Once(q, T),
         net' = [net EXCEPT ![Peer(e)] = Append(q, Data(body))],
         canSend' = [canSend EXCEPT ![e] = FALSE]
  PROVE  \A d \in End : Channel(d)'
<1> DEFINE f == Peer(e)
           p == Data(body)
<1>1. f \in End /\ f # e /\ End = {e, f} /\ Peer(f) = e
  BY PeerIs
<1>2. net \in [End -> Seq(Packet)] /\ canSend \in [End -> BOOLEAN]
  BY DEF NetTypeOK, CanSendOK
<1>3. /\ net'[e] = net[e] /\ net'[f] = Append(q, p)
      /\ canSend'[e] = FALSE /\ canSend'[f] = canSend[f]
  BY <1>1, <1>2
<1>4. Channel(e) /\ Channel(f)
  BY <1>1
<1>5. p \in DataPacket /\ p \notin AckPacket /\ p \in Packet
  BY PacketKinds DEF DataPacket
<1>6. /\ Has(q, DataPacket) <=> Has(net[f], DataPacket)
      /\ Has(q, AckPacket) <=> Has(net[f], AckPacket)
      /\ Once(net[f], DataPacket) => Once(q, DataPacket)
      /\ Once(net[f], AckPacket) => Once(q, AckPacket)
  OBVIOUS
<1>7. ~Has(net[f], DataPacket) /\ ~Has(net[e], AckPacket)
  BY <1>4 DEF Channel
<1> HIDE DEF p, f
<1>8. /\ Has(net'[f], DataPacket)
      /\ Once(q, DataPacket) => Once(net'[f], DataPacket)
      /\ Has(net'[f], AckPacket) <=> Has(net[f], AckPacket)
      /\ Once(q, AckPacket) => Once(net'[f], AckPacket)
  <2> DEFINE r == Append(q, p)
  <2>1. p \in Packet /\ net'[f] = r
    BY <1>3, <1>5
  <2>2. \A T : /\ Has(r, T) <=> Has(q, T) \/ p \in T
               /\ Once(q, T) /\ (p \in T => ~Has(q, T)) => Once(r, T)
    BY <2>1, AppendKeeps
  <2> HIDE DEF r
  <2> QED
    BY <1>5, <1>6, <1>7, <2>1, <2>2
<1>9. Channel(e)'
  BY <1>1, <1>3, <1>4, <1>6, <1>7, <1>8 DEF Channel, f
<1>10. Channel(f)'
  BY <1>1, <1>3, <1>4, <1>6, <1>7, <1>8 DEF Channel, f
<1> QED
  BY <1>1, <1>9, <1>10

LEMMA SendIs ==
  ASSUME NetTypeOK, CanSendOK, NEW e \in End, NEW body \in Body, Send(e, body)
  PROVE  LET f == Peer(e) IN
         /\ net[e] \in Seq(Packet) /\ net[f] \in Seq(Packet)
         /\ Data(body) \in Packet
         /\ net'[e] = net[e] /\ net'[f] = Append(net[f], Data(body))
         /\ net' \in [End -> Seq(Packet)] /\ CanSendOK'
         /\ canSend'[e] = FALSE /\ canSend'[f] = canSend[f]
<1> DEFINE f == Peer(e)
           p == Data(body)
<1>1. f \in End /\ f # e /\ End = {e, f} /\ Peer(f) = e
  BY PeerIs
<1>2. net \in [End -> Seq(Packet)] /\ canSend \in [End -> BOOLEAN]
  BY DEF NetTypeOK, CanSendOK
<1>3. p \in Packet
  BY PacketKinds DEF DataPacket
<1>4. net' = [net EXCEPT ![f] = Append(net[f], p)]
      /\ canSend' = [canSend EXCEPT ![e] = FALSE]
  BY DEF Send
<1> HIDE DEF p, f
<1>5. Append(net[f], p) \in Seq(Packet)
  BY <1>1, <1>2, <1>3
<1> QED
  BY <1>1, <1>2, <1>3, <1>4, <1>5 DEF CanSendOK, p, f

LEMMA SendChannel ==
  ASSUME NetTypeOK, CanSendOK, \A d \in End : Channel(d),
         NEW e \in End, canSend[e], NEW body \in Body, Send(e, body)
  PROVE  \A d \in End : Channel(d)'
<1>1. net[Peer(e)] \in Seq(Packet)
  BY PeerIs DEF NetTypeOK
<1>2. net' = [net EXCEPT ![Peer(e)] = Append(net[Peer(e)], Data(body))]
      /\ canSend' = [canSend EXCEPT ![e] = FALSE]
  BY DEF Send
<1> QED
  BY <1>1, <1>2, SentChannel

\* A queue with one more packet fits when the packet does.
LEMMA AppendTypes ==
  ASSUME NetTypeOK, NEW e \in End, NEW p \in Packet,
         p.body \in Seq(CmdsFor(e))
  PROVE  LET q == Append(net[e], p) IN
         q \in Seq(Packet)
         /\ \A i \in DOMAIN q : q[i].body \in Seq(CmdsFor(e))
<1> DEFINE q == Append(net[e], p)
<1>1. net[e] \in Seq(Packet)
      /\ \A i \in DOMAIN net[e] : net[e][i].body \in Seq(CmdsFor(e))
  BY DEF NetTypeOK, CmdsFor
<1>2. ~Has(net[e], Misfit(CmdsFor(e))) /\ p \notin Misfit(CmdsFor(e))
  BY <1>1, FitsIs DEF Misfit
<1>3. q \in Seq(Packet) /\ ~Has(q, Misfit(CmdsFor(e)))
  BY <1>1, <1>2, AppendKeeps
<1> HIDE DEF q
<1>4. \A i \in DOMAIN q : q[i].body \in Seq(CmdsFor(e))
  BY <1>3, FitsIs
<1> QED
  BY <1>3, <1>4 DEF q

LEMMA SendTypes ==
  ASSUME NetTypeOK, CanSendOK, setting' = setting,
         NEW e \in End, NEW body \in Seq(CmdsFor(Peer(e))), body \in Body,
         Send(e, body)
  PROVE  NetTypeOK' /\ CanSendOK'
<1> DEFINE f == Peer(e)
<1>1. f \in End /\ f # e /\ End = {e, f} /\ Peer(f) = e
  BY PeerIs
<1>2. /\ Data(body) \in Packet
      /\ net'[e] = net[e] /\ net'[f] = Append(net[f], Data(body))
      /\ net' \in [End -> Seq(Packet)] /\ CanSendOK'
  BY SendIs
<1>3. Data(body).body = body
  BY DEF Data
<1>4. \A i \in DOMAIN net'[f] : net'[f][i].body \in Seq(CmdsFor(f))
  BY <1>1, <1>2, <1>3, AppendTypes
<1>5. \A i \in DOMAIN net'[e] : net'[e][i].body \in Seq(CmdsFor(e))
  BY <1>1, <1>2 DEF NetTypeOK, CmdsFor
<1>6. ServerCmd' = ServerCmd /\ ClientCmd' = ClientCmd
  BY DEF ServerCmd, ClientCmd
<1> QED
  BY <1>1, <1>2, <1>4, <1>5, <1>6 DEF NetTypeOK, CmdsFor

-----------------------------------------------------------------------------
(* The server's slot.                                                      *)

SlotType == [spawned : BOOLEAN, sendsignon : BOOLEAN,
             message : Seq(ServerCmd), net_wait : BOOLEAN]

\* Every stage has its command, and there are prints.
LEMMA StageCmds ==
  /\ \A k \in 1..3 : Signonnum(k) \in ServerCmd
  /\ Cmd("print", 0) \in ServerCmd /\ Cmd("reconnect", 0) \in ServerCmd
  /\ Cmd("update", 0) \in ServerCmd /\ Nop \in ServerCmd
  /\ \A l \in 1..setting.levels : Cmd("serverinfo", l) \in ServerCmd
  /\ Nop \in ClientCmd /\ Cmd("say", 0) \in ClientCmd
  /\ \A k \in 1..3 : CL_SignonReply(k) \in ClientCmd
<1>1. ASSUME NEW k \in 1..3
      PROVE  CL_SignonReply(k) \in ClientCmd
  <2>1. k = 1 \/ k = 2 \/ k = 3
    OBVIOUS
  <2> QED
    BY <2>1 DEF CL_SignonReply, ClientCmd
<1> QED
  BY <1>1 DEF ServerCmd, ClientCmd, Nop

LEMMA CmdIs ==
  ASSUME NEW name, NEW n
  PROVE  Cmd(name, n).name = name /\ Cmd(name, n).n = n
BY DEF Cmd

LEMMA ExecuteIs ==
  ASSUME NEW s, NEW c
  PROVE  /\ c.name = "prespawn" => Execute(s, c) = Host_PreSpawn_f(s)
         /\ c.name = "spawn" => Execute(s, c) = Host_Spawn_f(s)
         /\ c.name = "begin" => Execute(s, c) = Host_Begin_f(s)
         /\ c.name = "say" => Execute(s, c) = Host_Say_f(s)
         /\ c.name = "nop" => Execute(s, c) = s
BY DEF Execute

LEMMA ExecuteTypes ==
  ASSUME NEW s \in SlotType, NEW c \in ClientCmd
  PROVE  Execute(s, c) \in SlotType
<1>1. c.name \in {"nop", "say", "prespawn", "spawn", "begin"}
  BY DEF ClientCmd, Cmd
<1>2. ASSUME NEW d \in ServerCmd
      PROVE  [s EXCEPT !.message = Append(s.message, d), !.sendsignon = TRUE]
             \in SlotType
  <2>1. s.message \in Seq(ServerCmd)
    BY DEF SlotType
  <2>2. Append(s.message, d) \in Seq(ServerCmd)
    BY <2>1
  <2> QED
    BY <2>2 DEF SlotType
<1>3. Host_PreSpawn_f(s) \in SlotType /\ Host_Spawn_f(s) \in SlotType
  <2>1. Signonnum(2) \in ServerCmd /\ Signonnum(3) \in ServerCmd
    BY StageCmds
  <2>2. /\ [s EXCEPT !.message = Append(s.message, Signonnum(2)),
                     !.sendsignon = TRUE] \in SlotType
        /\ [s EXCEPT !.message = <<Signonnum(3)>>,
                     !.sendsignon = TRUE] \in SlotType
    <3>1. <<Signonnum(3)>> \in Seq(ServerCmd)
      BY <2>1
    <3> QED
      BY <1>2, <2>1, <3>1 DEF SlotType
  <2> QED
    BY <2>2 DEF Host_PreSpawn_f, Host_Spawn_f
<1>4. Host_Begin_f(s) \in SlotType
  BY DEF Host_Begin_f, SlotType
<1>5. Host_Say_f(s) \in SlotType
  <2>1. s.message \in Seq(ServerCmd)
    BY DEF SlotType
  <2>2. Append(s.message, Cmd("print", 0)) \in Seq(ServerCmd)
    BY <2>1, StageCmds
  <2> QED
    BY <2>2 DEF Host_Say_f, SlotType
<1> QED
  BY <1>1, <1>3, <1>4, <1>5, ExecuteIs

\* The loop of SV_ReadClientMessage over the commands of a message.
LEMMA ExecuteAllIs ==
  ASSUME NEW s \in SlotType, NEW m \in Seq(ClientCmd)
  PROVE  \E after \in [0..Len(m) -> SlotType] :
           /\ after[0] = s
           /\ \A i \in 1..Len(m) : after[i] = Execute(after[i - 1], m[i])
           /\ ExecuteAll(s, m) = after[Len(m)]
<1> DEFINE X == SlotType
           n == Len(m)
           F == [p \in X \X (1..n) |-> Execute(p[1], m[p[2]])]
           Turns(a) == a = [i \in 0..n |-> IF i = 0 THEN s
                                           ELSE Execute(a[i - 1], m[i])]
           after == CHOOSE a : Turns(a)
<1>1. ExecuteAll(s, m) = after[n]
  BY DEF ExecuteAll
<1>2. n \in Nat /\ \A i \in 1..n : m[i] \in ClientCmd
  OBVIOUS
<1> HIDE DEF X
<1>3. PICK g \in [0..n -> X] : Turns(g)
  <2>1. \A x \in X, i \in 1..n : Execute(x, m[i]) \in X
    BY <1>2, ExecuteTypes DEF X
  <2>2. F \in [X \X (1..n) -> X]
    BY <2>1
  <2>3. \A x \in X, i \in 1..n : F[<<x, i>>] = Execute(x, m[i])
    OBVIOUS
  <2>4. PICK g \in [0..n -> X] : IsLoop(g, n, s, F)
    <3>1. s \in X
      BY DEF X
    <3> HIDE DEF F, n
    <3> QED
      BY <1>2, <2>2, <3>1, LoopIsDefined
  <2>5. \A i \in 1..n : g[i] = Execute(g[i - 1], m[i])
    <3>1. \A i \in 1..n : g[i - 1] \in X
      BY <1>2
    <3> HIDE DEF F, n
    <3> QED
      BY <2>3, <2>4, <3>1 DEF IsLoop
  <2>6. Turns(g)
    <3>1. \A i \in 0..n : i # 0 => i \in 1..n
      BY <1>2
    <3> HIDE DEF n
    <3> QED
      BY <2>4, <2>5, <3>1 DEF IsLoop
  <2> QED
    BY <2>6
<1>4. Turns(after)
  <2> HIDE DEF Turns
  <2> QED
    BY <1>3
<1> HIDE DEF after
<1>5. after[0] = s /\ \A i \in 1..n : after[i] = Execute(after[i - 1], m[i])
  BY <1>2, <1>4
<1>6. after = g
  <2> DEFINE Same == {i \in 0..n : after[i] = g[i]}
  <2>1. g[0] = s /\ \A i \in 1..n : g[i] = Execute(g[i - 1], m[i])
    BY <1>2, <1>3
  <2>2. 0 \in Same
    BY <1>2, <1>5, <2>1
  <2>3. \A i \in 1..n : i - 1 \in Same => i \in Same
    BY <1>2, <1>5, <2>1
  <2>4. 0..n \subseteq Same
    <3> HIDE DEF Same
    <3> QED
      BY <1>2, <2>2, <2>3, AfterEveryTurn
  <2>5. DOMAIN after = 0..n /\ DOMAIN g = 0..n
    BY <1>3, <1>4
  <2> QED
    BY <1>3, <1>4, <2>4
<1> QED
  BY <1>1, <1>5, <1>6 DEF X

\* What a client says before it is in the game has no effect.
LEMMA TalkIsIgnored ==
  ASSUME NEW s \in SlotType, ~s.spawned, NEW m \in Seq(ClientCmd), AreTalk(m)
  PROVE  ExecuteAll(s, m) = s
<1>1. PICK after \in [0..Len(m) -> SlotType] :
        /\ after[0] = s
        /\ \A i \in 1..Len(m) : after[i] = Execute(after[i - 1], m[i])
        /\ ExecuteAll(s, m) = after[Len(m)]
  BY ExecuteAllIs
<1> DEFINE Same == {i \in 0..Len(m) : after[i] = s}
<1>2. Len(m) \in Nat /\ 0 \in Same
  BY <1>1
<1>3. ASSUME NEW i \in 1..Len(m), i - 1 \in Same
      PROVE  i \in Same
  <2>1. after[i] = Execute(s, m[i])
    BY <1>1, <1>3
  <2>2. m[i].name = "nop" \/ m[i].name = "say"
    BY DEF AreTalk, IsTalk
  <2>3. Execute(s, m[i]) = s
    BY <2>2, ExecuteIs DEF Host_Say_f
  <2> QED
    BY <1>2, <2>1, <2>3
<1>4. 0..Len(m) \subseteq Same
  <2> HIDE DEF Same
  <2> QED
    BY <1>2, <1>3, AfterEveryTurn
<1> QED
  BY <1>1, <1>2, <1>4

\* What a player in the game says is printed.
LEMMA PrintedIs ==
  ASSUME NEW s \in SlotType, InGame(s), NEW c \in ClientCmd, IsTalk(c)
  PROVE  InGame(Execute(s, c)) /\ Execute(s, c).net_wait = s.net_wait
<1>1. CASE c.name = "nop"
  BY <1>1, ExecuteIs
<1>2. CASE c.name = "say" /\ setting.says > 0
  <2> DEFINE p == Cmd("print", 0)
             msg == Append(s.message, p)
  <2>1. Execute(s, c) = [s EXCEPT !.message = msg]
    BY <1>2, ExecuteIs DEF Host_Say_f, InGame
  <2>2. s.message \in Seq(ServerCmd)
    BY DEF SlotType
  <2>3. p \in ServerCmd /\ p.name = "print"
    BY StageCmds, CmdIs
  <2> HIDE DEF p
  <2>4. ArePrints(msg)
    BY <2>2, <2>3 DEF ArePrints, InGame
  <2> HIDE DEF msg
  <2>5. /\ Execute(s, c).message = msg /\ Execute(s, c).spawned = s.spawned
        /\ Execute(s, c).net_wait = s.net_wait
    BY <2>1 DEF SlotType
  <2>6. setting.says # 0
    <3>1. CASE setting.says = 0
      BY <1>2, <3>1
    <3> QED
      BY <3>1
  <2> QED
    BY <2>4, <2>5, <2>6 DEF InGame
<1> QED
  BY <1>1, <1>2 DEF IsTalk

LEMMA TalkIsPrinted ==
  ASSUME NEW s \in SlotType, InGame(s), NEW m \in Seq(ClientCmd), AreTalk(m)
  PROVE  InGame(ExecuteAll(s, m))
<1>1. PICK after \in [0..Len(m) -> SlotType] :
        /\ after[0] = s
        /\ \A i \in 1..Len(m) : after[i] = Execute(after[i - 1], m[i])
        /\ ExecuteAll(s, m) = after[Len(m)]
  BY ExecuteAllIs
<1> DEFINE Good == {i \in 0..Len(m) : InGame(after[i])}
<1>2. Len(m) \in Nat /\ 0 \in Good
  BY <1>1
<1>3. ASSUME NEW i \in 1..Len(m), i - 1 \in Good
      PROVE  i \in Good
  <2>1. after[i] = Execute(after[i - 1], m[i]) /\ after[i - 1] \in SlotType
    BY <1>1, <1>2
  <2>2. m[i] \in ClientCmd /\ IsTalk(m[i])
    BY DEF AreTalk
  <2>3. InGame(after[i])
    BY <1>3, <2>1, <2>2, PrintedIs
  <2> QED
    BY <1>2, <2>3
<1>4. 0..Len(m) \subseteq Good
  <2> HIDE DEF Good
  <2> QED
    BY <1>2, <1>3, AfterEveryTurn
<1> QED
  BY <1>1, <1>2, <1>4

\* The stage an answer leads to.
Answered(s, k, r) ==
  IF k = 3 THEN InGame(r)
  ELSE /\ ~r.spawned /\ r.sendsignon /\ IsStage(r.message, k + 1)

LEMMA OneIs ==
  ASSUME NEW x
  PROVE  LET m == Append(<<>>, x) IN
         Len(m) = 1 /\ m[1] = x /\ DOMAIN m = {1}
<1>1. <<>> \in Seq({x}) /\ Len(<<>>) = 0
  OBVIOUS
<1> DEFINE e == <<>>
<1>2. e \in Seq({x}) /\ Len(e) = 0
  BY <1>1
<1> HIDE DEF e
<1>3. /\ Append(e, x) \in Seq({x}) /\ Len(Append(e, x)) = 1
      /\ Append(e, x)[1] = x
  BY <1>2
<1> QED
  BY <1>3 DEF e

LEMMA AnswerIs ==
  ASSUME NEW s \in SlotType, ~s.spawned, s.message = <<>>, NEW k \in 1..3
  PROVE  Answered(s, k, Execute(s, CL_SignonReply(k)))
<1> DEFINE c == CL_SignonReply(k)
<1>1. CASE k = 1
  <2>1. c.name = "prespawn"
    BY <1>1, CmdIs DEF CL_SignonReply
  <2> HIDE DEF c
  <2> DEFINE m == Append(s.message, Signonnum(2))
  <2>2. Execute(s, c) = Host_PreSpawn_f(s)
    BY <2>1, ExecuteIs
  <2>3. /\ Execute(s, c).message = m
        /\ Execute(s, c).sendsignon = TRUE
        /\ Execute(s, c).spawned = s.spawned
    <3>1. Host_PreSpawn_f(s) = [s EXCEPT !.message = m, !.sendsignon = TRUE]
      BY DEF Host_PreSpawn_f
    <3> HIDE DEF m
    <3> QED
      BY <2>2, <3>1 DEF SlotType
  <2>4. Len(m) = 1 /\ m[1] = Signonnum(2)
    BY OneIs
  <2> HIDE DEF m
  <2>5. IsStage(m, 2) /\ k + 1 = 2 /\ k # 3
    BY <1>1, <2>4 DEF IsStage
  <2>6. IsStage(m, k + 1)
    BY <2>5
  <2> QED
    BY <2>3, <2>5, <2>6 DEF Answered, c
<1>2. CASE k = 2
  <2>1. c.name = "spawn"
    BY <1>2, CmdIs DEF CL_SignonReply
  <2> HIDE DEF c
  <2> DEFINE m == <<Signonnum(3)>>
  <2>2. Execute(s, c) = Host_Spawn_f(s)
    BY <2>1, ExecuteIs
  <2>3. /\ Execute(s, c).message = m
        /\ Execute(s, c).sendsignon = TRUE
        /\ Execute(s, c).spawned = s.spawned
    <3>1. Host_Spawn_f(s) = [s EXCEPT !.message = m, !.sendsignon = TRUE]
      BY DEF Host_Spawn_f
    <3> HIDE DEF m
    <3> QED
      BY <2>2, <3>1 DEF SlotType
  <2>4. Len(m) = 1 /\ m[1] = Signonnum(3)
    OBVIOUS
  <2> HIDE DEF m
  <2>5. IsStage(m, 3) /\ k + 1 = 3 /\ k # 3
    BY <1>2, <2>4 DEF IsStage
  <2>6. IsStage(m, k + 1)
    BY <2>5
  <2> QED
    BY <2>3, <2>5, <2>6 DEF Answered, c
<1>3. CASE k = 3
  <2>1. c.name = "begin"
    BY <1>3, CmdIs DEF CL_SignonReply
  <2>2. Execute(s, c) = [s EXCEPT !.spawned = TRUE]
    BY <2>1, ExecuteIs DEF Host_Begin_f
  <2>3. /\ Execute(s, c).message = <<>>
        /\ Execute(s, c).spawned = TRUE
    BY <2>2 DEF SlotType
  <2> HIDE DEF c
  <2> QED
    BY <1>3, <2>3 DEF Answered, InGame, ArePrints, c
<1> QED
  BY <1>1, <1>2, <1>3

\* Once it is answered, what the client says more changes the slot of a
\* player in the game only.
LEMMA AnsweredStays ==
  ASSUME NEW s, NEW k \in 1..3, NEW r \in SlotType, Answered(s, k, r),
         NEW c \in ClientCmd, IsTalk(c)
  PROVE  Answered(s, k, Execute(r, c))
<1>1. CASE k = 3
  BY <1>1, PrintedIs DEF Answered
<1>2. CASE k # 3
  <2>1. ~r.spawned /\ (c.name = "nop" \/ c.name = "say")
    BY <1>2 DEF Answered, IsTalk
  <2>2. Execute(r, c) = r
    BY <2>1, ExecuteIs DEF Host_Say_f
  <2> QED
    BY <2>2
<1> QED
  BY <1>1, <1>2

LEMMA AnswerIsTaken ==
  ASSUME NEW s \in SlotType, ~s.spawned, s.message = <<>>,
         NEW k \in 1..3, NEW m \in Seq(ClientCmd), IsAnswer(m, k)
  PROVE  Answered(s, k, ExecuteAll(s, m))
<1>1. PICK after \in [0..Len(m) -> SlotType] :
        /\ after[0] = s
        /\ \A i \in 1..Len(m) : after[i] = Execute(after[i - 1], m[i])
        /\ ExecuteAll(s, m) = after[Len(m)]
  BY ExecuteAllIs
<1>2. PICK a \in DOMAIN m : /\ m[a] = CL_SignonReply(k)
                            /\ \A i \in DOMAIN m : i # a => IsTalk(m[i])
  BY DEF IsAnswer
<1>3. Len(m) \in Nat /\ DOMAIN m = 1..Len(m) /\ a \in 1..Len(m)
  OBVIOUS
<1> DEFINE Good == {i \in 0..Len(m) : IF i < a THEN after[i] = s
                                      ELSE Answered(s, k, after[i])}
<1>4. 0 \in Good
  BY <1>1, <1>3
<1>5. ASSUME NEW i \in 1..Len(m), i - 1 \in Good
      PROVE  i \in Good
  <2>1. /\ after[i] = Execute(after[i - 1], m[i])
        /\ after[i - 1] \in SlotType /\ m[i] \in ClientCmd
    BY <1>1, <1>3
  <2>2. CASE i < a
    <3>1. after[i - 1] = s /\ IsTalk(m[i])
      BY <1>2, <1>3, <1>5, <2>2
    <3>2. Execute(s, m[i]) = s
      BY <3>1, ExecuteIs DEF IsTalk, Host_Say_f
    <3> QED
      BY <1>3, <2>1, <2>2, <3>1, <3>2
  <2>3. CASE i = a
    <3>1. after[i - 1] = s /\ m[i] = CL_SignonReply(k)
      BY <1>2, <1>3, <1>5, <2>3
    <3>2. Answered(s, k, after[i])
      BY <2>1, <3>1, AnswerIs
    <3> QED
      BY <1>3, <2>3, <3>2
  <2>4. CASE i > a
    <3>1. Answered(s, k, after[i - 1]) /\ IsTalk(m[i])
      BY <1>2, <1>3, <1>5, <2>4
    <3>2. Answered(s, k, after[i])
      BY <2>1, <3>1, AnsweredStays
    <3> QED
      BY <1>3, <2>4, <3>2
  <2> QED
    BY <1>3, <2>2, <2>3, <2>4
<1>6. 0..Len(m) \subseteq Good
  <2> HIDE DEF Good
  <2> QED
    BY <1>3, <1>4, <1>5, AfterEveryTurn
<1>7. Len(m) \in Good /\ ~(Len(m) < a)
  BY <1>3, <1>6
<1> QED
  BY <1>1, <1>7

-----------------------------------------------------------------------------
(* What holds in every run: the types, and what the channel does.          *)

ClientType == [signon : 0..SIGNONS, message : Seq(ClientCmd),
               reconnect : BOOLEAN, level : 0..setting.levels]

ServerOK ==
  /\ phase \in {"commands", "clients", "sending", "waiting"}
  /\ draining \in BOOLEAN
  /\ level \in 1..setting.levels
  /\ host_client \in SlotType
  /\ PhaseOK
ClientOK ==
  /\ cls \in ClientType
  /\ parsing \in Seq(ServerCmd)
  /\ loading \in {"no", "yes", "yes, and sent a nop"}
  /\ says \in 0..setting.says
WireOK == NetTypeOK /\ CanSendOK /\ \A e \in End : Channel(e)
FailureOK == failure \in {"none", "signon", "message", "datagram", "canSend"}

Basics == setting \in Settings /\ ServerOK /\ ClientOK /\ WireOK /\ FailureOK

LEMMA BasicsAre ==
  /\ Basics <=> TypeOK /\ NetTypeOK /\ PhaseOK /\ \A e \in End : Channel(e)
  /\ Basics' <=>
       (TypeOK /\ NetTypeOK /\ PhaseOK /\ \A e \in End : Channel(e))'
<1>1. /\ Basics <=> TypeOK /\ NetTypeOK /\ PhaseOK /\ \A e \in End : Channel(e)
  BY DEF Basics, ServerOK, ClientOK, WireOK, FailureOK, CanSendOK, TypeOK,
         NetTypeOK, SlotType, ClientType, End
<1>2. Basics' <=>
       (TypeOK /\ NetTypeOK /\ PhaseOK /\ \A e \in End : Channel(e))'
  BY DEF Basics, ServerOK, ClientOK, WireOK, FailureOK, CanSendOK, TypeOK,
         NetTypeOK, SlotType, ClientType, End
<1> QED
  BY <1>1, <1>2

LEMMA SettingKept ==
  ASSUME setting' = setting
  PROVE  /\ ServerCmd' = ServerCmd /\ ClientCmd' = ClientCmd
         /\ SlotType' = SlotType /\ ClientType' = ClientType
BY DEF ServerCmd, ClientCmd, SlotType, ClientType

LEMMA ServerKept ==
  ASSUME ServerOK, UNCHANGED serverVars, setting' = setting
  PROVE  ServerOK'
BY SettingKept DEF ServerOK, serverVars, PhaseOK

LEMMA ClientKept ==
  ASSUME ClientOK, UNCHANGED clientVars, setting' = setting
  PROVE  ClientOK'
BY SettingKept DEF ClientOK, clientVars

LEMMA WireKept ==
  ASSUME WireOK, UNCHANGED <<canSend, net>>, setting' = setting
  PROVE  WireOK'
BY SettingKept DEF WireOK, NetTypeOK, CanSendOK, Channel

LEMMA WireTakes ==
  ASSUME WireOK, setting' = setting,
         NEW e \in End, NEW i \in DOMAIN net[e], Take(e, i)
  PROVE  WireOK'
<1>1. NetTypeOK /\ CanSendOK /\ \A d \in End : Channel(d)
  BY DEF WireOK
<1>2. NetTypeOK' /\ CanSendOK'
  BY <1>1, TakeTypes
<1>3. \A d \in End : Channel(d)'
  BY <1>1, TakeChannel
<1> QED
  BY <1>2, <1>3 DEF WireOK

\* A message is a body.
LEMMA MessagesAreBodies ==
  ASSUME setting \in Settings
  PROVE  Seq(ServerCmd) \subseteq Body /\ Seq(ClientCmd) \subseteq Body
<1>1. ServerCmd \subseteq Command /\ ClientCmd \subseteq Command
  BY CmdsAreCommands
<1> QED
  BY <1>1 DEF Body

LEMMA WireSends ==
  ASSUME WireOK, setting \in Settings, setting' = setting,
         NEW e \in End, canSend[e],
         NEW body \in Seq(CmdsFor(Peer(e))), Send(e, body)
  PROVE  WireOK'
<1>1. NetTypeOK /\ CanSendOK /\ \A d \in End : Channel(d)
  BY DEF WireOK
<1>2. body \in Body
  BY MessagesAreBodies DEF CmdsFor
<1>3. NetTypeOK' /\ CanSendOK'
  BY <1>1, <1>2, SendTypes
<1>4. \A d \in End : Channel(d)'
  BY <1>1, <1>2, SendChannel
<1> QED
  BY <1>3, <1>4 DEF WireOK

LEMMA PacketFits ==
  ASSUME WireOK, NEW e \in End, NEW i \in DOMAIN net[e]
  PROVE  net[e][i] \in Packet /\ net[e][i].body \in Seq(CmdsFor(e))
BY DEF WireOK, NetTypeOK, CmdsFor

LEMMA NewSlotType ==
  ASSUME NEW s \in SlotType, NEW l \in 1..setting.levels
  PROVE  LET m == s.message \o <<Cmd("serverinfo", l), Signonnum(1)>> IN
         /\ m \in Seq(ServerCmd)
         /\ SV_SendServerinfo(s, l) = [s EXCEPT !.message = m,
                                                !.sendsignon = TRUE,
                                                !.spawned = FALSE]
         /\ SV_SendServerinfo(s, l) \in SlotType
<1> DEFINE two == <<Cmd("serverinfo", l), Signonnum(1)>>
           m == s.message \o two
<1>1. Cmd("serverinfo", l) \in ServerCmd /\ Signonnum(1) \in ServerCmd
  BY StageCmds
<1>2. two \in Seq(ServerCmd)
  BY <1>1
<1>3. s.message \in Seq(ServerCmd)
  BY DEF SlotType
<1>4. m \in Seq(ServerCmd)
  <2> HIDE DEF two
  <2> QED
    BY <1>2, <1>3
<1>5. SV_SendServerinfo(s, l) = [s EXCEPT !.message = m, !.sendsignon = TRUE,
                                          !.spawned = FALSE]
  BY DEF SV_SendServerinfo
<1> HIDE DEF m
<1>6. [s EXCEPT !.message = m, !.sendsignon = TRUE, !.spawned = FALSE]
        \in SlotType
  BY <1>4 DEF SlotType
<1> QED
  BY <1>4, <1>5, <1>6 DEF m

LEMMA ReadClientBasics ==
  ASSUME Basics, setting' = setting,
         NEW i \in DOMAIN net["server"], SV_ReadClientMessage(i)
  PROVE  Basics'
<1> DEFINE m == net["server"][i].body
           after == ExecuteAll(host_client, m)
<1>1. "server" \in End
  BY DEF End
<1>2. WireOK'
  BY <1>1, WireTakes DEF Basics, SV_ReadClientMessage
<1>3. ClientOK' /\ setting' \in Settings
  BY ClientKept DEF Basics, SV_ReadClientMessage
<1>4. after \in SlotType
  <2>1. m \in Seq(ClientCmd) /\ host_client \in SlotType
    BY <1>1, PacketFits DEF Basics, ServerOK, CmdsFor
  <2> HIDE DEF m
  <2>2. PICK f \in [0..Len(m) -> SlotType] : after = f[Len(m)]
    BY <2>1, ExecuteAllIs
  <2>3. Len(m) \in 0..Len(m)
    BY <2>1
  <2> QED
    BY <2>2, <2>3
<1>5. host_client' = [after EXCEPT !.net_wait = FALSE]
  BY DEF SV_ReadClientMessage
<1> HIDE DEF after
<1>6. host_client' \in SlotType
  BY <1>4, <1>5 DEF SlotType
<1>7. ServerOK'
  BY <1>6, SettingKept DEF Basics, ServerOK, PhaseOK, SV_ReadClientMessage
<1> QED
  BY <1>2, <1>3, <1>7 DEF Basics, FailureOK, SV_ReadClientMessage

\* The queue to the client before the reliable message is put behind it.
LEMMA QuietOrNot ==
  ASSUME WireOK, setting \in Settings, NEW quiet, NEW s
  PROVE  LET d == ClientDatagram(s)
             q == IF quiet THEN net["client"] ELSE Append(net["client"], d)
         IN /\ d \in Packet /\ d \notin DataPacket /\ d \notin AckPacket
            /\ ~s.spawned => d \notin UpdatePacket
            /\ net["client"] \in Seq(Packet)
            /\ q \in Seq(Packet)
            /\ \A j \in DOMAIN q : q[j].body \in Seq(ServerCmd)
            /\ \A T \in {DataPacket, AckPacket} :
                 /\ Has(q, T) <=> Has(net["client"], T)
                 /\ Once(net["client"], T) => Once(q, T)
<1> DEFINE d == ClientDatagram(s)
           q == IF quiet THEN net["client"] ELSE Append(net["client"], d)
           c == IF s.spawned THEN Cmd("update", 0) ELSE Nop
<1>1. "client" \in End /\ CmdsFor("client") = ServerCmd
  BY DEF End, CmdsFor
<1>2. net["client"] \in Seq(Packet)
      /\ \A j \in DOMAIN net["client"] : net["client"][j].body \in Seq(ServerCmd)
  BY <1>1 DEF WireOK, NetTypeOK
<1>3. d.type = "UNRELIABLE" /\ d.body = <<c>> /\ d = Datagram(c)
  BY DEF ClientDatagram, Datagram
<1>4. c \in ServerCmd
  BY StageCmds
<1>5. <<c>> \in Seq(ServerCmd) /\ <<c>> \in Body
      /\ Len(<<c>>) = 1 /\ <<c>>[1] = c
  <2> HIDE DEF c
  <2>1. <<c>> \in Seq(ServerCmd)
    BY <1>4
  <2> QED
    BY <2>1, MessagesAreBodies
<1>6. d \in Packet
  <2>1. c.name \in {"nop", "update"}
    BY CmdIs DEF Nop
  <2> HIDE DEF c
  <2> QED
    BY <1>3, <1>5, <2>1 DEF Packet, Datagram
<1>7. d \notin DataPacket /\ d \notin AckPacket
  BY <1>3 DEF DataPacket, AckPacket
<1>8. ~s.spawned => d \notin UpdatePacket
  <2>1. ~s.spawned => c = Nop
    OBVIOUS
  <2> HIDE DEF c, d
  <2> QED
    BY <2>1, <1>3, <1>5 DEF UpdatePacket
<1> HIDE DEF d, c
<1>9. /\ q \in Seq(Packet)
      /\ \A T \in {DataPacket, AckPacket} :
           /\ Has(q, T) <=> Has(net["client"], T)
           /\ Once(net["client"], T) => Once(q, T)
  <2>1. CASE quiet
    BY <1>2, <2>1
  <2>2. CASE ~quiet
    <3> DEFINE r == Append(net["client"], d)
    <3>1. r \in Seq(Packet)
      BY <1>2, <1>6
    <3>2. \A T : /\ Has(r, T) <=> Has(net["client"], T) \/ d \in T
                 /\ Once(net["client"], T) /\ (d \in T => ~Has(net["client"], T))
                      => Once(r, T)
      BY <1>2, <1>6, AppendKeeps
    <3>3. q = r
      BY <2>2
    <3> HIDE DEF r
    <3> QED
      BY <1>7, <3>1, <3>2, <3>3
  <2> QED
    BY <2>1, <2>2
<1>10. \A j \in DOMAIN q : q[j].body \in Seq(ServerCmd)
  <2>1. CASE quiet
    BY <1>2, <2>1
  <2>2. CASE ~quiet
    <3>1. NetTypeOK
      BY DEF WireOK
    <3>2. d.body \in Seq(CmdsFor("client"))
      BY <1>1, <1>3, <1>5
    <3> DEFINE r == Append(net["client"], d)
    <3>3. \A j \in DOMAIN r : r[j].body \in Seq(CmdsFor("client"))
      BY <1>1, <1>6, <3>1, <3>2, AppendTypes
    <3> QED
      BY <1>1, <2>2, <3>3
  <2> QED
    BY <2>1, <2>2
<1> HIDE DEF q
<1> QED
  BY <1>2, <1>6, <1>7, <1>8, <1>9, <1>10 DEF q, d

\* What SV_SendClientMessages puts before the reliable message.
Quiet(lost) ==
  lost \/ DatagramInFlight \/ (~host_client.spawned /\ host_client.sendsignon)
First(lost) ==
  IF Quiet(lost) THEN net["client"]
  ELSE Append(net["client"], ClientDatagram(host_client))
Reliable ==
  /\ host_client.spawned \/ host_client.sendsignon
  /\ ~host_client.net_wait
  /\ host_client.message # <<>>
  /\ canSend["server"]

LEMMA SendClientIs ==
  ASSUME NEW lost, SV_SendClientMessages(lost)
  PROVE  /\ net' = [net EXCEPT !["client"] =
                      IF Reliable THEN Append(First(lost),
                                              Data(host_client.message))
                      ELSE First(lost)]
         /\ canSend' = [canSend EXCEPT !["server"] =
                          canSend["server"] /\ ~Reliable]
         /\ host_client' = IF Reliable
                           THEN [host_client EXCEPT !.message = <<>>,
                                                    !.sendsignon = FALSE]
                           ELSE host_client
         /\ phase \in {"commands", "clients"} /\ phase' = "commands"
         /\ UNCHANGED <<draining, level, clientVars, failure>>
BY DEF SV_SendClientMessages, Reliable, First, Quiet

LEMMA SendClientBasics ==
  ASSUME Basics, setting' = setting, NEW lost \in BOOLEAN,
         SV_SendClientMessages(lost)
  PROVE  Basics'
<1> DEFINE q == First(lost)
           m == host_client.message
<1>1. "client" \in End /\ "server" \in End /\ Peer("server") = "client"
      /\ "client" # "server" /\ End = {"client", "server"}
      /\ CmdsFor("client") = ServerCmd /\ Peer("client") = "server"
  BY DEF End, Peer, CmdsFor
<1>2. WireOK /\ setting \in Settings
  BY DEF Basics
<1>3. /\ q \in Seq(Packet)
      /\ \A j \in DOMAIN q : q[j].body \in Seq(ServerCmd)
      /\ \A T \in {DataPacket, AckPacket} :
           /\ Has(q, T) <=> Has(net["client"], T)
           /\ Once(net["client"], T) => Once(q, T)
  BY <1>2, QuietOrNot DEF First
<1>4. m \in Seq(ServerCmd) /\ m \in Body
  BY <1>2, MessagesAreBodies DEF Basics, ServerOK, SlotType
<1>5. NetTypeOK /\ CanSendOK /\ (\A d \in End : Channel(d))
      /\ net \in [End -> Seq(Packet)] /\ canSend \in [End -> BOOLEAN]
  BY <1>2 DEF WireOK, NetTypeOK, CanSendOK
<1>6. host_client' \in SlotType
  <2>1. host_client \in SlotType
    BY DEF Basics, ServerOK
  <2>2. [host_client EXCEPT !.message = <<>>, !.sendsignon = FALSE] \in SlotType
    <3>1. <<>> \in Seq(ServerCmd)
      OBVIOUS
    <3> QED
      BY <2>1, <3>1 DEF SlotType
  <2>3. host_client' = host_client
        \/ host_client' = [host_client EXCEPT !.message = <<>>,
                                              !.sendsignon = FALSE]
    BY SendClientIs
  <2> QED
    BY <2>1, <2>2, <2>3
<1>7. ServerOK'
  <2>1. /\ phase' = "commands"
        /\ UNCHANGED <<draining, level, clientVars, failure>>
        /\ phase \in {"commands", "clients"}
    BY SendClientIs
  <2> QED
    BY <1>6, <2>1, SettingKept DEF Basics, ServerOK, PhaseOK
<1>8. ClientOK' /\ setting' \in Settings /\ FailureOK'
  <2>1. UNCHANGED <<clientVars, failure>>
    BY SendClientIs
  <2> QED
    BY <2>1, ClientKept DEF Basics, FailureOK
<1> HIDE DEF q, m
<1>9. WireOK'
  <2>1. CASE Reliable
    <3> DEFINE p == Data(m)
               r == Append(q, p)
    <3>1. net' = [net EXCEPT !["client"] = r]
          /\ canSend' = [canSend EXCEPT !["server"] = FALSE]
      BY <2>1, SendClientIs DEF q, m
    <3>2. canSend["server"]
      BY <2>1 DEF Reliable
    <3>3. \A d \in End : Channel(d)'
      BY <1>1, <1>3, <1>4, <1>5, <3>1, <3>2, SentChannel
    <3>4. p \in Packet /\ p.body = m
      BY <1>4, PacketKinds DEF DataPacket
    <3> HIDE DEF p
    <3>5. p \notin Misfit(ServerCmd) /\ ~Has(q, Misfit(ServerCmd))
      BY <1>3, <1>4, <3>4, FitsIs DEF Misfit
    <3>6. r \in Seq(Packet) /\ ~Has(r, Misfit(ServerCmd))
      BY <1>3, <3>4, <3>5, AppendKeeps
    <3> HIDE DEF r
    <3>7. \A j \in DOMAIN r : r[j].body \in Seq(ServerCmd)
      BY <3>6, FitsIs
    <3>8. net' \in [End -> Seq(Packet)] /\ net'["client"] = r
          /\ net'["server"] = net["server"]
      BY <1>1, <1>5, <3>1, <3>6
    <3>9. NetTypeOK'
      BY <1>1, <1>5, <3>7, <3>8, SettingKept DEF NetTypeOK
    <3>10. CanSendOK'
      BY <1>1, <1>5, <3>1 DEF CanSendOK
    <3> QED
      BY <3>3, <3>9, <3>10 DEF WireOK
  <2>2. CASE ~Reliable
    <3>1. net' = [net EXCEPT !["client"] = q]
      BY <2>2, SendClientIs DEF q
    <3>2. canSend' = [canSend EXCEPT !["server"] = canSend["server"]]
      <4>1. (canSend["server"] /\ ~Reliable) = canSend["server"]
        BY <1>1, <1>5, <2>2
      <4> QED
        BY <4>1, SendClientIs
    <3>3. canSend' = canSend
      BY <1>1, <1>5, <3>2
    <3>4. net' \in [End -> Seq(Packet)] /\ net'["client"] = q
          /\ net'["server"] = net["server"]
      BY <1>1, <1>3, <1>5, <3>1
    <3>5. NetTypeOK'
      BY <1>1, <1>3, <1>5, <3>4, SettingKept DEF NetTypeOK
    <3>6. Channel("client")' /\ Channel("server")'
      BY <1>1, <1>3, <1>5, <3>3, <3>4 DEF Channel
    <3> QED
      BY <1>1, <1>5, <3>3, <3>5, <3>6 DEF WireOK, CanSendOK
  <2> QED
    BY <2>1, <2>2
<1> QED
  BY <1>2, <1>7, <1>8, <1>9 DEF Basics

LEMMA ReconnectBasics ==
  ASSUME Basics, setting' = setting, SV_SendReconnect
  PROVE  Basics'
<1> DEFINE b == <<Cmd("reconnect", 0)>>
<1>1. "server" \in End /\ CmdsFor(Peer("server")) = ServerCmd
  BY DEF End, CmdsFor, Peer
<1>2. b \in Seq(ServerCmd)
  BY StageCmds
<1>3. Send("server", b) /\ canSend["server"]
  BY DEF SV_SendReconnect
<1> HIDE DEF b
<1>4. WireOK'
  BY <1>1, <1>2, <1>3, WireSends DEF Basics
<1>5. ServerOK'
  BY SettingKept DEF SV_SendReconnect, Basics, ServerOK, PhaseOK
<1>6. ClientOK'
  BY ClientKept DEF SV_SendReconnect, Basics
<1> QED
  BY <1>4, <1>5, <1>6 DEF Basics, FailureOK, SV_SendReconnect

LEMMA DrainReadBasics ==
  ASSUME Basics, setting' = setting,
         NEW i \in DOMAIN net["server"], DrainRead(i)
  PROVE  Basics'
<1>1. "server" \in End
  BY DEF End
<1>2. WireOK'
  BY <1>1, WireTakes DEF Basics, DrainRead
<1>3. host_client' \in SlotType
  BY DEF DrainRead, Basics, ServerOK, SlotType
<1>4. /\ draining' \in BOOLEAN
      /\ UNCHANGED <<phase, level, clientVars, failure>>
      /\ phase \in {"sending", "waiting"}
  BY DEF DrainRead, Basics, ServerOK, PhaseOK
<1>5. ServerOK'
  BY <1>3, <1>4, SettingKept DEF Basics, ServerOK, PhaseOK
<1>6. ClientOK'
  BY <1>4, ClientKept DEF Basics
<1> QED
  BY <1>2, <1>4, <1>5, <1>6 DEF Basics, FailureOK

LEMMA SpawnServerBasics ==
  ASSUME Basics, setting' = setting, SV_SpawnServer
  PROVE  Basics'
<1>1. level + 1 \in 1..setting.levels
  <2>1. phase \in {"sending", "waiting"}
    BY DEF SV_SpawnServer
  <2>2. level < setting.levels /\ level \in 1..setting.levels
    BY <2>1 DEF Basics, ServerOK, PhaseOK
  <2>3. setting.levels \in Nat
    BY CmdsAreCommands DEF Basics
  <2> QED
    BY <2>2, <2>3
<1>2. host_client' \in SlotType
  BY <1>1, NewSlotType DEF SV_SpawnServer, Basics, ServerOK
<1>3. /\ level' = level + 1 /\ phase' = "commands"
      /\ UNCHANGED <<draining, clientVars, canSend, net, failure>> /\ ~draining
  BY DEF SV_SpawnServer
<1>4. ServerOK'
  BY <1>1, <1>2, <1>3, SettingKept DEF Basics, ServerOK, PhaseOK
<1>5. ClientOK' /\ WireOK'
  BY <1>3, ClientKept, WireKept DEF Basics
<1> QED
  BY <1>3, <1>4, <1>5 DEF Basics, FailureOK

\* The server's steps that send and read nothing.
LEMMA QuietServerBasics ==
  ASSUME Basics, setting' = setting,
         Host_Changelevel_f \/ Drain \/ DrainNothing
  PROVE  Basics'
<1>1. UNCHANGED <<level, host_client, clientVars, canSend, net, failure>>
  BY DEF Host_Changelevel_f, Drain, DrainNothing
<1>2. ClientOK' /\ WireOK'
  BY <1>1, ClientKept, WireKept DEF Basics
<1>3. ServerOK'
  BY SettingKept DEF Host_Changelevel_f, Drain, DrainNothing, Basics, ServerOK,
                     PhaseOK
<1> QED
  BY <1>1, <1>2, <1>3 DEF Basics, FailureOK

\* A message of the client with one more command.
LEMMA ClientMessages ==
  ASSUME NEW m \in Seq(ClientCmd)
  PROVE  /\ Append(m, Cmd("say", 0)) \in Seq(ClientCmd)
         /\ Append(m, Nop) \in Seq(ClientCmd)
         /\ \A k \in 1..3 : Append(m, CL_SignonReply(k)) \in Seq(ClientCmd)
BY StageCmds

\* The frame's command, if "reconnect" waits, and what there is to send.
Recalled == Host_Reconnect_f(cls)
Out(said) == IF said THEN Append(cls.message, Cmd("say", 0)) ELSE cls.message

LEMMA ClientWith ==
  ASSUME NEW c \in ClientType
  PROVE  /\ c.signon \in 0..SIGNONS /\ c.message \in Seq(ClientCmd)
         /\ c.reconnect \in BOOLEAN /\ c.level \in 0..setting.levels
         /\ \A n \in 0..SIGNONS : [c EXCEPT !.signon = n] \in ClientType
         /\ \A m \in Seq(ClientCmd) : [c EXCEPT !.message = m] \in ClientType
         /\ \A b \in BOOLEAN : [c EXCEPT !.reconnect = b] \in ClientType
         /\ \A n \in 0..SIGNONS, m \in Seq(ClientCmd) :
              [c EXCEPT !.signon = n, !.message = m] \in ClientType
         /\ \A n \in 0..SIGNONS, b \in BOOLEAN :
              [c EXCEPT !.signon = n, !.reconnect = b] \in ClientType
         /\ \A n \in 0..SIGNONS, m \in Seq(ClientCmd),
               l \in 0..setting.levels :
              [c EXCEPT !.message = m, !.level = l, !.signon = n]
                \in ClientType
<1> DEFINE N == 0..SIGNONS
           L == 0..setting.levels
           M == Seq(ClientCmd)
<1>1. ClientType = [signon : N, message : M, reconnect : BOOLEAN, level : L]
  BY DEF ClientType
<1> HIDE DEF N, L, M
<1>2. /\ c.signon \in N /\ c.message \in M
      /\ c.reconnect \in BOOLEAN /\ c.level \in L
      /\ \A n \in N : [c EXCEPT !.signon = n] \in ClientType
      /\ \A m \in M : [c EXCEPT !.message = m] \in ClientType
      /\ \A b \in BOOLEAN : [c EXCEPT !.reconnect = b] \in ClientType
  BY <1>1
<1>3. /\ \A n \in N, m \in M :
           [c EXCEPT !.signon = n, !.message = m] \in ClientType
      /\ \A n \in N, b \in BOOLEAN :
           [c EXCEPT !.signon = n, !.reconnect = b] \in ClientType
      /\ \A n \in N, m \in M, l \in L :
           [c EXCEPT !.message = m, !.level = l, !.signon = n] \in ClientType
  BY <1>1
<1> QED
  BY <1>2, <1>3 DEF N, L, M

LEMMA RecalledIs ==
  ASSUME cls \in ClientType
  PROVE  /\ Recalled \in ClientType
         /\ Recalled.signon = IF cls.reconnect THEN 0 ELSE cls.signon
         /\ Recalled.message = cls.message /\ Recalled.level = cls.level
         /\ Recalled.reconnect = FALSE
<1>1. CASE cls.reconnect
  <2>1. Recalled = [cls EXCEPT !.signon = 0, !.reconnect = FALSE]
    BY <1>1 DEF Recalled, Host_Reconnect_f
  <2>2. 0 \in 0..SIGNONS
    BY DEF SIGNONS
  <2>3. Recalled \in ClientType
    BY <2>1, <2>2, ClientWith
  <2>4. /\ Recalled.signon = 0 /\ Recalled.message = cls.message
        /\ Recalled.level = cls.level /\ Recalled.reconnect = FALSE
    BY <2>1 DEF ClientType
  <2> QED
    BY <1>1, <2>3, <2>4
<1>2. CASE ~cls.reconnect
  <2>1. Recalled = cls
    BY <1>2 DEF Recalled, Host_Reconnect_f
  <2>2. cls.reconnect = FALSE
    BY <1>2 DEF ClientType
  <2> QED
    BY <1>2, <2>1, <2>2
<1> QED
  BY <1>1, <1>2

LEMMA FrameIs ==
  ASSUME NEW said \in BOOLEAN, ClientFrame(said), cls \in ClientType
  PROVE  LET out == Out(said) IN
         /\ Between /\ out \in Seq(ClientCmd)
         /\ IF out # <<>> /\ canSend["client"]
            THEN Send("client", out)
                 /\ cls' = [Recalled EXCEPT !.message = <<>>]
            ELSE UNCHANGED <<canSend, net>>
                 /\ cls' = [Recalled EXCEPT !.message = out]
         /\ UNCHANGED <<serverVars, parsing, loading, failure>>
         /\ says' = IF said THEN says + 1 ELSE says
         /\ said => says < setting.says
<1>1. Recalled.message = cls.message
  BY RecalledIs
<1>2. Out(said) \in Seq(ClientCmd)
  BY ClientMessages DEF Out, ClientType
<1> QED
  BY <1>1, <1>2 DEF ClientFrame, Out, Recalled

LEMMA ClientFrameBasics ==
  ASSUME Basics, setting' = setting, NEW said \in BOOLEAN, ClientFrame(said)
  PROVE  Basics'
<1> DEFINE out == Out(said)
<1>1. "client" \in End /\ CmdsFor(Peer("client")) = ClientCmd
  BY DEF End, CmdsFor, Peer
<1>2. cls \in ClientType
  BY DEF Basics, ClientOK
<1>3. /\ out \in Seq(ClientCmd)
      /\ IF out # <<>> /\ canSend["client"]
         THEN Send("client", out)
              /\ cls' = [Recalled EXCEPT !.message = <<>>]
         ELSE UNCHANGED <<canSend, net>>
              /\ cls' = [Recalled EXCEPT !.message = out]
      /\ UNCHANGED <<serverVars, parsing, loading, failure>>
      /\ says' = IF said THEN says + 1 ELSE says
      /\ said => says < setting.says
  BY <1>2, FrameIs
<1> HIDE DEF out
<1>4. WireOK'
  BY <1>1, <1>3, WireSends, WireKept DEF Basics
<1>5. ServerOK'
  BY <1>3, ServerKept DEF Basics
<1>6. cls' \in ClientType
  <2>1. Recalled \in ClientType
    BY <1>2, RecalledIs
  <2>2. <<>> \in Seq(ClientCmd)
    OBVIOUS
  <2>3. \E m \in Seq(ClientCmd) : cls' = [Recalled EXCEPT !.message = m]
    BY <1>3, <2>2
  <2> QED
    BY <2>1, <2>3 DEF ClientType
<1>7. says' \in 0..setting.says
  <2>1. says \in 0..setting.says /\ setting.says \in Nat
    BY CmdsAreCommands DEF Basics, ClientOK
  <2> QED
    BY <1>3, <2>1
<1>8. ClientOK'
  BY <1>3, <1>6, <1>7, SettingKept DEF Basics, ClientOK
<1> QED
  BY <1>3, <1>4, <1>5, <1>8 DEF Basics, FailureOK

LEMMA ReadServerBasics ==
  ASSUME Basics, setting' = setting,
         NEW i \in DOMAIN net["client"], CL_ReadFromServer(i)
  PROVE  Basics'
<1>1. "client" \in End /\ CmdsFor("client") = ServerCmd
  BY DEF End, CmdsFor
<1>2. WireOK'
  BY <1>1, WireTakes DEF Basics, CL_ReadFromServer
<1>3. ServerOK'
  BY ServerKept DEF Basics, CL_ReadFromServer
<1>4. parsing' \in Seq(ServerCmd)
  BY <1>1, PacketFits DEF Basics, CL_ReadFromServer
<1>5. ClientOK'
  BY <1>4, SettingKept DEF Basics, ClientOK, CL_ReadFromServer
<1> QED
  BY <1>2, <1>3, <1>5 DEF Basics, FailureOK, CL_ReadFromServer

\* The first command of a message, and what is left of it.
LEMMA ParseIs ==
  ASSUME Basics, NEW name, Parse(name)
  PROVE  /\ Head(parsing) \in ServerCmd /\ Head(parsing).name = name
         /\ parsing \in Seq(ServerCmd) /\ Len(parsing) \in Nat \ {0}
         /\ Head(parsing) = parsing[1]
         /\ parsing' \in Seq(ServerCmd) /\ Len(parsing') = Len(parsing) - 1
         /\ \A j \in DOMAIN parsing' :
              j + 1 \in DOMAIN parsing /\ parsing'[j] = parsing[j + 1]
         /\ loading = "no"
         /\ UNCHANGED <<serverVars, says, canSend, net>>
<1>1. parsing \in Seq(ServerCmd) /\ parsing # <<>>
  BY DEF Basics, ClientOK, Parse
<1>2. parsing' = Tail(parsing)
  BY DEF Parse
<1> DEFINE q == parsing
           t == Tail(q)
<1> HIDE DEF q
<1>3. /\ t \in Seq(ServerCmd) /\ Len(t) = Len(q) - 1 /\ Len(q) \in Nat \ {0}
      /\ \A j \in DOMAIN t : j + 1 \in DOMAIN q /\ t[j] = q[j + 1]
      /\ Head(q) \in ServerCmd /\ Head(q) = q[1]
  BY <1>1 DEF q
<1> QED
  BY <1>1, <1>2, <1>3 DEF Parse, q

LEMMA ServerCmdIs ==
  ASSUME NEW c \in ServerCmd
  PROVE  /\ c.name = "serverinfo" => c.n \in 1..setting.levels
         /\ c.name = "signonnum" => c.n \in 1..3 /\ c = Signonnum(c.n)
BY DEF ServerCmd, Cmd, Signonnum, Nop

LEMMA ParseKeeps ==
  ASSUME Basics, setting' = setting, NEW name, Parse(name),
         cls' \in ClientType, loading' \in {"no", "yes", "yes, and sent a nop"},
         FailureOK'
  PROVE  Basics'
<1>1. parsing' \in Seq(ServerCmd)
      /\ UNCHANGED <<serverVars, says, canSend, net>>
  BY ParseIs
<1>2. ServerOK' /\ WireOK'
  BY <1>1, ServerKept, WireKept DEF Basics
<1>3. ClientOK'
  BY <1>1, SettingKept DEF Basics, ClientOK
<1> QED
  BY <1>2, <1>3 DEF Basics

LEMMA ServerInfoBasics ==
  ASSUME Basics, setting' = setting, CL_ParseServerInfo
  PROVE  Basics'
<1>1. Parse("serverinfo") /\ loading' = "yes" /\ failure' = failure
  BY DEF CL_ParseServerInfo
<1>2. Head(parsing) \in ServerCmd /\ Head(parsing).name = "serverinfo"
  BY <1>1, ParseIs
<1> DEFINE n == Head(parsing).n
<1>3. n \in 1..setting.levels
  BY <1>2, ServerCmdIs
<1>4. cls' = [cls EXCEPT !.message = <<>>, !.level = n, !.signon = 0]
  BY DEF CL_ParseServerInfo
<1> HIDE DEF n
<1>5. cls' \in ClientType
  <2>1. <<>> \in Seq(ClientCmd) /\ setting.levels \in Nat
    BY CmdsAreCommands DEF Basics
  <2>2. cls \in ClientType
    BY DEF Basics, ClientOK
  <2>3. n \in 0..setting.levels /\ 0 \in 0..SIGNONS
    BY <1>3, <2>1 DEF SIGNONS
  <2> QED
    BY <1>4, <2>1, <2>2, <2>3, ClientWith
<1> QED
  BY <1>1, <1>5, ParseKeeps DEF Basics, FailureOK

LEMMA SignonnumBasics ==
  ASSUME Basics, setting' = setting, ParseSignonnum
  PROVE  Basics'
<1> DEFINE n == Head(parsing).n
           m == Append(cls.message, CL_SignonReply(n))
<1>1. Parse("signonnum") /\ UNCHANGED loading
      /\ IF n <= cls.signon
         THEN failure' = "signon" /\ UNCHANGED cls
         ELSE cls' = [cls EXCEPT !.signon = n, !.message = m]
              /\ UNCHANGED failure
  BY DEF ParseSignonnum
<1>2. Head(parsing) \in ServerCmd /\ Head(parsing).name = "signonnum"
  BY <1>1, ParseIs
<1>3. n \in 1..3 /\ n \in 0..SIGNONS
  BY <1>2, ServerCmdIs DEF SIGNONS
<1>4. cls \in ClientType /\ cls.message \in Seq(ClientCmd)
  BY DEF Basics, ClientOK, ClientType
<1>5. m \in Seq(ClientCmd)
  BY <1>3, <1>4, ClientMessages
<1> HIDE DEF n, m
<1>6. cls' \in ClientType
  BY <1>1, <1>3, <1>4, <1>5 DEF ClientType
<1>7. loading' \in {"no", "yes", "yes, and sent a nop"} /\ FailureOK'
  BY <1>1 DEF Basics, ClientOK, FailureOK
<1> QED
  BY <1>1, <1>6, <1>7, ParseKeeps

LEMMA OtherParseBasics ==
  ASSUME Basics, setting' = setting,
         ParseStufftext \/ CL_ParseUpdate \/ ParseOther
  PROVE  Basics'
<1>1. PICK name : Parse(name)
  BY DEF ParseStufftext, CL_ParseUpdate, ParseOther
<1>2. UNCHANGED <<loading, failure>>
  BY DEF ParseStufftext, CL_ParseUpdate, ParseOther
<1>3. cls \in ClientType
  BY DEF Basics, ClientOK
<1>4. cls' \in ClientType
  <2>1. CASE ParseStufftext
    BY <1>3, <2>1, ClientWith DEF ParseStufftext
  <2>2. CASE CL_ParseUpdate
    <3>1. SIGNONS \in 0..SIGNONS
      BY DEF SIGNONS
    <3> QED
      BY <1>3, <2>2, <3>1, ClientWith DEF CL_ParseUpdate
  <2>3. CASE ParseOther
    BY <1>3, <2>3 DEF ParseOther
  <2> QED
    BY <2>1, <2>2, <2>3
<1> QED
  BY <1>1, <1>2, <1>4, ParseKeeps DEF Basics, ClientOK, FailureOK

LEMMA KeepaliveReadBasics ==
  ASSUME Basics, setting' = setting,
         NEW i \in DOMAIN net["client"], KeepaliveRead(i)
  PROVE  Basics'
<1>1. "client" \in End
  BY DEF End
<1>2. WireOK'
  BY <1>1, WireTakes DEF Basics, KeepaliveRead
<1>3. ServerOK'
  BY ServerKept DEF Basics, KeepaliveRead
<1>4. ClientOK'
  BY ClientKept DEF Basics, KeepaliveRead, clientVars
<1>5. FailureOK'
  BY DEF KeepaliveRead, Basics, FailureOK
<1> QED
  BY <1>2, <1>3, <1>4, <1>5 DEF Basics

LEMMA KeepaliveBasics ==
  ASSUME Basics, setting' = setting, CL_KeepaliveMessage
  PROVE  Basics'
<1> DEFINE out == Append(cls.message, Nop)
<1>1. "client" \in End /\ CmdsFor(Peer("client")) = ClientCmd
  BY DEF End, CmdsFor, Peer
<1>2. cls \in ClientType
  BY DEF Basics, ClientOK
<1>3. out \in Seq(ClientCmd)
  BY <1>2, ClientMessages DEF ClientType
<1>4. /\ IF canSend["client"]
         THEN Send("client", out) /\ UNCHANGED failure
         ELSE failure' = "canSend" /\ UNCHANGED <<canSend, net>>
      /\ cls' = [cls EXCEPT !.message = <<>>]
      /\ loading' = "yes, and sent a nop"
      /\ UNCHANGED <<serverVars, parsing, says>>
  BY DEF CL_KeepaliveMessage
<1> HIDE DEF out
<1>5. WireOK'
  BY <1>1, <1>3, <1>4, WireSends, WireKept DEF Basics
<1>6. ServerOK'
  BY <1>4, ServerKept DEF Basics
<1>7. cls' \in ClientType
  <2>1. <<>> \in Seq(ClientCmd)
    OBVIOUS
  <2> QED
    BY <1>2, <1>4, <2>1, ClientWith
<1>8. ClientOK'
  BY <1>4, <1>7, SettingKept DEF Basics, ClientOK
<1>9. FailureOK'
  BY <1>4 DEF Basics, FailureOK
<1> QED
  BY <1>5, <1>6, <1>8, <1>9 DEF Basics

LEMMA LoadingEndsBasics ==
  ASSUME Basics, setting' = setting, LoadingEnds
  PROVE  Basics'
<1>1. UNCHANGED <<serverVars, cls, parsing, says, canSend, net, failure>>
      /\ loading' = "no"
  BY DEF LoadingEnds
<1>2. ServerOK' /\ WireOK'
  BY <1>1, ServerKept, WireKept DEF Basics
<1>3. ClientOK'
  BY <1>1, SettingKept DEF Basics, ClientOK
<1> QED
  BY <1>1, <1>2, <1>3 DEF Basics, FailureOK

LEMMA InitBasics == Init => Basics
<1> SUFFICES ASSUME Init
             PROVE  Basics
  OBVIOUS
<1>1. setting \in Settings /\ setting.levels \in Nat \ {0}
      /\ setting.says \in Nat
  BY CmdsAreCommands DEF Init
<1> DEFINE s == [spawned |-> FALSE, sendsignon |-> FALSE,
                 message |-> <<>>, net_wait |-> TRUE]
<1>2. s \in SlotType
  BY DEF SlotType
<1>3. level = 1 /\ 1 \in 1..setting.levels
  BY <1>1 DEF Init
<1>4. host_client = SV_SendServerinfo(s, 1)
  BY DEF Init
<1> HIDE DEF s
<1>5. host_client \in SlotType
  BY <1>2, <1>3, <1>4, NewSlotType
<1>6. ServerOK
  BY <1>3, <1>5 DEF Init, ServerOK, PhaseOK
<1>7. cls \in ClientType
  <2>1. <<Nop>> \in Seq(ClientCmd)
    <3>1. Nop \in ClientCmd
      BY StageCmds
    <3> HIDE DEF Nop
    <3> QED
      BY <3>1
  <2>2. 0 \in 0..SIGNONS /\ 0 \in 0..setting.levels
    BY <1>1 DEF SIGNONS
  <2>3. cls = [signon |-> 0, message |-> <<Nop>>, reconnect |-> FALSE,
               level |-> 0]
    BY DEF Init
  <2> QED
    BY <2>1, <2>2, <2>3 DEF ClientType
<1>8. ClientOK
  BY <1>1, <1>7 DEF Init, ClientOK
<1>9. \A e \in End : net[e] = <<>> /\ canSend[e] = TRUE
  BY DEF Init, End
<1>10. \A e \in End : Channel(e)
  BY <1>9, PeerIs DEF Channel, Has, Once
<1>11. NetTypeOK /\ CanSendOK
  BY <1>9 DEF Init, NetTypeOK, CanSendOK, End
<1> QED
  BY <1>1, <1>6, <1>8, <1>10, <1>11 DEF Init, Basics, WireOK, FailureOK

LEMMA NextBasics == Basics /\ [Next]_vars => Basics'
<1> SUFFICES ASSUME Basics, [Next]_vars
             PROVE  Basics'
  OBVIOUS
<1>1. CASE UNCHANGED vars
  <2>1. UNCHANGED <<setting, serverVars, clientVars, canSend, net, failure>>
    BY <1>1 DEF vars, gameVars
  <2>2. ServerOK' /\ ClientOK' /\ WireOK'
    BY <2>1, ServerKept, ClientKept, WireKept DEF Basics
  <2> QED
    BY <2>1, <2>2 DEF Basics, FailureOK
<1>2. CASE Next
  <2>1. setting' = setting /\ (ServerNext \/ ClientNext)
    BY <1>2 DEF Next
  <2>2. CASE ServerNext
    BY <2>1, <2>2, ReadClientBasics, SendClientBasics, ReconnectBasics,
       DrainReadBasics, SpawnServerBasics, QuietServerBasics DEF ServerNext
  <2>3. CASE ClientNext
    BY <2>1, <2>3, ClientFrameBasics, ReadServerBasics, ServerInfoBasics,
       SignonnumBasics, OtherParseBasics, KeepaliveReadBasics, KeepaliveBasics,
       LoadingEndsBasics DEF ClientNext, ParseNext
  <2> QED
    BY <2>1, <2>2, <2>3
<1> QED
  BY <1>1, <1>2

\* The variables have their types in every run, whatever disturbs it.
THEOREM SignOnTypesAlways == Spec => []TypeOK
<1>1. Spec => []Basics
  BY InitBasics, NextBasics, PTL DEF Spec
<1>2. Basics => TypeOK
  BY BasicsAre
<1> QED
  BY <1>1, <1>2, PTL

-----------------------------------------------------------------------------
(* Signing on: every step takes the stage from its place to the next one,  *)
(* or leaves it there.                                                     *)

Signed ==
  /\ NoFailure
  /\ Orderly \/ OnFirstLevel => SignsOn
  /\ Orderly => InOrder

\* How the parts of SignsOn are put together.
LEMMA StageSigns ==
  ASSUME NEW k \in 1..3, NEW w \in Place, AtStage(k, w)',
         Orderly' => OrderlyAtStage(k, w)'
  PROVE  SignsOn'
BY DEF SignsOn

LEMMA PlaySigns ==
  ASSUME Playing', Orderly' => OrderlyPlaying'
  PROVE  SignsOn'
BY DEF SignsOn

LEMMA LeaveSigns ==
  ASSUME NEW w \in {"sent", "parsing", "command", "left"}, Orderly', Leaving(w)'
  PROVE  SignsOn'
BY DEF SignsOn

\* What the words mean does not change while the level stays.
LEMMA WordsKept ==
  ASSUME setting' = setting
  PROVE  /\ Orderly' <=> Orderly
         /\ NoTalk' = NoTalk
         /\ \A k : NoAnswer(k)' = NoAnswer(k)
         /\ level' = level => \A k : NoStage(k)' = NoStage(k)
<1>1. Orderly' <=> Orderly
  BY DEF Orderly
<1>2. NoTalk' = NoTalk
  BY DEF NoTalk, AreTalk, IsTalk
<1>3. ASSUME NEW k
      PROVE  NoAnswer(k)' = NoAnswer(k)
  BY DEF NoAnswer, IsAnswer, IsTalk
<1>4. ASSUME NEW k, level' = level
      PROVE  NoStage(k)' = NoStage(k)
  BY <1>4 DEF NoStage, IsStage
<1> QED
  BY <1>1, <1>2, <1>3, <1>4

\* Kinds of packets.
LEMMA KindsAre ==
  /\ NoTalk \subseteq DataPacket /\ NoPrint \subseteq DataPacket
  /\ NoReconnect \subseteq DataPacket
  /\ \A k : NoAnswer(k) \subseteq DataPacket /\ NoStage(k) \subseteq DataPacket
  /\ DataPacket \subseteq Packet /\ OtherPacket = Packet \ DataPacket
  /\ AckPacket \subseteq OtherPacket /\ UpdatePacket \subseteq OtherPacket
  /\ Ack \in AckPacket /\ Ack \notin UpdatePacket /\ Ack \notin DataPacket
BY PacketKinds DEF NoTalk, NoPrint, NoReconnect, NoAnswer, NoStage, DataPacket,
                   OtherPacket, AckPacket, UpdatePacket

LEMMA HasMore ==
  ASSUME NEW q, NEW T, NEW U, T \subseteq U, Has(q, T)
  PROVE  Has(q, U)
BY DEF Has

LEMMA TakeHas ==
  ASSUME WireOK, NEW e \in End, NEW i \in DOMAIN net[e], Take(e, i)
  PROVE  LET p == net[e][i]
             f == Peer(e)
         IN /\ p \in Packet
            /\ \A T : /\ Has(net'[e], T) => Has(net[e], T)
                      /\ p \in T => Has(net[e], T)
                      /\ p \notin T => (Has(net[e], T) <=> Has(net'[e], T))
                      /\ Ack \notin T => (Has(net'[f], T) <=> Has(net[f], T))
            /\ p \in DataPacket => ~Has(net'[e], DataPacket)
            /\ p \notin DataPacket => net'[f] = net[f]
<1> DEFINE p == net[e][i]
           f == Peer(e)
           q == net[e]
           r == net[f]
<1>1. /\ q \in Seq(Packet) /\ r \in Seq(Packet) /\ p \in Packet
      /\ net'[e] = Without(q, i)
      /\ net'[f] = IF p.type = "DATA" THEN Append(r, Ack) ELSE r
  BY TakeIs DEF WireOK
<1>2. p \in DataPacket <=> p.type = "DATA"
  BY <1>1 DEF DataPacket
<1>3. Once(q, DataPacket)
  BY PeerIs DEF WireOK, Channel
<1>4. Ack \in Packet
  BY KindsAre DEF AckPacket
<1>5. ASSUME NEW T
      PROVE  /\ Has(net'[e], T) => Has(q, T)
             /\ p \in T => Has(q, T)
             /\ p \notin T => (Has(q, T) <=> Has(net'[e], T))
  BY <1>1, WithoutKeeps DEF Has
<1>6. p \in DataPacket => ~Has(net'[e], DataPacket)
  BY <1>1, <1>3, WithoutKeeps
<1>7. ASSUME NEW T, Ack \notin T
      PROVE  Has(net'[f], T) <=> Has(r, T)
  <2>1. Has(Append(r, Ack), T) <=> Has(r, T)
    BY <1>1, <1>4, <1>7, AppendKeeps
  <2> QED
    BY <1>1, <2>1
<1> QED
  BY <1>1, <1>2, <1>5, <1>6, <1>7

\* What a packet that is not reliable holds means nothing to who signs on,
\* and to a player in the game is of the game.
LEMMA OthersMean ==
  ASSUME NEW p \in OtherPacket
  PROVE  /\ p \notin UpdatePacket => AreNops(p.body)
         /\ AreOfGame(p.body)
         /\ p.body \in Seq(ClientCmd) => AreTalk(p.body)
         /\ p.type = "UNRELIABLE" /\ p \notin UpdatePacket => p.body = <<Nop>>
<1>1. p \in Packet /\ p.type # "DATA" /\ p.body \in Seq(Command)
  BY DEF OtherPacket, DataPacket, Packet, Body
<1>2. CASE p.type = "ACK"
  <2>1. p.body = <<>>
    BY <1>1, <1>2 DEF Packet
  <2> QED
    BY <1>2, <2>1 DEF AreNops, AreOfGame, AreTalk
<1>3. CASE p.type = "UNRELIABLE"
  <2> DEFINE b == p.body
  <2>1. /\ Len(b) = 1 /\ b \in Seq(Command)
        /\ b[1].name \in {"nop", "update"}
    BY <1>1, <1>3 DEF Packet
  <2>2. p \notin UpdatePacket => b[1] = Nop
    BY <1>1, <1>3, <2>1 DEF UpdatePacket
  <2> HIDE DEF b
  <2>3. DOMAIN b = {1}
    BY <2>1
  <2>4. b[1] = Nop => b = <<Nop>> /\ AreNops(b)
    <3>1. b = [j \in 1..1 |-> b[j]]
      BY <2>1
    <3>2. Nop.name = "nop"
      BY CmdIs DEF Nop
    <3> HIDE DEF Nop
    <3>3. b[1] = Nop => b = <<Nop>>
      BY <3>1
    <3> QED
      BY <2>3, <3>2, <3>3 DEF AreNops
  <2>5. AreOfGame(b)
    BY <2>1, <2>3 DEF AreOfGame
  <2>6. b \in Seq(ClientCmd) => AreTalk(b)
    <3>1. "update" \notin {c.name : c \in ClientCmd}
      BY DEF ClientCmd, Cmd
    <3>2. b \in Seq(ClientCmd) => b[1] \in ClientCmd
      BY <2>1
    <3> QED
      BY <2>1, <2>3, <3>1, <3>2 DEF AreTalk, IsTalk
  <2> QED
    BY <2>2, <2>4, <2>5, <2>6 DEF b
<1> QED
  BY <1>1, <1>2, <1>3 DEF Packet

LEMMA OrderlyIs ==
  ASSUME Orderly
  PROVE  setting.says = 0 /\ \A d : ~MayHappen(d)
BY DEF Orderly, MayHappen

LEMMA ServerAtKept ==
  ASSUME NEW k, NEW w, ServerAt(k, w), level' = level,
         phase' \in {"commands", "clients"},
         host_client'.spawned = host_client.spawned,
         host_client'.message = host_client.message,
         host_client'.sendsignon = host_client.sendsignon
  PROVE  ServerAt(k, w)'
<1>1. IsStage(host_client.message, k)' <=> IsStage(host_client.message, k)
  BY DEF IsStage
<1> QED
  BY <1>1 DEF ServerAt

LEMMA ClientAtKept ==
  ASSUME NEW k, NEW w, ClientAt(k, w),
         UNCHANGED <<setting, level, cls, parsing, loading>>
  PROVE  ClientAt(k, w)'
<1>1. /\ IsStage(parsing, k)' <=> IsStage(parsing, k)
      /\ IsAnswer(cls.message, k)' <=> IsAnswer(cls.message, k)
      /\ AreTalk(cls.message)' <=> AreTalk(cls.message)
  BY DEF IsStage, IsAnswer, AreTalk, IsTalk
<1>2. IsLoaded(parsing)' <=> IsLoaded(parsing)
  BY DEF IsLoaded
<1>3. AreNops(parsing)' <=> AreNops(parsing)
  BY DEF AreNops
<1> QED
  BY <1>1, <1>2, <1>3 DEF ClientAt

LEMMA NetAtKept ==
  ASSUME NEW k, NEW w, NetAt(k, w), setting' = setting, level' = level,
         Has(net'["client"], UpdatePacket) => Has(net["client"], UpdatePacket),
         \A T \in {DataPacket, NoStage(k)} :
           Has(net'["client"], T) <=> Has(net["client"], T),
         \A T \in {DataPacket, NoAnswer(k), NoTalk} :
           Has(net'["server"], T) <=> Has(net["server"], T)
  PROVE  NetAt(k, w)'
BY WordsKept DEF NetAt

LEMMA ReadServerSigns ==
  ASSUME Basics, SignsOn, Orderly => InOrder, setting' = setting,
         NEW i \in DOMAIN net["client"], CL_ReadFromServer(i)
  PROVE  SignsOn' /\ failure' = failure /\ (Orderly => InOrder')
<1> DEFINE p == net["client"][i]
<1>1. "client" \in End /\ Peer("client") = "server"
  BY DEF End, Peer
<1>2. /\ Take("client", i) /\ i \in Readable("client") /\ parsing' = p.body
      /\ parsing = <<>> /\ loading = "no"
      /\ UNCHANGED <<phase, draining, level, host_client, cls, loading, says,
                     failure>>
  BY DEF CL_ReadFromServer, Between, serverVars
<1>3. WireOK /\ NetTypeOK /\ CanSendOK /\ net["client"] \in Seq(Packet)
  BY <1>1 DEF Basics, WireOK, NetTypeOK
<1>4. /\ p \in Packet
      /\ \A T : /\ Has(net'["client"], T) => Has(net["client"], T)
                /\ p \in T => Has(net["client"], T)
                /\ p \notin T =>
                     (Has(net["client"], T) <=> Has(net'["client"], T))
                /\ Ack \notin T =>
                     (Has(net'["server"], T) <=> Has(net["server"], T))
      /\ p \in DataPacket => ~Has(net'["client"], DataPacket)
  BY <1>1, <1>2, <1>3, TakeHas
<1>5. Orderly => InOrder'
  <2>1. net'["client"] = Without(net["client"], i)
    BY <1>1, <1>2, <1>3, TakeIs
  <2> QED
    BY <1>3, <2>1, WithoutInOrder DEF InOrder
<1>6. ASSUME Orderly, p \in DataPacket
      PROVE  ~Has(net'["client"], AckPacket) /\ ~Has(net'["client"], UpdatePacket)
  <2>1. i = 1
    BY <1>2, <1>6, OrderlyIs DEF Readable
  <2> DEFINE U == AckPacket \cup UpdatePacket
  <2>2. ~Has(net["client"], U)
    BY <1>3, <1>6, <2>1, FirstInOrder DEF InOrder
  <2>3. ~Has(net'["client"], U)
    BY <1>4, <2>2
  <2> QED
    BY <2>3, HasMore
<1>7. /\ \A T \in SUBSET DataPacket :
           Has(net'["server"], T) <=> Has(net["server"], T)
      /\ Silent' <=> Silent
  <2>1. \A T \in SUBSET DataPacket : Ack \notin T
    BY KindsAre
  <2> QED
    BY <1>2, <1>4, <2>1 DEF Silent
<1>8. Orderly' <=> Orderly
  BY WordsKept
<1> HIDE DEF p
<1>9. ASSUME NEW k \in 1..3, NEW w \in Place, AtStage(k, w),
             Orderly => OrderlyAtStage(k, w)
      PROVE  SignsOn'
  <2>1. ServerAt(k, w) /\ ClientAt(k, w) /\ NetAt(k, w)
    BY <1>9 DEF AtStage
  <2>2. w # "parsing"
    BY <1>2, <2>1 DEF ClientAt, IsStage, IsLoaded
  <2>3. CASE p \notin DataPacket
    <3>1. AreNops(parsing')
      <4>1. p \in OtherPacket /\ p \notin UpdatePacket
        BY <1>4, <2>1, <2>3 DEF OtherPacket, NetAt
      <4> QED
        BY <1>2, <4>1, OthersMean
    <3>2. ServerAt(k, w)'
      BY <1>2, <2>1, ServerAtKept DEF ServerAt
    <3>3. ClientAt(k, w)'
      <4>1. /\ IsAnswer(cls.message, k)' <=> IsAnswer(cls.message, k)
            /\ AreTalk(cls.message)' <=> AreTalk(cls.message)
        BY <1>2 DEF IsAnswer, AreTalk, IsTalk
      <4>2. AreNops(parsing)'
        BY <3>1
      <4> QED
        BY <1>2, <2>1, <2>2, <4>1, <4>2 DEF ClientAt
    <3>4. NetAt(k, w)'
      <4>1. \A T \in SUBSET DataPacket :
              Has(net["client"], T) <=> Has(net'["client"], T)
        BY <1>4, <2>3
      <4> QED
        BY <1>2, <1>4, <1>7, <2>1, <4>1, KindsAre, NetAtKept
    <3>5. Orderly => OrderlyAtStage(k, w)'
      <4>1. Fresh => Fresh'
        <5>1. net'["server"] = net["server"]
          BY <1>1, <1>2, <1>3, <2>3, TakeHas DEF p
        <5> QED
          BY <1>2, <5>1 DEF Fresh
      <4> QED
        BY <1>2, <1>7, <1>9, <2>2, <4>1 DEF OrderlyAtStage
    <3> QED
      BY <1>8, <3>2, <3>3, <3>4, <3>5, StageSigns DEF AtStage
  <2>4. CASE p \in DataPacket
    <3>1. w = "sent" /\ IsStage(p.body, k)
      <4>1. w = "sent"
        BY <1>4, <2>1, <2>4 DEF NetAt
      <4>2. p \notin NoStage(k)
        BY <1>4, <2>1, <4>1 DEF NetAt
      <4> QED
        BY <2>4, <4>1, <4>2 DEF NoStage
    <3>2. IsStage(parsing, k)'
      BY <1>2, <3>1 DEF IsStage
    <3>3. ServerAt(k, "parsing")'
      BY <1>2, <2>1, <3>1 DEF ServerAt
    <3>4. ClientAt(k, "parsing")'
      <4>1. AreTalk(cls.message)' <=> AreTalk(cls.message)
        BY <1>2 DEF AreTalk, IsTalk
      <4>2. k = 1 => ~IsLoaded(parsing)'
        BY <3>2 DEF IsStage, IsLoaded
      <4> QED
        BY <1>2, <2>1, <3>1, <3>2, <4>1, <4>2 DEF ClientAt
    <3>5. NetAt(k, "parsing")'
      BY <1>4, <1>7, <2>1, <2>4, <3>1, KindsAre, WordsKept DEF NetAt
    <3>6. Orderly => OrderlyAtStage(k, "parsing")'
      <4>1. Orderly => Silent /\ ~Has(net'["client"], AckPacket)
        BY <1>6, <1>9, <2>4, <3>1 DEF OrderlyAtStage
      <4>2. Silent => cls'.message = <<>>
        BY <1>2 DEF Silent
      <4> QED
        BY <1>7, <4>1, <4>2 DEF OrderlyAtStage
    <3> QED
      BY <1>8, <3>3, <3>4, <3>5, <3>6, StageSigns DEF AtStage, Place
  <2> QED
    BY <2>3, <2>4
<1>10. ASSUME Playing, Orderly => OrderlyPlaying
       PROVE  SignsOn'
  <2>1. ServerPlays /\ ClientPlays /\ NetPlays
    BY <1>10 DEF Playing
  <2>2. AreOfGame(parsing')
    <3>1. CASE p \in DataPacket
      <4>1. p \notin NoPrint
        BY <1>4, <2>1 DEF NetPlays
      <4>2. ArePrints(p.body)
        BY <3>1, <4>1 DEF NoPrint
      <4> QED
        BY <1>2, <4>2 DEF ArePrints, AreOfGame, p
    <3>2. CASE p \notin DataPacket
      BY <1>2, <1>4, <3>2, OthersMean DEF OtherPacket, p
    <3> QED
      BY <3>1, <3>2
  <2>3. ServerPlays'
    BY <1>2, <2>1 DEF ServerPlays, InGame
  <2>4. ClientPlays'
    <3>1. AreTalk(cls.message)' <=> AreTalk(cls.message)
      BY <1>2 DEF AreTalk, IsTalk
    <3>2. AreOfGame(parsing)'
      BY <2>2
    <3> QED
      BY <1>2, <2>1, <3>1, <3>2 DEF ClientPlays
  <2>5. NetPlays'
    BY <1>4, <1>7, <2>1, KindsAre, WordsKept DEF NetPlays
  <2>6. Orderly => OrderlyPlaying'
    BY <1>4, <1>7, <1>10 DEF OrderlyPlaying
  <2> QED
    BY <1>8, <2>3, <2>4, <2>5, <2>6, PlaySigns DEF Playing
<1>11. ASSUME Orderly, NEW w \in {"sent", "parsing", "command", "left"},
              Leaving(w)
       PROVE  SignsOn'
  <2>1. w # "parsing"
    BY <1>2, <1>11 DEF Leaving, IsReconnect
  <2>2. w = "sent"
    BY <1>4, <1>11, <2>1 DEF Leaving
  <2>3. CASE p \in DataPacket
    <3>1. IsReconnect(parsing)'
      <4>1. p \notin NoReconnect
        BY <1>4, <1>11, <2>2 DEF Leaving
      <4>2. IsReconnect(p.body)
        BY <2>3, <4>1 DEF NoReconnect
      <4> QED
        BY <1>2, <4>2 DEF IsReconnect, p
    <3>2. ~Has(net'["client"], Packet)
      <4>1. i = 1
        BY <1>2, <1>11, OrderlyIs DEF Readable
      <4>2. ~Has(net["client"], OtherPacket)
        BY <1>3, <1>11, <2>2, <2>3, <4>1, FirstInOrder DEF Leaving, p
      <4>3. ~Has(net'["client"], OtherPacket) /\ ~Has(net'["client"], DataPacket)
        BY <1>4, <2>3, <4>2
      <4> QED
        BY <4>3 DEF Has, OtherPacket
    <3>3. Leaving("parsing")'
      BY <1>2, <1>7, <1>11, <2>2, <3>1, <3>2 DEF Leaving
    <3> QED
      BY <1>8, <1>11, <3>3, LeaveSigns
  <2>4. CASE p \notin DataPacket
    <3>1. AreOfGame(parsing)'
      BY <1>2, <1>4, <2>4, OthersMean DEF OtherPacket, p
    <3>2. Before(net'["client"], OtherPacket, DataPacket)
      <4>1. net'["client"] = Without(net["client"], i)
        BY <1>1, <1>2, <1>3, TakeIs
      <4> QED
        BY <1>3, <1>11, <2>2, <4>1, WithoutInOrder DEF Leaving
    <3>3. Leaving("sent")'
      BY <1>2, <1>4, <1>7, <1>11, <2>2, <2>4, <3>1, <3>2, KindsAre DEF Leaving
    <3> QED
      BY <1>8, <1>11, <3>3, LeaveSigns
  <2> QED
    BY <2>3, <2>4
<1>12. SignsOn'
  BY <1>9, <1>10, <1>11 DEF SignsOn
<1> QED
  BY <1>2, <1>5, <1>12

\* A client that loads a level is at the first stage.
LEMMA LoadingIs ==
  ASSUME SignsOn, loading # "no"
  PROVE  /\ AtStage(1, "parsing") /\ (Orderly => OrderlyAtStage(1, "parsing"))
         /\ IsLoaded(parsing) /\ cls.level = level
<1>1. ~Playing /\ \A w : ~Leaving(w)
  BY DEF Playing, ClientPlays, Leaving
<1>2. PICK k \in 1..3, w \in Place :
        AtStage(k, w) /\ (Orderly => OrderlyAtStage(k, w))
  BY <1>1 DEF SignsOn
<1>3. k = 1 /\ w = "parsing" /\ IsLoaded(parsing)
  BY <1>2 DEF AtStage, ClientAt
<1>4. cls.level = level
  BY <1>2, <1>3 DEF AtStage, ClientAt
<1> QED
  BY <1>2, <1>3, <1>4

LEMMA KeepaliveReadSigns ==
  ASSUME Basics, SignsOn, Orderly => InOrder, setting' = setting,
         NEW i \in DOMAIN net["client"], KeepaliveRead(i)
  PROVE  SignsOn' /\ failure' = failure /\ (Orderly => InOrder')
<1> DEFINE p == net["client"][i]
<1>1. "client" \in End /\ Peer("client") = "server"
  BY DEF End, Peer
<1>2. /\ Take("client", i) /\ loading # "no"
      /\ UNCHANGED <<phase, draining, level, host_client, cls, parsing,
                     loading, says>>
      /\ failure' = IF p.type = "DATA" THEN "message"
                    ELSE IF p.type = "UNRELIABLE" /\ p.body # <<Nop>>
                         THEN "datagram" ELSE failure
  BY DEF KeepaliveRead, serverVars
<1>3. WireOK /\ NetTypeOK /\ CanSendOK /\ net["client"] \in Seq(Packet)
  BY <1>1 DEF Basics, WireOK, NetTypeOK
<1>4. /\ p \in Packet
      /\ \A T : /\ Has(net'["client"], T) => Has(net["client"], T)
                /\ p \in T => Has(net["client"], T)
                /\ p \notin T =>
                     (Has(net["client"], T) <=> Has(net'["client"], T))
                /\ Ack \notin T =>
                     (Has(net'["server"], T) <=> Has(net["server"], T))
  BY <1>1, <1>2, <1>3, TakeHas
<1>5. Orderly => InOrder'
  <2>1. net'["client"] = Without(net["client"], i)
    BY <1>1, <1>2, <1>3, TakeIs
  <2> QED
    BY <1>3, <2>1, WithoutInOrder DEF InOrder
<1>6. \A T \in SUBSET DataPacket :
        Has(net'["server"], T) <=> Has(net["server"], T)
  BY <1>4, KindsAre
<1>7. AtStage(1, "parsing") /\ (Orderly => OrderlyAtStage(1, "parsing"))
      /\ IsLoaded(parsing)
  BY <1>2, LoadingIs
<1> HIDE DEF p
<1>8. p \notin DataPacket /\ p \notin UpdatePacket /\ p \in OtherPacket
  BY <1>4, <1>7 DEF AtStage, NetAt, OtherPacket
<1>9. failure' = failure
  BY <1>2, <1>4, <1>8, OthersMean DEF DataPacket
<1>10. ServerAt(1, "parsing")' /\ ClientAt(1, "parsing")'
  BY <1>2, <1>7, ServerAtKept, ClientAtKept DEF AtStage, ServerAt
<1>11. NetAt(1, "parsing")'
  <2>1. \A T \in SUBSET DataPacket :
          Has(net["client"], T) <=> Has(net'["client"], T)
    BY <1>4, <1>8
  <2> QED
    BY <1>2, <1>4, <1>6, <1>7, <2>1, KindsAre, NetAtKept DEF AtStage
<1>12. Orderly => OrderlyAtStage(1, "parsing")'
  <2>1. Silent' <=> Silent
    BY <1>2, <1>6 DEF Silent
  <2>2. BeforeKeepalive' <=> BeforeKeepalive
    BY <1>2 DEF BeforeKeepalive, IsLoaded
  <2> QED
    BY <1>2, <1>4, <1>7, <2>1, <2>2 DEF OrderlyAtStage
<1>13. SignsOn'
  BY <1>10, <1>11, <1>12, WordsKept, StageSigns DEF AtStage, Place
<1> QED
  BY <1>5, <1>9, <1>13

LEMMA KeepaliveSigns ==
  ASSUME Basics, SignsOn, Orderly => InOrder, setting' = setting,
         failure = "none", CL_KeepaliveMessage
  PROVE  /\ SignsOn' /\ (Orderly => InOrder')
         /\ failure' = "none" \/ (~Orderly /\ failure' = "canSend")
<1> DEFINE out == Append(cls.message, Nop)
<1>1. "client" \in End /\ Peer("client") = "server"
  BY DEF End, Peer
<1>2. /\ IF canSend["client"]
         THEN Send("client", out) /\ UNCHANGED failure
         ELSE failure' = "canSend" /\ UNCHANGED <<canSend, net>>
      /\ cls' = [cls EXCEPT !.message = <<>>]
      /\ loading' = "yes, and sent a nop" /\ loading # "no"
      /\ loading = "yes" \/ MayHappen("slow")
      /\ UNCHANGED <<phase, level, host_client, parsing>>
  BY DEF CL_KeepaliveMessage, serverVars
<1>3. /\ AtStage(1, "parsing") /\ (Orderly => OrderlyAtStage(1, "parsing"))
      /\ IsLoaded(parsing) /\ cls.level = level
  BY <1>2, LoadingIs
<1>4. WireOK /\ NetTypeOK /\ CanSendOK /\ cls \in ClientType
  BY DEF Basics, WireOK, ClientOK
<1>5. ASSUME Orderly
      PROVE  canSend["client"]
  <2>1. BeforeKeepalive
    BY <1>2, <1>5, OrderlyIs DEF BeforeKeepalive
  <2>2. Silent /\ ~Has(net["client"], AckPacket)
    BY <1>3, <1>5, <2>1 DEF OrderlyAtStage
  <2> QED
    BY <1>1, <1>4, <2>2 DEF WireOK, Channel, Silent
<1>6. failure' = "none" \/ (~Orderly /\ failure' = "canSend")
  BY <1>2, <1>5
<1>7. out \in Seq(ClientCmd) /\ out \in Body
  BY <1>4, ClientMessages, ClientWith, MessagesAreBodies DEF Basics
<1>8. AreTalk(cls.message) /\ cls.message \in Seq(ClientCmd)
  BY <1>3, <1>4, ClientWith DEF AtStage, ClientAt
<1>9. AreTalk(out)
  <2>1. Nop.name = "nop"
    BY CmdIs DEF Nop
  <2> HIDE DEF Nop
  <2> QED
    BY <1>8, <2>1 DEF AreTalk, IsTalk
<1> HIDE DEF out
<1>10. /\ net'["client"] = net["client"]
       /\ Has(net'["server"], NoTalk) => Has(net["server"], NoTalk)
  <2>1. CASE canSend["client"]
    <3> DEFINE d == Data(out)
               q == Append(net["server"], d)
    <3>1. /\ net["server"] \in Seq(Packet) /\ d \in Packet
          /\ net'["client"] = net["client"] /\ net'["server"] = q
      BY <1>1, <1>2, <1>4, <1>7, <2>1, SendIs
    <3>2. d \notin NoTalk
      BY <1>7, <1>9, PacketKinds DEF NoTalk
    <3> HIDE DEF d
    <3>3. Has(q, NoTalk) <=> Has(net["server"], NoTalk) \/ d \in NoTalk
      BY <3>1, AppendKeeps
    <3> HIDE DEF q
    <3> QED
      BY <3>1, <3>2, <3>3
  <2>2. CASE ~canSend["client"]
    BY <1>2, <2>2
  <2> QED
    BY <2>1, <2>2
<1>11. /\ cls'.message = <<>> /\ cls'.signon = cls.signon
       /\ cls'.level = cls.level /\ cls'.reconnect = cls.reconnect
  BY <1>2, <1>4 DEF ClientType
<1>12. ServerAt(1, "parsing")'
  BY <1>2, <1>3, ServerAtKept DEF AtStage, ServerAt
<1>13. ClientAt(1, "parsing")'
  <2>1. AreTalk(cls.message)'
    BY <1>11 DEF AreTalk
  <2>2. IsLoaded(parsing)'
    BY <1>2, <1>3 DEF IsLoaded
  <2> QED
    BY <1>2, <1>3, <1>11, <2>1, <2>2 DEF AtStage, ClientAt
<1>14. NetAt(1, "parsing")'
  BY <1>3, <1>10, WordsKept DEF AtStage, NetAt
<1>15. OrderlyAtStage(1, "parsing")'
  <2>1. ~BeforeKeepalive'
    BY <1>2 DEF BeforeKeepalive
  <2> QED
    BY <1>11, <2>1 DEF OrderlyAtStage
<1>16. SignsOn'
  BY <1>12, <1>13, <1>14, <1>15, StageSigns DEF AtStage, Place
<1> QED
  BY <1>6, <1>10, <1>16 DEF InOrder

LEMMA LoadingEndsSigns ==
  ASSUME Basics, SignsOn, Orderly => InOrder, setting' = setting, LoadingEnds
  PROVE  SignsOn' /\ failure' = failure /\ (Orderly => InOrder')
<1>1. /\ loading' = "no" /\ loading # "no"
      /\ UNCHANGED <<phase, level, host_client, cls, parsing, canSend, net,
                     failure>>
  BY DEF LoadingEnds, serverVars
<1>2. /\ AtStage(1, "parsing") /\ (Orderly => OrderlyAtStage(1, "parsing"))
      /\ IsLoaded(parsing) /\ cls.level = level
  BY <1>1, LoadingIs
<1>3. ServerAt(1, "parsing")'
  BY <1>1, <1>2, ServerAtKept DEF AtStage, ServerAt
<1>4. ClientAt(1, "parsing")'
  <2>1. AreTalk(cls.message)' <=> AreTalk(cls.message)
    BY <1>1 DEF AreTalk, IsTalk
  <2>2. IsLoaded(parsing)'
    BY <1>1, <1>2 DEF IsLoaded
  <2> QED
    BY <1>1, <1>2, <2>1, <2>2 DEF AtStage, ClientAt
<1>5. NetAt(1, "parsing")'
  BY <1>1, <1>2, WordsKept DEF AtStage, NetAt
<1>6. Orderly => OrderlyAtStage(1, "parsing")'
  <2>1. ~BeforeKeepalive'
    BY <1>1, <1>2 DEF BeforeKeepalive, IsLoaded
  <2> QED
    BY <1>1, <1>2, <2>1 DEF OrderlyAtStage
<1>7. SignsOn'
  BY <1>3, <1>4, <1>5, <1>6, WordsKept, StageSigns DEF AtStage, Place
<1> QED
  BY <1>1, <1>7 DEF InOrder

-----------------------------------------------------------------------------
(* The client parses a message.                                            *)

LEMMA ServerInfoSigns ==
  ASSUME Basics, SignsOn, Orderly => InOrder, setting' = setting,
         CL_ParseServerInfo
  PROVE  SignsOn' /\ failure' = failure /\ (Orderly => InOrder')
<1>1. Parse("serverinfo") /\ loading' = "yes" /\ failure' = failure
      /\ cls' = [cls EXCEPT !.message = <<>>, !.level = Head(parsing).n,
                            !.signon = 0]
  BY DEF CL_ParseServerInfo
<1>2. /\ Head(parsing).name = "serverinfo" /\ Head(parsing) = parsing[1]
      /\ parsing \in Seq(ServerCmd) /\ Len(parsing) \in Nat \ {0}
      /\ parsing' \in Seq(ServerCmd) /\ Len(parsing') = Len(parsing) - 1
      /\ \A j \in DOMAIN parsing' :
           j + 1 \in DOMAIN parsing /\ parsing'[j] = parsing[j + 1]
      /\ loading = "no"
      /\ UNCHANGED <<phase, level, host_client, canSend, net>>
  BY <1>1, ParseIs DEF serverVars
<1>3. 1 \in DOMAIN parsing /\ parsing[1].name = "serverinfo"
  BY <1>2
<1>4. ~Playing /\ \A w : ~Leaving(w)
  <2>1. ~AreOfGame(parsing)
    BY <1>3 DEF AreOfGame
  <2>2. ~IsReconnect(parsing)
    BY <1>3, CmdIs DEF IsReconnect
  <2>3. parsing # <<>>
    BY <1>2
  <2> QED
    BY <2>1, <2>2, <2>3 DEF Playing, ClientPlays, Leaving
<1>5. PICK k \in 1..3, w \in Place :
        AtStage(k, w) /\ (Orderly => OrderlyAtStage(k, w))
  BY <1>4 DEF SignsOn
<1>6. w = "parsing" /\ ~IsLoaded(parsing) /\ IsStage(parsing, k) /\ k = 1
  <2>1. ~AreNops(parsing)
    BY <1>3 DEF AreNops
  <2>2. ~IsLoaded(parsing)
    BY <1>3, CmdIs DEF IsLoaded, Signonnum
  <2>3. k # 1 => ~IsStage(parsing, k)
    BY <1>3, CmdIs DEF IsStage, Signonnum
  <2> QED
    BY <1>5, <2>1, <2>2, <2>3 DEF AtStage, ClientAt
<1>7. Len(parsing) = 2 /\ parsing[1].n = level /\ parsing[2] = Signonnum(1)
  BY <1>6, CmdIs DEF IsStage
<1>8. IsLoaded(parsing)'
  <2>1. Len(parsing') = 1 /\ 1 \in DOMAIN parsing'
    BY <1>2, <1>7
  <2>2. parsing'[1] = Signonnum(1)
    BY <1>2, <1>7, <2>1
  <2> QED
    BY <2>1, <2>2 DEF IsLoaded
<1>9. /\ cls'.message = <<>> /\ cls'.signon = 0
      /\ cls'.level = level /\ cls'.reconnect = cls.reconnect
  <2> DEFINE n == Head(parsing).n
  <2>1. n = level
    BY <1>2, <1>7
  <2>2. cls' = [cls EXCEPT !.message = <<>>, !.level = n, !.signon = 0]
    BY <1>1
  <2> HIDE DEF n
  <2>3. cls \in ClientType
    BY DEF Basics, ClientOK
  <2> QED
    BY <2>1, <2>2, <2>3 DEF ClientType
<1>10. ServerAt(1, "parsing")'
  BY <1>2, <1>5, <1>6, ServerAtKept DEF AtStage, ServerAt
<1>11. ClientAt(1, "parsing")'
  <2>1. AreTalk(cls.message)'
    BY <1>9 DEF AreTalk
  <2> QED
    BY <1>2, <1>5, <1>8, <1>9, <2>1 DEF AtStage, ClientAt
<1>12. NetAt(1, "parsing")'
  BY <1>2, <1>5, <1>6, WordsKept DEF AtStage, NetAt
<1>13. Orderly => OrderlyAtStage(1, "parsing")'
  <2>1. BeforeKeepalive
    BY <1>2, <1>6 DEF BeforeKeepalive
  <2>2. Orderly => Silent /\ ~Has(net["client"], AckPacket)
    BY <1>5, <1>6, <2>1 DEF OrderlyAtStage
  <2> QED
    BY <1>2, <1>9, <2>2 DEF OrderlyAtStage, Silent
<1>14. SignsOn'
  BY <1>10, <1>11, <1>12, <1>13, WordsKept, StageSigns DEF AtStage, Place
<1> QED
  BY <1>1, <1>2, <1>14 DEF InOrder

LEMMA SignonnumSigns ==
  ASSUME Basics, SignsOn, Orderly => InOrder, setting' = setting,
         ParseSignonnum
  PROVE  SignsOn' /\ failure' = failure /\ (Orderly => InOrder')
<1> DEFINE n == Head(parsing).n
           m == Append(cls.message, CL_SignonReply(n))
<1>1. Parse("signonnum") /\ UNCHANGED loading
      /\ IF n <= cls.signon
         THEN failure' = "signon" /\ UNCHANGED cls
         ELSE cls' = [cls EXCEPT !.signon = n, !.message = m]
              /\ UNCHANGED failure
  BY DEF ParseSignonnum
<1>2. /\ Head(parsing).name = "signonnum" /\ Head(parsing) = parsing[1]
      /\ parsing \in Seq(ServerCmd) /\ Len(parsing) \in Nat \ {0}
      /\ parsing' \in Seq(ServerCmd) /\ Len(parsing') = Len(parsing) - 1
      /\ loading = "no"
      /\ UNCHANGED <<phase, level, host_client, canSend, net>>
  BY <1>1, ParseIs DEF serverVars
<1>3. 1 \in DOMAIN parsing /\ parsing[1].name = "signonnum"
  BY <1>2
<1>4. ~Playing /\ \A w : ~Leaving(w)
  <2>1. ~AreOfGame(parsing)
    BY <1>3 DEF AreOfGame
  <2>2. ~IsReconnect(parsing)
    BY <1>3, CmdIs DEF IsReconnect
  <2>3. parsing # <<>>
    BY <1>2
  <2> QED
    BY <2>1, <2>2, <2>3 DEF Playing, ClientPlays, Leaving
<1>5. PICK k \in 1..3, w \in Place :
        AtStage(k, w) /\ (Orderly => OrderlyAtStage(k, w))
  BY <1>4 DEF SignsOn
<1>6. w = "parsing" /\ (k = 1 => IsLoaded(parsing))
      /\ (k # 1 => IsStage(parsing, k))
  <2>1. ~AreNops(parsing)
    BY <1>3 DEF AreNops
  <2>2. ~IsStage(parsing, 1)
    BY <1>3, CmdIs DEF IsStage
  <2> QED
    BY <1>5, <2>1, <2>2 DEF AtStage, ClientAt
<1>7. Len(parsing) = 1 /\ parsing[1] = Signonnum(k)
  BY <1>6 DEF IsStage, IsLoaded
<1>8. n = k
  BY <1>2, <1>7, CmdIs DEF Signonnum
<1>9. cls.signon = k - 1 /\ cls.level = level /\ AreTalk(cls.message)
      /\ ~cls.reconnect
  BY <1>5, <1>6 DEF AtStage, ClientAt
<1>10. cls \in ClientType /\ cls.message \in Seq(ClientCmd)
  BY ClientWith DEF Basics, ClientOK
<1>11. ~(n <= cls.signon)
  BY <1>8, <1>9
<1>12. IsAnswer(m, k)
  <2> DEFINE c == CL_SignonReply(k)
             q == cls.message
             a == Len(q) + 1
             r == Append(q, c)
  <2>1. q \in Seq(ClientCmd) /\ c \in ClientCmd
    BY <1>10, StageCmds
  <2>2. m = r
    BY <1>8
  <2>3. AreTalk(q)
    BY <1>9
  <2> HIDE DEF c, q
  <2>4. /\ a \in DOMAIN r /\ r[a] = c
        /\ \A i \in DOMAIN r : i # a => i \in DOMAIN q /\ r[i] = q[i]
    BY <2>1
  <2> HIDE DEF r, a
  <2>5. \A i \in DOMAIN r : i # a => IsTalk(r[i])
    BY <2>3, <2>4 DEF AreTalk
  <2> QED
    BY <2>2, <2>4, <2>5 DEF IsAnswer, c
<1> HIDE DEF n, m
<1>13. /\ cls'.message = m /\ cls'.signon = k
       /\ cls'.level = level /\ cls'.reconnect = cls.reconnect
       /\ failure' = failure
  BY <1>1, <1>8, <1>9, <1>10, <1>11 DEF ClientType
<1>14. ServerAt(k, "answer")'
  BY <1>2, <1>5, <1>6 DEF AtStage, ServerAt
<1>15. ClientAt(k, "answer")'
  <2>1. IsAnswer(cls.message, k)'
    BY <1>12, <1>13 DEF IsAnswer, IsTalk
  <2>2. Len(parsing') = 0
    BY <1>2, <1>7
  <2>3. AreNops(parsing)'
    BY <1>2, <2>2 DEF AreNops
  <2> QED
    BY <1>1, <1>2, <1>9, <1>13, <2>1, <2>3 DEF ClientAt
<1>16. NetAt(k, "answer")'
  BY <1>2, <1>5, <1>6, WordsKept DEF AtStage, NetAt
<1>17. OrderlyAtStage(k, "answer")'
  BY DEF OrderlyAtStage
<1>18. SignsOn'
  BY <1>14, <1>15, <1>16, <1>17, StageSigns DEF AtStage, Place
<1> QED
  BY <1>2, <1>13, <1>18 DEF InOrder

LEMMA StufftextSigns ==
  ASSUME Basics, SignsOn, Orderly => InOrder, setting' = setting,
         ParseStufftext
  PROVE  SignsOn' /\ failure' = failure /\ (Orderly => InOrder')
<1>1. Parse("reconnect") /\ UNCHANGED <<loading, failure>>
      /\ cls' = [cls EXCEPT !.reconnect = TRUE]
  BY DEF ParseStufftext
<1>2. /\ Head(parsing).name = "reconnect" /\ Head(parsing) = parsing[1]
      /\ parsing \in Seq(ServerCmd) /\ Len(parsing) \in Nat \ {0}
      /\ parsing' \in Seq(ServerCmd) /\ Len(parsing') = Len(parsing) - 1
      /\ UNCHANGED <<phase, level, host_client, canSend, net>>
  BY <1>1, ParseIs DEF serverVars
<1>3. 1 \in DOMAIN parsing /\ parsing[1].name = "reconnect"
  BY <1>2
<1>4. ~AreOfGame(parsing) /\ ~AreNops(parsing) /\ parsing # <<>>
  BY <1>2, <1>3 DEF AreOfGame, AreNops
<1>5. ASSUME NEW k \in 1..3, NEW w
      PROVE  ~AtStage(k, w)
  <2>1. ~IsLoaded(parsing) /\ ~IsStage(parsing, k)
    BY <1>3, CmdIs DEF IsLoaded, IsStage, Signonnum
  <2> QED
    BY <1>4, <2>1 DEF AtStage, ClientAt
<1>6. ~Playing
  BY <1>4 DEF Playing, ClientPlays
<1>7. Orderly /\ Leaving("parsing")
  BY <1>4, <1>5, <1>6 DEF SignsOn, Leaving
<1>8. /\ cls'.message = cls.message /\ cls'.reconnect = TRUE
  BY <1>1 DEF Basics, ClientOK, ClientType
<1>9. parsing' = <<>>
  <2>1. Len(parsing) = 1
    BY <1>7 DEF Leaving, IsReconnect
  <2>2. Len(parsing') = 0
    BY <1>2, <2>1
  <2> QED
    BY <1>2, <2>2
<1>10. Leaving("command")'
  BY <1>1, <1>2, <1>7, <1>8, <1>9 DEF Leaving, Silent
<1>11. SignsOn'
  BY <1>7, <1>10, WordsKept, LeaveSigns
<1> QED
  BY <1>1, <1>2, <1>11 DEF InOrder

\* What is left of a message of nops, or of what a player gets.
LEMMA RestIs ==
  ASSUME NEW m \in Seq(ServerCmd), NEW t,
         \A j \in DOMAIN t : j + 1 \in DOMAIN m /\ t[j] = m[j + 1]
  PROVE  /\ AreNops(m) => AreNops(t)
         /\ AreOfGame(m) => AreOfGame(t)
BY DEF AreNops, AreOfGame

LEMMA OtherParseSigns ==
  ASSUME Basics, SignsOn, Orderly => InOrder, setting' = setting,
         CL_ParseUpdate \/ ParseOther
  PROVE  SignsOn' /\ failure' = failure /\ (Orderly => InOrder')
<1>1. PICK name \in {"update", "nop", "print"} : Parse(name)
  BY DEF CL_ParseUpdate, ParseOther
<1>2. UNCHANGED <<loading, failure>>
  BY DEF CL_ParseUpdate, ParseOther
<1>3. /\ Head(parsing).name = name /\ Head(parsing) = parsing[1]
      /\ parsing \in Seq(ServerCmd) /\ Len(parsing) \in Nat \ {0}
      /\ \A j \in DOMAIN parsing' :
           j + 1 \in DOMAIN parsing /\ parsing'[j] = parsing[j + 1]
      /\ UNCHANGED <<phase, level, host_client, canSend, net>>
  BY <1>1, ParseIs DEF serverVars
<1>4. 1 \in DOMAIN parsing /\ parsing[1].name = name
  BY <1>3
<1>5. ~IsReconnect(parsing) /\ parsing # <<>> /\ ~IsLoaded(parsing)
      /\ \A k \in 1..3 : ~IsStage(parsing, k)
  BY <1>3, <1>4, CmdIs DEF IsReconnect, IsLoaded, IsStage, Signonnum
<1>6. /\ AreNops(parsing) => AreNops(parsing') /\ name = "nop"
      /\ AreOfGame(parsing) => AreOfGame(parsing')
  BY <1>3, <1>4, RestIs DEF AreNops
<1>7. /\ cls'.message = cls.message /\ cls'.reconnect = cls.reconnect
      /\ cls'.level = cls.level
      /\ cls'.signon = IF CL_ParseUpdate /\ cls.signon = SIGNONS - 1
                       THEN SIGNONS ELSE cls.signon
      /\ CL_ParseUpdate => name = "update"
  <2>1. cls \in ClientType
    BY DEF Basics, ClientOK
  <2>2. CASE CL_ParseUpdate
    <3>1. Head(parsing).name = "update"
      BY <2>2 DEF CL_ParseUpdate, Parse
    <3>2. name = "update"
      BY <1>3, <3>1
    <3> DEFINE n == IF cls.signon = SIGNONS - 1 THEN SIGNONS ELSE cls.signon
    <3>3. cls' = [cls EXCEPT !.signon = n]
      BY <2>2 DEF CL_ParseUpdate
    <3> HIDE DEF n
    <3>4. /\ cls'.message = cls.message /\ cls'.reconnect = cls.reconnect
          /\ cls'.level = cls.level /\ cls'.signon = n
      BY <2>1, <3>3 DEF ClientType
    <3> QED
      BY <2>2, <3>2, <3>4 DEF n
  <2>3. CASE ~CL_ParseUpdate
    <3>1. cls' = cls
      BY <2>3 DEF ParseOther
    <3> QED
      BY <2>3, <3>1
  <2> QED
    BY <2>2, <2>3
<1>8. ASSUME NEW k \in 1..3, NEW w \in Place, AtStage(k, w),
             Orderly => OrderlyAtStage(k, w)
      PROVE  SignsOn'
  <2>1. w # "parsing" /\ AreNops(parsing) /\ loading = "no"
    BY <1>5, <1>8 DEF AtStage, ClientAt
  <2>2. cls'.signon = cls.signon
    BY <1>6, <1>7, <2>1
  <2>3. ServerAt(k, w)'
    BY <1>3, <1>8, ServerAtKept DEF AtStage, ServerAt
  <2>4. ClientAt(k, w)'
    <3>1. /\ IsAnswer(cls.message, k)' <=> IsAnswer(cls.message, k)
          /\ AreTalk(cls.message)' <=> AreTalk(cls.message)
      BY <1>7 DEF IsAnswer, AreTalk, IsTalk
    <3>2. AreNops(parsing)'
      BY <1>6, <2>1
    <3> QED
      BY <1>2, <1>3, <1>7, <1>8, <2>1, <2>2, <3>1, <3>2 DEF AtStage, ClientAt
  <2>5. NetAt(k, w)'
    BY <1>3, <1>8, WordsKept DEF AtStage, NetAt
  <2>6. Orderly => OrderlyAtStage(k, w)'
    <3>1. Silent' <=> Silent
      BY <1>3, <1>7 DEF Silent
    <3>2. Fresh' <=> Fresh
      BY <1>3, <1>7 DEF Fresh
    <3> QED
      BY <1>7, <1>8, <2>1, <3>1, <3>2 DEF OrderlyAtStage
  <2> QED
    BY <2>3, <2>4, <2>5, <2>6, WordsKept, StageSigns DEF AtStage
<1>9. ASSUME Playing, Orderly => OrderlyPlaying
      PROVE  SignsOn'
  <2>1. ServerPlays'
    BY <1>3, <1>9 DEF Playing, ServerPlays, InGame
  <2>2. ClientPlays'
    <3>1. AreTalk(cls.message)' <=> AreTalk(cls.message)
      BY <1>7 DEF AreTalk, IsTalk
    <3>2. AreOfGame(parsing)'
      BY <1>6, <1>9 DEF Playing, ClientPlays
    <3>3. cls'.signon \in {SIGNONS - 1, SIGNONS}
      BY <1>7, <1>9 DEF Playing, ClientPlays
    <3> QED
      BY <1>2, <1>3, <1>7, <1>9, <3>1, <3>2, <3>3 DEF Playing, ClientPlays
  <2>3. NetPlays'
    BY <1>3, <1>9, WordsKept DEF Playing, NetPlays
  <2>4. Orderly => OrderlyPlaying'
    BY <1>3, <1>7, <1>9 DEF OrderlyPlaying, Silent
  <2> QED
    BY <2>1, <2>2, <2>3, <2>4, WordsKept, PlaySigns DEF Playing
<1>10. ASSUME Orderly, NEW w \in {"sent", "parsing", "command", "left"},
              Leaving(w)
       PROVE  SignsOn'
  <2>1. w = "sent"
    BY <1>5, <1>10 DEF Leaving
  <2>2. AreOfGame(parsing)'
    BY <1>6, <1>10, <2>1 DEF Leaving
  <2>3. cls'.signon # 0
    BY <1>7, <1>10, <2>1 DEF Leaving, SIGNONS
  <2>4. Leaving("sent")'
    BY <1>2, <1>3, <1>7, <1>10, <2>1, <2>2, <2>3 DEF Leaving, Silent
  <2> QED
    BY <1>10, <2>4, WordsKept, LeaveSigns
<1>11. SignsOn'
  BY <1>8, <1>9, <1>10 DEF SignsOn
<1> QED
  BY <1>2, <1>3, <1>11 DEF InOrder

-----------------------------------------------------------------------------
(* The client's frame.                                                     *)

\* What a player may say comes behind what waits to be sent.
LEMMA OutIs ==
  ASSUME cls.message \in Seq(ClientCmd), NEW said \in BOOLEAN,
         said => setting.says > 0
  PROVE  /\ AreTalk(cls.message) => AreTalk(Out(said))
         /\ \A k : IsAnswer(cls.message, k) => IsAnswer(Out(said), k)
         /\ ~said => Out(said) = cls.message
<1>1. CASE ~said
  BY <1>1 DEF Out
<1>2. CASE said
  <2> DEFINE c == Cmd("say", 0)
             q == cls.message
             r == Append(q, c)
             a == Len(q) + 1
  <2>1. Out(said) = r /\ IsTalk(c)
    BY <1>2, CmdIs DEF Out, IsTalk
  <2> HIDE DEF c, q
  <2>2. q \in Seq(ClientCmd)
    BY DEF q
  <2>3. /\ \A i \in DOMAIN r : r[i] = c \/ (i \in DOMAIN q /\ r[i] = q[i])
        /\ \A i \in DOMAIN q : i \in DOMAIN r /\ r[i] = q[i]
    BY <2>2
  <2> HIDE DEF r
  <2>4. AreTalk(q) => AreTalk(r)
    BY <2>1, <2>3 DEF AreTalk
  <2>5. ASSUME NEW k, IsAnswer(q, k)
        PROVE  IsAnswer(r, k)
    <3>1. PICK b \in DOMAIN q : /\ q[b] = CL_SignonReply(k)
                                /\ \A i \in DOMAIN q : i # b => IsTalk(q[i])
      BY <2>5 DEF IsAnswer
    <3>2. b \in DOMAIN r /\ r[b] = CL_SignonReply(k)
      BY <2>3, <3>1
    <3>3. \A i \in DOMAIN r : i # b => IsTalk(r[i])
      BY <2>1, <2>3, <3>1
    <3> QED
      BY <3>2, <3>3 DEF IsAnswer
  <2> QED
    BY <1>2, <2>1, <2>4, <2>5 DEF q
<1> QED
  BY <1>1, <1>2

LEMMA ClientFrameSigns ==
  ASSUME Basics, SignsOn, Orderly => InOrder, setting' = setting,
         NEW said \in BOOLEAN, ClientFrame(said)
  PROVE  SignsOn' /\ failure' = failure /\ (Orderly => InOrder')
<1> DEFINE out == Out(said)
           sends == out # <<>> /\ canSend["client"]
           d == Data(out)
<1>1. "client" \in End /\ Peer("client") = "server"
  BY DEF End, Peer
<1>2. WireOK /\ NetTypeOK /\ CanSendOK /\ cls \in ClientType
      /\ cls.message \in Seq(ClientCmd) /\ cls.reconnect \in BOOLEAN
  BY ClientWith DEF Basics, WireOK, ClientOK
<1>3. /\ out \in Seq(ClientCmd)
      /\ IF sends THEN Send("client", out)
                       /\ cls' = [Recalled EXCEPT !.message = <<>>]
         ELSE UNCHANGED <<canSend, net>>
              /\ cls' = [Recalled EXCEPT !.message = out]
      /\ UNCHANGED <<phase, level, host_client, parsing, loading, failure>>
      /\ parsing = <<>> /\ loading = "no"
      /\ said => says < setting.says
  BY <1>2, FrameIs DEF Between, serverVars
<1>4. said => setting.says > 0
  <2>1. setting.says \in Nat
    BY CmdsAreCommands DEF Basics
  <2>2. says \in 0..setting.says
    BY DEF Basics, ClientOK
  <2> QED
    BY <1>3, <2>1, <2>2
<1>5. /\ AreTalk(cls.message) => AreTalk(out)
      /\ \A k : IsAnswer(cls.message, k) => IsAnswer(out, k)
      /\ ~said => out = cls.message
  BY <1>2, <1>4, OutIs
<1>6. out \in Body
  BY <1>3, MessagesAreBodies DEF Basics
<1>7. Orderly => out = cls.message
  BY <1>4, <1>5, OrderlyIs
<1> HIDE DEF out
<1>8. /\ cls'.message = IF sends THEN <<>> ELSE out
      /\ cls'.signon = IF cls.reconnect THEN 0 ELSE cls.signon
      /\ cls'.level = cls.level /\ cls'.reconnect = FALSE
  <2> DEFINE m == IF sends THEN <<>> ELSE out
  <2>1. cls' = [Recalled EXCEPT !.message = m]
    BY <1>3
  <2> HIDE DEF m
  <2>2. Recalled \in ClientType
    BY <1>2, RecalledIs
  <2>3. /\ cls'.message = m /\ cls'.signon = Recalled.signon
        /\ cls'.level = Recalled.level /\ cls'.reconnect = Recalled.reconnect
    BY <2>1, <2>2 DEF ClientType
  <2> QED
    BY <1>2, <2>3, RecalledIs DEF m
<1>9. /\ net'["client"] = net["client"]
      /\ ~sends => net' = net
      /\ sends =>
           /\ ~Has(net["server"], DataPacket) /\ Has(net'["server"], DataPacket)
           /\ \A T : Has(net'["server"], T) <=> Has(net["server"], T) \/ d \in T
  <2>1. CASE sends
    <3> DEFINE q == Append(net["server"], d)
    <3>1. /\ net["server"] \in Seq(Packet) /\ d \in Packet
          /\ net'["client"] = net["client"] /\ net'["server"] = q
      BY <1>1, <1>2, <1>3, <1>6, <2>1, SendIs
    <3>2. d \in DataPacket
      BY <1>6, PacketKinds
    <3> HIDE DEF d
    <3>3. \A T : Has(q, T) <=> Has(net["server"], T) \/ d \in T
      BY <3>1, AppendKeeps
    <3> HIDE DEF q
    <3>4. ~Has(net["server"], DataPacket)
      BY <1>1, <1>2, <2>1 DEF WireOK, Channel
    <3> QED
      BY <2>1, <3>1, <3>2, <3>3, <3>4
  <2>2. CASE ~sends
    BY <1>3, <2>2
  <2> QED
    BY <2>1, <2>2
<1>10. d \in DataPacket /\ d.body = out
  BY <1>6, PacketKinds
<1> HIDE DEF d, sends
<1>11. ASSUME cls.message = <<>>, Orderly
       PROVE  ~sends
  BY <1>7, <1>11 DEF sends
<1>12. Silent /\ Orderly => Silent' /\ net' = net
  BY <1>7, <1>8, <1>9, <1>11 DEF Silent
<1>13. ASSUME NEW k \in 1..3, NEW w \in Place, AtStage(k, w),
              Orderly => OrderlyAtStage(k, w)
       PROVE  SignsOn'
  <2>1. ServerAt(k, w) /\ ClientAt(k, w) /\ NetAt(k, w)
    BY <1>13 DEF AtStage
  <2>2. w # "parsing"
    BY <1>3, <2>1 DEF ClientAt, IsStage, IsLoaded
  <2>3. cls'.signon = cls.signon
    BY <1>8, <2>1 DEF ClientAt
  <2>4. CASE w = "answer" /\ sends
    <3>1. IsAnswer(out, k)
      BY <1>5, <2>1, <2>4 DEF ClientAt
    <3>2. ServerAt(k, "answered")'
      BY <1>3, <2>1, <2>4 DEF ServerAt
    <3>3. ClientAt(k, "answered")'
      <4>1. AreTalk(cls.message)'
        BY <1>8, <2>4 DEF AreTalk
      <4>2. AreNops(parsing)'
        BY <1>3 DEF AreNops
      <4> QED
        BY <1>3, <1>8, <2>1, <2>3, <2>4, <4>1, <4>2 DEF ClientAt
    <3>4. NetAt(k, "answered")'
      <4>1. d \notin NoAnswer(k)
        BY <1>10, <3>1 DEF NoAnswer
      <4>2. ~Has(net["server"], NoAnswer(k))
        BY <1>9, <2>4, KindsAre, HasMore
      <4> QED
        BY <1>9, <2>1, <2>4, <4>1, <4>2, WordsKept DEF NetAt
    <3>5. OrderlyAtStage(k, "answered")'
      BY <1>8, <2>4 DEF OrderlyAtStage
    <3> QED
      BY <3>2, <3>3, <3>4, <3>5, StageSigns DEF AtStage, Place
  <2>5. CASE ~(w = "answer" /\ sends)
    <3>1. ServerAt(k, w)'
      BY <1>3, <2>1, ServerAtKept DEF ServerAt
    <3>2. ClientAt(k, w)'
      <4>1. w # "answer" => AreTalk(cls.message)'
        <5>1. CASE sends
          BY <1>8, <5>1 DEF AreTalk
        <5>2. CASE ~sends
          <6>1. w # "answer" => AreTalk(out)
            BY <1>5, <2>1 DEF ClientAt
          <6> QED
            BY <1>8, <5>2, <6>1 DEF AreTalk, IsTalk
        <5> QED
          BY <5>1, <5>2
      <4>2. w = "answer" => IsAnswer(cls.message, k)'
        <5>1. w = "answer" => ~sends /\ IsAnswer(out, k)
          BY <1>5, <2>1, <2>5 DEF ClientAt
        <5> QED
          BY <1>8, <5>1 DEF IsAnswer, IsTalk
      <4>3. AreNops(parsing)'
        BY <1>3 DEF AreNops
      <4> QED
        BY <1>3, <1>8, <2>1, <2>2, <2>3, <4>1, <4>2, <4>3 DEF ClientAt
    <3>3. NetAt(k, w)'
      <4>1. CASE sends
        <5>1. w # "answered" /\ w # "answer"
          BY <1>9, <2>1, <2>5, <4>1 DEF NetAt
        <5>2. AreTalk(out)
          BY <1>5, <2>1, <5>1 DEF ClientAt
        <5>3. d \notin NoTalk
          BY <1>10, <5>2 DEF NoTalk
        <5> QED
          BY <1>9, <2>1, <4>1, <5>1, <5>3, <1>3, WordsKept DEF NetAt
      <4>2. CASE ~sends
        BY <1>3, <1>9, <2>1, <4>2, WordsKept DEF NetAt
      <4> QED
        BY <4>1, <4>2
    <3>4. Orderly => OrderlyAtStage(k, w)'
      <4>1. ASSUME Orderly, Fresh
            PROVE  Fresh'
        <5>1. CASE sends
          <6>1. d \notin OtherPacket
            BY <1>10, KindsAre
          <6> QED
            BY <1>3, <1>8, <1>9, <4>1, <5>1, <6>1 DEF Fresh
        <5>2. CASE ~sends
          BY <1>3, <1>7, <1>8, <1>9, <4>1, <5>2 DEF Fresh
        <5> QED
          BY <5>1, <5>2
      <4>2. Orderly /\ w = "answered" => cls'.message = <<>>
        BY <1>7, <1>8, <1>13 DEF OrderlyAtStage
      <4> QED
        BY <1>12, <1>13, <2>2, <4>1, <4>2 DEF OrderlyAtStage
    <3> QED
      BY <3>1, <3>2, <3>3, <3>4, WordsKept, StageSigns DEF AtStage
  <2> QED
    BY <2>4, <2>5
<1>14. ASSUME Playing, Orderly => OrderlyPlaying
       PROVE  SignsOn'
  <2>1. AreTalk(out)
    BY <1>5, <1>14 DEF Playing, ClientPlays
  <2>2. ServerPlays'
    BY <1>3, <1>14 DEF Playing, ServerPlays, InGame
  <2>3. ClientPlays'
    <3>1. AreTalk(cls.message)'
      <4>1. CASE sends
        BY <1>8, <4>1 DEF AreTalk
      <4>2. CASE ~sends
        BY <1>8, <2>1, <4>2 DEF AreTalk, IsTalk
      <4> QED
        BY <4>1, <4>2
    <3>2. AreOfGame(parsing)'
      BY <1>3 DEF AreOfGame
    <3>3. cls'.signon = cls.signon
      BY <1>8, <1>14 DEF Playing, ClientPlays
    <3> QED
      BY <1>3, <1>8, <1>14, <3>1, <3>2, <3>3 DEF Playing, ClientPlays
  <2>4. NetPlays'
    <3>1. d \notin NoTalk
      BY <1>10, <2>1 DEF NoTalk
    <3> QED
      BY <1>9, <1>14, <3>1, WordsKept DEF Playing, NetPlays
  <2>5. Orderly => OrderlyPlaying'
    BY <1>12, <1>14 DEF OrderlyPlaying
  <2> QED
    BY <2>2, <2>3, <2>4, <2>5, WordsKept, PlaySigns DEF Playing
<1>15. ASSUME Orderly, NEW w \in {"sent", "parsing", "command", "left"},
              Leaving(w)
       PROVE  SignsOn'
  <2>1. w # "parsing"
    BY <1>3, <1>15 DEF Leaving, IsReconnect
  <2>2. Silent' /\ net' = net
    BY <1>12, <1>15 DEF Leaving
  <2>3. CASE w = "sent"
    <3>1. cls'.signon = cls.signon
      BY <1>8, <1>15, <2>3 DEF Leaving
    <3>2. AreOfGame(parsing)'
      BY <1>3 DEF AreOfGame
    <3>3. Leaving("sent")'
      BY <1>3, <1>8, <1>15, <2>2, <2>3, <3>1, <3>2 DEF Leaving
    <3> QED
      BY <1>15, <3>3, WordsKept, LeaveSigns
  <2>4. CASE w \in {"command", "left"}
    <3>1. cls'.signon = 0
      BY <1>8, <1>15, <2>4 DEF Leaving
    <3>2. Leaving("left")'
      BY <1>3, <1>8, <1>15, <2>2, <2>4, <3>1 DEF Leaving
    <3> QED
      BY <1>15, <3>2, WordsKept, LeaveSigns
  <2> QED
    BY <2>1, <2>3, <2>4
<1>16. SignsOn'
  BY <1>13, <1>14, <1>15 DEF SignsOn
<1> QED
  BY <1>3, <1>9, <1>16 DEF InOrder

-----------------------------------------------------------------------------
(* The server's frame.                                                     *)

LEMMA ReadClientSigns ==
  ASSUME Basics, SignsOn, Orderly => InOrder, setting' = setting,
         NEW i \in DOMAIN net["server"], SV_ReadClientMessage(i)
  PROVE  SignsOn' /\ failure' = failure /\ (Orderly => InOrder')
<1> DEFINE p == net["server"][i]
           m == p.body
           after == ExecuteAll(host_client, m)
<1>1. "server" \in End /\ Peer("server") = "client"
  BY DEF End, Peer
<1>2. /\ Take("server", i)
      /\ phase \in {"commands", "clients"} /\ phase' = "clients"
      /\ host_client' = [after EXCEPT !.net_wait = FALSE]
      /\ UNCHANGED <<draining, level, cls, parsing, loading, says, failure>>
  BY DEF SV_ReadClientMessage, clientVars
<1>3. WireOK /\ NetTypeOK /\ CanSendOK /\ net["client"] \in Seq(Packet)
      /\ host_client \in SlotType /\ m \in Seq(ClientCmd)
  BY <1>1, PacketFits DEF Basics, WireOK, NetTypeOK, ServerOK, CmdsFor, End
<1>4. /\ p \in Packet
      /\ \A T : /\ Has(net'["server"], T) => Has(net["server"], T)
                /\ p \in T => Has(net["server"], T)
                /\ p \notin T =>
                     (Has(net["server"], T) <=> Has(net'["server"], T))
                /\ Ack \notin T =>
                     (Has(net'["client"], T) <=> Has(net["client"], T))
      /\ p \in DataPacket => ~Has(net'["server"], DataPacket)
      /\ p \notin DataPacket => net'["client"] = net["client"]
  BY <1>1, <1>2, <1>3, TakeHas
<1>5. /\ \A T \in SUBSET DataPacket :
           Has(net'["client"], T) <=> Has(net["client"], T)
      /\ Has(net'["client"], UpdatePacket) <=> Has(net["client"], UpdatePacket)
  BY <1>4, KindsAre
<1>6. p \notin DataPacket => AreTalk(m)
  BY <1>3, <1>4, OthersMean DEF OtherPacket
<1>7. p \in DataPacket /\ p \notin NoTalk => AreTalk(m)
  BY DEF NoTalk
<1>8. after \in SlotType
  <2> HIDE DEF m
  <2>1. PICK f \in [0..Len(m) -> SlotType] : after = f[Len(m)]
    BY <1>3, ExecuteAllIs
  <2>2. Len(m) \in 0..Len(m)
    BY <1>3
  <2> QED
    BY <2>1, <2>2
<1>9. ~host_client.spawned /\ AreTalk(m) => after = host_client
  BY <1>3, TalkIsIgnored
<1>10. InGame(host_client) /\ AreTalk(m) => InGame(after)
  BY <1>3, TalkIsPrinted
<1>11. \A k \in 1..3 :
         ~host_client.spawned /\ host_client.message = <<>> /\ IsAnswer(m, k)
           => Answered(host_client, k, after)
  BY <1>3, AnswerIsTaken
<1> HIDE DEF after
<1>12. /\ host_client'.spawned = after.spawned
       /\ host_client'.message = after.message
       /\ host_client'.sendsignon = after.sendsignon
  BY <1>2, <1>8 DEF SlotType
<1>13. ASSUME p \in DataPacket => ~Has(net["client"], DataPacket)
       PROVE  Orderly => InOrder'
  <2>1. CASE p \notin DataPacket
    BY <1>4, <2>1 DEF InOrder
  <2>2. CASE p \in DataPacket
    <3>1. ~Has(net'["client"], DataPacket)
      BY <1>5, <1>13, <2>2
    <3> QED
      BY <3>1 DEF InOrder, Before, Has
  <2> QED
    BY <2>1, <2>2
<1> HIDE DEF p, m
<1>14. ASSUME NEW k \in 1..3, NEW w \in Place, AtStage(k, w),
              Orderly => OrderlyAtStage(k, w)
       PROVE  SignsOn' /\ (Orderly => InOrder')
  <2>1. ServerAt(k, w) /\ ClientAt(k, w) /\ NetAt(k, w)
    BY <1>14 DEF AtStage
  <2>2. Orderly => InOrder'
    <3>1. w = "sent" /\ Orderly => p \notin DataPacket
      BY <1>4, <1>14 DEF OrderlyAtStage, Silent
    <3>2. w # "sent" => ~Has(net["client"], DataPacket)
      BY <2>1 DEF NetAt
    <3> QED
      BY <1>13, <3>1, <3>2
  <2>3. CASE w = "answered" /\ p \in DataPacket
    <3>1. IsAnswer(m, k)
      <4>1. p \notin NoAnswer(k)
        BY <1>4, <2>1, <2>3 DEF NetAt
      <4> QED
        BY <2>3, <4>1 DEF NoAnswer, m
    <3>2. Answered(host_client, k, after)
      BY <1>11, <2>1, <2>3, <3>1 DEF ServerAt
    <3>3. /\ cls.level = level /\ cls.signon = k /\ ~cls.reconnect
          /\ loading = "no" /\ AreNops(parsing) /\ AreTalk(cls.message)
      BY <2>1, <2>3 DEF ClientAt
    <3>4. AreTalk(cls.message)' /\ AreNops(parsing)'
      BY <1>2, <3>3 DEF AreTalk, IsTalk, AreNops
    <3>5. /\ ~Has(net'["server"], DataPacket) /\ ~Has(net'["server"], NoTalk)
          /\ ~Has(net'["client"], DataPacket)
          /\ ~Has(net'["client"], UpdatePacket)
      BY <1>4, <1>5, <2>1, <2>3, KindsAre, HasMore DEF NetAt
    <3>6. Orderly => Silent'
      BY <1>2, <1>14, <2>3, <3>5 DEF OrderlyAtStage, Silent
    <3>7. CASE k = 3
      <4>1. InGame(after)
        BY <3>2, <3>7 DEF Answered
      <4>2. ServerPlays'
        BY <1>2, <1>12, <4>1 DEF ServerPlays, InGame
      <4>3. ClientPlays'
        <5>1. AreOfGame(parsing)'
          BY <3>4 DEF AreNops, AreOfGame
        <5>2. cls'.signon \in {SIGNONS - 1, SIGNONS}
          BY <1>2, <3>3, <3>7 DEF SIGNONS
        <5> QED
          BY <1>2, <3>3, <3>4, <5>1, <5>2 DEF ClientPlays
      <4>4. NetPlays'
        BY <3>5, KindsAre, HasMore, WordsKept DEF NetPlays
      <4>5. Orderly => OrderlyPlaying'
        BY <3>5, <3>6 DEF OrderlyPlaying
      <4> QED
        BY <2>2, <4>2, <4>3, <4>4, <4>5, WordsKept, PlaySigns DEF Playing
    <3>8. CASE k # 3
      <4>1. k + 1 \in 1..3 /\ (k + 1) - 1 = k
        BY <3>8
      <4>2. ~after.spawned /\ after.sendsignon /\ IsStage(after.message, k + 1)
        BY <3>2, <3>8 DEF Answered
      <4>3. ServerAt(k + 1, "message")'
        <5>1. IsStage(host_client.message, k + 1)'
          BY <1>2, <1>12, <4>2 DEF IsStage
        <5> QED
          BY <1>2, <1>12, <4>2, <5>1 DEF ServerAt
      <4>4. ClientAt(k + 1, "message")'
        BY <1>2, <3>3, <3>4, <4>1 DEF ClientAt
      <4>5. NetAt(k + 1, "message")'
        BY <3>5, WordsKept DEF NetAt
      <4>6. Orderly => OrderlyAtStage(k + 1, "message")'
        BY <3>6 DEF OrderlyAtStage
      <4> QED
        BY <2>2, <4>1, <4>3, <4>4, <4>5, <4>6, WordsKept, StageSigns
           DEF AtStage, Place
    <3> QED
      BY <3>7, <3>8
  <2>4. CASE ~(w = "answered" /\ p \in DataPacket)
    <3>1. AreTalk(m)
      BY <1>4, <1>6, <1>7, <2>1, <2>4 DEF NetAt
    <3>2. after = host_client
      BY <1>9, <2>1, <3>1 DEF ServerAt
    <3>3. ServerAt(k, w)'
      BY <1>2, <1>12, <2>1, <3>2, ServerAtKept
    <3>4. ClientAt(k, w)'
      BY <1>2, <2>1, ClientAtKept
    <3>5. NetAt(k, w)'
      <4>1. w # "answered" => ~Has(net'["server"], NoTalk)
        BY <1>4, <2>1 DEF NetAt
      <4>2. w = "answered" => Has(net'["server"], DataPacket)
                              /\ ~Has(net'["server"], NoAnswer(k))
        BY <1>4, <2>1, <2>4 DEF NetAt
      <4> QED
        BY <1>2, <1>5, <2>1, <4>1, <4>2, KindsAre, WordsKept DEF NetAt
    <3>6. Silent => Silent' /\ p \notin DataPacket
      BY <1>2, <1>4 DEF Silent
    <3>7. Fresh => Silent'
      <4>1. ASSUME Fresh
            PROVE  p \in DataPacket
        BY <1>4, <4>1 DEF Fresh, OtherPacket
      <4> QED
        BY <1>2, <1>4, <4>1 DEF Fresh, Silent
    <3>8. Orderly => OrderlyAtStage(k, w)'
      <4>1. BeforeKeepalive' <=> BeforeKeepalive
        BY <1>2 DEF BeforeKeepalive, IsLoaded
      <4> QED
        BY <1>2, <1>4, <1>14, <3>6, <3>7, <4>1 DEF OrderlyAtStage
    <3> QED
      BY <2>2, <3>3, <3>4, <3>5, <3>8, WordsKept, StageSigns DEF AtStage
  <2> QED
    BY <2>3, <2>4
<1>15. ASSUME Playing, Orderly => OrderlyPlaying
       PROVE  SignsOn' /\ (Orderly => InOrder')
  <2>1. AreTalk(m)
    BY <1>4, <1>6, <1>7, <1>15 DEF Playing, NetPlays
  <2>2. InGame(after)
    BY <1>10, <1>15, <2>1 DEF Playing, ServerPlays
  <2>3. ServerPlays'
    BY <1>2, <1>12, <2>2 DEF ServerPlays, InGame
  <2>4. ClientPlays'
    <3>1. AreTalk(cls.message)' <=> AreTalk(cls.message)
      BY <1>2 DEF AreTalk, IsTalk
    <3>2. AreOfGame(parsing)' <=> AreOfGame(parsing)
      BY <1>2 DEF AreOfGame
    <3> QED
      BY <1>2, <1>15, <3>1, <3>2 DEF Playing, ClientPlays
  <2>5. NetPlays'
    BY <1>4, <1>5, <1>15, KindsAre, WordsKept DEF Playing, NetPlays
  <2>6. Orderly => OrderlyPlaying' /\ p \notin DataPacket
    BY <1>2, <1>4, <1>5, <1>15 DEF OrderlyPlaying, Silent
  <2> QED
    BY <1>13, <2>3, <2>4, <2>5, <2>6, WordsKept, PlaySigns DEF Playing
<1>16. \A w : ~Leaving(w)
  BY <1>2 DEF Leaving
<1> QED
  BY <1>2, <1>14, <1>15, <1>16 DEF SignsOn

LEMMA SendClientSigns ==
  ASSUME Basics, SignsOn, Orderly => InOrder, setting' = setting,
         NEW lost \in BOOLEAN, SV_SendClientMessages(lost)
  PROVE  SignsOn' /\ failure' = failure /\ (Orderly => InOrder')
<1> DEFINE q == First(lost)
           m == host_client.message
           d == ClientDatagram(host_client)
           p == Data(m)
<1>1. "client" \in End /\ "server" \in End /\ "client" # "server"
  BY DEF End
<1>2. WireOK /\ NetTypeOK /\ CanSendOK /\ host_client \in SlotType
      /\ setting \in Settings /\ m \in Body
      /\ net \in [End -> Seq(Packet)]
  BY MessagesAreBodies DEF Basics, WireOK, NetTypeOK, ServerOK, SlotType
<1>3. /\ net' = [net EXCEPT !["client"] =
                   IF Reliable THEN Append(q, p) ELSE q]
      /\ host_client' = IF Reliable
                        THEN [host_client EXCEPT !.message = <<>>,
                                                 !.sendsignon = FALSE]
                        ELSE host_client
      /\ phase \in {"commands", "clients"} /\ phase' = "commands"
      /\ UNCHANGED <<level, cls, parsing, loading, says, failure>>
  BY SendClientIs DEF clientVars
<1>4. /\ d \in Packet /\ d \notin DataPacket /\ d \notin AckPacket
      /\ ~host_client.spawned => d \notin UpdatePacket
      /\ net["client"] \in Seq(Packet) /\ q \in Seq(Packet)
  BY <1>2, QuietOrNot DEF First
<1> HIDE DEF d
<1>5. /\ \A T : d \notin T => (Has(q, T) <=> Has(net["client"], T))
      /\ ~Has(net["client"], DataPacket) =>
           (Orderly => Before(q, AckPacket \cup UpdatePacket, DataPacket))
      /\ d \notin UpdatePacket =>
           (Orderly => Before(q, AckPacket \cup UpdatePacket, DataPacket))
  <2>1. CASE Quiet(lost)
    BY <2>1 DEF First, InOrder
  <2>2. CASE ~Quiet(lost)
    <3> DEFINE r == Append(net["client"], d)
               U == AckPacket \cup UpdatePacket
    <3>1. q = r
      BY <2>2 DEF First, d
    <3>2. \A T : d \notin T => (Has(r, T) <=> Has(net["client"], T))
      BY <1>4, AppendKeeps
    <3>3. ASSUME Orderly, ~Has(net["client"], DataPacket) \/ d \notin U
          PROVE  Before(r, U, DataPacket)
      BY <1>4, <3>3, AppendInOrder DEF InOrder
    <3> HIDE DEF r
    <3> QED
      BY <1>4, <3>1, <3>2, <3>3
  <2> QED
    BY <2>1, <2>2
<1>6. /\ p \in DataPacket /\ p \in Packet /\ p.body = m
      /\ p \notin AckPacket /\ p \notin UpdatePacket
  BY <1>2, PacketKinds DEF DataPacket
<1> HIDE DEF q, p
<1>7. /\ \A T : Has(Append(q, p), T) <=> Has(q, T) \/ p \in T
      /\ Append(q, p) \in Seq(Packet)
  BY <1>4, <1>6, AppendKeeps
<1>8. /\ net'["server"] = net["server"]
      /\ net'["client"] = IF Reliable THEN Append(q, p) ELSE q
  BY <1>1, <1>2, <1>3, <1>4, <1>7
<1>9. /\ host_client'.spawned = host_client.spawned
      /\ host_client'.net_wait = host_client.net_wait
      /\ host_client'.message = IF Reliable THEN <<>> ELSE m
      /\ ~Reliable => host_client' = host_client
  BY <1>2, <1>3 DEF SlotType
<1>10. \A T \in SUBSET DataPacket : Has(q, T) <=> Has(net["client"], T)
  BY <1>4, <1>5
<1>11. ASSUME Orderly, Before(q, AckPacket \cup UpdatePacket, DataPacket)
       PROVE  InOrder'
  <2>1. CASE Reliable
    <3> DEFINE U == AckPacket \cup UpdatePacket
    <3>1. Before(Append(q, p), U, DataPacket)
      BY <1>4, <1>6, <1>11, AppendInOrder
    <3> QED
      BY <1>8, <2>1, <3>1 DEF InOrder
  <2>2. CASE ~Reliable
    BY <1>8, <1>11, <2>2 DEF InOrder
  <2> QED
    BY <2>1, <2>2
<1>12. Silent' <=> Silent
  BY <1>3, <1>8 DEF Silent
<1> HIDE DEF m
<1>13. ASSUME NEW k \in 1..3, NEW w \in Place, AtStage(k, w),
              Orderly => OrderlyAtStage(k, w)
       PROVE  SignsOn' /\ (Orderly => InOrder')
  <2>1. ServerAt(k, w) /\ ClientAt(k, w) /\ NetAt(k, w)
    BY <1>13 DEF AtStage
  <2>2. d \notin UpdatePacket
    BY <1>4, <2>1 DEF ServerAt
  <2>3. Orderly => InOrder'
    BY <1>5, <1>11, <2>2
  <2>4. ~Has(q, UpdatePacket)
    BY <1>5, <2>1, <2>2 DEF NetAt
  <2>5. /\ IsAnswer(cls.message, k)' <=> IsAnswer(cls.message, k)
        /\ AreTalk(cls.message)' <=> AreTalk(cls.message)
    BY <1>3 DEF IsAnswer, AreTalk, IsTalk
  <2>6. CASE Reliable
    <3>1. w = "message" /\ IsStage(m, k)
      BY <2>1, <2>6 DEF ServerAt, Reliable, m
    <3>2. ServerAt(k, "sent")'
      BY <1>3, <1>9, <2>1, <2>6 DEF ServerAt
    <3>3. ClientAt(k, "sent")'
      <4>1. AreNops(parsing)'
        BY <1>3, <2>1, <3>1 DEF ClientAt, AreNops
      <4> QED
        BY <1>3, <2>1, <2>5, <3>1, <4>1 DEF ClientAt
    <3>4. NetAt(k, "sent")'
      <4>1. p \notin NoStage(k)
        BY <1>6, <3>1 DEF NoStage
      <4>2. ~Has(q, DataPacket) /\ ~Has(q, NoStage(k))
        BY <1>10, <2>1, <3>1, KindsAre, HasMore DEF NetAt
      <4>3. /\ ~Has(net'["client"], UpdatePacket)
            /\ Has(net'["client"], DataPacket)
            /\ ~Has(net'["client"], NoStage(k))
        BY <1>6, <1>7, <1>8, <2>4, <2>6, <4>1, <4>2
      <4> QED
        BY <1>3, <1>8, <2>1, <3>1, <4>3, WordsKept DEF NetAt
    <3>5. Orderly => OrderlyAtStage(k, "sent")'
      BY <1>12, <1>13, <2>6, <3>1 DEF OrderlyAtStage, Fresh, Reliable
    <3> QED
      BY <2>3, <3>2, <3>3, <3>4, <3>5, WordsKept, StageSigns DEF AtStage, Place
  <2>7. CASE ~Reliable
    <3>1. ServerAt(k, w)'
      BY <1>3, <1>9, <2>1, <2>7, ServerAtKept
    <3>2. ClientAt(k, w)'
      BY <1>3, <2>1, ClientAtKept
    <3>3. NetAt(k, w)'
      BY <1>3, <1>8, <1>10, <2>1, <2>4, <2>7, KindsAre, NetAtKept
    <3>4. Orderly => OrderlyAtStage(k, w)'
      <4>1. BeforeKeepalive' <=> BeforeKeepalive
        BY <1>3 DEF BeforeKeepalive, IsLoaded
      <4>2. Fresh' <=> Fresh
        BY <1>3, <1>8, <1>9 DEF Fresh
      <4>3. Has(net'["client"], AckPacket) <=> Has(net["client"], AckPacket)
        BY <1>4, <1>5, <1>8, <2>7
      <4> QED
        BY <1>3, <1>12, <1>13, <4>1, <4>2, <4>3 DEF OrderlyAtStage
    <3> QED
      BY <2>3, <3>1, <3>2, <3>3, <3>4, WordsKept, StageSigns DEF AtStage
  <2> QED
    BY <2>6, <2>7
<1>14. ASSUME Playing, Orderly => OrderlyPlaying
       PROVE  SignsOn' /\ (Orderly => InOrder')
  <2>1. InGame(host_client)
    BY <1>14 DEF Playing, ServerPlays
  <2>2. InGame(host_client)'
    <3>1. ArePrints(<<>>)
      BY DEF ArePrints
    <3> QED
      BY <1>9, <2>1, <3>1 DEF InGame, m
  <2>3. ServerPlays'
    BY <1>3, <2>2 DEF ServerPlays
  <2>4. ClientPlays'
    <3>1. AreTalk(cls.message)' <=> AreTalk(cls.message)
      BY <1>3 DEF AreTalk, IsTalk
    <3>2. AreOfGame(parsing)' <=> AreOfGame(parsing)
      BY <1>3 DEF AreOfGame
    <3> QED
      BY <1>3, <1>14, <3>1, <3>2 DEF Playing, ClientPlays
  <2>5. NetPlays'
    <3>1. p \notin NoPrint
      BY <1>6, <2>1 DEF NoPrint, InGame, m
    <3>2. ~Has(net'["client"], NoPrint)
      BY <1>7, <1>8, <1>10, <1>14, <3>1, KindsAre DEF Playing, NetPlays
    <3> QED
      BY <1>8, <1>14, <3>2, WordsKept DEF Playing, NetPlays
  <2>6. ASSUME Orderly
        PROVE  OrderlyPlaying' /\ InOrder'
    <3>1. ~Reliable
      BY <2>1, <2>6, OrderlyIs DEF Reliable, InGame
    <3>2. ~Has(net["client"], DataPacket)
      BY <1>14, <2>6 DEF OrderlyPlaying
    <3>3. ~Has(net'["client"], DataPacket)
      BY <1>8, <1>10, <3>1, <3>2
    <3> QED
      BY <1>5, <1>11, <1>12, <1>14, <2>6, <3>2, <3>3 DEF OrderlyPlaying
  <2> QED
    BY <2>3, <2>4, <2>5, <2>6, WordsKept, PlaySigns DEF Playing
<1>15. \A w : ~Leaving(w)
  BY <1>3 DEF Leaving
<1> QED
  BY <1>3, <1>13, <1>14, <1>15 DEF SignsOn

-----------------------------------------------------------------------------
(* The change of level.                                                    *)

LEMMA ChangelevelSigns ==
  ASSUME Basics, SignsOn, Orderly, InOrder, setting' = setting,
         Host_Changelevel_f
  PROVE  SignsOn' /\ failure' = failure /\ InOrder'
<1>1. /\ phase = "commands" /\ phase' = "sending"
      /\ UNCHANGED <<level, host_client, cls, parsing, loading, canSend, net,
                     failure>>
      /\ host_client.spawned
  BY OrderlyIs DEF Host_Changelevel_f, clientVars
<1>2. Playing /\ OrderlyPlaying
  BY <1>1 DEF SignsOn, AtStage, ServerAt, Leaving
<1>3. ServerPlays'
  BY <1>1, <1>2 DEF Playing, ServerPlays, InGame
<1>4. ClientPlays'
  <2>1. AreTalk(cls.message)' <=> AreTalk(cls.message)
    BY <1>1 DEF AreTalk, IsTalk
  <2>2. AreOfGame(parsing)' <=> AreOfGame(parsing)
    BY <1>1 DEF AreOfGame
  <2> QED
    BY <1>1, <1>2, <2>1, <2>2 DEF Playing, ClientPlays
<1>5. NetPlays' /\ OrderlyPlaying'
  BY <1>1, <1>2, WordsKept DEF Playing, NetPlays, OrderlyPlaying, Silent
<1>6. SignsOn'
  BY <1>3, <1>4, <1>5, PlaySigns DEF Playing
<1> QED
  BY <1>1, <1>6 DEF InOrder

LEMMA ReconnectSigns ==
  ASSUME Basics, SignsOn, Orderly, InOrder, setting' = setting,
         SV_SendReconnect
  PROVE  SignsOn' /\ failure' = failure /\ InOrder'
<1> DEFINE b == <<Cmd("reconnect", 0)>>
           p == Data(b)
           q == net["client"]
           r == Append(q, p)
<1>1. /\ phase = "sending" /\ phase' = "waiting" /\ Send("server", b)
      /\ UNCHANGED <<level, host_client, cls, parsing, loading, failure>>
  BY DEF SV_SendReconnect, clientVars
<1>2. Playing /\ OrderlyPlaying
  BY <1>1 DEF SignsOn, AtStage, ServerAt, Leaving
<1>3. "server" \in End /\ Peer("server") = "client" /\ WireOK
      /\ NetTypeOK /\ CanSendOK
  BY DEF End, Peer, Basics, WireOK
<1>4. b \in Body /\ IsReconnect(b)
  <2> DEFINE c == Cmd("reconnect", 0)
  <2>1. c \in ServerCmd
    BY StageCmds
  <2> HIDE DEF c
  <2>2. <<c>> \in Seq(ServerCmd) /\ Len(<<c>>) = 1 /\ <<c>>[1] = c
    BY <2>1
  <2> QED
    BY <2>2, MessagesAreBodies DEF Basics, IsReconnect, c
<1> HIDE DEF b
<1>5. /\ q \in Seq(Packet) /\ p \in Packet
      /\ net'["client"] = r /\ net'["server"] = net["server"]
  BY <1>1, <1>3, <1>4, SendIs
<1>6. /\ p \in DataPacket /\ p \notin AckPacket /\ p \notin UpdatePacket
      /\ p \notin OtherPacket /\ p \notin NoReconnect
  BY <1>4, PacketKinds DEF OtherPacket, NoReconnect
<1> HIDE DEF p
<1>7. \A T : Has(r, T) <=> Has(q, T) \/ p \in T
  BY <1>5, AppendKeeps
<1>8. ~Has(q, DataPacket) /\ ~Has(q, NoReconnect)
  BY <1>2, KindsAre, HasMore DEF OrderlyPlaying
<1>9. \A T : p \notin T => Before(r, T, DataPacket)
  <2> SUFFICES ASSUME NEW T, p \notin T
               PROVE  Before(r, T, DataPacket)
    OBVIOUS
  <2>1. Before(q, T, DataPacket)
    BY <1>8 DEF Before, Has
  <2> QED
    BY <1>5, <2>1, AppendInOrder
<1> HIDE DEF r, q
<1>10. InOrder'
  <2>1. p \notin AckPacket \cup UpdatePacket
    BY <1>6
  <2> QED
    BY <1>5, <1>9, <2>1 DEF InOrder
<1>11. Leaving("sent")'
  <2>1. host_client.message = <<>>
    BY <1>2, OrderlyIs DEF Playing, ServerPlays, InGame
  <2>2. Silent'
    BY <1>1, <1>2, <1>5 DEF OrderlyPlaying, Silent
  <2>3. AreOfGame(parsing)' /\ cls'.signon # 0 /\ ~cls'.reconnect
        /\ loading' = "no"
    BY <1>1, <1>2 DEF Playing, ClientPlays, AreOfGame, SIGNONS
  <2> QED
    BY <1>1, <1>5, <1>6, <1>7, <1>8, <1>9, <2>1, <2>2, <2>3 DEF Leaving
<1> QED
  BY <1>1, <1>10, <1>11, WordsKept, LeaveSigns

LEMMA DrainReadSigns ==
  ASSUME Basics, SignsOn, Orderly, InOrder, setting' = setting,
         NEW i \in DOMAIN net["server"], DrainRead(i)
  PROVE  SignsOn' /\ failure' = failure /\ InOrder'
<1> DEFINE p == net["server"][i]
<1>1. "server" \in End /\ Peer("server") = "client" /\ WireOK
  BY DEF End, Peer, Basics
<1>2. /\ Take("server", i) /\ draining
      /\ host_client' = [host_client EXCEPT !.net_wait = FALSE]
      /\ UNCHANGED <<phase, level, cls, parsing, loading, failure>>
  BY DEF DrainRead, clientVars
<1>3. phase \in {"sending", "waiting"}
  BY <1>2 DEF Basics, ServerOK, PhaseOK
<1>4. Silent /\ ((Playing /\ OrderlyPlaying) \/ \E w \in
        {"sent", "parsing", "command", "left"} : Leaving(w))
  BY <1>3 DEF SignsOn, AtStage, ServerAt, OrderlyPlaying, Leaving
<1>5. /\ \A T : Has(net'["server"], T) => Has(net["server"], T)
      /\ p \in DataPacket => Has(net["server"], DataPacket)
      /\ p \notin DataPacket => net'["client"] = net["client"]
  BY <1>1, <1>2, TakeHas
<1>6. net'["client"] = net["client"]
  BY <1>4, <1>5 DEF Silent
<1>7. Silent'
  BY <1>2, <1>4, <1>5 DEF Silent
<1>8. host_client'.spawned = host_client.spawned
      /\ host_client'.message = host_client.message
  BY <1>2 DEF Basics, ServerOK, SlotType
<1>9. ASSUME Playing, OrderlyPlaying
      PROVE  SignsOn'
  <2>1. ServerPlays'
    BY <1>2, <1>8, <1>9 DEF Playing, ServerPlays, InGame
  <2>2. ClientPlays'
    <3>1. AreTalk(cls.message)' <=> AreTalk(cls.message)
      BY <1>2 DEF AreTalk, IsTalk
    <3>2. AreOfGame(parsing)' <=> AreOfGame(parsing)
      BY <1>2 DEF AreOfGame
    <3> QED
      BY <1>2, <1>9, <3>1, <3>2 DEF Playing, ClientPlays
  <2>3. NetPlays'
    BY <1>5, <1>6, <1>9, WordsKept DEF Playing, NetPlays
  <2>4. OrderlyPlaying'
    BY <1>6, <1>7, <1>9 DEF OrderlyPlaying
  <2> QED
    BY <2>1, <2>2, <2>3, <2>4, PlaySigns DEF Playing
<1>10. ASSUME NEW w \in {"sent", "parsing", "command", "left"}, Leaving(w)
       PROVE  SignsOn'
  <2>1. AreOfGame(parsing)' <=> AreOfGame(parsing)
    BY <1>2 DEF AreOfGame
  <2>2. IsReconnect(parsing)' <=> IsReconnect(parsing)
    BY <1>2 DEF IsReconnect
  <2>3. Leaving(w)'
    BY <1>2, <1>6, <1>7, <1>8, <1>10, <2>1, <2>2 DEF Leaving
  <2> QED
    BY <2>3, WordsKept, LeaveSigns
<1> QED
  BY <1>2, <1>4, <1>6, <1>9, <1>10 DEF InOrder

LEMMA SpawnServerSigns ==
  ASSUME Basics, SignsOn, Orderly, InOrder, setting' = setting,
         SV_SpawnServer
  PROVE  SignsOn' /\ failure' = failure /\ InOrder'
<1>1. /\ phase = "waiting" /\ canSend["server"] /\ parsing = <<>>
      /\ ~cls.reconnect
      /\ level' = level + 1 /\ phase' = "commands"
      /\ host_client' = SV_SendServerinfo(host_client, level + 1)
      /\ UNCHANGED <<cls, parsing, loading, canSend, net, failure>>
  BY OrderlyIs DEF SV_SpawnServer, clientVars
<1>2. PICK w \in {"sent", "parsing", "command", "left"} : Leaving(w)
  BY <1>1 DEF SignsOn, AtStage, ServerAt, Playing, ServerPlays
<1>3. w = "left"
  <2>1. w # "sent"
    <3>1. Channel("server")
      BY DEF Basics, WireOK, End
    <3>2. ~Has(net["client"], DataPacket)
      BY <1>1, <3>1 DEF Channel, Peer
    <3> QED
      BY <1>2, <3>2 DEF Leaving
  <2>2. w # "parsing" /\ w # "command"
    BY <1>1, <1>2 DEF Leaving, IsReconnect
  <2> QED
    BY <2>1, <2>2
<1>4. /\ host_client.message = <<>> /\ loading = "no" /\ Silent
      /\ ~Has(net["client"], Packet) /\ cls.signon = 0
  BY <1>2, <1>3 DEF Leaving
<1>5. /\ ~Has(net["client"], DataPacket) /\ ~Has(net["client"], UpdatePacket)
      /\ ~Has(net["server"], NoTalk)
  BY <1>4, KindsAre, HasMore DEF Silent, OtherPacket
<1>6. level + 1 \in 1..setting.levels
  <2>1. level < setting.levels /\ level \in 1..setting.levels
    BY <1>1 DEF Basics, ServerOK, PhaseOK
  <2>2. setting.levels \in Nat
    BY CmdsAreCommands DEF Basics
  <2> QED
    BY <2>1, <2>2
<1>7. /\ ~host_client'.spawned /\ host_client'.sendsignon
      /\ IsStage(host_client.message, 1)'
  <2> DEFINE a == Cmd("serverinfo", level + 1)
             two == <<a, Signonnum(1)>>
             m == host_client.message \o two
  <2>1. host_client \in SlotType
    BY DEF Basics, ServerOK
  <2>2. /\ m \in Seq(ServerCmd)
        /\ host_client' = [host_client EXCEPT !.message = m,
                             !.sendsignon = TRUE, !.spawned = FALSE]
    BY <1>1, <1>6, <2>1, NewSlotType
  <2>3. Len(m) = 2 /\ m[1] = a /\ m[2] = Signonnum(1)
    <3>1. two \in Seq({a, Signonnum(1)}) /\ Len(two) = 2
          /\ two[1] = a /\ two[2] = Signonnum(1)
      <4> HIDE DEF a
      <4> QED
        OBVIOUS
    <3> HIDE DEF two
    <3>2. m = <<>> \o two
      BY <1>4
    <3>3. m = two
      BY <3>1, <3>2
    <3> QED
      BY <3>1, <3>3
  <2> HIDE DEF m
  <2>4. host_client'.message = m /\ host_client'.sendsignon = TRUE
        /\ host_client'.spawned = FALSE
    BY <2>1, <2>2 DEF SlotType
  <2> QED
    BY <1>1, <2>3, <2>4 DEF IsStage
<1>8. ServerAt(1, "message")'
  BY <1>1, <1>7 DEF ServerAt
<1>9. ClientAt(1, "message")'
  <2>1. AreNops(parsing)' /\ AreTalk(cls.message)'
    BY <1>1, <1>4 DEF AreNops, AreTalk, Silent
  <2> QED
    BY <1>1, <1>4, <2>1 DEF ClientAt
<1>10. NetAt(1, "message")'
  BY <1>1, <1>5, WordsKept DEF NetAt
<1>11. OrderlyAtStage(1, "message")'
  BY <1>1, <1>4 DEF OrderlyAtStage, Silent
<1>12. SignsOn'
  BY <1>8, <1>9, <1>10, <1>11, StageSigns DEF AtStage, Place
<1> QED
  BY <1>1, <1>12 DEF InOrder

\* Drain and DrainNothing change nothing that signing on depends on.
LEMMA DrainingSigns ==
  ASSUME SignsOn, Orderly => InOrder,
         UNCHANGED <<setting, phase, level, host_client, cls, parsing, loading,
                     net>>
  PROVE  SignsOn' /\ (Orderly => InOrder')
<1>1. ASSUME NEW k \in 1..3, NEW w \in Place, AtStage(k, w),
             Orderly => OrderlyAtStage(k, w)
      PROVE  SignsOn'
  <2>1. ServerAt(k, w)'
    BY <1>1, ServerAtKept DEF AtStage, ServerAt
  <2>2. ClientAt(k, w)'
    BY <1>1, ClientAtKept DEF AtStage
  <2>3. NetAt(k, w)'
    BY <1>1, NetAtKept DEF AtStage
  <2>4. Orderly => OrderlyAtStage(k, w)'
    BY <1>1 DEF OrderlyAtStage, Silent, Fresh, BeforeKeepalive, IsLoaded
  <2> QED
    BY <2>1, <2>2, <2>3, <2>4, WordsKept, StageSigns DEF AtStage
<1>2. ASSUME Playing, Orderly => OrderlyPlaying
      PROVE  SignsOn'
  <2>1. ServerPlays'
    BY <1>2 DEF Playing, ServerPlays, InGame
  <2>2. ClientPlays'
    <3>1. AreTalk(cls.message)' <=> AreTalk(cls.message)
      BY DEF AreTalk, IsTalk
    <3>2. AreOfGame(parsing)' <=> AreOfGame(parsing)
      BY DEF AreOfGame
    <3> QED
      BY <1>2, <3>1, <3>2 DEF Playing, ClientPlays
  <2>3. NetPlays' /\ (Orderly => OrderlyPlaying')
    BY <1>2, WordsKept DEF Playing, NetPlays, OrderlyPlaying, Silent
  <2> QED
    BY <2>1, <2>2, <2>3, WordsKept, PlaySigns DEF Playing
<1>3. ASSUME Orderly, NEW w \in {"sent", "parsing", "command", "left"},
             Leaving(w)
      PROVE  SignsOn'
  <2>1. Leaving(w)'
    BY <1>3 DEF Leaving, Silent, AreOfGame, IsReconnect
  <2> QED
    BY <1>3, <2>1, WordsKept, LeaveSigns
<1> QED
  BY <1>1, <1>2, <1>3 DEF SignsOn, InOrder

-----------------------------------------------------------------------------
(* The invariant holds in every run.                                       *)

LEMMA SignOnInvIs ==
  /\ SignOnInv <=> Basics /\ Signed
  /\ SignOnInv' <=> Basics' /\ Signed'
<1>1. SignOnInv <=> Basics /\ Signed
  BY BasicsAre DEF SignOnInv, Signed
<1>2. SignOnInv' <=> Basics' /\ Signed'
  BY BasicsAre DEF SignOnInv, Signed
<1> QED
  BY <1>1, <1>2

LEMMA InitSigned == Init => Signed
<1> SUFFICES ASSUME Init
             PROVE  SignsOn /\ InOrder /\ failure = "none"
  BY DEF Signed, NoFailure
<1> DEFINE s == [spawned |-> FALSE, sendsignon |-> FALSE,
                 message |-> <<>>, net_wait |-> TRUE]
           a == Cmd("serverinfo", 1)
           two == <<a, Signonnum(1)>>
           m == <<>> \o two
<1>1. host_client = SV_SendServerinfo(s, 1) /\ level = 1
  BY DEF Init
<1>2. host_client = [s EXCEPT !.message = m, !.sendsignon = TRUE,
                              !.spawned = FALSE]
  BY <1>1 DEF SV_SendServerinfo
<1>3. Len(m) = 2 /\ m[1] = a /\ m[2] = Signonnum(1)
  <2>1. two \in Seq({a, Signonnum(1)}) /\ Len(two) = 2
        /\ two[1] = a /\ two[2] = Signonnum(1)
    <3> HIDE DEF a
    <3> QED
      OBVIOUS
  <2> HIDE DEF two
  <2>2. m = two
    BY <2>1
  <2> QED
    BY <2>1, <2>2
<1> HIDE DEF m
<1>4. /\ host_client.message = m /\ host_client.sendsignon = TRUE
      /\ host_client.spawned = FALSE /\ host_client.net_wait = TRUE
  BY <1>2
<1> HIDE DEF s
<1>5. IsStage(host_client.message, 1)
  BY <1>1, <1>3, <1>4 DEF IsStage
<1>6. net["client"] = <<>> /\ net["server"] = <<>>
  BY DEF Init
<1>7. \A T : ~Has(net["client"], T) /\ ~Has(net["server"], T)
  BY <1>6 DEF Has
<1>8. ServerAt(1, "message")
  BY <1>4, <1>5 DEF Init, ServerAt
<1>9. cls.reconnect = FALSE /\ cls.signon = 0 /\ cls.message = <<Nop>>
  BY DEF Init
<1>10. AreTalk(cls.message)
  <2>1. Nop.name = "nop"
    BY CmdIs DEF Nop
  <2> HIDE DEF Nop
  <2>2. DOMAIN <<Nop>> = {1} /\ <<Nop>>[1] = Nop
    OBVIOUS
  <2> QED
    BY <1>9, <2>1, <2>2 DEF AreTalk, IsTalk
<1>11. ClientAt(1, "message")
  <2>1. parsing = <<>> /\ loading = "no"
    BY DEF Init
  <2>2. AreNops(parsing)
    BY <2>1 DEF AreNops
  <2> QED
    BY <1>9, <1>10, <2>1, <2>2 DEF ClientAt
<1>12. NetAt(1, "message") /\ OrderlyAtStage(1, "message")
  BY <1>4, <1>7 DEF NetAt, OrderlyAtStage, Fresh
<1>13. SignsOn
  BY <1>8, <1>11, <1>12 DEF SignsOn, AtStage, Place
<1>14. InOrder
  BY <1>7 DEF InOrder, Before, Has
<1> QED
  BY <1>13, <1>14 DEF Init

\* The first level is only left.
LEMMA FirstLevelWas ==
  ASSUME Basics, ServerNext \/ ClientNext
  PROVE  OnFirstLevel' => OnFirstLevel /\ ~Host_Changelevel_f
                          /\ ~SV_SendReconnect /\ ~SV_SpawnServer
                          /\ \A i : ~DrainRead(i)
<1> SUFFICES ASSUME OnFirstLevel'
             PROVE  OnFirstLevel /\ ~Host_Changelevel_f
                    /\ ~SV_SendReconnect /\ ~SV_SpawnServer
                    /\ \A i : ~DrainRead(i)
  OBVIOUS
<1>1. level' = 1 /\ phase' \in {"commands", "clients"}
  BY DEF OnFirstLevel
<1>2. ~Host_Changelevel_f /\ ~SV_SendReconnect
  BY <1>1 DEF Host_Changelevel_f, SV_SendReconnect
<1>3. ~SV_SpawnServer
  <2>1. level \in 1..setting.levels /\ setting.levels \in Nat
    BY CmdsAreCommands DEF Basics, ServerOK
  <2>2. level + 1 # 1
    BY <2>1
  <2> QED
    BY <1>1, <2>2 DEF SV_SpawnServer
<1>4. ASSUME NEW i
      PROVE  ~DrainRead(i)
  BY <1>1 DEF DrainRead, Basics, ServerOK, PhaseOK
<1>5. CASE ServerNext
  <2>1. \/ \E i \in DOMAIN net["server"] : SV_ReadClientMessage(i)
        \/ \E lost \in BOOLEAN : SV_SendClientMessages(lost)
        \/ Drain \/ DrainNothing
    BY <1>2, <1>3, <1>4, <1>5 DEF ServerNext
  <2>2. level' = level
    BY <2>1 DEF SV_ReadClientMessage, SV_SendClientMessages, Drain, DrainNothing
  <2>3. phase \in {"commands", "clients"}
    BY <1>1, <2>1 DEF SV_ReadClientMessage, SV_SendClientMessages, Drain,
                      DrainNothing
  <2> QED
    BY <1>1, <1>2, <1>3, <1>4, <2>2, <2>3 DEF OnFirstLevel
<1>6. CASE ClientNext
  <2>1. UNCHANGED <<phase, level>>
    BY <1>6 DEF ClientNext, ParseNext, ClientFrame, CL_ReadFromServer,
       CL_ParseServerInfo, ParseSignonnum, ParseStufftext, CL_ParseUpdate,
       ParseOther, Parse, KeepaliveRead, CL_KeepaliveMessage, LoadingEnds,
       serverVars
  <2> QED
    BY <1>1, <1>2, <1>3, <1>4, <2>1 DEF OnFirstLevel
<1> QED
  BY <1>5, <1>6

LEMMA NextSigned ==
  ASSUME Basics, Signed, [Next]_vars
  PROVE  Signed'
<1>1. CASE UNCHANGED vars
  <2>1. UNCHANGED <<setting, phase, level, host_client, cls, parsing, loading,
                    net, failure>>
    BY <1>1 DEF vars, gameVars, serverVars, clientVars
  <2>2. SignsOn => SignsOn'
    BY <2>1, DrainingSigns DEF Signed
  <2>3. InOrder' <=> InOrder
    BY <2>1 DEF InOrder
  <2>4. (Orderly' <=> Orderly) /\ (OnFirstLevel' <=> OnFirstLevel)
    BY <2>1, WordsKept DEF OnFirstLevel
  <2> QED
    BY <2>1, <2>2, <2>3, <2>4 DEF Signed, NoFailure
<1>2. CASE Next
  <2>1. setting' = setting /\ failure = "none" /\ (ServerNext \/ ClientNext)
    BY <1>2 DEF Next
  <2>2. (Orderly' <=> Orderly) /\ (OnFirstLevel' => OnFirstLevel)
    BY <2>1, WordsKept, FirstLevelWas
  <2>3. SUFFICES ASSUME Orderly \/ OnFirstLevel'
                 PROVE  /\ SignsOn' /\ (Orderly => InOrder')
                        /\ failure' = "none"
                           \/ (~Orderly /\ failure' = "canSend")
    <3>1. CASE Orderly \/ OnFirstLevel'
      BY <2>2, <2>3, <3>1 DEF Signed, NoFailure
    <3>2. CASE ~(Orderly \/ OnFirstLevel')
      BY <2>2, <3>2 DEF Signed, NoFailure
    <3> QED
      BY <3>1, <3>2
  <2>4. SignsOn /\ (Orderly => InOrder)
    BY <2>2, <2>3 DEF Signed
  <2>5. CASE ServerNext
    <3>1. CASE \/ \E i \in DOMAIN net["server"] : SV_ReadClientMessage(i)
               \/ \E lost \in BOOLEAN : SV_SendClientMessages(lost)
      BY <2>1, <2>4, <3>1, ReadClientSigns, SendClientSigns
    <3>2. CASE Drain \/ DrainNothing
      <4>1. UNCHANGED <<setting, phase, level, host_client, cls, parsing,
                        loading, net, failure>>
        BY <2>1, <3>2 DEF Drain, DrainNothing, clientVars
      <4> QED
        BY <2>1, <2>4, <4>1, DrainingSigns
    <3>3. CASE \/ Host_Changelevel_f \/ SV_SendReconnect \/ SV_SpawnServer
               \/ \E i \in DOMAIN net["server"] : DrainRead(i)
      <4>1. Orderly
        BY <2>1, <2>3, <3>3, FirstLevelWas
      <4> QED
        BY <2>1, <2>4, <3>3, <4>1, ChangelevelSigns, ReconnectSigns,
           DrainReadSigns, SpawnServerSigns
    <3> QED
      BY <2>5, <3>1, <3>2, <3>3 DEF ServerNext
  <2>6. CASE ClientNext
    <3>1. CASE ParseNext
      BY <2>1, <2>4, <3>1, ServerInfoSigns, SignonnumSigns, StufftextSigns,
         OtherParseSigns DEF ParseNext
    <3>2. CASE ~ParseNext
      BY <2>1, <2>4, <2>6, <3>2, ClientFrameSigns, ReadServerSigns,
         KeepaliveReadSigns, KeepaliveSigns, LoadingEndsSigns DEF ClientNext
    <3> QED
      BY <3>1, <3>2
  <2> QED
    BY <2>1, <2>5, <2>6
<1> QED
  BY <1>1, <1>2

THEOREM SignOnInvAlways == Spec => []SignOnInv
<1>1. Init => SignOnInv
  BY InitBasics, InitSigned, SignOnInvIs
<1>2. SignOnInv /\ [Next]_vars => SignOnInv'
  BY NextBasics, NextSigned, SignOnInvIs
<1> QED
  BY <1>1, <1>2, PTL DEF Spec

\* In an orderly run no check of the client fails, on whatever level; on the
\* first, whatever happens to packets and whatever the player says, none but
\* the assertion of Datagram_SendMessage.
THEOREM NoFailureEver == Spec => []NoFailure
<1>1. SignOnInv => NoFailure
  BY DEF SignOnInv
<1> QED
  BY <1>1, SignOnInvAlways, PTL

\* A client the server counts as spawned has loaded the level the server
\* plays and been through its stages (Host_Begin_f does not check).
THEOREM SpawnedHasSignedOn == Spec => []SpawnedIsSignedOn
<1>1. SignOnInv => SpawnedIsSignedOn
  <2> SUFFICES ASSUME SignsOn
               PROVE  SlotMatches
    BY DEF SignOnInv, SpawnedIsSignedOn
  <2> SUFFICES ASSUME host_client.spawned, phase \in {"commands", "clients"}
               PROVE  cls.level = level /\ cls.signon >= SIGNONS - 1
    BY DEF SlotMatches
  <2>1. Playing
    BY DEF SignsOn, AtStage, ServerAt, Leaving
  <2> QED
    BY <2>1 DEF Playing, ClientPlays, SIGNONS
<1> QED
  BY <1>1, SignOnInvAlways, PTL
==============================================================================
