---------------------------- MODULE DatagramProofs ----------------------------
(***************************************************************************)
(* Proofs about Datagram, for every packet size, set of messages and bound *)
(* on the number of messages.  The inductive invariant is IInv: the types  *)
(* and ChannelInv, which says of every state of the sender what the peer   *)
(* has.  The refinement of ReliableChannel and the action property are     *)
(* read off it one step at a time.  The unreliable channel has its own     *)
(* invariant, UInv, at the end.                                            *)
(***************************************************************************)
EXTENDS Datagram, SequenceTheorems, TLAPS

IInv == TypeOK /\ ChannelInv

-----------------------------------------------------------------------------
(* Facts about endpoints, packets and fragments.                           *)

\* The two endpoints are each other's peer.
LEMMA PeerFacts ==
  ASSUME NEW e \in Endpoint
  PROVE  /\ Peer(e) \in Endpoint
         /\ Peer(Peer(e)) = e
         /\ Peer(e) # e
         /\ \A s \in Endpoint : s = e \/ s = Peer(e)
BY DEF Endpoint, Peer

\* The front packet is a data packet with the number asked for; it ends the
\* message exactly when nothing is left after it.
LEMMA FrontPacketFacts ==
  ASSUME NEW msg \in Seq(Byte), NEW n \in Nat
  PROVE  /\ FrontPacket(msg, n) \in Packet
         /\ FrontPacket(msg, n).type = "DATA"
         /\ FrontPacket(msg, n).seq = n
         /\ FrontPacket(msg, n).eom = IsLastFragment(msg)
         /\ IsLastFragment(msg) => FrontPacket(msg, n).data = msg
<1>1. ~IsLastFragment(msg) => SubSeq(msg, 1, MAX_DATAGRAM) \in Seq(Byte)
  BY MaxDatagramAssumption, LenProperties, SubSeqProperties
     DEF IsLastFragment
<1> QED
  BY <1>1 DEF FrontPacket, DataPacket, Packet, IsLastFragment

\* What is left after the front packet is what the packet did not carry.
LEMMA AfterFrontFacts ==
  ASSUME NEW msg \in Seq(Byte)
  PROVE  /\ AfterFront(msg) \in Seq(Byte)
         /\ IsLastFragment(msg) <=> ~(Len(msg) - MAX_DATAGRAM > 0)
         /\ ~IsLastFragment(msg) =>
              \A n \in Nat : FrontPacket(msg, n).data \o AfterFront(msg) = msg
<1>1. Len(msg) \in Nat
  OBVIOUS
<1>2. IsLastFragment(msg) <=> ~(Len(msg) - MAX_DATAGRAM > 0)
  BY <1>1, MaxDatagramAssumption DEF IsLastFragment
<1>3. CASE IsLastFragment(msg)
  BY <1>2, <1>3 DEF AfterFront
<1>4. CASE ~IsLastFragment(msg)
  <2>1. AfterFront(msg) = SubSeq(msg, MAX_DATAGRAM + 1, Len(msg))
    BY <1>2, <1>4 DEF AfterFront
  <2>2. SubSeq(msg, MAX_DATAGRAM + 1, Len(msg)) \in Seq(Byte)
    BY <1>1, <1>2, <1>4, MaxDatagramAssumption, SubSeqProperties
  <2>3. SubSeq(msg, 1, MAX_DATAGRAM) \o SubSeq(msg, MAX_DATAGRAM + 1, Len(msg))
          = SubSeq(msg, 1, Len(msg))
    <3>1. /\ 1 \in 1 .. Len(msg) + 1
          /\ MAX_DATAGRAM \in 1 - 1 .. Len(msg)
          /\ Len(msg) \in MAX_DATAGRAM .. Len(msg)
      BY <1>1, <1>2, <1>4, MaxDatagramAssumption
    <3> QED
      BY <3>1, ConcatAdjacentSubSeq
  <2>4. SubSeq(msg, 1, Len(msg)) = msg
    BY SubSeqFull
  <2> QED
    BY <1>2, <1>4, <2>1, <2>2, <2>3, <2>4 DEF FrontPacket, DataPacket
<1> QED
  BY <1>3, <1>4

\* Acknowledgements and unreliable packets are packets.
LEMMA OtherPackets ==
  ASSUME NEW n \in Nat
  PROVE  /\ AckPacket(n) \in Packet
         /\ AckPacket(n).type = "ACK"
         /\ AckPacket(n).seq = n
         /\ UnreliablePacket(n) \in Packet
         /\ UnreliablePacket(n).type = "UNRELIABLE"
BY DEF AckPacket, UnreliablePacket, Packet

-----------------------------------------------------------------------------
(* Steps that leave a transfer alone.                                      *)

\* The reliable sender's variables of endpoint s do not change.
SenderKept(s) ==
  /\ canSend'[s] = canSend[s] /\ sendNext'[s] = sendNext[s]
  /\ sendMessage'[s] = sendMessage[s] /\ sendSequence'[s] = sendSequence[s]
  /\ ackSequence'[s] = ackSequence[s] /\ sent'[s] = sent[s]

\* The reliable receiver's variables of endpoint r do not change.
ReceiverKept(r) ==
  /\ receiveSequence'[r] = receiveSequence[r]
  /\ receiveMessage'[r] = receiveMessage[r]
  /\ delivered'[r] = delivered[r]

\* No data packet is new to r's socket.
NoNewData(r) == \A p \in net'[r] : p.type = "DATA" => p \in net[r]

\* No ACK is new to s's socket but of a packet that s's peer has taken.
NoWrongAck(s) ==
  \A p \in net'[s] : p.type = "ACK" =>
    p \in net[s] \/ p.seq < receiveSequence[Peer(s)]

\* A transfer whose two ends do not change, and into which no packet enters
\* but further ACKs, keeps its invariant.
LEMMA QuietStep ==
  ASSUME NEW s \in Endpoint, TransferInv(s),
         SenderKept(s), ReceiverKept(Peer(s)),
         NoNewData(Peer(s)), NoWrongAck(s),
         pc'[s] = "idle" => ~sendNext[s]
  PROVE  TransferInv(s)'
<1>1. SequenceInv(s)'
  BY DEF TransferInv, SequenceInv, SenderKept, ReceiverKept
<1>2. PacketInv(s)'
  BY DEF TransferInv, PacketInv, SenderKept, ReceiverKept, NoNewData,
         NoWrongAck, FrontPacket, DataPacket, IsLastFragment
<1>3. ContentInv(s)'
  BY DEF TransferInv, ContentInv, SenderKept, ReceiverKept, IsLastFragment,
         AfterFront
<1> QED
  BY <1>1, <1>2, <1>3 DEF TransferInv

\* What an exchange by e does to the two sockets' packets.
LEMMA ExchangeFacts ==
  ASSUME NEW e \in Endpoint, NEW gone, NEW out,
         net \in [Endpoint -> SUBSET Packet], Exchange(e, gone, out)
  PROVE  /\ net'[e] = net[e] \ gone
         /\ net'[Peer(e)] = net[Peer(e)] \cup out
         /\ out \subseteq Packet => net' \in [Endpoint -> SUBSET Packet]
BY PeerFacts DEF Exchange

\* Packets go in, packets stay.
LEMMA ExchangeType ==
  ASSUME TypeOK, NEW e \in Endpoint, NEW gone, NEW out \in SUBSET Packet,
         Exchange(e, gone, out)
  PROVE  net' \in [Endpoint -> SUBSET Packet]
BY ExchangeFacts DEF TypeOK

\* SendMessageNext moves a pending fragment into flight.
LEMMA SendMessageNextStep ==
  ASSUME TypeOK, NEW e \in Endpoint, TransferInv(e),
         SendMessageNext(e), ReceiverKept(Peer(e)), NoWrongAck(e),
         \A p \in net'[Peer(e)] : p.type = "DATA" =>
           p \in net[Peer(e)] \/ p \in NextPackets(e)
  PROVE  TransferInv(e)'
<1> DEFINE r == Peer(e)
<1>1. /\ r \in Endpoint
      /\ sendSequence[e] \in Nat /\ ackSequence[e] \in Nat
      /\ receiveSequence[r] \in Nat /\ sendMessage[e] \in Seq(Byte)
      /\ canSend[e] \in BOOLEAN /\ sendNext[e] \in BOOLEAN
  BY PeerFacts DEF TypeOK, SenderTypeOK, ReceiverTypeOK
<1>2. /\ canSend'[e] = canSend[e] /\ sendMessage'[e] = sendMessage[e]
      /\ ackSequence'[e] = ackSequence[e] /\ sent'[e] = sent[e]
      /\ sendNext'[e] = FALSE
      /\ sendSequence'[e] = IF sendNext[e] THEN sendSequence[e] + 1
                                           ELSE sendSequence[e]
  BY DEF SendMessageNext, TypeOK, SenderTypeOK
<1>3. SequenceInv(e)'
  BY <1>1, <1>2 DEF TransferInv, SequenceInv, ReceiverKept
<1>4. PacketInv(e)'
  <2>1. ASSUME NEW p \in net'[r], p.type = "DATA"
        PROVE  /\ p.seq < sendSequence'[e]
               /\ p.seq = ackSequence'[e] =>
                    p = FrontPacket(sendMessage[e], p.seq)
    <3>1. CASE p \in net[r]
      <4>1. p.seq \in Nat
        BY <1>1, <3>1 DEF TypeOK, Packet
      <4> QED
        BY <1>1, <1>2, <2>1, <3>1, <4>1 DEF TransferInv, PacketInv
    <3>2. CASE p \in NextPackets(e)
      <4>1. sendNext[e] /\ p = FrontPacket(sendMessage[e], sendSequence[e])
        BY <3>2 DEF NextPackets
      <4>2. p.seq = sendSequence[e]
        BY <1>1, <4>1, FrontPacketFacts
      <4> QED
        BY <1>1, <1>2, <4>1, <4>2 DEF TransferInv, SequenceInv
    <3> QED
      BY <2>1, <3>1, <3>2
  <2>2. \A p \in net'[e] : p.type = "ACK" => p.seq < receiveSequence'[r]
    BY <1>1 DEF TransferInv, PacketInv, NoWrongAck, ReceiverKept
  <2>3. \A p \in net'[r] : p.type = "DATA" =>
          /\ p.seq < sendSequence'[e]
          /\ p.seq = ackSequence'[e] =>
               p = FrontPacket(sendMessage'[e], p.seq)
    BY <1>2, <2>1
  <2> QED
    BY <2>2, <2>3
       DEF PacketInv, FrontPacket, DataPacket, IsLastFragment
<1>5. ContentInv(e)'
  BY <1>1, <1>2 DEF TransferInv, SequenceInv, ContentInv, ReceiverKept,
                    IsLastFragment, AfterFront
<1> QED
  BY <1>3, <1>4, <1>5 DEF TransferInv

-----------------------------------------------------------------------------
(* Types.                                                                  *)

\* A fragment waits for its ACK only if a packet has been sent before.
LEMMA ReSendHasNumber ==
  ASSUME TypeOK, ChannelInv, NEW e \in Endpoint,
         pc[e] = "idle", ~canSend[e]
  PROVE  sendSequence[e] - 1 \in Nat /\ ackSequence[e] = sendSequence[e] - 1
BY DEF TypeOK, SenderTypeOK, ChannelInv, TransferInv, SequenceInv

\* What a step does not touch keeps its type.
LEMMA UnchangedTypes ==
  ASSUME TypeOK
  PROVE  /\ UNCHANGED senderVars => SenderTypeOK'
         /\ UNCHANGED receiverVars => ReceiverTypeOK'
         /\ UNCHANGED unreliableVars => UnreliableTypeOK'
<1>1. UNCHANGED senderVars => SenderTypeOK'
  BY DEF TypeOK, SenderTypeOK, senderVars
<1>2. UNCHANGED receiverVars => ReceiverTypeOK'
  BY DEF TypeOK, ReceiverTypeOK, receiverVars
<1>3. UNCHANGED unreliableVars => UnreliableTypeOK'
  BY DEF TypeOK, UnreliableTypeOK, unreliableVars
<1> QED
  BY <1>1, <1>2, <1>3

\* The packets SendMessageNext writes, and what it does to the sender.
LEMMA SendMessageNextType ==
  ASSUME TypeOK, NEW e \in Endpoint
  PROVE  /\ NextPackets(e) \subseteq Packet
         /\ \A p \in NextPackets(e) : p.type = "DATA"
         /\ SendMessageNext(e) => SenderTypeOK'
<1>1. sendMessage[e] \in Seq(Byte) /\ sendSequence[e] \in Nat
  BY DEF TypeOK, SenderTypeOK
<1>2. /\ NextPackets(e) \subseteq Packet
      /\ \A p \in NextPackets(e) : p.type = "DATA"
  BY <1>1, FrontPacketFacts DEF NextPackets
<1>3. ASSUME SendMessageNext(e)
      PROVE  SenderTypeOK'
  <2>1. UNCHANGED <<canSend, sendMessage, ackSequence, sent>>
    BY <1>3 DEF SendMessageNext
  <2>2. sendNext' \in [Endpoint -> BOOLEAN]
    BY <1>3 DEF SendMessageNext, TypeOK, SenderTypeOK
  <2>3. expired' \in [Endpoint -> BOOLEAN]
    BY <1>3 DEF SendMessageNext, TypeOK, SenderTypeOK
  <2>4. sendSequence' \in [Endpoint -> Nat]
    BY <1>3 DEF SendMessageNext, TypeOK, SenderTypeOK
  <2> QED
    BY <2>1, <2>2, <2>3, <2>4 DEF TypeOK, SenderTypeOK
<1> QED
  BY <1>2, <1>3

\* Every step keeps the types, given the channel's invariant.
LEMMA TypeStep ==
  ASSUME IInv, [Next]_vars
  PROVE  TypeOK'
<1> USE DEF IInv
<1>1. CASE UNCHANGED vars
  BY <1>1, UnchangedTypes DEF TypeOK, vars
<1>2. ASSUME NEW e \in Endpoint, NEW m \in Message, SendMessage(e, m)
      PROVE  TypeOK'
  <2>1. m \in Seq(Byte) /\ sendSequence[e] \in Nat
    BY MessageAssumption DEF TypeOK, SenderTypeOK
  <2>2. net' \in [Endpoint -> SUBSET Packet]
    <3>1. Exchange(e, {}, {FrontPacket(m, sendSequence[e])})
      BY <1>2 DEF SendMessage
    <3>2. {FrontPacket(m, sendSequence[e])} \in SUBSET Packet
      BY <2>1, FrontPacketFacts
    <3> QED
      BY <3>1, <3>2, ExchangeType
  <2>3. sent' \in [Endpoint -> Seq(Message)]
    BY <1>2 DEF SendMessage, TypeOK, SenderTypeOK
  <2>4. SenderTypeOK'
    BY <1>2, <2>1, <2>3 DEF SendMessage, TypeOK, SenderTypeOK
  <2> QED
    BY <1>2, <2>2, <2>4, UnchangedTypes DEF SendMessage, TypeOK
<1>3. ASSUME NEW e \in Endpoint, CanSendMessage(e)
      PROVE  TypeOK'
  <2>1. net' \in [Endpoint -> SUBSET Packet]
    BY <1>3, SendMessageNextType, ExchangeType DEF CanSendMessage
  <2> QED
    BY <1>3, <2>1, SendMessageNextType, UnchangedTypes
       DEF CanSendMessage, TypeOK
<1>4. ASSUME NEW e \in Endpoint, SendUnreliableMessage(e)
      PROVE  TypeOK'
  <2>1. net' \in [Endpoint -> SUBSET Packet]
    <3>1. Exchange(e, {}, {UnreliablePacket(unreliableSendSequence[e])})
      BY <1>4 DEF SendUnreliableMessage
    <3>2. {UnreliablePacket(unreliableSendSequence[e])} \in SUBSET Packet
      BY OtherPackets DEF TypeOK, UnreliableTypeOK
    <3> QED
      BY <3>1, <3>2, ExchangeType
  <2>2. UnreliableTypeOK'
    BY <1>4 DEF SendUnreliableMessage, TypeOK, UnreliableTypeOK
  <2> QED
    BY <1>4, <2>1, <2>2, UnchangedTypes DEF SendUnreliableMessage, TypeOK
<1>5. ASSUME NEW e \in Endpoint, GetMessage(e)
      PROVE  TypeOK'
  <2>1. net' \in [Endpoint -> SUBSET Packet]
    <3>1. CASE ~canSend[e] /\ expired[e]
      <4>1. Exchange(e, {},
                     {FrontPacket(sendMessage[e], sendSequence[e] - 1)})
        BY <1>5, <3>1 DEF GetMessage
      <4>2. FrontPacket(sendMessage[e], sendSequence[e] - 1) \in Packet
        BY <1>5, <3>1, ReSendHasNumber, FrontPacketFacts
           DEF GetMessage, TypeOK, SenderTypeOK
      <4> QED
        BY <4>1, <4>2, ExchangeType
    <3>2. CASE ~(~canSend[e] /\ expired[e])
      BY <1>5, <3>2 DEF GetMessage, TypeOK
    <3> QED
      BY <3>1, <3>2
  <2>2. SenderTypeOK'
    BY <1>5 DEF GetMessage, TypeOK, SenderTypeOK
  <2> QED
    BY <1>5, <2>1, <2>2, UnchangedTypes DEF GetMessage, TypeOK
<1>6. ASSUME NEW e \in Endpoint, ReadNothing(e)
      PROVE  TypeOK'
  <2>1. net' \in [Endpoint -> SUBSET Packet]
    BY <1>6, SendMessageNextType, ExchangeType DEF ReadNothing, Leave
  <2> QED
    BY <1>6, <2>1, SendMessageNextType, UnchangedTypes
       DEF ReadNothing, Leave, TypeOK
<1>7. ASSUME NEW e \in Endpoint, ReadError(e) \/ Close(e)
      PROVE  TypeOK'
  BY <1>7, UnchangedTypes DEF ReadError, Close, TypeOK
<1>8. ASSUME NEW e \in Endpoint, NEW p \in net[e], NEW gone \in {{}, {p}},
             ReadPacket(e, p, gone)
      PROVE  TypeOK'
  <2>1. p \in Packet /\ p.seq \in Nat /\ p.data \in Seq(Byte)
    BY DEF TypeOK, Packet
  <2>2. CASE StaleUnreliable(e, p, gone)
    <3>1. net' \in [Endpoint -> SUBSET Packet]
      BY <2>2, SendMessageNextType, ExchangeType DEF StaleUnreliable, Leave
    <3> QED
      BY <2>2, <3>1, SendMessageNextType, UnchangedTypes
         DEF StaleUnreliable, Leave, TypeOK
  <2>3. CASE ReceiveUnreliable(e, p, gone)
    <3>1. net' \in [Endpoint -> SUBSET Packet]
      BY <2>3, SendMessageNextType, ExchangeType DEF ReceiveUnreliable, Leave
    <3>2. p.seq - unreliableReceiveSequence[e] \in Nat
      BY <2>1, <2>3 DEF ReceiveUnreliable, TypeOK, UnreliableTypeOK
    <3>3. UnreliableTypeOK'
      <4>1. droppedDatagrams' \in [Endpoint -> Nat]
        BY <2>3, <3>2 DEF ReceiveUnreliable, TypeOK, UnreliableTypeOK
      <4>2. unreliableReceiveSequence' \in [Endpoint -> Nat]
        BY <2>1, <2>3 DEF ReceiveUnreliable, TypeOK, UnreliableTypeOK
      <4>3. received' \in [Endpoint -> Seq(Nat)]
        BY <2>1, <2>3 DEF ReceiveUnreliable, TypeOK, UnreliableTypeOK
      <4>4. UNCHANGED unreliableSendSequence
        BY <2>3 DEF ReceiveUnreliable
      <4> QED
        BY <4>1, <4>2, <4>3, <4>4 DEF TypeOK, UnreliableTypeOK
    <3> QED
      BY <2>3, <3>1, <3>3, SendMessageNextType, UnchangedTypes
         DEF ReceiveUnreliable, Leave, TypeOK
  <2>4. CASE IgnoreAck(e, p, gone)
    <3>1. net' \in [Endpoint -> SUBSET Packet]
      BY <2>4, ExchangeType DEF IgnoreAck
    <3> QED
      BY <2>4, <3>1, UnchangedTypes DEF IgnoreAck, TypeOK
  <2>5. CASE ReceiveAck(e, p, gone)
    <3>1. net' \in [Endpoint -> SUBSET Packet]
      BY <2>5, ExchangeType DEF ReceiveAck
    <3>2. sendMessage' \in [Endpoint -> Seq(Byte)]
      BY <2>5, AfterFrontFacts DEF ReceiveAck, TypeOK, SenderTypeOK
    <3>3. ackSequence' \in [Endpoint -> Nat]
      BY <2>5 DEF ReceiveAck, TypeOK, SenderTypeOK
    <3>4. sendNext' \in [Endpoint -> BOOLEAN]
      BY <2>5 DEF ReceiveAck, TypeOK, SenderTypeOK
    <3>5. canSend' \in [Endpoint -> BOOLEAN]
      BY <2>5 DEF ReceiveAck, TypeOK, SenderTypeOK
    <3>6. UNCHANGED <<sendSequence, expired, sent>>
      BY <2>5 DEF ReceiveAck
    <3>7. SenderTypeOK'
      BY <3>2, <3>3, <3>4, <3>5, <3>6 DEF TypeOK, SenderTypeOK
    <3> QED
      BY <2>5, <3>1, <3>7, UnchangedTypes DEF ReceiveAck, TypeOK
  <2>6. CASE DuplicateData(e, p, gone)
    <3>1. net' \in [Endpoint -> SUBSET Packet]
      BY <2>1, <2>6, OtherPackets, ExchangeType DEF DuplicateData
    <3> QED
      BY <2>6, <3>1, UnchangedTypes DEF DuplicateData, TypeOK
  <2>7. CASE ReceiveFragment(e, p, gone)
    <3>1. net' \in [Endpoint -> SUBSET Packet]
      BY <2>1, <2>7, OtherPackets, ExchangeType DEF ReceiveFragment
    <3>2. receiveMessage[e] \o p.data \in Seq(Byte)
      BY <2>1, ConcatProperties DEF TypeOK, ReceiverTypeOK
    <3>3. ReceiverTypeOK'
      BY <2>7, <3>2 DEF ReceiveFragment, TypeOK, ReceiverTypeOK
    <3> QED
      BY <2>7, <3>1, <3>3, UnchangedTypes DEF ReceiveFragment, TypeOK
  <2>8. CASE ReceiveEOM(e, p, gone)
    <3>1. net' \in [Endpoint -> SUBSET Packet]
      <4>1. {AckPacket(p.seq)} \cup NextPackets(e) \in SUBSET Packet
        BY <2>1, OtherPackets, SendMessageNextType
      <4> QED
        BY <2>8, <4>1, ExchangeType DEF ReceiveEOM, Leave
    <3>2. receiveMessage[e] \o p.data \in Seq(Byte)
      BY <2>1, ConcatProperties DEF TypeOK, ReceiverTypeOK
    <3>3. ReceiverTypeOK'
      BY <2>8, <3>2 DEF ReceiveEOM, TypeOK, ReceiverTypeOK
    <3> QED
      BY <2>8, <3>1, <3>3, SendMessageNextType, UnchangedTypes
         DEF ReceiveEOM, Leave, TypeOK
  <2> QED
    BY <1>8, <2>2, <2>3, <2>4, <2>5, <2>6, <2>7, <2>8 DEF ReadPacket
<1>9. ASSUME NEW e \in Endpoint, TimerExpires(e)
      PROVE  TypeOK'
  <2>1. SenderTypeOK'
    BY <1>9 DEF TimerExpires, TypeOK, SenderTypeOK
  <2> QED
    BY <1>9, <2>1, UnchangedTypes DEF TimerExpires, TypeOK
<1>10. ASSUME NEW e \in Endpoint, NEW p \in net[e], Lose(e, p)
       PROVE  TypeOK'
  BY <1>10, UnchangedTypes DEF Lose, TypeOK
<1> QED
  BY <1>1, <1>2, <1>3, <1>4, <1>5, <1>6, <1>7, <1>8, <1>9, <1>10 DEF Next

-----------------------------------------------------------------------------
(* The channel's invariant.                                                *)

\* Running SendMessageNext at one end leaves the other end's sender alone.
LEMMA NextKeepsOther ==
  ASSUME TypeOK, NEW e \in Endpoint, SendMessageNext(e)
  PROVE  SenderKept(Peer(e))
BY PeerFacts DEF SendMessageNext, SenderKept, TypeOK, SenderTypeOK

\* A step in which e leaves GetMessage, its reliable receiver unchanged, and
\* whatever it writes besides the next fragment is neither data nor an ACK
\* of an untaken packet, keeps both transfers.
LEMMA LeaveStep ==
  ASSUME IInv, NEW e \in Endpoint, NEW gone,
         SendMessageNext(e), Exchange(e, gone, NextPackets(e)),
         pc'[Peer(e)] = pc[Peer(e)], UNCHANGED receiverVars
  PROVE  ChannelInv'
<1> DEFINE r == Peer(e)
<1>1. r \in Endpoint /\ Peer(r) = e /\ TransferInv(e) /\ TransferInv(r)
  BY PeerFacts DEF IInv, ChannelInv
<1>2. /\ net'[e] = net[e] \ gone
      /\ net'[r] = net[r] \cup NextPackets(e)
  BY ExchangeFacts DEF IInv, TypeOK
<1>3. ReceiverKept(e) /\ ReceiverKept(r)
  BY DEF receiverVars, ReceiverKept
<1>4. \A p \in NextPackets(e) : p.type = "DATA"
  BY SendMessageNextType DEF IInv
<1>5. TransferInv(e)'
  <2>1. NoWrongAck(e)
    BY <1>2 DEF NoWrongAck
  <2> QED
    BY <1>1, <1>2, <1>3, <2>1, SendMessageNextStep DEF IInv
<1>6. TransferInv(r)'
  <2>1. SenderKept(r)
    BY NextKeepsOther DEF IInv
  <2>2. NoNewData(e)
    BY <1>2 DEF NoNewData
  <2>3. NoWrongAck(r)
    BY <1>2, <1>4 DEF NoWrongAck
  <2>4. pc'[r] = "idle" => ~sendNext[r]
    BY <1>1 DEF TransferInv, SequenceInv
  <2> QED
    BY <1>1, <1>3, <2>1, <2>2, <2>3, <2>4, QuietStep
<1> QED
  BY <1>5, <1>6, PeerFacts DEF ChannelInv

\* A new message: everything before it has arrived.
LEMMA SendMessageStep ==
  ASSUME IInv, NEW e \in Endpoint, NEW m \in Message, SendMessage(e, m)
  PROVE  ChannelInv'
<1> DEFINE r == Peer(e)
<1>1. r \in Endpoint /\ Peer(r) = e /\ r # e
      /\ TransferInv(e) /\ TransferInv(r)
  BY PeerFacts DEF IInv, ChannelInv
<1>2. /\ net'[e] = net[e]
      /\ net'[r] = net[r] \cup {FrontPacket(m, sendSequence[e])}
  <2>1. Exchange(e, {}, {FrontPacket(m, sendSequence[e])})
    BY DEF SendMessage
  <2>2. net \in [Endpoint -> SUBSET Packet]
    BY DEF IInv, TypeOK
  <2>3. /\ net'[e] = net[e] \ {}
        /\ net'[r] = net[r] \cup {FrontPacket(m, sendSequence[e])}
    BY <2>1, <2>2, ExchangeFacts
  <2> QED
    BY <2>3
<1>3. /\ m \in Seq(Byte) /\ sendSequence[e] \in Nat
      /\ ackSequence[e] \in Nat /\ receiveSequence[r] \in Nat
  BY <1>1, MessageAssumption
     DEF IInv, TypeOK, SenderTypeOK, ReceiverTypeOK
<1>4. /\ sendSequence'[e] = sendSequence[e] + 1
      /\ canSend'[e] = FALSE /\ sendMessage'[e] = m
      /\ sent'[e] = Append(sent[e], m)
      /\ ackSequence'[e] = ackSequence[e] /\ sendNext'[e] = sendNext[e]
      /\ pc' = pc
  BY DEF SendMessage, IInv, TypeOK, SenderTypeOK
<1>5. ReceiverKept(e) /\ ReceiverKept(r)
  BY DEF SendMessage, receiverVars, ReceiverKept
<1>6. /\ canSend[e] /\ ~sendNext[e]
      /\ ackSequence[e] = sendSequence[e]
      /\ receiveSequence[r] = sendSequence[e]
      /\ delivered[r] = sent[e] /\ receiveMessage[r] = <<>>
  BY <1>1, <1>3 DEF SendMessage, TransferInv, SequenceInv, ContentInv
<1>7. TransferInv(e)'
  <2>1. SequenceInv(e)'
    <3>1. ackSequence'[e] = sendSequence'[e] - 1
      BY <1>3, <1>4, <1>6
    <3>2. receiveSequence'[r] = ackSequence'[e]
      BY <1>4, <1>5, <1>6 DEF ReceiverKept
    <3>3. ~canSend'[e] /\ ~sendNext'[e]
      BY <1>4, <1>6
    <3>4. ackSequence'[e] # sendSequence'[e]
      BY <1>3, <1>4, <1>6
    <3> QED
      BY <3>1, <3>2, <3>3, <3>4 DEF SequenceInv
  <2>2. PacketInv(e)'
    <3>1. ASSUME NEW p \in net'[r], p.type = "DATA"
          PROVE  /\ p.seq < sendSequence'[e]
                 /\ p.seq = ackSequence'[e] => p = FrontPacket(m, p.seq)
      <4>1. CASE p \in net[r]
        <5>1. p.seq \in Nat
          BY <1>1, <4>1 DEF IInv, TypeOK, Packet
        <5> QED
          BY <1>1, <1>3, <1>4, <1>6, <3>1, <4>1, <5>1
             DEF TransferInv, PacketInv
      <4>2. CASE p = FrontPacket(m, sendSequence[e])
        BY <1>3, <1>4, <4>2, FrontPacketFacts
      <4> QED
        BY <1>2, <4>1, <4>2
    <3>2. \A p \in net'[e] : p.type = "ACK" => p.seq < receiveSequence'[r]
      BY <1>1, <1>2, <1>5 DEF TransferInv, PacketInv, ReceiverKept
    <3> QED
      BY <1>4, <3>1, <3>2
         DEF PacketInv, FrontPacket, DataPacket, IsLastFragment
  <2>3. ContentInv(e)'
    <3>1. <<>> \o m = m
      BY <1>3, ConcatEmptySeq
    <3>2. sent'[e] = Append(delivered'[r], receiveMessage'[r] \o sendMessage'[e])
      BY <1>4, <1>5, <1>6, <3>1 DEF ReceiverKept
    <3>3. receiveSequence'[r] = ackSequence'[e]
      BY <1>4, <1>5, <1>6 DEF ReceiverKept
    <3> QED
      BY <1>4, <3>2, <3>3 DEF ContentInv
  <2> QED
    BY <2>1, <2>2, <2>3 DEF TransferInv
<1>8. TransferInv(r)'
  <2>1. SenderKept(r)
    BY <1>1 DEF SendMessage, SenderKept, IInv, TypeOK, SenderTypeOK
  <2>2. NoNewData(e)
    BY <1>2 DEF NoNewData
  <2>3. NoWrongAck(r)
    BY <1>2, <1>3, FrontPacketFacts DEF NoWrongAck
  <2>4. pc'[r] = "idle" => ~sendNext[r]
    BY <1>1, <1>4 DEF TransferInv, SequenceInv
  <2> QED
    BY <1>1, <1>5, <2>1, <2>2, <2>3, <2>4, QuietStep
<1> QED
  BY <1>7, <1>8, PeerFacts DEF ChannelInv

\* A step that leaves both ends' reliable variables alone and writes no data
\* and no ACK of an untaken packet.
LEMMA IdleStep ==
  ASSUME IInv, NEW e \in Endpoint,
         \A s \in Endpoint : SenderKept(s) /\ ReceiverKept(s),
         \A s \in Endpoint : pc'[s] = "idle" => pc[s] = "idle" \/ ~sendNext[s],
         NoNewData(e), NoNewData(Peer(e)),
         NoWrongAck(e), NoWrongAck(Peer(e))
  PROVE  ChannelInv'
<1> DEFINE r == Peer(e)
<1>1. r \in Endpoint /\ Peer(r) = e /\ TransferInv(e) /\ TransferInv(r)
  BY PeerFacts DEF IInv, ChannelInv
<1>2. /\ pc'[e] = "idle" => ~sendNext[e]
      /\ pc'[r] = "idle" => ~sendNext[r]
  BY <1>1 DEF TransferInv, SequenceInv
<1>3. TransferInv(e)'
  BY <1>1, <1>2, QuietStep
<1>4. TransferInv(r)'
  BY <1>1, <1>2, QuietStep
<1> QED
  BY <1>3, <1>4, PeerFacts DEF ChannelInv

\* Entering GetMessage: a packet sent again is the one in flight.
LEMMA GetMessageStep ==
  ASSUME IInv, NEW e \in Endpoint, GetMessage(e)
  PROVE  ChannelInv'
<1> DEFINE r == Peer(e)
<1>1. r \in Endpoint /\ Peer(r) = e /\ r # e
      /\ TransferInv(e) /\ TransferInv(r)
  BY PeerFacts DEF IInv, ChannelInv
<1>2. pc[e] = "idle" /\ ~sendNext[e]
  BY <1>1 DEF GetMessage, TransferInv, SequenceInv
<1>3. \A s \in Endpoint : SenderKept(s) /\ ReceiverKept(s)
  <2>1. /\ UNCHANGED <<canSend, sendMessage, sendSequence, ackSequence, sent>>
        /\ UNCHANGED receiverVars
    BY DEF GetMessage
  <2>2. sendNext' = sendNext \/ sendNext' = [sendNext EXCEPT ![e] = FALSE]
    BY DEF GetMessage
  <2>3. sendNext[e] = FALSE
    BY <1>2 DEF IInv, TypeOK, SenderTypeOK
  <2>4. sendNext' = sendNext
    BY <2>2, <2>3 DEF IInv, TypeOK, SenderTypeOK
  <2> QED
    BY <2>1, <2>4 DEF SenderKept, ReceiverKept, receiverVars
<1>4. \A s \in Endpoint : pc'[s] = "idle" => pc[s] = "idle" \/ ~sendNext[s]
  BY DEF GetMessage, IInv, TypeOK
<1>5. CASE ~canSend[e] /\ expired[e]
  <2> DEFINE again == FrontPacket(sendMessage[e], sendSequence[e] - 1)
  <2>1. /\ sendSequence[e] - 1 \in Nat
        /\ ackSequence[e] = sendSequence[e] - 1
        /\ sendMessage[e] \in Seq(Byte) /\ sendSequence[e] \in Nat
    BY <1>2, <1>5, ReSendHasNumber DEF IInv, TypeOK, SenderTypeOK
  <2>2. again.type = "DATA" /\ again.seq = sendSequence[e] - 1
    BY <2>1, FrontPacketFacts
  <2>3. net'[e] = net[e] \ {} /\ net'[r] = net[r] \cup {again}
    <3>1. Exchange(e, {}, {again})
      BY <1>5 DEF GetMessage
    <3> QED
      BY <3>1, ExchangeFacts DEF IInv, TypeOK
  <2>4. PacketInv(e)'
    <3>1. ASSUME NEW p \in net'[r], p.type = "DATA"
          PROVE  /\ p.seq < sendSequence[e]
                 /\ p.seq = ackSequence[e] =>
                      p = FrontPacket(sendMessage[e], p.seq)
      <4>1. CASE p \in net[r]
        BY <1>1, <3>1, <4>1 DEF TransferInv, PacketInv
      <4>2. CASE p = again
        BY <2>1, <2>2, <4>2
      <4> QED
        BY <2>3, <4>1, <4>2
    <3>2. \A p \in net'[e] : p.type = "ACK" => p.seq < receiveSequence[r]
      BY <1>1, <2>3 DEF TransferInv, PacketInv
    <3>3. SenderKept(e) /\ ReceiverKept(r)
      BY <1>1, <1>3
    <3> QED
      BY <3>1, <3>2, <3>3
         DEF PacketInv, SenderKept, ReceiverKept, FrontPacket, DataPacket,
             IsLastFragment
  <2>5. SequenceInv(e)'
    BY <1>1, <1>2, <1>3 DEF TransferInv, SequenceInv, SenderKept, ReceiverKept
  <2>6. ContentInv(e)'
    <3>1. SenderKept(e) /\ ReceiverKept(r)
      BY <1>1, <1>3
    <3> QED
      BY <1>1, <3>1 DEF TransferInv, ContentInv, SenderKept, ReceiverKept,
                        IsLastFragment, AfterFront
  <2>7. TransferInv(r)'
    <3>1. NoNewData(e)
      BY <2>3 DEF NoNewData
    <3>2. NoWrongAck(r)
      BY <2>2, <2>3 DEF NoWrongAck
    <3>3. pc'[r] = "idle" => ~sendNext[r]
      BY <1>1, <1>4 DEF TransferInv, SequenceInv
    <3> QED
      BY <1>1, <1>3, <3>1, <3>2, <3>3, QuietStep
  <2> QED
    BY <2>4, <2>5, <2>6, <2>7, PeerFacts DEF ChannelInv, TransferInv
<1>6. CASE ~(~canSend[e] /\ expired[e])
  <2>1. net' = net
    BY <1>6 DEF GetMessage
  <2>2. NoNewData(e) /\ NoNewData(r) /\ NoWrongAck(e) /\ NoWrongAck(r)
    BY <2>1 DEF NoNewData, NoWrongAck
  <2> QED
    BY <1>3, <1>4, <2>2, IdleStep
<1> QED
  BY <1>5, <1>6

\* An ACK that counts: the peer has taken the fragment in flight.
LEMMA ReceiveAckStep ==
  ASSUME IInv, NEW e \in Endpoint, NEW p \in net[e], NEW gone,
         ReceiveAck(e, p, gone)
  PROVE  /\ ChannelInv'
         /\ receiveSequence[Peer(e)] = sendSequence[e]
<1> DEFINE r == Peer(e)
<1>1. r \in Endpoint /\ Peer(r) = e /\ r # e
      /\ TransferInv(e) /\ TransferInv(r)
  BY PeerFacts DEF IInv, ChannelInv
<1>2. /\ sendMessage[e] \in Seq(Byte) /\ sendSequence[e] \in Nat
      /\ ackSequence[e] \in Nat /\ receiveSequence[r] \in Nat
      /\ p.seq \in Nat
  BY <1>1 DEF IInv, TypeOK, SenderTypeOK, ReceiverTypeOK, Packet
<1>3. net'[e] = net[e] \ gone /\ net'[r] = net[r] \cup {}
  BY ExchangeFacts DEF ReceiveAck, IInv, TypeOK
<1>4. /\ sendSequence'[e] = sendSequence[e]
      /\ sent'[e] = sent[e]
      /\ ackSequence'[e] = ackSequence[e] + 1
      /\ sendMessage'[e] = AfterFront(sendMessage[e])
      /\ pc' = pc
  BY DEF ReceiveAck, IInv, TypeOK, SenderTypeOK
<1>5. ReceiverKept(e) /\ ReceiverKept(r)
  BY DEF ReceiveAck, receiverVars, ReceiverKept
<1>6. /\ p.seq = sendSequence[e] - 1 /\ ackSequence[e] = p.seq
      /\ p.type = "ACK"
  BY DEF ReceiveAck, AckIsCurrent
<1>7. /\ receiveSequence[r] = sendSequence[e]
      /\ ~canSend[e] /\ ~sendNext[e] /\ pc[e] # "idle"
  <2>1. p.seq < receiveSequence[r]
    BY <1>1, <1>6 DEF TransferInv, PacketInv
  <2>2. receiveSequence[r] = sendSequence[e]
    BY <1>1, <1>2, <1>6, <2>1 DEF TransferInv, SequenceInv
  <2>3. ackSequence[e] # sendSequence[e]
    BY <1>2, <1>6
  <2> QED
    BY <1>1, <2>2, <2>3 DEF TransferInv, SequenceInv, ReceiveAck, Reads
<1>8. ackSequence'[e] = sendSequence'[e]
  BY <1>2, <1>4, <1>6
<1>9. /\ IsLastFragment(sendMessage[e]) => canSend'[e] = TRUE
                                           /\ sendNext'[e] = sendNext[e]
      /\ ~IsLastFragment(sendMessage[e]) => canSend'[e] = canSend[e]
                                            /\ sendNext'[e] = TRUE
  <2>1. IsLastFragment(sendMessage[e])
          <=> ~(Len(sendMessage[e]) - MAX_DATAGRAM > 0)
    BY <1>2, AfterFrontFacts
  <2> QED
    BY <2>1 DEF ReceiveAck, IInv, TypeOK, SenderTypeOK
<1>10. TransferInv(e)'
  <2>1. SequenceInv(e)'
    <3>1. canSend'[e] # sendNext'[e]
      BY <1>7, <1>9 DEF IInv, TypeOK, SenderTypeOK
    <3>2. pc'[e] # "idle"
      BY <1>4, <1>7
    <3>3. receiveSequence'[r] = sendSequence'[e]
      BY <1>4, <1>5, <1>7 DEF ReceiverKept
    <3> QED
      BY <1>8, <3>1, <3>2, <3>3 DEF SequenceInv
  <2>2. PacketInv(e)'
    <3>1. ASSUME NEW q \in net'[r], q.type = "DATA"
          PROVE  q.seq < sendSequence'[e] /\ q.seq # ackSequence'[e]
      <4>1. q \in net[r] /\ q.seq \in Nat
        BY <1>1, <1>3 DEF IInv, TypeOK, Packet
      <4>2. q.seq < sendSequence[e]
        BY <1>1, <3>1, <4>1 DEF TransferInv, PacketInv
      <4> QED
        BY <1>2, <1>4, <1>8, <4>1, <4>2
    <3>2. \A q \in net'[e] : q.type = "ACK" => q.seq < receiveSequence'[r]
      BY <1>1, <1>3, <1>5 DEF TransferInv, PacketInv, ReceiverKept
    <3> QED
      BY <3>1, <3>2 DEF PacketInv
  <2>3. ContentInv(e)'
    <3>1. receiveSequence'[r] = ackSequence'[e]
      BY <1>4, <1>5, <1>7, <1>8 DEF ReceiverKept
    <3>2. receiveSequence[r] # ackSequence[e]
      BY <1>2, <1>6, <1>7
    <3>3. CASE IsLastFragment(sendMessage[e])
      <4>1. delivered[r] = sent[e] /\ receiveMessage[r] = <<>>
        BY <1>1, <1>7, <3>2, <3>3 DEF TransferInv, ContentInv
      <4>2. delivered'[r] = sent'[e] /\ receiveMessage'[r] = <<>>
        BY <1>4, <1>5, <4>1 DEF ReceiverKept
      <4>3. canSend'[e]
        BY <1>9, <3>3
      <4> QED
        BY <4>2, <4>3 DEF ContentInv
    <3>4. CASE ~IsLastFragment(sendMessage[e])
      <4>1. sent[e] = Append(delivered[r],
                        receiveMessage[r] \o AfterFront(sendMessage[e]))
        BY <1>1, <1>7, <3>2, <3>4 DEF TransferInv, ContentInv
      <4>2. sent'[e] = Append(delivered'[r],
                         receiveMessage'[r] \o sendMessage'[e])
        BY <1>4, <1>5, <4>1 DEF ReceiverKept
      <4>3. ~canSend'[e]
        BY <1>7, <1>9, <3>4
      <4> QED
        BY <3>1, <4>2, <4>3 DEF ContentInv
    <3> QED
      BY <3>3, <3>4
  <2> QED
    BY <2>1, <2>2, <2>3 DEF TransferInv
<1>11. TransferInv(r)'
  <2>1. SenderKept(r)
    BY <1>1 DEF ReceiveAck, SenderKept, IInv, TypeOK, SenderTypeOK
  <2>2. NoNewData(e) /\ NoWrongAck(r)
    BY <1>3 DEF NoNewData, NoWrongAck
  <2>3. pc'[r] = "idle" => ~sendNext[r]
    BY <1>1, <1>4 DEF TransferInv, SequenceInv
  <2> QED
    BY <1>1, <1>5, <2>1, <2>2, <2>3, QuietStep
<1> QED
  BY <1>7, <1>10, <1>11, PeerFacts DEF ChannelInv

\* A data packet with the number e expects is the one its peer has in flight.
LEMMA ExpectedData ==
  ASSUME IInv, NEW e \in Endpoint, NEW p \in net[e],
         p.type = "DATA", p.seq = receiveSequence[e]
  PROVE  LET s == Peer(e)
         IN  /\ ~canSend[s] /\ ~sendNext[s]
             /\ receiveSequence[e] = ackSequence[s]
             /\ sendSequence[s] = receiveSequence[e] + 1
             /\ p = FrontPacket(sendMessage[s], p.seq)
             /\ sent[s] = Append(delivered[e],
                                 receiveMessage[e] \o sendMessage[s])
<1> DEFINE s == Peer(e)
<1>1. s \in Endpoint /\ Peer(s) = e /\ TransferInv(s)
  BY PeerFacts DEF IInv, ChannelInv
<1>2. /\ sendSequence[s] \in Nat /\ ackSequence[s] \in Nat
      /\ receiveSequence[e] \in Nat /\ p.seq \in Nat
  BY <1>1 DEF IInv, TypeOK, SenderTypeOK, ReceiverTypeOK, Packet
<1>3. p.seq < sendSequence[s]
  BY <1>1 DEF TransferInv, PacketInv
<1>4. /\ receiveSequence[e] = ackSequence[s]
      /\ sendSequence[s] = receiveSequence[e] + 1
  BY <1>1, <1>2, <1>3 DEF TransferInv, SequenceInv
<1>5. ~canSend[s] /\ ~sendNext[s]
  BY <1>1, <1>2, <1>4 DEF TransferInv, SequenceInv
<1>6. p = FrontPacket(sendMessage[s], p.seq)
  BY <1>1, <1>4 DEF TransferInv, PacketInv
<1>7. sent[s] = Append(delivered[e], receiveMessage[e] \o sendMessage[s])
  BY <1>1, <1>4, <1>5 DEF TransferInv, ContentInv
<1> QED
  BY <1>4, <1>5, <1>6, <1>7

\* A fragment that is not the last moves from the sender's side of the
\* message to the receiver's.
LEMMA ReceiveFragmentStep ==
  ASSUME IInv, NEW e \in Endpoint, NEW p \in net[e], NEW gone,
         ReceiveFragment(e, p, gone)
  PROVE  ChannelInv'
<1> DEFINE s == Peer(e)
<1>1. s \in Endpoint /\ Peer(s) = e /\ s # e
      /\ TransferInv(s) /\ TransferInv(e)
  BY PeerFacts DEF IInv, ChannelInv
<1>2. /\ sendSequence[s] \in Nat /\ receiveSequence[e] \in Nat
      /\ sendMessage[s] \in Seq(Byte) /\ receiveMessage[e] \in Seq(Byte)
      /\ p.seq \in Nat /\ p.data \in Seq(Byte)
  BY <1>1 DEF IInv, TypeOK, SenderTypeOK, ReceiverTypeOK, Packet
<1>3. p.type = "DATA" /\ p.seq = receiveSequence[e] /\ ~p.eom
  BY DEF ReceiveFragment
<1>4. /\ ~canSend[s] /\ ~sendNext[s]
      /\ receiveSequence[e] = ackSequence[s]
      /\ sendSequence[s] = receiveSequence[e] + 1
      /\ p = FrontPacket(sendMessage[s], p.seq)
      /\ sent[s] = Append(delivered[e], receiveMessage[e] \o sendMessage[s])
  BY <1>3, ExpectedData
<1>5. ~IsLastFragment(sendMessage[s])
  BY <1>2, <1>3, <1>4, FrontPacketFacts
<1>6. p.data \o AfterFront(sendMessage[s]) = sendMessage[s]
      /\ AfterFront(sendMessage[s]) \in Seq(Byte)
  BY <1>2, <1>4, <1>5, AfterFrontFacts
<1>7. /\ receiveSequence'[e] = receiveSequence[e] + 1
      /\ receiveMessage'[e] = receiveMessage[e] \o p.data
      /\ delivered'[e] = delivered[e]
      /\ pc' = pc
  BY DEF ReceiveFragment, IInv, TypeOK, ReceiverTypeOK
<1>8. SenderKept(s) /\ SenderKept(e) /\ ReceiverKept(s)
  BY <1>1 DEF ReceiveFragment, senderVars, SenderKept, ReceiverKept, IInv,
              TypeOK, ReceiverTypeOK
<1>9. net'[e] = net[e] \ gone
      /\ net'[s] = net[s] \cup {AckPacket(p.seq)}
  BY ExchangeFacts DEF ReceiveFragment, IInv, TypeOK
<1>10. AckPacket(p.seq).type = "ACK" /\ AckPacket(p.seq).seq = p.seq
  BY <1>2, OtherPackets
<1>11. TransferInv(s)'
  <2>1. SequenceInv(s)'
    BY <1>1, <1>2, <1>4, <1>7, <1>8
       DEF TransferInv, SequenceInv, SenderKept
  <2>2. PacketInv(s)'
    <3>1. ASSUME NEW q \in net'[e], q.type = "DATA"
          PROVE  /\ q.seq < sendSequence[s]
                 /\ q.seq = ackSequence[s] =>
                      q = FrontPacket(sendMessage[s], q.seq)
      BY <1>1, <1>9, <3>1 DEF TransferInv, PacketInv
    <3>2. ASSUME NEW q \in net'[s], q.type = "ACK"
          PROVE  q.seq < receiveSequence[e] + 1
      <4>1. CASE q \in net[s]
        <5>1. q.seq \in Nat
          BY <1>1, <4>1 DEF IInv, TypeOK, Packet
        <5> QED
          BY <1>1, <1>2, <3>2, <4>1, <5>1 DEF TransferInv, PacketInv
      <4>2. CASE q = AckPacket(p.seq)
        BY <1>2, <1>3, <1>10, <4>2
      <4> QED
        BY <1>9, <4>1, <4>2
    <3> QED
      BY <1>1, <1>7, <1>8, <3>1, <3>2
         DEF PacketInv, SenderKept, FrontPacket, DataPacket, IsLastFragment
  <2>3. ContentInv(s)'
    <3>1. receiveMessage[e] \o sendMessage[s]
            = (receiveMessage[e] \o p.data) \o AfterFront(sendMessage[s])
      <4>1. receiveMessage[e] \o (p.data \o AfterFront(sendMessage[s]))
              = (receiveMessage[e] \o p.data) \o AfterFront(sendMessage[s])
        <5>1. \A a, b, c \in Seq(Byte) : a \o (b \o c) = (a \o b) \o c
          BY ConcatAssociative
        <5> QED
          BY <1>2, <1>6, <5>1
      <4> QED
        BY <1>6, <4>1
    <3>2. sent'[s] = Append(delivered'[e],
                       receiveMessage'[e] \o AfterFront(sendMessage[s]))
      <4>1. sent'[s] = sent[s]
        BY <1>8 DEF SenderKept
      <4> QED
        BY <1>4, <1>7, <3>1, <4>1
    <3>3. receiveSequence'[e] # ackSequence'[s] /\ ~canSend'[s]
      BY <1>2, <1>4, <1>7, <1>8 DEF SenderKept
    <3>4. sendMessage'[s] = sendMessage[s]
      BY <1>8 DEF SenderKept
    <3> QED
      BY <1>1, <1>5, <3>2, <3>3, <3>4
         DEF ContentInv, IsLastFragment, AfterFront
  <2> QED
    BY <2>1, <2>2, <2>3 DEF TransferInv
<1>12. TransferInv(e)'
  <2>1. NoNewData(s)
    BY <1>9, <1>10 DEF NoNewData
  <2>2. NoWrongAck(e)
    BY <1>9 DEF NoWrongAck
  <2>3. pc'[e] = "idle" => ~sendNext[e]
    BY <1>1, <1>7 DEF TransferInv, SequenceInv
  <2> QED
    BY <1>1, <1>8, <2>1, <2>2, <2>3, QuietStep
<1> QED
  BY <1>11, <1>12, PeerFacts DEF ChannelInv

\* The last fragment completes exactly the message the peer is sending.
LEMMA ReceiveEOMStep ==
  ASSUME IInv, NEW e \in Endpoint, NEW p \in net[e], NEW gone,
         ReceiveEOM(e, p, gone)
  PROVE  /\ ChannelInv'
         /\ sent[Peer(e)] = Append(delivered[e], receiveMessage[e] \o p.data)
<1> DEFINE s == Peer(e)
<1>1. s \in Endpoint /\ Peer(s) = e /\ s # e
      /\ TransferInv(s) /\ TransferInv(e)
  BY PeerFacts DEF IInv, ChannelInv
<1>2. /\ sendSequence[s] \in Nat /\ receiveSequence[e] \in Nat
      /\ sendMessage[s] \in Seq(Byte) /\ p.seq \in Nat
  BY <1>1 DEF IInv, TypeOK, SenderTypeOK, ReceiverTypeOK, Packet
<1>3. p.type = "DATA" /\ p.seq = receiveSequence[e] /\ p.eom
  BY DEF ReceiveEOM
<1>4. /\ ~canSend[s] /\ ~sendNext[s]
      /\ receiveSequence[e] = ackSequence[s]
      /\ sendSequence[s] = receiveSequence[e] + 1
      /\ p = FrontPacket(sendMessage[s], p.seq)
      /\ sent[s] = Append(delivered[e], receiveMessage[e] \o sendMessage[s])
  BY <1>3, ExpectedData
<1>5. IsLastFragment(sendMessage[s])
  BY <1>2, <1>3, <1>4, FrontPacketFacts
<1>6. p.data = sendMessage[s]
  BY <1>2, <1>4, <1>5, FrontPacketFacts
<1>7. /\ receiveSequence'[e] = receiveSequence[e] + 1
      /\ receiveMessage'[e] = <<>>
      /\ delivered'[e] = Append(delivered[e], receiveMessage[e] \o p.data)
  BY DEF ReceiveEOM, IInv, TypeOK, ReceiverTypeOK
<1>8. /\ SendMessageNext(e) /\ pc'[s] = pc[s]
      /\ Exchange(e, gone, {AckPacket(p.seq)} \cup NextPackets(e))
  BY <1>1 DEF ReceiveEOM, Leave, IInv, TypeOK
<1>9. SenderKept(s) /\ ReceiverKept(s)
  <2>1. SenderKept(s)
    BY <1>8, NextKeepsOther DEF IInv
  <2>2. ReceiverKept(s)
    BY <1>1 DEF ReceiveEOM, ReceiverKept, IInv, TypeOK, ReceiverTypeOK
  <2> QED
    BY <2>1, <2>2
<1>10. net'[e] = net[e] \ gone
       /\ net'[s] = net[s] \cup ({AckPacket(p.seq)} \cup NextPackets(e))
  BY <1>8, ExchangeFacts DEF IInv, TypeOK
<1>11. /\ AckPacket(p.seq).type = "ACK" /\ AckPacket(p.seq).seq = p.seq
       /\ \A q \in NextPackets(e) : q.type = "DATA"
  BY <1>2, OtherPackets, SendMessageNextType DEF IInv
<1>12. TransferInv(s)'
  <2>1. SequenceInv(s)'
    BY <1>1, <1>2, <1>4, <1>7, <1>8, <1>9
       DEF TransferInv, SequenceInv, SenderKept
  <2>2. PacketInv(s)'
    <3>1. ASSUME NEW q \in net'[e], q.type = "DATA"
          PROVE  /\ q.seq < sendSequence[s]
                 /\ q.seq = ackSequence[s] =>
                      q = FrontPacket(sendMessage[s], q.seq)
      BY <1>1, <1>10, <3>1 DEF TransferInv, PacketInv
    <3>2. ASSUME NEW q \in net'[s], q.type = "ACK"
          PROVE  q.seq < receiveSequence[e] + 1
      <4>1. CASE q \in net[s]
        <5>1. q.seq \in Nat
          BY <1>1, <4>1 DEF IInv, TypeOK, Packet
        <5> QED
          BY <1>1, <1>2, <3>2, <4>1, <5>1 DEF TransferInv, PacketInv
      <4>2. CASE q = AckPacket(p.seq)
        BY <1>2, <1>3, <1>11, <4>2
      <4>3. CASE q \in NextPackets(e)
        BY <1>11, <3>2, <4>3
      <4> QED
        BY <1>10, <4>1, <4>2, <4>3
    <3> QED
      BY <1>1, <1>7, <1>9, <3>1, <3>2
         DEF PacketInv, SenderKept, FrontPacket, DataPacket, IsLastFragment
  <2>3. ContentInv(s)'
    <3>1. delivered'[e] = sent'[s] /\ receiveMessage'[e] = <<>>
      BY <1>4, <1>6, <1>7, <1>9 DEF SenderKept
    <3>2. receiveSequence'[e] # ackSequence'[s] /\ ~canSend'[s]
      BY <1>2, <1>4, <1>7, <1>9 DEF SenderKept
    <3>3. sendMessage'[s] = sendMessage[s]
      BY <1>9 DEF SenderKept
    <3> QED
      BY <1>1, <1>5, <3>1, <3>2, <3>3 DEF ContentInv, IsLastFragment
  <2> QED
    BY <2>1, <2>2, <2>3 DEF TransferInv
<1>13. TransferInv(e)'
  <2>1. \A q \in net'[s] : q.type = "DATA" =>
          q \in net[s] \/ q \in NextPackets(e)
    BY <1>10, <1>11
  <2>2. NoWrongAck(e)
    BY <1>10 DEF NoWrongAck
  <2> QED
    BY <1>1, <1>8, <1>9, <2>1, <2>2, SendMessageNextStep DEF IInv
<1> QED
  BY <1>4, <1>6, <1>12, <1>13, PeerFacts DEF ChannelInv

\* A duplicate's ACK names a packet that has been taken.
LEMMA DuplicateDataStep ==
  ASSUME IInv, NEW e \in Endpoint, NEW p \in net[e], NEW gone,
         DuplicateData(e, p, gone)
  PROVE  ChannelInv'
<1> DEFINE s == Peer(e)
<1>1. s \in Endpoint /\ Peer(s) = e /\ TransferInv(s)
  BY PeerFacts DEF IInv, ChannelInv
<1>2. /\ sendSequence[s] \in Nat /\ ackSequence[s] \in Nat
      /\ receiveSequence[e] \in Nat /\ p.seq \in Nat
  BY <1>1 DEF IInv, TypeOK, SenderTypeOK, ReceiverTypeOK, Packet
<1>3. p.seq < receiveSequence[e]
  <2>1. p.seq < sendSequence[s] /\ p.seq # receiveSequence[e]
    BY <1>1 DEF DuplicateData, TransferInv, PacketInv
  <2>2. receiveSequence[e] \in {sendSequence[s] - 1, sendSequence[s]}
    BY <1>1, <1>2 DEF TransferInv, SequenceInv
  <2> QED
    BY <1>2, <2>1, <2>2
<1>4. net'[e] = net[e] \ gone
      /\ net'[s] = net[s] \cup {AckPacket(p.seq)}
  BY ExchangeFacts DEF DuplicateData, IInv, TypeOK
<1>5. AckPacket(p.seq).type = "ACK" /\ AckPacket(p.seq).seq = p.seq
  BY <1>2, OtherPackets
<1>6. /\ \A x \in Endpoint : SenderKept(x) /\ ReceiverKept(x)
      /\ pc' = pc
  BY DEF DuplicateData, SenderKept, ReceiverKept, senderVars, receiverVars
<1>7. NoNewData(e) /\ NoNewData(s) /\ NoWrongAck(e) /\ NoWrongAck(s)
  BY <1>1, <1>3, <1>4, <1>5 DEF NoNewData, NoWrongAck
<1> QED
  BY <1>6, <1>7, IdleStep

\* Every step keeps the channel's invariant.
LEMMA ChannelStep ==
  ASSUME IInv, [Next]_vars
  PROVE  ChannelInv'
<1>1. CASE UNCHANGED vars
  <2>1. PICK e \in Endpoint : TRUE
    BY DEF Endpoint
  <2>2. \A s \in Endpoint : SenderKept(s) /\ ReceiverKept(s)
    BY <1>1 DEF vars, senderVars, receiverVars, SenderKept, ReceiverKept
  <2>3. net' = net /\ pc' = pc
    BY <1>1 DEF vars
  <2>4. \A s \in Endpoint : NoNewData(s) /\ NoWrongAck(s)
    BY <2>3 DEF NoNewData, NoWrongAck
  <2> QED
    BY <2>2, <2>3, <2>4, PeerFacts, IdleStep
<1>2. ASSUME NEW e \in Endpoint, NEW m \in Message, SendMessage(e, m)
      PROVE  ChannelInv'
  BY <1>2, SendMessageStep
<1>3. ASSUME NEW e \in Endpoint, CanSendMessage(e)
      PROVE  ChannelInv'
  <2>1. SendMessageNext(e) /\ Exchange(e, {}, NextPackets(e))
    BY <1>3 DEF CanSendMessage
  <2>2. pc'[Peer(e)] = pc[Peer(e)] /\ UNCHANGED receiverVars
    BY <1>3, PeerFacts DEF CanSendMessage, IInv, TypeOK
  <2> QED
    BY <2>1, <2>2, LeaveStep
<1>4. ASSUME NEW e \in Endpoint, SendUnreliableMessage(e)
      PROVE  ChannelInv'
  <2>1. \A s \in Endpoint : SenderKept(s) /\ ReceiverKept(s)
    BY <1>4 DEF SendUnreliableMessage, senderVars, receiverVars, SenderKept,
                ReceiverKept
  <2>2. /\ net'[e] = net[e] \ {}
        /\ net'[Peer(e)] = net[Peer(e)]
                             \cup {UnreliablePacket(unreliableSendSequence[e])}
    BY <1>4, ExchangeFacts DEF SendUnreliableMessage, IInv, TypeOK
  <2>3. UnreliablePacket(unreliableSendSequence[e]).type = "UNRELIABLE"
    BY OtherPackets DEF IInv, TypeOK, UnreliableTypeOK
  <2>4. /\ NoNewData(e) /\ NoNewData(Peer(e))
        /\ NoWrongAck(e) /\ NoWrongAck(Peer(e))
    BY <2>2, <2>3 DEF NoNewData, NoWrongAck
  <2>5. pc' = pc
    BY <1>4 DEF SendUnreliableMessage
  <2> QED
    BY <2>1, <2>4, <2>5, IdleStep
<1>5. ASSUME NEW e \in Endpoint, GetMessage(e)
      PROVE  ChannelInv'
  BY <1>5, GetMessageStep
<1>6. ASSUME NEW e \in Endpoint, ReadNothing(e)
      PROVE  ChannelInv'
  <2>1. SendMessageNext(e) /\ Exchange(e, {}, {} \cup NextPackets(e))
    BY <1>6 DEF ReadNothing, Leave
  <2>2. {} \cup NextPackets(e) = NextPackets(e)
    OBVIOUS
  <2>3. pc'[Peer(e)] = pc[Peer(e)] /\ UNCHANGED receiverVars
    BY <1>6, PeerFacts DEF ReadNothing, Leave, IInv, TypeOK
  <2> QED
    BY <2>1, <2>2, <2>3, LeaveStep
<1>7. ASSUME NEW e \in Endpoint, ReadError(e) \/ Close(e)
      PROVE  ChannelInv'
  <2>1. \A s \in Endpoint : SenderKept(s) /\ ReceiverKept(s)
    BY <1>7 DEF ReadError, Close, senderVars, receiverVars, SenderKept,
                ReceiverKept
  <2>2. \A s \in Endpoint : pc'[s] = "idle" => pc[s] = "idle"
    BY <1>7 DEF ReadError, Close, IInv, TypeOK
  <2>3. net' = net
    BY <1>7 DEF ReadError, Close
  <2>4. \A s \in Endpoint : NoNewData(s) /\ NoWrongAck(s)
    BY <2>3 DEF NoNewData, NoWrongAck
  <2> QED
    BY <2>1, <2>2, <2>4, PeerFacts, IdleStep
<1>8. ASSUME NEW e \in Endpoint, NEW p \in net[e], NEW gone \in {{}, {p}},
             ReadPacket(e, p, gone)
      PROVE  ChannelInv'
  <2>1. CASE StaleUnreliable(e, p, gone) \/ ReceiveUnreliable(e, p, gone)
    <3>1. SendMessageNext(e) /\ Exchange(e, gone, {} \cup NextPackets(e))
      BY <2>1 DEF StaleUnreliable, ReceiveUnreliable, Leave
    <3>2. {} \cup NextPackets(e) = NextPackets(e)
      OBVIOUS
    <3>3. pc'[Peer(e)] = pc[Peer(e)] /\ UNCHANGED receiverVars
      BY <2>1, PeerFacts
         DEF StaleUnreliable, ReceiveUnreliable, Leave, IInv, TypeOK
    <3> QED
      BY <3>1, <3>2, <3>3, LeaveStep
  <2>2. CASE IgnoreAck(e, p, gone)
    <3>1. \A s \in Endpoint : SenderKept(s) /\ ReceiverKept(s)
      BY <2>2 DEF IgnoreAck, senderVars, receiverVars, SenderKept,
                  ReceiverKept
    <3>2. net'[e] = net[e] \ gone /\ net'[Peer(e)] = net[Peer(e)] \cup {}
      BY <2>2, ExchangeFacts DEF IgnoreAck, IInv, TypeOK
    <3>3. /\ NoNewData(e) /\ NoNewData(Peer(e))
          /\ NoWrongAck(e) /\ NoWrongAck(Peer(e))
      BY <3>2 DEF NoNewData, NoWrongAck
    <3>4. pc' = pc
      BY <2>2 DEF IgnoreAck
    <3> QED
      BY <3>1, <3>3, <3>4, IdleStep
  <2>3. CASE ReceiveAck(e, p, gone)
    BY <2>3, ReceiveAckStep
  <2>4. CASE DuplicateData(e, p, gone)
    BY <2>4, DuplicateDataStep
  <2>5. CASE ReceiveFragment(e, p, gone)
    BY <2>5, ReceiveFragmentStep
  <2>6. CASE ReceiveEOM(e, p, gone)
    BY <2>6, ReceiveEOMStep
  <2> QED
    BY <1>8, <2>1, <2>2, <2>3, <2>4, <2>5, <2>6 DEF ReadPacket
<1>9. ASSUME NEW e \in Endpoint, TimerExpires(e)
      PROVE  ChannelInv'
  <2>1. \A s \in Endpoint : SenderKept(s) /\ ReceiverKept(s)
    BY <1>9 DEF TimerExpires, receiverVars, SenderKept, ReceiverKept
  <2>2. net' = net /\ pc' = pc
    BY <1>9 DEF TimerExpires
  <2>3. \A s \in Endpoint : NoNewData(s) /\ NoWrongAck(s)
    BY <2>2 DEF NoNewData, NoWrongAck
  <2> QED
    BY <2>1, <2>2, <2>3, PeerFacts, IdleStep
<1>10. ASSUME NEW e \in Endpoint, NEW p \in net[e], Lose(e, p)
       PROVE  ChannelInv'
  <2>1. \A s \in Endpoint : SenderKept(s) /\ ReceiverKept(s)
    BY <1>10 DEF Lose, senderVars, receiverVars, SenderKept, ReceiverKept
  <2>2. pc' = pc /\ \A s \in Endpoint : net'[s] \subseteq net[s]
    BY <1>10 DEF Lose, IInv, TypeOK
  <2>3. \A s \in Endpoint : NoNewData(s) /\ NoWrongAck(s)
    BY <2>2 DEF NoNewData, NoWrongAck
  <2> QED
    BY <2>1, <2>2, <2>3, PeerFacts, IdleStep
<1> QED
  BY <1>1, <1>2, <1>3, <1>4, <1>5, <1>6, <1>7, <1>8, <1>9, <1>10 DEF Next

\* The driver starts in the invariant: NET_NewQSocket clears the sequences.
LEMMA IInvInit == Init => IInv
<1> SUFFICES ASSUME Init PROVE IInv
  OBVIOUS
<1>1. TypeOK
  BY DEF Init, TypeOK, SenderTypeOK, ReceiverTypeOK, UnreliableTypeOK
<1>2. ASSUME NEW s \in Endpoint
      PROVE  TransferInv(s)
  BY PeerFacts
     DEF Init, TransferInv, SequenceInv, PacketInv, ContentInv
<1> QED
  BY <1>1, <1>2 DEF IInv, ChannelInv

-----------------------------------------------------------------------------
(* The theorems.                                                           *)

\* Types and the channel's invariant hold in every reachable state.
THEOREM Invariance == Spec => []IInv
<1>1. IInv /\ [Next]_vars => IInv'
  BY TypeStep, ChannelStep DEF IInv
<1> QED
  BY <1>1, IInvInit, PTL DEF Spec

\* Every variable keeps its type; in particular no packet is ever numbered
\* below zero.
THEOREM TypeCorrectness == Spec => []TypeOK
BY Invariance, PTL DEF IInv

\* What the sender believes of the peer is so, at every step of a transfer.
THEOREM ChannelCorrectness == Spec => []ChannelInv
BY Invariance, PTL DEF IInv

\* A sender that may send has nothing undelivered.
THEOREM CanSendCorrectness == Spec => []CanSendMeansDelivered
<1>1. IInv => CanSendMeansDelivered
  BY DEF IInv, ChannelInv, TransferInv, ContentInv, CanSendMeansDelivered
<1> QED
  BY <1>1, Invariance, PTL

\* An ACK counts only for a packet the peer has taken, the only one in flight.
THEOREM AckCorrectness == Spec => AckMeansTaken
<1> DEFINE AckStep == \A e \in Endpoint : ackSequence'[e] # ackSequence[e] =>
                        /\ ackSequence'[e] = sendSequence[e]
                        /\ receiveSequence[Peer(e)] = sendSequence[e]
<1>1. ASSUME IInv, Next
      PROVE  AckStep
  <2>1. ASSUME NEW e \in Endpoint, NEW p \in net[e], NEW gone \in {{}, {p}},
               ReceiveAck(e, p, gone)
        PROVE  AckStep
    <3>1. receiveSequence[Peer(e)] = sendSequence[e]
      BY <1>1, <2>1, ReceiveAckStep
    <3>2. /\ ackSequence' = [ackSequence EXCEPT ![e] = @ + 1]
          /\ ackSequence[e] = sendSequence[e] - 1
      BY <2>1 DEF ReceiveAck, AckIsCurrent
    <3>3. /\ ackSequence \in [Endpoint -> Nat] /\ sendSequence[e] \in Nat
      BY <1>1 DEF IInv, TypeOK, SenderTypeOK
    <3>4. ackSequence'[e] = sendSequence[e]
      BY <3>2, <3>3
    <3>5. \A x \in Endpoint : x # e => ackSequence'[x] = ackSequence[x]
      BY <3>2, <3>3
    <3> QED
      BY <3>1, <3>4, <3>5
  <2>2. ASSUME ackSequence' = ackSequence
        PROVE  AckStep
    BY <2>2
  <2>3. ASSUME NEW e \in Endpoint, NEW p \in net[e], NEW gone \in {{}, {p}},
               ReadPacket(e, p, gone), ~ReceiveAck(e, p, gone)
        PROVE  ackSequence' = ackSequence
    <3>1. StaleUnreliable(e, p, gone) => ackSequence' = ackSequence
      BY DEF StaleUnreliable, Leave, SendMessageNext
    <3>2. ReceiveUnreliable(e, p, gone) => ackSequence' = ackSequence
      BY DEF ReceiveUnreliable, Leave, SendMessageNext
    <3>3. IgnoreAck(e, p, gone) => ackSequence' = ackSequence
      BY DEF IgnoreAck, senderVars
    <3>4. DuplicateData(e, p, gone) => ackSequence' = ackSequence
      BY DEF DuplicateData, senderVars
    <3>5. ReceiveFragment(e, p, gone) => ackSequence' = ackSequence
      BY DEF ReceiveFragment, senderVars
    <3>6. ReceiveEOM(e, p, gone) => ackSequence' = ackSequence
      BY DEF ReceiveEOM, Leave, SendMessageNext
    <3> QED
      BY <2>3, <3>1, <3>2, <3>3, <3>4, <3>5, <3>6 DEF ReadPacket
  <2>4. ASSUME NEW e \in Endpoint, NEW m \in Message, SendMessage(e, m)
        PROVE  ackSequence' = ackSequence
    BY <2>4 DEF SendMessage
  <2>5. ASSUME NEW e \in Endpoint,
               \/ CanSendMessage(e) \/ SendUnreliableMessage(e)
               \/ ReadNothing(e) \/ ReadError(e)
        PROVE  ackSequence' = ackSequence
    BY <2>5 DEF CanSendMessage, SendUnreliableMessage, ReadNothing, ReadError,
                Leave, SendMessageNext, senderVars
  <2>6. ASSUME NEW e \in Endpoint,
               GetMessage(e) \/ Close(e) \/ TimerExpires(e)
        PROVE  ackSequence' = ackSequence
    BY <2>6 DEF GetMessage, Close, TimerExpires, senderVars
  <2>7. ASSUME NEW e \in Endpoint, NEW p \in net[e], Lose(e, p)
        PROVE  ackSequence' = ackSequence
    BY <2>7 DEF Lose, senderVars
  <2> QED
    BY <1>1, <2>1, <2>2, <2>3, <2>4, <2>5, <2>6, <2>7 DEF Next
<1>2. IInv /\ [Next]_vars => [AckStep]_vars
  BY <1>1
<1> QED
  BY <1>2, Invariance, PTL DEF Spec, AckMeansTaken

-----------------------------------------------------------------------------
(* The driver implements the abstract channel.                             *)

\* The abstract channel's names for the two ends are the driver's.
LEMMA ChannelNames ==
  /\ Channel!Endpoint = Endpoint
  /\ \A e \in Endpoint : Channel!Peer(e) = Peer(e)
BY DEF Channel!Endpoint, Channel!Peer, Endpoint, Peer

\* Accepting a message is the abstract Send: canSend says the peer has all.
LEMMA SendImplements ==
  ASSUME IInv, NEW e \in Endpoint, NEW m \in Message, SendMessage(e, m)
  PROVE  Channel!Send(e, m)
<1>1. delivered[Peer(e)] = sent[e]
  BY DEF SendMessage, IInv, ChannelInv, TransferInv, ContentInv
<1>2. sent' = [sent EXCEPT ![e] = Append(@, m)] /\ delivered' = delivered
  BY DEF SendMessage, receiverVars
<1> QED
  BY <1>1, <1>2, ChannelNames DEF Channel!Send

\* The last fragment is the abstract Deliver of what the peer sent last.
LEMMA ReceiveEOMImplements ==
  ASSUME IInv, NEW e \in Endpoint, NEW p \in net[e], NEW gone,
         ReceiveEOM(e, p, gone)
  PROVE  \E m \in Message : Channel!Deliver(e, m)
<1> DEFINE m == receiveMessage[e] \o p.data
<1>1. sent[Peer(e)] = Append(delivered[e], m)
  BY ReceiveEOMStep
<1>2. /\ sent[Peer(e)] \in Seq(Message)
      /\ delivered[e] \in Seq(Seq(Byte))
  BY PeerFacts DEF IInv, TypeOK, SenderTypeOK, ReceiverTypeOK
<1>3. receiveMessage[e] \in Seq(Byte) /\ p.data \in Seq(Byte)
  BY DEF IInv, TypeOK, ReceiverTypeOK, Packet
<1>4. m \in Seq(Byte)
  BY <1>3
<1>5. /\ Len(sent[Peer(e)]) = Len(delivered[e]) + 1
      /\ sent[Peer(e)][Len(delivered[e]) + 1] = m
  <2> HIDE DEF m
  <2> QED
    BY <1>1, <1>2, <1>4
<1>6. sent[Peer(e)][Len(sent[Peer(e)])] \in Message
  <2>1. Len(sent[Peer(e)]) \in 1..Len(sent[Peer(e)])
    BY <1>2, <1>5
  <2> QED
    BY <1>2, <2>1, ElementOfSeq
<1>7. m \in Message
  BY <1>5, <1>6
<1>8. /\ delivered' = [delivered EXCEPT ![e] = Append(@, m)]
      /\ sent' = sent
  BY DEF ReceiveEOM, Leave, SendMessageNext
<1>9. Channel!Deliver(e, m)
  BY <1>1, <1>8, ChannelNames DEF Channel!Deliver
<1> QED
  BY <1>7, <1>9

\* Every other step is invisible to the hosts.
LEMMA StepImplements ==
  ASSUME IInv, Next
  PROVE  Channel!Next \/ UNCHANGED <<sent, delivered>>
<1>1. ASSUME NEW e \in Endpoint, NEW m \in Message, SendMessage(e, m)
      PROVE  Channel!Next
  BY <1>1, SendImplements, ChannelNames DEF Channel!Next
<1>2. ASSUME NEW e \in Endpoint,
             \/ CanSendMessage(e) \/ SendUnreliableMessage(e)
             \/ ReadNothing(e) \/ ReadError(e)
      PROVE  UNCHANGED <<sent, delivered>>
  BY <1>2 DEF CanSendMessage, SendUnreliableMessage, ReadNothing, ReadError,
              Leave, SendMessageNext, senderVars, receiverVars
<1>3. ASSUME NEW e \in Endpoint,
             GetMessage(e) \/ Close(e) \/ TimerExpires(e)
      PROVE  UNCHANGED <<sent, delivered>>
  BY <1>3 DEF GetMessage, Close, TimerExpires, senderVars, receiverVars
<1>4. ASSUME NEW e \in Endpoint, NEW p \in net[e], Lose(e, p)
      PROVE  UNCHANGED <<sent, delivered>>
  BY <1>4 DEF Lose, senderVars, receiverVars
<1>5. ASSUME NEW e \in Endpoint, NEW p \in net[e], NEW gone \in {{}, {p}},
             ReadPacket(e, p, gone)
      PROVE  Channel!Next \/ UNCHANGED <<sent, delivered>>
  <2>1. CASE StaleUnreliable(e, p, gone) \/ ReceiveUnreliable(e, p, gone)
    BY <2>1 DEF StaleUnreliable, ReceiveUnreliable, Leave, SendMessageNext,
                receiverVars
  <2>2. CASE IgnoreAck(e, p, gone) \/ DuplicateData(e, p, gone)
    BY <2>2 DEF IgnoreAck, DuplicateData, senderVars, receiverVars
  <2>3. CASE ReceiveAck(e, p, gone)
    BY <2>3 DEF ReceiveAck, receiverVars
  <2>4. CASE ReceiveFragment(e, p, gone)
    BY <2>4 DEF ReceiveFragment, senderVars
  <2>5. CASE ReceiveEOM(e, p, gone)
    BY <2>5, ReceiveEOMImplements, ChannelNames DEF Channel!Next
  <2> QED
    BY <1>5, <2>1, <2>2, <2>3, <2>4, <2>5 DEF ReadPacket
<1> QED
  BY <1>1, <1>2, <1>3, <1>4, <1>5 DEF Next

\* Loss, duplication, reordering and retries are invisible: the driver
\* implements the channel that hands every message over once and in order.
THEOREM Refinement == Spec => ImplementsReliableChannel
<1>1. Init => Channel!Init
  BY ChannelNames DEF Init, Channel!Init
<1>2. IInv /\ [Next]_vars => [Channel!Next]_(Channel!vars)
  BY StepImplements
     DEF vars, senderVars, receiverVars, Channel!vars
<1> QED
  BY <1>1, <1>2, Invariance, PTL
     DEF Spec, ImplementsReliableChannel, Channel!Spec

-----------------------------------------------------------------------------
(* The unreliable channel.  Its inductive invariant adds to the two        *)
(* properties what makes them so: a packet in the network was sent, and    *)
(* what was handed out is older than the number the receiver waits for.    *)

\* Every unreliable packet on its way to e has been sent.
WereSent(e) ==
  \A p \in net[e] :
    p.type = "UNRELIABLE" => p.seq < unreliableSendSequence[Peer(e)]

\* The messages handed out to e, against the numbers of both ends.
HandedOut(e) ==
  /\ unreliableReceiveSequence[e] <= unreliableSendSequence[Peer(e)]
  /\ \A i \in 1..Len(received[e]) :
       /\ received[e][i] < unreliableReceiveSequence[e]
       /\ i > 1 => received[e][i - 1] < received[e][i]

Counted(e) ==
  droppedDatagrams[e] + Len(received[e]) = unreliableReceiveSequence[e]

UInv == TypeOK /\ \A e \in Endpoint : WereSent(e) /\ HandedOut(e) /\ Counted(e)

\* No unreliable packet is put on its way to e.
NoNewUnreliable(e) ==
  \A p \in net'[e] : p.type = "UNRELIABLE" => p \in net[e]

-----------------------------------------------------------------------------
\* A step that neither sends nor hands out an unreliable message.
LEMMA QuietUnreliable ==
  ASSUME UInv, UNCHANGED unreliableVars, NEW e \in Endpoint,
         NoNewUnreliable(e)
  PROVE  WereSent(e)' /\ HandedOut(e)' /\ Counted(e)'
<1>1. WereSent(e) /\ HandedOut(e) /\ Counted(e)
  BY DEF UInv
<1>2. /\ unreliableSendSequence' = unreliableSendSequence
      /\ unreliableReceiveSequence' = unreliableReceiveSequence
      /\ droppedDatagrams' = droppedDatagrams
      /\ received' = received
  BY DEF unreliableVars
<1>3. WereSent(e)'
  BY <1>1, <1>2 DEF WereSent, NoNewUnreliable
<1>4. HandedOut(e)' /\ Counted(e)'
  BY <1>1, <1>2 DEF HandedOut, Counted
<1> QED
  BY <1>3, <1>4

\* What the driver writes besides an unreliable message is data and ACKs.
LEMMA ExchangeQuiet ==
  ASSUME TypeOK, NEW e \in Endpoint, NEW gone, NEW out,
         Exchange(e, gone, out),
         \A p \in out : p.type # "UNRELIABLE"
  PROVE  \A x \in Endpoint : NoNewUnreliable(x)
<1>1. /\ net'[e] = net[e] \ gone
      /\ net'[Peer(e)] = net[Peer(e)] \cup out
  BY ExchangeFacts DEF TypeOK
<1>2. NoNewUnreliable(e) /\ NoNewUnreliable(Peer(e))
  BY <1>1 DEF NoNewUnreliable
<1> QED
  BY <1>2, PeerFacts

\* The packets written by SendMessageNext and ReSendMessage carry data.
LEMMA NextPacketsQuiet ==
  ASSUME NEW e \in Endpoint
  PROVE  \A p \in NextPackets(e) : p.type # "UNRELIABLE"
BY DEF NextPackets, FrontPacket, DataPacket

\* Leaving the loop sends no unreliable message.
LEMMA LeaveQuiet ==
  ASSUME TypeOK, NEW e \in Endpoint, NEW gone, NEW out, Leave(e, gone, out),
         \A p \in out : p.type # "UNRELIABLE"
  PROVE  \A x \in Endpoint : NoNewUnreliable(x)
<1>1. Exchange(e, gone, out \cup NextPackets(e))
  BY DEF Leave
<1>2. \A p \in out \cup NextPackets(e) : p.type # "UNRELIABLE"
  BY NextPacketsQuiet
<1> QED
  BY <1>1, <1>2, ExchangeQuiet

-----------------------------------------------------------------------------
\* Datagram_SendUnreliableMessage: the packet and the count go up together.
LEMMA SendUnreliableStep ==
  ASSUME UInv, NEW e \in Endpoint, SendUnreliableMessage(e)
  PROVE  \A x \in Endpoint : WereSent(x)' /\ HandedOut(x)' /\ Counted(x)'
<1> DEFINE r == Peer(e)
<1>1. r \in Endpoint /\ Peer(r) = e /\ r # e
  BY PeerFacts
<1>2. /\ unreliableSendSequence' =
           [unreliableSendSequence EXCEPT ![e] = @ + 1]
      /\ unreliableReceiveSequence' = unreliableReceiveSequence
      /\ droppedDatagrams' = droppedDatagrams
      /\ received' = received
      /\ Exchange(e, {}, {UnreliablePacket(unreliableSendSequence[e])})
  BY DEF SendUnreliableMessage
<1>3. /\ unreliableSendSequence \in [Endpoint -> Nat]
      /\ unreliableReceiveSequence \in [Endpoint -> Nat]
      /\ net \in [Endpoint -> SUBSET Packet]
  BY DEF UInv, TypeOK, UnreliableTypeOK
<1>4. /\ net'[e] = net[e] \ {}
      /\ net'[r] = net[r] \cup {UnreliablePacket(unreliableSendSequence[e])}
  BY <1>2, <1>3, ExchangeFacts
<1>5. /\ unreliableSendSequence'[e] = unreliableSendSequence[e] + 1
      /\ unreliableSendSequence'[r] = unreliableSendSequence[r]
  BY <1>1, <1>2, <1>3
<1>6. \A x \in {e, r} : \A p \in net[x] : p.seq \in Nat
  BY <1>1, <1>3 DEF Packet
<1>7. WereSent(r)'
  <2>1. UnreliablePacket(unreliableSendSequence[e]).seq
          = unreliableSendSequence[e]
    BY DEF UnreliablePacket
  <2>2. \A p \in net[r] :
          p.type = "UNRELIABLE" => p.seq < unreliableSendSequence[e]
    BY <1>1 DEF UInv, WereSent
  <2> QED
    BY <1>1, <1>3, <1>4, <1>5, <1>6, <2>1, <2>2 DEF WereSent
<1>8. WereSent(e)'
  BY <1>1, <1>4, <1>5 DEF UInv, WereSent
<1>9. /\ unreliableReceiveSequence[e] <= unreliableSendSequence[r]
      /\ unreliableReceiveSequence[r] <= unreliableSendSequence[e]
  BY <1>1 DEF UInv, HandedOut
<1>10. HandedOut(e)' /\ HandedOut(r)'
  <2>1. /\ unreliableReceiveSequence'[e] <= unreliableSendSequence'[r]
        /\ unreliableReceiveSequence'[r] <= unreliableSendSequence'[e]
    BY <1>1, <1>2, <1>3, <1>5, <1>9
  <2>2. \A x \in {e, r} : \A i \in 1..Len(received[x]) :
          /\ received[x][i] < unreliableReceiveSequence[x]
          /\ i > 1 => received[x][i - 1] < received[x][i]
    BY <1>1 DEF UInv, HandedOut
  <2> QED
    BY <1>1, <1>2, <2>1, <2>2 DEF HandedOut
<1>11. \A x \in Endpoint : Counted(x)'
  BY <1>2 DEF UInv, Counted
<1> QED
  BY <1>1, <1>7, <1>8, <1>10, <1>11, PeerFacts

\* Datagram_GetMessage hands an unreliable message out.
LEMMA ReceiveUnreliableStep ==
  ASSUME UInv, NEW e \in Endpoint, NEW p \in net[e], NEW gone,
         ReceiveUnreliable(e, p, gone)
  PROVE  \A x \in Endpoint : WereSent(x)' /\ HandedOut(x)' /\ Counted(x)'
<1> DEFINE r == Peer(e)
           n == unreliableReceiveSequence[e]
<1>1. r \in Endpoint /\ Peer(r) = e /\ r # e
  BY PeerFacts
<1>2. /\ p.type = "UNRELIABLE" /\ p.seq >= n
      /\ droppedDatagrams' =
           [droppedDatagrams EXCEPT ![e] = @ + (p.seq - n)]
      /\ unreliableReceiveSequence' =
           [unreliableReceiveSequence EXCEPT ![e] = p.seq + 1]
      /\ received' = [received EXCEPT ![e] = Append(@, p.seq)]
      /\ unreliableSendSequence' = unreliableSendSequence
      /\ Leave(e, gone, {})
  BY DEF ReceiveUnreliable
<1>3. /\ unreliableSendSequence \in [Endpoint -> Nat]
      /\ unreliableReceiveSequence \in [Endpoint -> Nat]
      /\ droppedDatagrams \in [Endpoint -> Nat]
      /\ received \in [Endpoint -> Seq(Nat)]
      /\ p.seq \in Nat
  BY DEF UInv, TypeOK, UnreliableTypeOK, Packet
<1>4. \A x \in Endpoint : NoNewUnreliable(x)
  BY <1>2, LeaveQuiet DEF UInv
<1>5. \A x \in Endpoint : WereSent(x)'
  BY <1>2, <1>4 DEF UInv, WereSent, NoNewUnreliable
<1>6. /\ unreliableReceiveSequence'[e] = p.seq + 1
      /\ received'[e] = Append(received[e], p.seq)
      /\ droppedDatagrams'[e] = droppedDatagrams[e] + (p.seq - n)
  BY <1>2, <1>3
<1>7. /\ unreliableReceiveSequence'[r] = unreliableReceiveSequence[r]
      /\ received'[r] = received[r]
      /\ droppedDatagrams'[r] = droppedDatagrams[r]
  BY <1>1, <1>2, <1>3
<1>8. HandedOut(e)'
  <2>1. p.seq < unreliableSendSequence[r]
    BY <1>2 DEF UInv, WereSent
  <2>2. /\ \A i \in 1..Len(received[e]) :
             /\ received[e][i] < n
             /\ i > 1 => received[e][i - 1] < received[e][i]
        /\ n \in Nat /\ received[e] \in Seq(Nat)
    BY <1>3 DEF UInv, HandedOut
  <2>3. /\ Len(received'[e]) = Len(received[e]) + 1
        /\ \A i \in 1..Len(received[e]) : received'[e][i] = received[e][i]
        /\ received'[e][Len(received[e]) + 1] = p.seq
    BY <1>6, <1>3, <2>2
  <2>4. ASSUME NEW i \in 1..Len(received'[e])
        PROVE  /\ received'[e][i] < p.seq + 1
               /\ i > 1 => received'[e][i - 1] < received'[e][i]
    <3>1. Len(received[e]) \in Nat
      BY <2>2
    <3>2. \A j \in 1..Len(received[e]) : received[e][j] \in Nat
      BY <2>2, ElementOfSeq
    <3>3. CASE i \in 1..Len(received[e])
      BY <1>2, <1>3, <2>2, <2>3, <3>1, <3>2, <3>3
    <3>4. CASE i = Len(received[e]) + 1
      <4>1. received'[e][i] = p.seq
        BY <2>3, <3>4
      <4>2. i > 1 => /\ i - 1 \in 1..Len(received[e])
                     /\ received'[e][i - 1] = received[e][i - 1]
        BY <2>3, <3>1, <3>4
      <4> QED
        BY <1>2, <1>3, <2>2, <3>2, <4>1, <4>2
    <3> QED
      BY <2>3, <3>1, <3>3, <3>4
  <2> QED
    BY <1>2, <1>3, <1>6, <1>1, <2>1, <2>4 DEF HandedOut
<1>9. HandedOut(r)'
  BY <1>1, <1>2, <1>7 DEF UInv, HandedOut
<1>10. Counted(e)'
  <2>1. /\ droppedDatagrams[e] + Len(received[e]) = n
        /\ received[e] \in Seq(Nat) /\ n \in Nat /\ droppedDatagrams[e] \in Nat
    BY <1>3 DEF UInv, Counted
  <2>2. Len(received'[e]) = Len(received[e]) + 1 /\ Len(received[e]) \in Nat
    BY <1>6, <2>1, <1>3
  <2> QED
    BY <1>3, <1>6, <2>1, <2>2 DEF Counted
<1>11. Counted(r)'
  BY <1>1, <1>7 DEF UInv, Counted
<1> QED
  BY <1>1, <1>5, <1>8, <1>9, <1>10, <1>11, PeerFacts

-----------------------------------------------------------------------------
\* Every step keeps the invariant of the unreliable channel.
LEMMA UnreliableStep ==
  ASSUME UInv, [Next]_vars
  PROVE  \A x \in Endpoint : WereSent(x)' /\ HandedOut(x)' /\ Counted(x)'
<1> DEFINE Quiet == /\ UNCHANGED unreliableVars
                    /\ \A x \in Endpoint : NoNewUnreliable(x)
<1>0. TypeOK
  BY DEF UInv
<1>1. ASSUME NEW e \in Endpoint, NEW m \in Message, SendMessage(e, m)
      PROVE  Quiet
  <2>1. Exchange(e, {}, {FrontPacket(m, sendSequence[e])})
    BY <1>1 DEF SendMessage
  <2>2. FrontPacket(m, sendSequence[e]).type # "UNRELIABLE"
    BY DEF FrontPacket, DataPacket
  <2>3. \A x \in Endpoint : NoNewUnreliable(x)
    BY <1>0, <2>1, <2>2, ExchangeQuiet
  <2> QED
    BY <1>1, <2>3 DEF SendMessage
<1>2. ASSUME NEW e \in Endpoint, CanSendMessage(e)
      PROVE  Quiet
  BY <1>0, <1>2, ExchangeQuiet, NextPacketsQuiet DEF CanSendMessage
<1>3. ASSUME NEW e \in Endpoint, GetMessage(e)
      PROVE  Quiet
  <2>1. FrontPacket(sendMessage[e], sendSequence[e] - 1).type # "UNRELIABLE"
    BY DEF FrontPacket, DataPacket
  <2>2. \A x \in Endpoint : NoNewUnreliable(x)
    <3>1. CASE ~canSend[e] /\ expired[e]
      <4>1. Exchange(e, {},
                     {FrontPacket(sendMessage[e], sendSequence[e] - 1)})
        BY <1>3, <3>1 DEF GetMessage
      <4> QED
        BY <1>0, <2>1, <4>1, ExchangeQuiet
    <3>2. CASE ~(~canSend[e] /\ expired[e])
      BY <1>3, <3>2 DEF GetMessage, NoNewUnreliable
    <3> QED
      BY <3>1, <3>2
  <2> QED
    BY <1>3, <2>2 DEF GetMessage
<1>4. ASSUME NEW e \in Endpoint, ReadNothing(e)
      PROVE  Quiet
  BY <1>0, <1>4, LeaveQuiet DEF ReadNothing
<1>5. ASSUME NEW e \in Endpoint, ReadError(e) \/ Close(e) \/ TimerExpires(e)
      PROVE  Quiet
  BY <1>5 DEF ReadError, Close, TimerExpires, NoNewUnreliable
<1>6. ASSUME NEW e \in Endpoint, NEW p \in net[e], Lose(e, p)
      PROVE  Quiet
  BY <1>0, <1>6 DEF Lose, TypeOK, NoNewUnreliable
<1>7. ASSUME NEW e \in Endpoint, NEW p \in net[e], NEW gone \in {{}, {p}},
             ReadPacket(e, p, gone), ~ReceiveUnreliable(e, p, gone)
      PROVE  Quiet
  <2>1. AckPacket(p.seq).type # "UNRELIABLE"
    BY DEF AckPacket
  <2>2. CASE StaleUnreliable(e, p, gone)
    BY <1>0, <2>2, LeaveQuiet DEF StaleUnreliable
  <2>3. CASE IgnoreAck(e, p, gone)
    BY <1>0, <2>3, ExchangeQuiet DEF IgnoreAck
  <2>4. CASE ReceiveAck(e, p, gone)
    BY <1>0, <2>4, ExchangeQuiet DEF ReceiveAck
  <2>5. CASE DuplicateData(e, p, gone)
    BY <1>0, <2>1, <2>5, ExchangeQuiet DEF DuplicateData
  <2>6. CASE ReceiveFragment(e, p, gone)
    BY <1>0, <2>1, <2>6, ExchangeQuiet DEF ReceiveFragment
  <2>7. CASE ReceiveEOM(e, p, gone)
    BY <1>0, <2>1, <2>7, LeaveQuiet DEF ReceiveEOM
  <2> QED
    BY <1>7, <2>2, <2>3, <2>4, <2>5, <2>6, <2>7 DEF ReadPacket
<1>8. CASE UNCHANGED vars
  BY <1>8, QuietUnreliable DEF vars, NoNewUnreliable
<1>9. ASSUME Quiet
      PROVE  \A x \in Endpoint : WereSent(x)' /\ HandedOut(x)' /\ Counted(x)'
  BY <1>9, QuietUnreliable
<1> HIDE DEF Quiet
<1>10. CASE Next
  BY <1>1, <1>2, <1>3, <1>4, <1>5, <1>6, <1>7, <1>9, <1>10,
     SendUnreliableStep, ReceiveUnreliableStep
     DEF Next
<1> QED
  BY <1>8, <1>10

\* The invariant of the unreliable channel holds in every reachable state.
LEMMA UnreliableInvariance == Spec => []UInv
<1>1. Init => UInv
  BY IInvInit, PeerFacts
     DEF Init, IInv, UInv, WereSent, HandedOut, Counted
<1>2. UInv /\ TypeOK' /\ [Next]_vars => UInv'
  BY UnreliableStep DEF UInv
<1> QED
  BY <1>1, <1>2, TypeCorrectness, PTL DEF Spec

\* Unreliable messages come out newer and newer, and only if they were sent.
THEOREM UnreliableCorrectness == Spec => []UnreliableInOrder
<1>1. UInv => UnreliableInOrder
  <2> SUFFICES ASSUME UInv, NEW e \in Endpoint, NEW i \in 1..Len(received[e])
               PROVE  /\ received[e][i] < unreliableSendSequence[Peer(e)]
                      /\ i > 1 => received[e][i - 1] < received[e][i]
    BY DEF UnreliableInOrder
  <2>1. HandedOut(e)
    BY DEF UInv
  <2>2. /\ unreliableReceiveSequence[e] \in Nat
        /\ unreliableSendSequence[Peer(e)] \in Nat
        /\ received[e] \in Seq(Nat)
    BY PeerFacts DEF UInv, TypeOK, UnreliableTypeOK
  <2>3. received[e][i] \in Nat
    BY <2>2, ElementOfSeq
  <2> QED
    BY <2>1, <2>2, <2>3 DEF HandedOut
<1> QED
  BY <1>1, UnreliableInvariance, PTL

\* The loss counter and the datagrams handed out account for every number.
THEOREM DroppedCorrectness == Spec => []DroppedAreCounted
<1>1. UInv => DroppedAreCounted
  BY DEF UInv, Counted, DroppedAreCounted
<1> QED
  BY <1>1, UnreliableInvariance, PTL
=============================================================================
