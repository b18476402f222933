------------------------ MODULE TrudpChannelProofs -------------------------
(***************************************************************************)
(* Theorems about TrudpChannel for every value of its constants.  For any  *)
(* window, id limit and path, with resets and restarts: types, the write   *)
(* queue, the window.  For sessions: payloads arrive in order, exactly     *)
(* once, no datagram makes the channels reset, and a packet that is not    *)
(* delivered is kept.  For resets and restarts on paths that lose nothing: *)
(* the ends agree on the next packet when all has settled.                 *)
(*                                                                         *)
(* SessionInv numbers the packets of a session.  DeliveryInv adds what     *)
(* acknowledgements mean, what the queues hold, and, for a session of new  *)
(* channels, how packet 0 opens it.  ResetInv follows several sessions     *)
(* along the paths, and pays for every datagram with a payload or a fault. *)
(***************************************************************************)
EXTENDS TrudpChannel, TrudpFacts, FiniteSetTheorems

-----------------------------------------------------------------------------
\* What the UDP path may do to packets, the same for both kinds of path:
\* nothing arrives that was not sent, whatever is lost, repeated or overtaken.

\* Sending adds at most the packets that were sent.
LEMMA PutSound ==
    ASSUME NEW P, NEW w \in Wires(P), NEW out \in Seq(P)
    PROVE  /\ Put(w, out) \in Wires(P)
           /\ InFlight(Put(w, out)) \subseteq InFlight(w) \cup ToSet(out)
<1>1. CASE Ordered
  <2>1. w \in Seq(P)
    BY <1>1 DEF Wires
  <2>2. w \o out \in Seq(P) /\ ToSet(w \o out) = ToSet(w) \cup ToSet(out)
    BY <2>1, ConcatProperties, ToSetConcat
  <2>3. Len(w \o out) > WireCap =>
          /\ SubSeq(w \o out, 1, WireCap) \in Seq(P)
          /\ ToSet(SubSeq(w \o out, 1, WireCap)) \subseteq ToSet(w \o out)
    <3> SUFFICES ASSUME Len(w \o out) > WireCap
                 PROVE  1 \in 1 .. Len(w \o out) + 1 /\ WireCap \in 0 .. Len(w \o out)
      BY <2>2, ToSetSubSeq
    <3> QED BY <2>2, LenProperties, WireAssumption
  <2>4. Len(w \o out) \in Nat
    BY <2>2, LenProperties
  <2> QED BY <1>1, <2>2, <2>3, <2>4, WireAssumption DEF Put, Wires, InFlight
<1>2. CASE ~Ordered
  <2>1. ToSet(out) \subseteq P
    BY ElementOfSeq, LenProperties DEF ToSet
  <2> QED BY <1>2, <2>1 DEF Put, Wires, InFlight
<1> QED BY <1>1, <1>2

\* What arrives was in flight, and nothing new is in flight afterwards.
LEMMA ArrivalsSound ==
    ASSUME NEW P, NEW w \in Wires(P), NEW a \in Arrivals(w)
    PROVE  /\ a.pkt \in P /\ a.pkt \in InFlight(w)
           /\ a.rest \in Wires(P) /\ InFlight(a.rest) \subseteq InFlight(w)
<1>1. CASE Ordered
  <2>1. w \in Seq(P) /\ w # <<>> /\ a = [pkt |-> Head(w), rest |-> Tail(w)]
    BY <1>1 DEF Wires, Arrivals
  <2>2. /\ Head(w) = w[1] /\ 1 \in DOMAIN w /\ w[1] \in P
        /\ Tail(w) \in Seq(P) /\ \A k \in DOMAIN Tail(w) : k + 1 \in DOMAIN w /\ Tail(w)[k] = w[k + 1]
    BY <2>1, HeadTailProperties, LenProperties, ElementOfSeq, EmptySeq
  <2> QED BY <1>1, <2>1, <2>2 DEF Wires, InFlight, ToSet
<1>2. CASE ~Ordered
  BY <1>2 DEF Wires, Arrivals, InFlight
<1> QED BY <1>1, <1>2

\* Losing a packet adds none.
LEMMA LossesSound ==
    ASSUME NEW P, NEW w \in Wires(P), NEW l \in Losses(w)
    PROVE  l \in Wires(P) /\ InFlight(l) \subseteq InFlight(w)
<1>1. CASE Ordered
  BY <1>1, RemoveAtElements DEF Wires, Losses, InFlight
<1>2. CASE ~Ordered
  BY <1>2 DEF Wires, Losses, InFlight
<1> QED BY <1>1, <1>2

LEMMA EmptyWireSound ==
    ASSUME NEW P
    PROVE  EmptyWire \in Wires(P) /\ InFlight(EmptyWire) = {}
<1>1. <<>> \in Seq(P) /\ DOMAIN <<>> = {}
  BY EmptySeq, LenProperties
<1>2. ToSet(<<>>) = {}
  BY <1>1 DEF ToSet
<1> QED BY <1>1, <1>2 DEF EmptyWire, Wires, InFlight

-----------------------------------------------------------------------------
\* Sending on a path, and answering an arrival, keep the paths well formed and
\* put nothing on them but the packets that were sent.

LEMMA TransmitSound ==
    ASSUME wire \in [Nodes -> Wires(Packets)], NEW n \in Nodes,
           NEW out \in Seq(Packets), Transmit(n, out)
    PROVE  /\ wire' \in [Nodes -> Wires(Packets)]
           /\ InFlight(wire'[Peer[n]]) \subseteq InFlight(wire[Peer[n]]) \cup ToSet(out)
           /\ \A m \in Nodes \ {Peer[n]} : wire'[m] = wire[m]
<1>1. Peer[n] \in Nodes
  BY ChannelAssumption
<1>2. /\ Put(wire[Peer[n]], out) \in Wires(Packets)
      /\ InFlight(Put(wire[Peer[n]], out)) \subseteq InFlight(wire[Peer[n]]) \cup ToSet(out)
  BY <1>1, PutSound
<1> QED BY <1>1, <1>2 DEF Transmit

LEMMA AnswerSound ==
    ASSUME wire \in [Nodes -> Wires(Packets)], NEW n \in Nodes,
           NEW a \in Arrivals(wire[n]), NEW out \in Seq(Packets), Answer(n, a, out)
    PROVE  /\ wire' \in [Nodes -> Wires(Packets)]
           /\ InFlight(wire'[Peer[n]]) \subseteq InFlight(wire[Peer[n]]) \cup ToSet(out)
           /\ InFlight(wire'[n]) \subseteq InFlight(wire[n])
           /\ \A m \in Nodes \ {n, Peer[n]} : wire'[m] = wire[m]
           /\ a.pkt \in Packets
           /\ a.pkt \in InFlight(wire[n])
<1>1. Peer[n] \in Nodes /\ Peer[n] # n
  BY ChannelAssumption
<1>2. /\ Put(wire[Peer[n]], out) \in Wires(Packets)
      /\ InFlight(Put(wire[Peer[n]], out)) \subseteq InFlight(wire[Peer[n]]) \cup ToSet(out)
  BY <1>1, PutSound
<1>3. /\ a.pkt \in Packets /\ a.pkt \in InFlight(wire[n])
      /\ a.rest \in Wires(Packets) /\ InFlight(a.rest) \subseteq InFlight(wire[n])
  BY ArrivalsSound
<1> QED BY <1>1, <1>2, <1>3 DEF Answer

\* _trudpChannelSendPacket keeps the packet in one of the two queues, sends no
\* other packet, and does not leave the send queue empty.
LEMMA SendPacketSound ==
    ASSUME NEW queue \in Seq(DataPackets), NEW waiting \in Seq(DataPackets),
           NEW p \in DataPackets, NEW r, r = SendPacket(queue, waiting, p)
    PROVE  /\ r.sq \in Seq(DataPackets) /\ r.wq \in Seq(DataPackets)
           /\ r.out \in Seq(Packets) /\ ToSet(r.out) \subseteq {p}
           /\ r.sq # <<>>
           /\ \/ /\ SendNow(queue)
                 /\ r.sq = Append(queue, p) /\ r.wq = waiting
              \/ /\ ~SendNow(queue)
                 /\ r.sq = queue /\ r.wq = Append(waiting, p) /\ r.out = <<>>
<1>1. <<p>> \in Seq(Packets) /\ ToSet(<<p>>) \subseteq {p}
  BY DEF Packets, ToSet
<1>2. <<>> \in Seq(Packets) /\ ToSet(<<>>) \subseteq {p}
  BY EmptySeq, EmptyWireSound DEF ToSet
<1>3. Append(queue, p) \in Seq(DataPackets) /\ Append(queue, p) # <<>>
  BY AppendProperties
<1>4. Append(waiting, p) \in Seq(DataPackets)
  BY AppendProperties
<1>5. ~SendNow(queue) => queue # <<>>
  BY ChannelAssumption, EmptySeq DEF SendNow
<1> QED BY <1>1, <1>2, <1>3, <1>4, <1>5 DEF SendPacket

-----------------------------------------------------------------------------
\* Type correctness

TypeInv == TypeOK /\ \A n \in Nodes : IsFiniteSet(receiveQueue[n])

LEMMA TypeInit == Init => TypeInv
<1> SUFFICES ASSUME Init PROVE TypeInv
  OBVIOUS
<1>1. EmptyWire \in Wires(Packets)
  BY EmptyWireSound
<1>2. <<>> \in Seq(DataPackets) /\ <<>> \in Seq(Payloads) /\ IsFiniteSet({})
  BY EmptySeq, FS_EmptySet
<1> QED BY <1>1, <1>2, ChannelAssumption DEF Init, TypeInv, TypeOK

\* the answers of the receiver are packets
LEMMA AnswersAreSeqs ==
    ASSUME NEW p \in Packets, NEW id \in PacketIds
    PROVE  /\ <<AckPacket(p)>> \in Seq(Packets)
           /\ <<AckPacket(p), ResetPacket(id)>> \in Seq(Packets)
           /\ <<AckResetPacket(p)>> \in Seq(Packets)
           /\ <<ResetPacket(id)>> \in Seq(Packets)
           /\ <<>> \in Seq(Packets)
<1>1. /\ AckPacket(p) \in Packets /\ ResetPacket(id) \in Packets
      /\ AckResetPacket(p) \in Packets
  BY DEF Packets, DataPackets, AckPacket, ResetPacket, AckResetPacket
<1> QED BY <1>1

LEMMA TypeSendData ==
    ASSUME TypeInv, NEW n \in Nodes, SendData(n)
    PROVE  TypeInv'
<1> DEFINE p == DataPacket(sendId[n], sent[n] + 1)
           r == SendPacket(sendQueue[n], writeQueue[n], p)
<1>0. sent[n] + 1 \in Payloads
  <2>1. sent[n] \in Nat /\ MaxData[n] \in Nat /\ sent[n] < MaxData[n]
    BY ChannelAssumption DEF TypeInv, TypeOK, SendData
  <2>2. sent[n] + 1 \in 1 .. MaxData[n]
    BY <2>1
  <2> QED BY <2>2 DEF Payloads
<1>1. p \in DataPackets
  BY <1>0 DEF TypeInv, TypeOK, DataPacket, DataPackets
<1>2. r.sq \in Seq(DataPackets) /\ r.wq \in Seq(DataPackets) /\ r.out \in Seq(Packets)
  BY <1>1, SendPacketSound DEF TypeInv, TypeOK
<1>3. wire' \in [Nodes -> Wires(Packets)]
  BY <1>2, TransmitSound DEF SendData, TypeInv, TypeOK
<1>4. GetNextSeqId(sendId[n]) \in PacketIds
  BY NextIsId DEF TypeInv, TypeOK
<1>5. /\ sendQueue' = [sendQueue EXCEPT ![n] = r.sq]
      /\ writeQueue' = [writeQueue EXCEPT ![n] = r.wq]
      /\ sendId' = [sendId EXCEPT ![n] = GetNextSeqId(sendId[n])]
      /\ sent' = [sent EXCEPT ![n] = sent[n] + 1]
      /\ UNCHANGED <<receiveExpectedId, receiveQueue, delivered, faults>>
  BY DEF SendData, receiverVars
<1> HIDE DEF r
<1> QED BY <1>2, <1>3, <1>4, <1>5 DEF TypeInv, TypeOK

LEMMA TypeResend ==
    ASSUME TypeInv, NEW n \in Nodes, Resend(n) \/ FlushWriteQueue(n)
    PROVE  TypeInv'
<1>1. CASE Resend(n)
  <2>1. <<Head(sendQueue[n])>> \in Seq(Packets)
    BY <1>1, HeadTailProperties DEF Resend, TypeInv, TypeOK, Packets
  <2>2. wire' \in [Nodes -> Wires(Packets)]
    BY <1>1, <2>1, TransmitSound DEF Resend, TypeInv, TypeOK
  <2> QED BY <1>1, <2>2 DEF Resend, TypeInv, TypeOK, senderVars, receiverVars, historyVars
<1>2. CASE FlushWriteQueue(n)
  <2>1. <<Head(writeQueue[n])>> \in Seq(Packets) /\ Tail(writeQueue[n]) \in Seq(DataPackets)
    BY <1>2, HeadTailProperties DEF FlushWriteQueue, TypeInv, TypeOK, Packets
  <2>2. wire' \in [Nodes -> Wires(Packets)]
    BY <1>2, <2>1, TransmitSound DEF FlushWriteQueue, TypeInv, TypeOK
  <2> QED BY <1>2, <2>1, <2>2 DEF FlushWriteQueue, TypeInv, TypeOK, receiverVars, historyVars
<1> QED BY <1>1, <1>2

LEMMA TypeReceiveAck ==
    ASSUME TypeInv, NEW n \in Nodes, NEW a \in Arrivals(wire[n]),
           ReceiveAck(n, a) \/ ReceiveUnknownAck(n, a)
    PROVE  TypeInv'
<1>0. <<>> \in Seq(Packets)
  OBVIOUS
<1>1. CASE ReceiveAck(n, a)
  <2>1. PICK i \in DOMAIN sendQueue[n] :
          LET rest == RemoveAt(sendQueue[n], i)
          IN  IF writeQueue[n] = <<>>
              THEN /\ sendQueue' = [sendQueue EXCEPT ![n] = rest]
                   /\ UNCHANGED writeQueue
                   /\ Answer(n, a, <<>>)
              ELSE LET r == SendPacket(rest, writeQueue[n], Head(writeQueue[n]))
                   IN  /\ sendQueue' = [sendQueue EXCEPT ![n] = r.sq]
                       /\ writeQueue' = [writeQueue EXCEPT ![n] = Tail(r.wq)]
                       /\ Answer(n, a, r.out)
    BY <1>1 DEF ReceiveAck
  <2> DEFINE rest == RemoveAt(sendQueue[n], i)
             r == SendPacket(rest, writeQueue[n], Head(writeQueue[n]))
  <2>2. rest \in Seq(DataPackets)
    BY RemoveAtElements DEF TypeInv, TypeOK
  <2>3. CASE writeQueue[n] = <<>>
    <3>1. wire' \in [Nodes -> Wires(Packets)]
      BY <1>0, <2>1, <2>3, AnswerSound DEF TypeInv, TypeOK
    <3> QED
      BY <1>1, <2>1, <2>2, <2>3, <3>1
      DEF ReceiveAck, TypeInv, TypeOK, receiverVars, historyVars
  <2>4. CASE writeQueue[n] # <<>>
    <3>1. Head(writeQueue[n]) \in DataPackets
      BY <2>4, HeadTailProperties DEF TypeInv, TypeOK
    <3>2. /\ r.sq \in Seq(DataPackets) /\ r.out \in Seq(Packets)
          /\ r.wq = writeQueue[n] \/ r.wq = Append(writeQueue[n], Head(writeQueue[n]))
          /\ r.wq \in Seq(DataPackets)
      BY <2>2, <3>1, SendPacketSound, SMTT(30) DEF TypeInv, TypeOK
    <3>3. r.wq # <<>>
      BY <2>4, <3>1, <3>2, AppendProperties DEF TypeInv, TypeOK
    <3>4. Tail(r.wq) \in Seq(DataPackets)
      BY <3>2, <3>3, HeadTailProperties
    <3>5. /\ sendQueue' = [sendQueue EXCEPT ![n] = r.sq]
          /\ writeQueue' = [writeQueue EXCEPT ![n] = Tail(r.wq)]
          /\ Answer(n, a, r.out)
      BY <2>1, <2>4
    <3> HIDE DEF r
    <3>6. wire' \in [Nodes -> Wires(Packets)]
      BY <3>2, <3>5, AnswerSound DEF TypeInv, TypeOK
    <3> QED
      BY <1>1, <3>2, <3>4, <3>5, <3>6
      DEF ReceiveAck, TypeInv, TypeOK, receiverVars, historyVars
  <2> QED BY <2>3, <2>4
<1>2. CASE ReceiveUnknownAck(n, a)
  <2>1. wire' \in [Nodes -> Wires(Packets)]
    BY <1>0, <1>2, AnswerSound DEF ReceiveUnknownAck, TypeInv, TypeOK
  <2> QED
    BY <1>2, <2>1
    DEF ReceiveUnknownAck, TypeInv, TypeOK, senderVars, receiverVars, historyVars
<1> QED BY <1>1, <1>2

\* The packets the drain loop takes are saved packets, in the order of their
\* ids.
LEMMA DrainedPackets ==
    ASSUME NEW queue, NEW next, NEW count \in Nat, DrainsTo(queue, next, count)
    PROVE  \A i \in 1 .. count :
              /\ Saved(queue, next, i) \in queue
              /\ Saved(queue, next, i).id = IdAfter(next, i - 1)
BY DEF DrainsTo, Saved, Ids

LEMMA TypeReceiveData ==
    ASSUME TypeInv, NEW n \in Nodes, NEW a \in Arrivals(wire[n]), ReceiveData(n, a)
    PROVE  TypeInv'
<1>0. /\ a.pkt \in Packets /\ a.pkt \in DataPackets
      /\ sendId[n] \in PacketIds /\ GetNextSeqId(sendId[n]) \in PacketIds
  <2>1. a.pkt \in Packets
    BY ArrivalsSound DEF TypeInv, TypeOK
  <2>2. a.pkt.type = "DATA"
    BY DEF ReceiveData
  <2>3. a.pkt \in DataPackets
    BY <2>1, <2>2 DEF Packets
  <2>4. sendId[n] \in PacketIds
    BY DEF TypeInv, TypeOK
  <2> QED BY <2>1, <2>3, <2>4, NextIsId
<1>1. /\ <<AckPacket(a.pkt)>> \in Seq(Packets)
      /\ <<AckPacket(a.pkt), ResetPacket(sendId[n])>> \in Seq(Packets)
  BY <1>0, AnswersAreSeqs
<1>2. CASE AckAndReset(n, a)
  <2>1. wire' \in [Nodes -> Wires(Packets)]
    BY <1>1, <1>2, AnswerSound DEF AckAndReset, TypeInv, TypeOK
  <2> QED
    BY <1>0, <1>2, <2>1 DEF AckAndReset, TypeInv, TypeOK, receiverVars, historyVars
<1>3. CASE AcceptExpected(n, a)
  <2> DEFINE next == GetNextSeqId(receiveExpectedId[n])
             queue == receiveQueue[n]
  <2>1. PICK count \in 0 .. Cardinality(queue) :
          /\ DrainsTo(queue, next, count)
          /\ receiveExpectedId' = [receiveExpectedId EXCEPT ![n] = IdAfter(next, count)]
          /\ receiveQueue' = [receiveQueue EXCEPT ![n] =
                @ \ Range([i \in 1 .. count |-> Saved(queue, next, i)])]
          /\ delivered' = [delivered EXCEPT ![n] =
                @ \o <<a.pkt.data>>
                  \o [i \in 1 .. count |-> [j \in 1 .. count |-> Saved(queue, next, j)][i].data]]
    BY <1>3 DEF AcceptExpected
  <2>2. count \in Nat
    BY FS_CardinalityType DEF TypeInv
  <2>3. next \in PacketIds /\ IdAfter(next, count) \in PacketIds
    BY <2>2, NextIsId, IdAfterIsId DEF TypeInv, TypeOK
  <2>4. \A i \in 1 .. count : Saved(queue, next, i).data \in Payloads
    BY <2>1, <2>2, DrainedPackets DEF TypeInv, TypeOK, DataPackets
  <2>5. [i \in 1 .. count |-> [j \in 1 .. count |-> Saved(queue, next, j)][i].data]
            \in Seq(Payloads)
    BY <2>2, <2>4
  <2>6. <<a.pkt.data>> \in Seq(Payloads)
    BY <1>0 DEF DataPackets
  <2>7. wire' \in [Nodes -> Wires(Packets)]
    BY <1>1, <1>3, AnswerSound DEF AcceptExpected, TypeInv, TypeOK
  <2>8. \A S : IsFiniteSet(queue \ S) /\ queue \ S \subseteq DataPackets
    BY FS_Difference DEF TypeInv, TypeOK
  <2> HIDE DEF next
  <2>9. delivered' \in [Nodes -> Seq(Payloads)]
    BY <2>1, <2>5, <2>6, ConcatProperties DEF TypeInv, TypeOK
  <2> QED
    BY <1>3, <2>1, <2>3, <2>7, <2>8, <2>9 DEF AcceptExpected, TypeInv, TypeOK, senderVars
<1>4. CASE SaveOutrunning(n, a)
  <2>1. wire' \in [Nodes -> Wires(Packets)]
    BY <1>1, <1>4, AnswerSound DEF SaveOutrunning, TypeInv, TypeOK
  <2>2. IsFiniteSet(receiveQueue[n] \cup {a.pkt})
    BY FS_AddElement DEF TypeInv
  <2> QED
    BY <1>0, <1>4, <2>1, <2>2 DEF SaveOutrunning, TypeInv, TypeOK, senderVars, historyVars
<1>5. CASE DropProcessed(n, a)
  <2>1. wire' \in [Nodes -> Wires(Packets)]
    BY <1>1, <1>5, AnswerSound DEF DropProcessed, TypeInv, TypeOK
  <2> QED
    BY <1>5, <2>1 DEF DropProcessed, TypeInv, TypeOK, senderVars, receiverVars, historyVars
<1> QED
  BY <1>2, <1>3, <1>4, <1>5 DEF ReceiveData, RejectNotOpened, RejectNewSession

LEMMA TypeReset ==
    ASSUME TypeInv, NEW n \in Nodes,
           \/ \E a \in Arrivals(wire[n]) : ReceiveReset(n, a) \/ ReceiveAckReset(n, a)
           \/ SendReset(n) \/ Restart(n)
    PROVE  TypeInv'
<1>1. /\ <<>> \in Seq(DataPackets) /\ IsFiniteSet({}) /\ {} \subseteq DataPackets
      /\ 0 \in PacketIds /\ sendId[n] \in PacketIds
      /\ GetNextSeqId(sendId[n]) \in PacketIds
  BY EmptySeq, FS_EmptySet, NextIsId, PacketIdLimitAssumption DEF TypeInv, TypeOK, PacketIds
<1>2. ASSUME NEW a \in Arrivals(wire[n]), ReceiveReset(n, a) \/ ReceiveAckReset(n, a)
      PROVE  TypeInv'
  <2>1. a.pkt \in Packets
    BY ArrivalsSound DEF TypeInv, TypeOK
  <2>2. <<AckResetPacket(a.pkt)>> \in Seq(Packets) /\ <<>> \in Seq(Packets)
    BY <1>1, <2>1, AnswersAreSeqs
  <2>3. wire' \in [Nodes -> Wires(Packets)]
    BY <1>2, <2>2, AnswerSound DEF ReceiveReset, ReceiveAckReset, TypeInv, TypeOK
  <2>4. UNCHANGED <<sent, delivered, faults>>
    BY <1>2 DEF ReceiveReset, ReceiveAckReset, historyVars
  <2>5. \/ ResetChannel(n)
        \/ UNCHANGED <<sendId, sendQueue, writeQueue, receiveExpectedId, receiveQueue>>
    BY <1>2 DEF ReceiveReset, ReceiveAckReset, senderVars, receiverVars
  <2>6. CASE ResetChannel(n)
    BY <1>1, <2>3, <2>4, <2>6 DEF ResetChannel, TypeInv, TypeOK
  <2>7. CASE UNCHANGED <<sendId, sendQueue, writeQueue, receiveExpectedId, receiveQueue>>
    BY <2>3, <2>4, <2>7 DEF TypeInv, TypeOK
  <2> QED BY <2>5, <2>6, <2>7
<1>3. CASE SendReset(n)
  <2>1. <<ResetPacket(sendId[n])>> \in Seq(Packets)
    BY <1>1 DEF ResetPacket, Packets
  <2>2. wire' \in [Nodes -> Wires(Packets)]
    BY <1>3, <2>1, TransmitSound DEF SendReset, TypeInv, TypeOK
  <2>3. /\ sendId' = [sendId EXCEPT ![n] = GetNextSeqId(sendId[n])]
        /\ UNCHANGED <<sendQueue, writeQueue, receiveExpectedId, receiveQueue, sent, delivered>>
    BY <1>3 DEF SendReset, receiverVars, historyVars
  <2>4. faults' \in Nat
    BY <1>3 DEF SendReset, TypeInv, TypeOK
  <2> QED
    BY <1>1, <2>2, <2>3, <2>4 DEF TypeInv, TypeOK
<1>4. CASE Restart(n)
  <2>1. faults' \in Nat
    BY <1>4 DEF Restart, TypeInv, TypeOK
  <2> QED
    BY <1>1, <1>4, <2>1 DEF Restart, ResetChannel, TypeInv, TypeOK, historyVars
<1> QED BY <1>2, <1>3, <1>4

LEMMA TypeLose ==
    ASSUME TypeInv, NEW n \in Nodes, Lose(n)
    PROVE  TypeInv'
BY LossesSound DEF Lose, TypeInv, TypeOK, senderVars, receiverVars, historyVars

LEMMA TypeStep == TypeInv /\ [Next]_vars => TypeInv'
<1> SUFFICES ASSUME TypeInv, [Next]_vars PROVE TypeInv'
  OBVIOUS
<1>1. ASSUME NEW n \in Nodes, Step(n) \/ SendReset(n) \/ Restart(n)
      PROVE  TypeInv'
  BY <1>1, TypeSendData, TypeResend, TypeReceiveAck, TypeReceiveData, TypeReset, TypeLose
  DEF Step, Receive, ReceivePacket
<1>2. CASE UNCHANGED vars
  BY <1>2 DEF vars, senderVars, receiverVars, historyVars, TypeInv, TypeOK
<1> QED BY <1>1, <1>2 DEF Next

\* Every variable keeps its type in every behaviour of a pair of channels, with
\* resets and restarts on any path: ids stay below the limit through every
\* wrap and reset, and only packets of the protocol are ever in flight.
THEOREM TypeCorrect == Spec => []TypeOK
<1>1. TypeInv => TypeOK
  BY DEF TypeInv
<1> QED BY <1>1, TypeInit, TypeStep, PTL DEF Spec

-----------------------------------------------------------------------------
\* The queues

\* Where _trudpChannelSendPacket was called for n the send queue is not empty;
\* elsewhere the queues are left alone.
LEMMA BackedAfterSendPacket ==
    ASSUME TypeInv, WriteQueueBacked, NEW n \in Nodes,
           NEW queue \in Seq(DataPackets), NEW waiting \in Seq(DataPackets),
           NEW p \in DataPackets, NEW r, r = SendPacket(queue, waiting, p), NEW w,
           sendQueue' = [sendQueue EXCEPT ![n] = r.sq],
           writeQueue' = [writeQueue EXCEPT ![n] = w]
    PROVE  WriteQueueBacked'
<1>1. r.sq # <<>>
  BY SendPacketSound
<1> QED BY <1>1 DEF WriteQueueBacked, TypeInv, TypeOK

LEMMA BackedSendData ==
    ASSUME TypeInv, WriteQueueBacked, NEW n \in Nodes, SendData(n)
    PROVE  WriteQueueBacked'
<1>1. PICK p : p = DataPacket(sendId[n], sent[n] + 1)
  OBVIOUS
<1>2. PICK r : r = SendPacket(sendQueue[n], writeQueue[n], p)
  OBVIOUS
<1>3. /\ sendQueue' = [sendQueue EXCEPT ![n] = r.sq]
      /\ writeQueue' = [writeQueue EXCEPT ![n] = r.wq]
  BY <1>1, <1>2 DEF SendData
<1>4. sent[n] \in Nat /\ MaxData[n] \in Nat /\ sent[n] < MaxData[n]
  BY ChannelAssumption DEF TypeInv, TypeOK, SendData
<1>5. sent[n] + 1 \in 1 .. MaxData[n]
  BY <1>4
<1>6. p \in DataPackets
  BY <1>1, <1>5 DEF TypeInv, TypeOK, DataPacket, DataPackets, Payloads
<1>7. sendQueue[n] \in Seq(DataPackets) /\ writeQueue[n] \in Seq(DataPackets)
  BY DEF TypeInv, TypeOK
<1> QED BY <1>2, <1>3, <1>6, <1>7, BackedAfterSendPacket

LEMMA BackedReceiveAck ==
    ASSUME TypeInv, WriteQueueBacked, NEW n \in Nodes, NEW a, ReceiveAck(n, a)
    PROVE  WriteQueueBacked'
<1>1. PICK i \in DOMAIN sendQueue[n] :
        LET rest == RemoveAt(sendQueue[n], i)
        IN  IF writeQueue[n] = <<>>
            THEN /\ sendQueue' = [sendQueue EXCEPT ![n] = rest]
                 /\ UNCHANGED writeQueue
                 /\ Answer(n, a, <<>>)
            ELSE LET r == SendPacket(rest, writeQueue[n], Head(writeQueue[n]))
                 IN  /\ sendQueue' = [sendQueue EXCEPT ![n] = r.sq]
                     /\ writeQueue' = [writeQueue EXCEPT ![n] = Tail(r.wq)]
                     /\ Answer(n, a, r.out)
  BY DEF ReceiveAck
<1>2. PICK rest : rest = RemoveAt(sendQueue[n], i)
  OBVIOUS
<1>3. CASE writeQueue[n] = <<>>
  BY <1>1, <1>3 DEF WriteQueueBacked, TypeInv, TypeOK
<1>4. CASE writeQueue[n] # <<>>
  <2>1. PICK r : r = SendPacket(rest, writeQueue[n], Head(writeQueue[n]))
    OBVIOUS
  <2>2. /\ sendQueue' = [sendQueue EXCEPT ![n] = r.sq]
        /\ writeQueue' = [writeQueue EXCEPT ![n] = Tail(r.wq)]
    BY <1>1, <1>2, <1>4, <2>1
  <2>3. writeQueue[n] \in Seq(DataPackets) /\ Head(writeQueue[n]) \in DataPackets
    BY <1>4, HeadTailProperties DEF TypeInv, TypeOK
  <2>4. rest \in Seq(DataPackets)
    BY <1>2, RemoveAtElements DEF TypeInv, TypeOK
  <2> QED BY <2>1, <2>2, <2>3, <2>4, BackedAfterSendPacket
<1> QED BY <1>3, <1>4

LEMMA BackedStep == TypeInv /\ WriteQueueBacked /\ [Next]_vars => WriteQueueBacked'
<1> SUFFICES ASSUME TypeInv, WriteQueueBacked, [Next]_vars PROVE WriteQueueBacked'
  OBVIOUS
<1>1. ASSUME UNCHANGED <<sendQueue, writeQueue>> PROVE WriteQueueBacked'
  BY <1>1 DEF WriteQueueBacked
<1>2. ASSUME NEW n \in Nodes, FlushWriteQueue(n) PROVE WriteQueueBacked'
  BY <1>2 DEF FlushWriteQueue, WriteQueueBacked, TypeInv, TypeOK
<1>3. ASSUME NEW n \in Nodes, ResetChannel(n) PROVE WriteQueueBacked'
  BY <1>3 DEF ResetChannel, WriteQueueBacked, TypeInv, TypeOK
<1>4. ASSUME NEW n \in Nodes, NEW a \in Arrivals(wire[n]), ReceivePacket(n, a)
      PROVE  WriteQueueBacked'
  <2>1. ASSUME ReceiveData(n, a) PROVE UNCHANGED <<sendQueue, writeQueue>>
    BY <2>1
    DEF ReceiveData, RejectNotOpened, AcceptExpected, SaveOutrunning, RejectNewSession,
        DropProcessed, AckAndReset, senderVars
  <2>2. ASSUME ReceiveReset(n, a) \/ ReceiveAckReset(n, a) PROVE ResetChannel(n)
    BY <2>2 DEF ReceiveReset, ReceiveAckReset
  <2>3. ASSUME ReceiveUnknownAck(n, a) PROVE UNCHANGED <<sendQueue, writeQueue>>
    BY <2>3 DEF ReceiveUnknownAck, senderVars
  <2> QED BY <1>1, <1>3, <1>4, <2>1, <2>2, <2>3, BackedReceiveAck DEF ReceivePacket
<1>5. ASSUME NEW n \in Nodes, Resend(n) \/ Lose(n) \/ SendReset(n)
      PROVE  UNCHANGED <<sendQueue, writeQueue>>
  BY <1>5 DEF Resend, Lose, SendReset, senderVars
<1>6. ASSUME NEW n \in Nodes, Restart(n) PROVE ResetChannel(n)
  BY <1>6 DEF Restart
<1>7. CASE UNCHANGED vars
  BY <1>1, <1>7 DEF vars, senderVars
<1> QED
  BY <1>1, <1>2, <1>3, <1>4, <1>5, <1>6, <1>7, BackedSendData DEF Next, Step, Receive

\* Packets wait in the write queue only behind packets whose acknowledgement
\* moves them up, whatever is acknowledged, reset or restarted: the write
\* queue cannot be stranded (the refill in case TRU_ACK of
\* trudpChannelProcessReceivedPacket is its only way out).
THEOREM WriteQueueIsBacked == Spec => []WriteQueueBacked
<1>1. Init => WriteQueueBacked
  BY DEF Init, WriteQueueBacked
<1> QED BY <1>1, TypeInit, TypeStep, BackedStep, PTL DEF Spec

-----------------------------------------------------------------------------
(***************************************************************************)
(* Sessions, without resets and restarts: the packets in the queues and on *)
(* the paths are numbered by the calls of trudpChannelSendData, the        *)
(* receiver has got the first of them, and what it has saved lies ahead.   *)
(* A session of new channels keeps this as long as every packet with id 0  *)
(* is welcome: one that resets the receiver would end the session.         *)
(***************************************************************************)

\* p is the packet of the p.data-th trudpChannelSendData call of n
Numbered(p, n) ==
    p \in DataPackets /\ p.data \in 1 .. sent[n] /\ p.id = IdOf(p.data)

SenderInv(n) ==
    /\ sent[n] <= MaxData[n]
    /\ sendId[n] = IdOf(sent[n] + 1)
    /\ \A p \in ToSet(sendQueue[n]) \cup ToSet(writeQueue[n]) : Numbered(p, n)

WireInv(n) ==
    \A p \in InFlight(wire[n]) :
        p.type = "ACK" \/ (p.type = "DATA" /\ Numbered(p, Peer[n]))

\* The application has got the first d payloads, the id of the next one is
\* expected, and later ones are saved.
ReceiverInv(n) ==
    /\ Len(delivered[n]) <= sent[Peer[n]]
    /\ \A k \in DOMAIN delivered[n] : delivered[n][k] = k
    /\ receiveExpectedId[n] = IdOf(Len(delivered[n]) + 1)
    /\ \A p \in receiveQueue[n] :
          Numbered(p, Peer[n]) /\ p.data > Len(delivered[n]) + 1

SessionInv ==
    /\ TypeInv
    /\ \A n \in Nodes : SenderInv(n) /\ WireInv(n) /\ ReceiverInv(n)

-----------------------------------------------------------------------------
LEMMA PeerFacts ==
    ASSUME NEW n \in Nodes
    PROVE  /\ Peer[n] \in Nodes /\ Peer[n] # n /\ Peer[Peer[n]] = n
           /\ MaxData[n] \in Nat
           /\ MaxData[n] + 2 <= PacketIdLimit \div 2
           /\ MaxData[n] <= PacketIdLimit - 4
           /\ StartId \in PacketIds /\ PacketIdLimit \in Nat
BY ChannelAssumption, PacketIdLimitAssumption

\* A session is too short for two of its packets to have one id.
LEMMA IdsDistinct ==
    ASSUME NEW n \in Nodes, NEW j \in 1 .. MaxData[n] + 1, NEW k \in 1 .. MaxData[n] + 1,
           IdOf(j) = IdOf(k)
    PROVE  j = k
<1>1. j - 1 \in 0 .. PacketIdLimit - 2 /\ k - 1 \in 0 .. PacketIdLimit - 2
  BY PeerFacts
<1>2. j - 1 = k - 1
  BY <1>1, PeerFacts, IdAfterInjective DEF IdOf
<1> QED BY <1>2

\* The id after that of payload k is that of payload k + 1, and an established
\* session never comes to id 0.
LEMMA NextIdOf ==
    ASSUME NEW n \in Nodes, NEW k \in 1 .. MaxData[n] + 1
    PROVE  /\ GetNextSeqId(IdOf(k)) = IdOf(k + 1)
           /\ IdOf(k) \in PacketIds
           /\ StartId # 0 => IdOf(k) # 0
<1>1. k - 1 \in 0 .. PacketIdLimit - 3 /\ k - 1 \in Nat
  BY PeerFacts
<1>2. GetNextSeqId(IdAfter(StartId, k - 1)) = IdAfter(StartId, (k - 1) + 1)
  BY <1>1, PeerFacts, IdAfterStep
<1>3. (k - 1) + 1 = (k + 1) - 1
  OBVIOUS
<1>4. IdAfter(StartId, k - 1) \in PacketIds
      /\ (IdAfter(StartId, k - 1) = 0 => StartId = 0)
  BY <1>1, PeerFacts, IdAfterIsId
<1> QED BY <1>2, <1>3, <1>4 DEF IdOf

\* Ids are compared as the payloads are numbered.
LEMMA IdsOrdered ==
    ASSUME NEW n \in Nodes, NEW j \in 1 .. MaxData[n] + 1, NEW k \in 1 .. MaxData[n] + 1
    PROVE  GetSeqIdDistance(IdOf(j), IdOf(k)) > 0 <=> j < k
<1>1. /\ j - 1 \in Nat /\ k - 1 \in Nat
      /\ j - 1 <= (PacketIdLimit \div 2) - 2 /\ k - 1 <= (PacketIdLimit \div 2) - 2
  BY PeerFacts
<1>2. GetSeqIdDistance(IdAfter(StartId, j - 1), IdAfter(StartId, k - 1)) > 0
        <=> j - 1 < k - 1
  BY <1>1, PeerFacts, DistanceSign
<1> QED BY <1>2 DEF IdOf

\* A numbered packet is determined by its id.
LEMMA NumberedById ==
    ASSUME TypeInv, NEW n \in Nodes, SenderInv(n), NEW p, NEW k \in 1 .. MaxData[n] + 1,
           Numbered(p, n), p.id = IdOf(k)
    PROVE  p.data = k /\ p = DataPacket(IdOf(k), k)
<1>1. p.data \in 1 .. MaxData[n] + 1 /\ p.id = IdOf(p.data) /\ p \in DataPackets
  BY PeerFacts DEF Numbered, SenderInv, TypeInv, TypeOK
<1>2. p.data = k
  BY <1>1, IdsDistinct
<1> QED BY <1>1, <1>2 DEF DataPacket, DataPackets

\* Acknowledgements, sent in answer to an arrival, keep the paths as they
\* should be.
LEMMA AnswerWire ==
    ASSUME SessionInv, NEW n \in Nodes, NEW a \in Arrivals(wire[n]), NEW out \in Seq(Packets),
           \A p \in ToSet(out) : p.type = "ACK" \/ (p.type = "DATA" /\ Numbered(p, n)),
           Answer(n, a, out), UNCHANGED sent
    PROVE  /\ \A m \in Nodes : WireInv(m)'
           /\ a.pkt \in Packets
           /\ a.pkt.type = "ACK" \/ (a.pkt.type = "DATA" /\ Numbered(a.pkt, Peer[n]))
<1>1. /\ InFlight(wire'[Peer[n]]) \subseteq InFlight(wire[Peer[n]]) \cup ToSet(out)
      /\ InFlight(wire'[n]) \subseteq InFlight(wire[n])
      /\ \A m \in Nodes \ {n, Peer[n]} : wire'[m] = wire[m]
      /\ a.pkt \in Packets /\ a.pkt \in InFlight(wire[n])
  BY AnswerSound DEF SessionInv, TypeInv, TypeOK
<1>2. \A p, m : Numbered(p, m)' <=> Numbered(p, m)
  BY DEF Numbered
<1>3. Peer[n] \in Nodes /\ Peer[Peer[n]] = n
  BY PeerFacts
<1> QED BY <1>1, <1>2, <1>3 DEF SessionInv, WireInv

LEMMA TransmitWire ==
    ASSUME SessionInv, NEW n \in Nodes, NEW out \in Seq(Packets),
           \A p \in ToSet(out) : p.type = "DATA" /\ Numbered(p, n)',
           Transmit(n, out), \A m \in Nodes : sent'[m] \in Nat /\ sent[m] <= sent'[m]
    PROVE  \A m \in Nodes : WireInv(m)'
<1>1. /\ InFlight(wire'[Peer[n]]) \subseteq InFlight(wire[Peer[n]]) \cup ToSet(out)
      /\ \A m \in Nodes \ {Peer[n]} : wire'[m] = wire[m]
  BY TransmitSound DEF SessionInv, TypeInv, TypeOK
<1>2. \A m \in Nodes : sent[m] \in Nat
  BY DEF SessionInv, TypeInv, TypeOK
<1>3. ASSUME NEW m \in Nodes, NEW p, Numbered(p, m) PROVE Numbered(p, m)'
  BY <1>2, <1>3 DEF Numbered
<1>4. \A m \in Nodes : Peer[m] \in Nodes
  BY PeerFacts
<1>5. Peer[Peer[n]] = n
  BY PeerFacts
<1> QED BY <1>1, <1>3, <1>4, <1>5 DEF SessionInv, WireInv

-----------------------------------------------------------------------------
LEMMA SessionInit == Init => SessionInv
<1> SUFFICES ASSUME Init PROVE SessionInv
  OBVIOUS
<1>1. TypeInv
  BY TypeInit
<1>2. ToSet(<<>>) = {} /\ InFlight(EmptyWire) = {}
  BY EmptyWireSound DEF ToSet
<1>3. IdOf(1) = StartId
  <2>1. IdAfter(StartId, 0) = StartId
    BY ChannelAssumption, PacketIdLimitAssumption DEF IdAfter, PacketIds
  <2> QED BY <2>1 DEF IdOf
<1>4. ASSUME NEW n \in Nodes PROVE SenderInv(n) /\ WireInv(n) /\ ReceiverInv(n)
  BY <1>2, <1>3, PeerFacts DEF Init, SenderInv, WireInv, ReceiverInv
<1> QED BY <1>1, <1>4 DEF SessionInv

-----------------------------------------------------------------------------
\* The sender

LEMMA SessionSendData ==
    ASSUME SessionInv, NEW n \in Nodes, SendData(n)
    PROVE  SessionInv'
<1>a. /\ sendQueue \in [Nodes -> Seq(DataPackets)] /\ writeQueue \in [Nodes -> Seq(DataPackets)]
      /\ sent \in [Nodes -> Nat] /\ sendId \in [Nodes -> PacketIds]
  BY DEF SessionInv, TypeInv, TypeOK
<1>b. /\ TypeInv' /\ sendId[n] = IdOf(sent[n] + 1) /\ sendId[n] \in PacketIds
      /\ sendQueue[n] \in Seq(DataPackets) /\ writeQueue[n] \in Seq(DataPackets)
  BY <1>a, TypeSendData DEF SessionInv, SenderInv
<1>c. sent[n] \in Nat /\ MaxData[n] \in Nat /\ sent[n] < MaxData[n]
  BY <1>a, PeerFacts DEF SendData
<1>d. sent[n] + 1 \in 1 .. MaxData[n] /\ sent[n] + 1 \in 1 .. MaxData[n] + 1
  BY <1>c
<1>p. PICK p : p = DataPacket(sendId[n], sent[n] + 1)
  OBVIOUS
<1>r. PICK r : r = SendPacket(sendQueue[n], writeQueue[n], p)
  OBVIOUS
<1>1. /\ sent' = [sent EXCEPT ![n] = sent[n] + 1]
      /\ sendId' = [sendId EXCEPT ![n] = GetNextSeqId(sendId[n])]
      /\ sendQueue' = [sendQueue EXCEPT ![n] = r.sq]
      /\ writeQueue' = [writeQueue EXCEPT ![n] = r.wq]
      /\ Transmit(n, r.out)
      /\ UNCHANGED <<receiveExpectedId, receiveQueue, delivered, faults>>
  BY <1>p, <1>r DEF SendData, receiverVars
<1>s. /\ sent'[n] = sent[n] + 1
      /\ \A m \in Nodes \ {n} : sent'[m] = sent[m] /\ sendId'[m] = sendId[m]
              /\ sendQueue'[m] = sendQueue[m] /\ writeQueue'[m] = writeQueue[m]
      /\ \A m \in Nodes : sent[m] \in Nat /\ sent'[m] \in Nat /\ sent[m] <= sent'[m]
      /\ sendQueue'[n] = r.sq /\ writeQueue'[n] = r.wq
      /\ sendId'[n] = GetNextSeqId(sendId[n])
  BY <1>1, <1>a
<1>2. p \in DataPackets /\ p.type = "DATA" /\ p.data = sent[n] + 1 /\ p.id = IdOf(p.data)
  <2>1. sent[n] + 1 \in Payloads
    BY <1>d DEF Payloads
  <2> QED BY <1>b, <1>p, <2>1 DEF DataPackets, DataPacket
<1>3. ASSUME NEW m \in Nodes, NEW x, Numbered(x, m) PROVE Numbered(x, m)'
  <2>1. x.data \in 1 .. sent[m] /\ sent[m] \in Nat /\ sent'[m] \in Nat /\ sent[m] <= sent'[m]
    BY <1>s, <1>3 DEF Numbered
  <2>2. x.data \in 1 .. sent'[m]
    BY <2>1
  <2> QED BY <1>3, <2>2 DEF Numbered
<1>4. /\ r.sq \in Seq(DataPackets) /\ r.wq \in Seq(DataPackets)
      /\ r.out \in Seq(Packets) /\ ToSet(r.out) \subseteq {p}
      /\ \/ r.sq = Append(sendQueue[n], p) /\ r.wq = writeQueue[n]
         \/ r.sq = sendQueue[n] /\ r.wq = Append(writeQueue[n], p)
  <2>1. p \in DataPackets
    BY <1>2
  <2>2. r.sq \in Seq(DataPackets) /\ r.wq \in Seq(DataPackets) /\ r.out \in Seq(Packets)
    BY <1>b, <1>r, <2>1, SendPacketSound
  <2>3. ToSet(r.out) \subseteq {p}
    BY <1>r DEF SendPacket, ToSet
  <2>4. \/ r.sq = Append(sendQueue[n], p) /\ r.wq = writeQueue[n]
        \/ r.sq = sendQueue[n] /\ r.wq = Append(writeQueue[n], p)
    BY <1>r DEF SendPacket
  <2> QED BY <2>2, <2>3, <2>4
<1>5. Numbered(p, n)'
  <2>1. p.data \in 1 .. sent'[n]
    BY <1>c, <1>s, <1>2
  <2> QED BY <1>2, <2>1 DEF Numbered
<1>6. /\ ToSet(r.sq) \subseteq ToSet(sendQueue[n]) \cup {p}
      /\ ToSet(r.wq) \subseteq ToSet(writeQueue[n]) \cup {p}
  <2>1. /\ ToSet(Append(sendQueue[n], p)) = ToSet(sendQueue[n]) \cup {p}
        /\ ToSet(Append(writeQueue[n], p)) = ToSet(writeQueue[n]) \cup {p}
    BY <1>b, <1>2, AppendElements
  <2> QED BY <1>4, <2>1
<1>7. ASSUME NEW m \in Nodes PROVE SenderInv(m)'
  <2>1. CASE m = n
    <3>1. GetNextSeqId(IdOf(sent[n] + 1)) = IdOf((sent[n] + 1) + 1)
      BY <1>d, NextIdOf
    <3>2. sendId'[n] = IdOf(sent'[n] + 1)
      BY <1>b, <1>s, <3>1
    <3>3. sent'[n] <= MaxData[n]
      BY <1>c, <1>s
    <3>4. \A x \in ToSet(sendQueue[n]) \cup ToSet(writeQueue[n]) : Numbered(x, n)
      BY DEF SessionInv, SenderInv
    <3>5. \A x \in ToSet(sendQueue'[n]) \cup ToSet(writeQueue'[n]) : Numbered(x, n)'
      BY <1>s, <1>3, <1>5, <1>6, <3>4
    <3> QED BY <2>1, <3>2, <3>3, <3>5 DEF SenderInv
  <2>2. CASE m # n
    BY <1>s, <1>3, <2>2 DEF SessionInv, SenderInv
  <2> QED BY <2>1, <2>2
<1>8. \A m \in Nodes : WireInv(m)'
  <2>1. \A x \in ToSet(r.out) : x.type = "DATA" /\ Numbered(x, n)'
    BY <1>2, <1>4, <1>5
  <2>2. \A m \in Nodes : sent'[m] \in Nat /\ sent[m] <= sent'[m]
    BY <1>s
  <2>3. r.out \in Seq(Packets) /\ Transmit(n, r.out)
    BY <1>1, <1>4
  <2> QED BY <2>1, <2>2, <2>3, TransmitWire
<1>9. ASSUME NEW m \in Nodes PROVE ReceiverInv(m)'
  <2>1. Len(delivered[m]) \in Nat /\ Peer[m] \in Nodes
    BY PeerFacts, LenProperties DEF SessionInv, TypeInv, TypeOK
  <2>2. sent[Peer[m]] <= sent'[Peer[m]] /\ sent[Peer[m]] \in Nat /\ sent'[Peer[m]] \in Nat
    BY <1>s, <2>1
  <2>3. ReceiverInv(m)
    BY DEF SessionInv
  <2>4. Len(delivered[m]) <= sent'[Peer[m]]
    BY <2>1, <2>2, <2>3 DEF ReceiverInv
  <2>5. \A x \in receiveQueue[m] : Numbered(x, Peer[m])'
    BY <1>3, <2>1, <2>3 DEF ReceiverInv
  <2> QED BY <1>1, <2>3, <2>4, <2>5 DEF ReceiverInv
<1> QED BY <1>b, <1>7, <1>8, <1>9 DEF SessionInv

\* what only takes packets from the sender's queues and sends them again
LEMMA SessionResend ==
    ASSUME SessionInv, NEW n \in Nodes, Resend(n) \/ FlushWriteQueue(n)
    PROVE  SessionInv'
<1>0. /\ TypeInv' /\ \A m \in Nodes : sent[m] \in Nat
      /\ sendQueue \in [Nodes -> Seq(DataPackets)] /\ writeQueue \in [Nodes -> Seq(DataPackets)]
      /\ UNCHANGED <<sendId, sendQueue, receiveExpectedId, receiveQueue, sent, delivered>>
  BY TypeResend
  DEF SessionInv, TypeInv, TypeOK, Resend, FlushWriteQueue, senderVars, receiverVars,
      historyVars
<1>1. \A p, m : Numbered(p, m)' <=> Numbered(p, m)
  BY <1>0 DEF Numbered
<1>2. PICK p \in ToSet(sendQueue[n]) \cup ToSet(writeQueue[n]) : Transmit(n, <<p>>)
  <2>1. CASE Resend(n)
    <3>1. Head(sendQueue[n]) \in ToSet(sendQueue[n])
      BY <1>0, <2>1, HeadElement DEF Resend
    <3> QED BY <2>1, <3>1 DEF Resend
  <2>2. CASE FlushWriteQueue(n)
    <3>1. Head(writeQueue[n]) \in ToSet(writeQueue[n])
      BY <1>0, <2>2, HeadElement DEF FlushWriteQueue
    <3> QED BY <2>2, <3>1 DEF FlushWriteQueue
  <2> QED BY <2>1, <2>2
<1>3. Numbered(p, n) /\ p \in DataPackets /\ p.type = "DATA"
  BY <1>2 DEF SessionInv, SenderInv, Numbered, DataPackets
<1>4. <<p>> \in Seq(Packets) /\ ToSet(<<p>>) = {p}
  BY <1>3 DEF ToSet, Packets
<1>5. \A m \in Nodes : WireInv(m)'
  <2>1. \A x \in ToSet(<<p>>) : x.type = "DATA" /\ Numbered(x, n)'
    BY <1>1, <1>3, <1>4
  <2>2. \A m \in Nodes : sent'[m] \in Nat /\ sent[m] <= sent'[m]
    BY <1>0
  <2> QED BY <1>2, <1>4, <2>1, <2>2, TransmitWire
<1>6. \A m \in Nodes : ToSet(writeQueue'[m]) \subseteq ToSet(writeQueue[m])
  <2>1. CASE Resend(n)
    BY <2>1 DEF Resend, senderVars
  <2>2. CASE FlushWriteQueue(n)
    <3>1. ToSet(Tail(writeQueue[n])) \subseteq ToSet(writeQueue[n])
      BY <1>0, <2>2, TailElements DEF FlushWriteQueue
    <3> QED BY <1>0, <2>2, <3>1 DEF FlushWriteQueue
  <2> QED BY <2>1, <2>2
<1>7. ASSUME NEW m \in Nodes PROVE SenderInv(m)' /\ ReceiverInv(m)'
  BY <1>0, <1>1, <1>6 DEF SessionInv, SenderInv, ReceiverInv
<1> QED BY <1>0, <1>5, <1>7 DEF SessionInv

\* Arrivals that only acknowledge: the sender's queues lose the acknowledged
\* packet, one that waited moves up.
LEMMA SessionReceiveAck ==
    ASSUME SessionInv, NEW n \in Nodes, NEW a \in Arrivals(wire[n]),
           ReceiveAck(n, a) \/ ReceiveUnknownAck(n, a)
    PROVE  SessionInv'
<1>0. /\ TypeInv' /\ \A m \in Nodes : sent[m] \in Nat
      /\ sendQueue \in [Nodes -> Seq(DataPackets)] /\ writeQueue \in [Nodes -> Seq(DataPackets)]
      /\ UNCHANGED <<sendId, receiveExpectedId, receiveQueue, sent, delivered>>
  BY TypeReceiveAck
  DEF SessionInv, TypeInv, TypeOK, ReceiveAck, ReceiveUnknownAck, senderVars, receiverVars,
      historyVars
<1>1. \A p, m : Numbered(p, m)' <=> Numbered(p, m)
  BY <1>0 DEF Numbered
<1> DEFINE queued == ToSet(sendQueue[n]) \cup ToSet(writeQueue[n])
<1>2. PICK out \in Seq(Packets) :
        /\ Answer(n, a, out) /\ ToSet(out) \subseteq queued
        /\ ToSet(sendQueue'[n]) \cup ToSet(writeQueue'[n]) \subseteq queued
        /\ \A m \in Nodes \ {n} :
              sendQueue'[m] = sendQueue[m] /\ writeQueue'[m] = writeQueue[m]
  <2>0. <<>> \in Seq(Packets) /\ ToSet(<<>>) = {}
    BY EmptySeq DEF ToSet
  <2>1. CASE ReceiveUnknownAck(n, a)
    <3>1. Answer(n, a, <<>>) /\ UNCHANGED <<sendQueue, writeQueue>>
      BY <2>1 DEF ReceiveUnknownAck, senderVars
    <3> QED BY <2>0, <3>1
  <2>2. CASE ReceiveAck(n, a)
    <3>1. PICK i \in DOMAIN sendQueue[n] :
            LET rest == RemoveAt(sendQueue[n], i)
            IN  IF writeQueue[n] = <<>>
                THEN /\ sendQueue' = [sendQueue EXCEPT ![n] = rest]
                     /\ UNCHANGED writeQueue
                     /\ Answer(n, a, <<>>)
                ELSE LET r == SendPacket(rest, writeQueue[n], Head(writeQueue[n]))
                     IN  /\ sendQueue' = [sendQueue EXCEPT ![n] = r.sq]
                         /\ writeQueue' = [writeQueue EXCEPT ![n] = Tail(r.wq)]
                         /\ Answer(n, a, r.out)
      BY <2>2 DEF ReceiveAck
    <3>2. PICK rest : rest = RemoveAt(sendQueue[n], i)
      OBVIOUS
    <3>3. rest \in Seq(DataPackets) /\ ToSet(rest) \subseteq ToSet(sendQueue[n])
      BY <1>0, <3>2, RemoveAtElements
    <3>4. CASE writeQueue[n] = <<>>
      <4>1. /\ sendQueue' = [sendQueue EXCEPT ![n] = rest]
            /\ UNCHANGED writeQueue /\ Answer(n, a, <<>>)
        BY <3>1, <3>2, <3>4
      <4> QED BY <1>0, <2>0, <3>3, <4>1
    <3>5. CASE writeQueue[n] # <<>>
      <4>1. PICK h : h = Head(writeQueue[n])
        OBVIOUS
      <4>2. PICK r : r = SendPacket(rest, writeQueue[n], h)
        OBVIOUS
      <4>3. h \in DataPackets /\ h \in ToSet(writeQueue[n])
        BY <1>0, <3>5, <4>1, HeadElement, HeadTailProperties
      <4>4. /\ sendQueue' = [sendQueue EXCEPT ![n] = r.sq]
            /\ writeQueue' = [writeQueue EXCEPT ![n] = Tail(r.wq)]
            /\ Answer(n, a, r.out)
        BY <3>1, <3>2, <3>5, <4>1, <4>2
      <4>5. writeQueue[n] \in Seq(DataPackets)
        BY <1>0
      <4>6. r.sq \in Seq(DataPackets) /\ r.wq \in Seq(DataPackets) /\ r.out \in Seq(Packets)
        BY <3>3, <4>2, <4>3, <4>5, SendPacketSound
      <4>7. ToSet(r.out) \subseteq {h}
        BY <4>2 DEF SendPacket, ToSet
      <4>8. /\ r.sq = rest \/ r.sq = Append(rest, h)
            /\ r.wq = writeQueue[n] \/ r.wq = Append(writeQueue[n], h)
        BY <4>2 DEF SendPacket
      <4>9. /\ ToSet(Append(rest, h)) = ToSet(rest) \cup {h}
            /\ ToSet(Append(writeQueue[n], h)) = ToSet(writeQueue[n]) \cup {h}
            /\ Append(writeQueue[n], h) # <<>>
        BY <3>3, <4>3, <4>5, AppendElements, AppendProperties
      <4>10. r.wq # <<>>
        BY <3>5, <4>8, <4>9
      <4>11. ToSet(Tail(r.wq)) \subseteq ToSet(r.wq)
        BY <4>6, <4>10, TailElements
      <4>12. ToSet(r.sq) \subseteq queued /\ ToSet(Tail(r.wq)) \subseteq queued
        BY <3>3, <4>3, <4>8, <4>9, <4>11
      <4>13. sendQueue'[n] = r.sq /\ writeQueue'[n] = Tail(r.wq)
        BY <1>0, <4>4
      <4>14. \A m \in Nodes \ {n} :
                sendQueue'[m] = sendQueue[m] /\ writeQueue'[m] = writeQueue[m]
        BY <1>0, <4>4
      <4>15. Answer(n, a, r.out) /\ ToSet(r.out) \subseteq queued
        BY <4>3, <4>4, <4>7
      <4> QED BY <4>6, <4>12, <4>13, <4>14, <4>15
    <3> QED BY <3>4, <3>5
  <2> QED BY <2>1, <2>2
<1>3. \A p \in queued : Numbered(p, n) /\ p.type = "DATA"
  BY DEF SessionInv, SenderInv, Numbered, DataPackets
<1>4. \A m \in Nodes : WireInv(m)'
  <2>1. \A p \in ToSet(out) : p.type = "ACK" \/ (p.type = "DATA" /\ Numbered(p, n))
    BY <1>2, <1>3
  <2> QED BY <1>0, <1>2, <2>1, AnswerWire
<1>5. ASSUME NEW m \in Nodes PROVE SenderInv(m)'
  <2>1. SenderInv(m)
    BY DEF SessionInv
  <2>2. \A p \in ToSet(sendQueue'[m]) \cup ToSet(writeQueue'[m]) : Numbered(p, m)
    BY <1>2, <1>3, <2>1 DEF SenderInv
  <2> QED BY <1>0, <1>1, <2>1, <2>2 DEF SenderInv
<1>6. ASSUME NEW m \in Nodes PROVE ReceiverInv(m)'
  BY <1>0, <1>1 DEF SessionInv, ReceiverInv
<1> QED BY <1>0, <1>4, <1>5, <1>6 DEF SessionInv

-----------------------------------------------------------------------------
\* The receiver

\* What the receiver's invariant says of the numbers of the payloads, and of
\* an arriving packet.
LEMMA ReceiverFacts ==
    ASSUME SessionInv, NEW n \in Nodes, NEW m, m = Peer[n], NEW d, d = Len(delivered[n])
    PROVE  /\ m \in Nodes /\ d \in Nat /\ sent[m] \in Nat /\ MaxData[m] \in Nat
           /\ d <= sent[m] /\ sent[m] <= MaxData[m]
           /\ MaxData[m] <= PacketIdLimit - 4 /\ PacketIdLimit \in Nat
           /\ delivered[n] \in Seq(Payloads)
           /\ receiveExpectedId[n] = IdOf(d + 1)
           /\ IsFiniteSet(receiveQueue[n])
           /\ \A x \in receiveQueue[n] :
                 x \in DataPackets /\ x.data \in d + 2 .. sent[m] /\ x.id = IdOf(x.data)
<1>1. /\ m \in Nodes /\ MaxData[m] \in Nat /\ sent[m] \in Nat
      /\ MaxData[m] <= PacketIdLimit - 4 /\ PacketIdLimit \in Nat
  BY PeerFacts DEF SessionInv, TypeInv, TypeOK
<1>2. delivered[n] \in Seq(Payloads) /\ d \in Nat /\ IsFiniteSet(receiveQueue[n])
  BY LenProperties DEF SessionInv, TypeInv, TypeOK
<1>3. ReceiverInv(n) /\ SenderInv(m)
  BY <1>1 DEF SessionInv
<1>4. ASSUME NEW x \in receiveQueue[n]
      PROVE  x \in DataPackets /\ x.data \in d + 2 .. sent[m] /\ x.id = IdOf(x.data)
  <2>1. x \in DataPackets /\ x.data \in 1 .. sent[m] /\ x.id = IdOf(x.data) /\ x.data > d + 1
    BY <1>3 DEF ReceiverInv, Numbered
  <2> QED BY <1>1, <1>2, <2>1
<1> QED BY <1>1, <1>2, <1>3, <1>4 DEF ReceiverInv, SenderInv

\* No more packets are saved than payloads follow the expected one.
LEMMA SavedCount ==
    ASSUME SessionInv, NEW n \in Nodes, NEW m, m = Peer[n], NEW d, d = Len(delivered[n]),
           d + 1 <= sent[m]
    PROVE  /\ Cardinality(receiveQueue[n]) \in Nat
           /\ Cardinality(receiveQueue[n]) <= sent[m] - (d + 1)
<1> DEFINE queue == receiveQueue[n]
           later == d + 2 .. sent[m]
           f == [x \in queue |-> x.data]
<1>1. /\ d \in Nat /\ sent[m] \in Nat /\ IsFiniteSet(queue)
      /\ \A x \in queue : x \in DataPackets /\ x.data \in later /\ x.id = IdOf(x.data)
  BY ReceiverFacts
<1>2. IsFiniteSet(later) /\ Cardinality(later) <= sent[m] - (d + 1)
  <2>1. /\ IsFiniteSet(later)
        /\ Cardinality(later) = IF d + 2 > sent[m] THEN 0 ELSE sent[m] - (d + 2) + 1
    <3>1. d + 2 \in Int /\ sent[m] \in Int
      BY <1>1
    <3>2. \A lo, hi \in Int :
            /\ IsFiniteSet(lo .. hi)
            /\ Cardinality(lo .. hi) = IF lo > hi THEN 0 ELSE hi - lo + 1
      BY FS_Interval
    <3> QED BY <3>1, <3>2
  <2> HIDE DEF later
  <2> QED BY <1>1, <2>1
<1>3. ASSUME NEW x \in queue, NEW y \in queue, x.data = y.data PROVE x = y
  <2>1. x \in DataPackets /\ y \in DataPackets /\ x.id = y.id
    BY <1>1, <1>3
  <2> QED BY <1>3, <2>1 DEF DataPackets
<1>4. f \in Injection(queue, later)
  <2>1. f \in [queue -> later]
    BY <1>1
  <2>2. \A x, y \in queue : f[x] = f[y] => x = y
    BY <1>3
  <2> QED BY <2>1, <2>2 DEF Injection, IsInjective
<1>5. Cardinality(queue) <= Cardinality(later)
  BY <1>2, <1>4, FS_Injection
<1> QED
  <2>1. Cardinality(queue) \in Nat /\ Cardinality(later) \in Nat
    BY <1>1, <1>2, FS_CardinalityType
  <2> HIDE DEF later
  <2> QED BY <1>1, <1>2, <1>5, <2>1

\* The drain loop takes the count saved packets after payload d + 1, and every
\* other saved packet is later than the next one due.
Drains(n, d, next, count) ==
    LET queue == receiveQueue[n]
    IN  /\ \A i \in 1 .. count :
              Saved(queue, next, i) \in queue /\ Saved(queue, next, i).data = d + 1 + i
        /\ \A x \in queue :
              (\E i \in 1 .. count : x = Saved(queue, next, i)) \/ x.data > d + 2 + count

\* The number of the k-th packet that is drained.
LEMMA DrainedNumbers ==
    ASSUME NEW d \in Nat, NEW c \in Nat, NEW k \in 1 .. c, NEW s \in Nat, NEW t \in Nat,
           d + 1 + c <= s, s <= t
    PROVE  /\ k - 1 \in 0 .. c /\ d + 2 + (k - 1) = d + 1 + k
           /\ d + 1 + k \in 1 .. t + 1
OBVIOUS

\* The expected packet and what the drain loop takes after it: the payloads
\* d + 1 .. d + 1 + count, and nothing that is due stays behind.
LEMMA DrainIsPrefix ==
    ASSUME SessionInv, NEW n \in Nodes, NEW m, m = Peer[n], NEW d, d = Len(delivered[n]),
           d + 1 <= sent[m], NEW next, next = IdOf(d + 2),
           NEW count \in 0 .. Cardinality(receiveQueue[n]),
           DrainsTo(receiveQueue[n], next, count)
    PROVE  /\ count \in Nat /\ d + 1 + count <= sent[m]
           /\ IdAfter(next, count) = IdOf(d + 2 + count)
           /\ Drains(n, d, next, count)
<1> DEFINE queue == receiveQueue[n]
<1>1. /\ m \in Nodes /\ d \in Nat /\ sent[m] \in Nat /\ MaxData[m] \in Nat
      /\ sent[m] <= MaxData[m] /\ MaxData[m] <= PacketIdLimit - 4 /\ PacketIdLimit \in Nat
      /\ \A x \in queue : x \in DataPackets /\ x.data \in d + 2 .. sent[m] /\ x.id = IdOf(x.data)
  BY ReceiverFacts
<1>0. /\ d \in Nat /\ sent[m] \in Nat /\ MaxData[m] \in Nat /\ PacketIdLimit \in Nat
      /\ sent[m] <= MaxData[m] /\ MaxData[m] <= PacketIdLimit - 4
  BY <1>1
<1>2. count \in Nat /\ d + 1 + count <= sent[m]
  <2>1. Cardinality(queue) \in Nat /\ Cardinality(queue) <= sent[m] - (d + 1)
    BY SavedCount
  <2> HIDE DEF queue
  <2>2. count \in Nat /\ count <= Cardinality(queue)
    BY <2>1 DEF queue
  <2> QED BY <1>0, <2>1, <2>2, SMTT(30)
<1>3. ASSUME NEW i \in 0 .. count PROVE IdAfter(next, i) = IdOf(d + 2 + i)
  <2>1. d + 1 \in Nat /\ i \in Nat /\ (d + 1) + i <= PacketIdLimit - 2
    BY <1>0, <1>2, SMTT(30)
  <2>2. StartId \in PacketIds
    BY ChannelAssumption
  <2>3. IdAfter(IdAfter(StartId, d + 1), i) = IdAfter(StartId, (d + 1) + i)
    BY <2>1, <2>2, IdAfterSum
  <2>4. (d + 2) - 1 = d + 1 /\ (d + 2 + i) - 1 = (d + 1) + i
    BY <1>0, <2>1, SMTT(30)
  <2> QED BY <2>3, <2>4 DEF IdOf
<1>4. ASSUME NEW x \in queue, NEW k \in 1 .. MaxData[m] + 1, x.id = IdOf(k)
      PROVE  x.data = k
  <2>1. x.data \in 1 .. MaxData[m] + 1 /\ x.id = IdOf(x.data)
    BY <1>1
  <2> QED BY <1>1, <1>4, <2>1, IdsDistinct
<1>5. ASSUME NEW i \in 1 .. count
      PROVE  /\ Saved(queue, next, i) \in queue
             /\ Saved(queue, next, i).data = d + 1 + i
             /\ Saved(queue, next, i).id = IdOf(d + 1 + i)
  <2>1. /\ Saved(queue, next, i) \in queue
        /\ Saved(queue, next, i).id = IdAfter(next, i - 1)
    BY <1>2, DrainedPackets
  <2>0. /\ i - 1 \in 0 .. count /\ d + 2 + (i - 1) = d + 1 + i
        /\ d + 1 + i \in 1 .. MaxData[m] + 1
    <3>1. count \in Nat /\ d + 1 + count <= sent[m]
      BY <1>2
    <3> QED BY <1>0, <3>1, DrainedNumbers, SMTT(30)
  <2>2. i - 1 \in 0 .. count /\ d + 2 + (i - 1) = d + 1 + i
    BY <2>0
  <2>3. IdAfter(next, i - 1) = IdOf(d + 1 + i)
    BY <1>3, <2>2
  <2>4. d + 1 + i \in 1 .. MaxData[m] + 1
    BY <2>0
  <2> QED BY <1>4, <2>1, <2>3, <2>4
<1>6. IdAfter(next, count) = IdOf(d + 2 + count)
  <2>1. count \in 0 .. count
    BY <1>2
  <2> QED BY <1>3, <2>1
<1>7. ASSUME NEW x \in queue
      PROVE  \/ \E i \in 1 .. count : x = Saved(queue, next, i)
             \/ x.data > d + 2 + count
  <2>1. x \in DataPackets /\ x.data \in Nat /\ x.data >= d + 2 /\ x.id = IdOf(x.data)
    BY <1>1
  <2>2. x.data # d + 2 + count
    <3>1. IdAfter(next, count) # x.id
      BY DEF DrainsTo, Ids
    <3> QED BY <1>6, <2>1, <3>1
  <2>3. CASE x.data <= d + 1 + count
    <3>1. PICK i : i = x.data - (d + 1)
      OBVIOUS
    <3>2. i \in 1 .. count /\ x.data = d + 1 + i
      BY <1>0, <1>2, <2>1, <2>3, <3>1, SMTT(30)
    <3>3. PICK y : y = Saved(queue, next, i)
      OBVIOUS
    <3>4. y \in queue /\ y.data = x.data /\ y.id = x.id
      BY <1>5, <2>1, <3>2, <3>3
    <3>5. y \in DataPackets
      BY <1>1, <3>4
    <3>6. x = y
      BY <2>1, <3>4, <3>5 DEF DataPackets
    <3> QED BY <3>2, <3>3, <3>6
  <2> QED BY <1>0, <1>2, <2>1, <2>2, <2>3, SMTT(30)
<1> QED BY <1>2, <1>5, <1>6, <1>7 DEF Drains

Counts(s) == \A k \in DOMAIN s : s[k] = k

\* A sequence of numbers that counts from 1 still does when the next numbers
\* are appended.
LEMMA CountingAppend ==
    ASSUME NEW P, NEW s \in Seq(P), Counts(s),
           NEW e \in P, e = Len(s) + 1,
           NEW count \in Nat, NEW t \in Seq(P), DOMAIN t = 1 .. count,
           \A i \in 1 .. count : t[i] = Len(s) + 1 + i
    PROVE  /\ Len(s \o <<e>> \o t) = Len(s) + 1 + count
           /\ Counts(s \o <<e>> \o t)
<1>1. Len(s) \in Nat /\ DOMAIN s = 1 .. Len(s) /\ Len(t) = count
  BY LenProperties
<1>2. PICK u : u = s \o <<e>>
  OBVIOUS
<1>3. <<e>> \in Seq(P) /\ Len(<<e>>) = 1 /\ <<e>>[1] = e
  OBVIOUS
<1>4. /\ u \in Seq(P) /\ Len(u) = Len(s) + 1
      /\ \A k \in 1 .. Len(s) + 1 : u[k] = IF k <= Len(s) THEN s[k] ELSE <<e>>[k - Len(s)]
  BY <1>2, <1>3, ConcatProperties
<1>5. \A k \in 1 .. Len(s) + 1 : u[k] = k
  <2> TAKE k \in 1 .. Len(s) + 1
  <2>1. CASE k <= Len(s)
    BY <1>1, <1>4, <2>1, SMTT(20) DEF Counts
  <2>2. CASE k = Len(s) + 1
    <3>1. k - Len(s) = 1 /\ ~(k <= Len(s))
      BY <1>1, <2>2
    <3> QED BY <1>3, <1>4, <2>2, <3>1
  <2> QED BY <1>1, <2>1, <2>2
<1>6. /\ u \o t \in Seq(P) /\ Len(u \o t) = Len(s) + 1 + count
      /\ \A k \in 1 .. Len(s) + 1 + count :
            (u \o t)[k] = IF k <= Len(s) + 1 THEN u[k] ELSE t[k - (Len(s) + 1)]
  <2>1. /\ u \o t \in Seq(P) /\ Len(u \o t) = Len(u) + Len(t)
        /\ \A k \in 1 .. Len(u) + Len(t) :
              (u \o t)[k] = IF k <= Len(u) THEN u[k] ELSE t[k - Len(u)]
    BY <1>4, ConcatProperties
  <2>2. Len(u) = Len(s) + 1 /\ Len(t) = count
    BY <1>1, <1>4
  <2> QED BY <2>1, <2>2
<1>7. DOMAIN (u \o t) = 1 .. Len(s) + 1 + count
  BY <1>6, LenProperties
<1>8. ASSUME NEW k \in 1 .. Len(s) + 1 + count PROVE (u \o t)[k] = k
  <2>1. CASE k <= Len(s) + 1
    BY <1>1, <1>5, <1>6, <2>1
  <2>2. CASE k > Len(s) + 1
    <3>1. PICK i : i = k - (Len(s) + 1)
      OBVIOUS
    <3>2. i \in 1 .. count /\ Len(s) + 1 + i = k /\ ~(k <= Len(s) + 1)
      BY <1>1, <2>2, <3>1
    <3>3. t[i] = k
      BY <3>2
    <3>4. (u \o t)[k] = t[k - (Len(s) + 1)]
      BY <1>6, <3>2
    <3>5. (u \o t)[k] = t[i]
      BY <3>1, <3>4
    <3> QED BY <3>3, <3>5
  <2>3. k <= Len(s) + 1 \/ k > Len(s) + 1
    BY <1>1
  <2> QED BY <2>1, <2>2, <2>3
<1> QED BY <1>2, <1>6, <1>7, <1>8 DEF Counts

LEMMA SessionAcceptExpected ==
    ASSUME SessionInv, NEW n \in Nodes, NEW a \in Arrivals(wire[n]), a.pkt \in DataPackets,
           Numbered(a.pkt, Peer[n]), AcceptExpected(n, a)
    PROVE  ReceiverInv(n)' /\ Len(delivered[n]) + 1 <= Len(delivered'[n])
<1>1. PICK m, d : m = Peer[n] /\ d = Len(delivered[n])
  OBVIOUS
<1>2. /\ m \in Nodes /\ d \in Nat /\ sent[m] \in Nat /\ MaxData[m] \in Nat
      /\ d <= sent[m] /\ sent[m] <= MaxData[m] /\ delivered[n] \in Seq(Payloads)
      /\ receiveExpectedId[n] = IdOf(d + 1)
      /\ \A x \in receiveQueue[n] :
            x \in DataPackets /\ x.data \in d + 2 .. sent[m] /\ x.id = IdOf(x.data)
  BY <1>1, ReceiverFacts
<1>3. a.pkt.data = d + 1 /\ d + 1 <= sent[m] /\ a.pkt.data \in Payloads
  <2>1. a.pkt.data \in 1 .. sent[m] /\ a.pkt.id = IdOf(a.pkt.data)
    BY <1>1 DEF Numbered
  <2>2. a.pkt.id = IdOf(d + 1)
    BY <1>2 DEF AcceptExpected, IsExpected
  <2>3. a.pkt.data \in 1 .. MaxData[m] + 1 /\ d + 1 \in 1 .. MaxData[m] + 1
    BY <1>2, <2>1
  <2>4. a.pkt.data = d + 1
    BY <1>2, <2>1, <2>2, <2>3, IdsDistinct
  <2> QED BY <1>2, <2>1, <2>4 DEF DataPackets
<1>4. PICK next : next = GetNextSeqId(receiveExpectedId[n])
  OBVIOUS
<1>5. next = IdOf(d + 2)
  <2>1. d + 1 \in 1 .. MaxData[m] + 1 /\ (d + 1) + 1 = d + 2
    BY <1>2
  <2> QED BY <1>2, <1>4, <2>1, NextIdOf
<1>6. PICK count \in 0 .. Cardinality(receiveQueue[n]) :
        /\ DrainsTo(receiveQueue[n], next, count)
        /\ receiveExpectedId' = [receiveExpectedId EXCEPT ![n] = IdAfter(next, count)]
        /\ receiveQueue' = [receiveQueue EXCEPT ![n] =
              @ \ Range([i \in 1 .. count |-> Saved(receiveQueue[n], next, i)])]
        /\ delivered' = [delivered EXCEPT ![n] =
              @ \o <<a.pkt.data>>
                \o [i \in 1 .. count |->
                     [j \in 1 .. count |-> Saved(receiveQueue[n], next, j)][i].data]]
  BY <1>4 DEF AcceptExpected
<1>7. /\ count \in Nat /\ d + 1 + count <= sent[m]
      /\ IdAfter(next, count) = IdOf(d + 2 + count)
      /\ \A i \in 1 .. count :
            /\ Saved(receiveQueue[n], next, i) \in receiveQueue[n]
            /\ Saved(receiveQueue[n], next, i).data = d + 1 + i
      /\ \A x \in receiveQueue[n] :
            \/ \E i \in 1 .. count : x = Saved(receiveQueue[n], next, i)
            \/ x.data > d + 2 + count
  <2>1. m = Peer[n] /\ d = Len(delivered[n]) /\ d + 1 <= sent[m] /\ next = IdOf(d + 2)
    BY <1>1, <1>3, <1>5
  <2>2. DrainsTo(receiveQueue[n], next, count)
    BY <1>6
  <2>3. /\ count \in Nat /\ d + 1 + count <= sent[m]
        /\ IdAfter(next, count) = IdOf(d + 2 + count)
        /\ Drains(n, d, next, count)
    BY <2>1, <2>2, DrainIsPrefix, ZenonT(60)
  <2> QED BY <2>3 DEF Drains
<1>8. PICK t : t = [i \in 1 .. count |->
                      [j \in 1 .. count |-> Saved(receiveQueue[n], next, j)][i].data]
  OBVIOUS
<1>9. t \in Seq(Payloads) /\ DOMAIN t = 1 .. count /\ \A i \in 1 .. count : t[i] = d + 1 + i
  <2>1. \A i \in 1 .. count : t[i] = d + 1 + i /\ t[i] \in Payloads
    BY <1>2, <1>7, <1>8 DEF DataPackets
  <2>2. t = [i \in 1 .. count |-> t[i]]
    BY <1>8
  <2> QED BY <1>7, <2>1, <2>2
<1>10. delivered'[n] = delivered[n] \o <<a.pkt.data>> \o t
  BY <1>6, <1>8 DEF SessionInv, TypeInv, TypeOK
<1>11. Counts(delivered[n])
  BY DEF SessionInv, ReceiverInv, Counts
<1>12. Len(delivered'[n]) = d + 1 + count /\ Counts(delivered'[n])
  <2>1. /\ delivered[n] \in Seq(Payloads) /\ Len(delivered[n]) = d
        /\ a.pkt.data \in Payloads /\ a.pkt.data = d + 1 /\ count \in Nat
    BY <1>1, <1>2, <1>3, <1>7
  <2>2. PICK u, e : u = delivered[n] /\ e = a.pkt.data
    OBVIOUS
  <2>3. /\ Len(u \o <<e>> \o t) = d + 1 + count
        /\ Counts(u \o <<e>> \o t)
    <3>1. u \in Seq(Payloads) /\ Len(u) = d /\ e \in Payloads /\ e = Len(u) + 1
      BY <2>1, <2>2
    <3>2. Counts(u)
      BY <1>11, <2>2
    <3>3. \A i \in 1 .. count : t[i] = Len(u) + 1 + i
      BY <1>9, <3>1
    <3>4. t \in Seq(Payloads) /\ DOMAIN t = 1 .. count
      BY <1>9
    <3>5. /\ Len(u \o <<e>> \o t) = Len(u) + 1 + count
          /\ Counts(u \o <<e>> \o t)
      BY <2>1, <3>1, <3>2, <3>3, <3>4, CountingAppend, ZenonT(60)
    <3> QED BY <3>1, <3>5
  <2> QED BY <1>10, <2>2, <2>3
<1>13. receiveExpectedId'[n] = IdOf((d + 1 + count) + 1)
  <2>1. receiveExpectedId'[n] = IdAfter(next, count)
    BY <1>6 DEF SessionInv, TypeInv, TypeOK
  <2>2. (d + 1 + count) + 1 = d + 2 + count
    BY <1>2, <1>7
  <2> QED BY <1>7, <2>1, <2>2
<1>14. UNCHANGED sent
  BY DEF AcceptExpected
<1>15. ASSUME NEW x \in receiveQueue'[n]
       PROVE  Numbered(x, m)' /\ x.data > (d + 1 + count) + 1
  <2>1. /\ x \in receiveQueue[n]
        /\ x \notin Range([i \in 1 .. count |-> Saved(receiveQueue[n], next, i)])
    BY <1>6 DEF SessionInv, TypeInv, TypeOK
  <2>2. ~ \E i \in 1 .. count : x = Saved(receiveQueue[n], next, i)
    BY <2>1 DEF Range
  <2>3. x.data > d + 2 + count /\ x \in DataPackets /\ x.data \in d + 2 .. sent[m]
        /\ x.id = IdOf(x.data)
    BY <1>2, <1>7, <2>1, <2>2
  <2>4. x.data \in 1 .. sent[m] /\ x.data > (d + 1 + count) + 1
    BY <1>2, <1>7, <2>3
  <2> QED BY <1>14, <2>3, <2>4 DEF Numbered
<1>16. Len(delivered[n]) + 1 <= Len(delivered'[n])
  BY <1>1, <1>2, <1>7, <1>12
<1> QED BY <1>1, <1>7, <1>12, <1>13, <1>14, <1>15, <1>16 DEF ReceiverInv, Counts

\* The receiver does not answer p with a RESET.
Welcome(n, p) == ~NotOpened(n, p) /\ (IsNewSession(n, p) => IsExpected(n, p))

AllWelcome ==
    \A n \in Nodes : \A p \in InFlight(wire[n]) : p.type = "DATA" => Welcome(n, p)

\* A packet that does not make the channels reset is taken, saved or dropped,
\* and acknowledged.
LEMMA SessionReceiveData ==
    ASSUME SessionInv, NEW n \in Nodes, NEW a \in Arrivals(wire[n]), Welcome(n, a.pkt),
           ReceiveData(n, a)
    PROVE  SessionInv'
<1>1. PICK m, d : m = Peer[n] /\ d = Len(delivered[n])
  OBVIOUS
<1>2. /\ m \in Nodes /\ d \in Nat /\ sent[m] \in Nat /\ MaxData[m] \in Nat
      /\ d <= sent[m] /\ sent[m] <= MaxData[m] /\ receiveExpectedId[n] = IdOf(d + 1)
  BY <1>1, ReceiverFacts
<1>3. a.pkt \in Packets /\ a.pkt \in DataPackets /\ Numbered(a.pkt, m)
  <2>1. a.pkt \in Packets /\ a.pkt \in InFlight(wire[n])
    BY ArrivalsSound DEF SessionInv, TypeInv, TypeOK
  <2>2. a.pkt.type = "DATA" /\ WireInv(n)
    BY DEF ReceiveData, SessionInv
  <2>3. Numbered(a.pkt, m)
    BY <1>1, <2>1, <2>2 DEF WireInv
  <2> QED BY <2>1, <2>3 DEF Numbered
<1>4. /\ a.pkt.data \in 1 .. MaxData[m] + 1 /\ a.pkt.id = IdOf(a.pkt.data)
      /\ d + 1 \in 1 .. MaxData[m] + 1
  BY <1>2, <1>3 DEF Numbered
<1>6. \/ AcceptExpected(n, a)
      \/ SaveOutrunning(n, a)
      \/ DropProcessed(n, a)
  BY DEF ReceiveData, RejectNotOpened, RejectNewSession, Welcome
<1>7. /\ TypeInv' /\ UNCHANGED <<sendId, sendQueue, writeQueue, sent>>
      /\ Answer(n, a, <<AckPacket(a.pkt)>>)
  <2>1. TypeInv'
    BY TypeReceiveData DEF SessionInv
  <2> QED
    BY <1>6, <2>1 DEF AcceptExpected, SaveOutrunning, DropProcessed, senderVars, historyVars
<1>8. \A p, x : Numbered(p, x)' <=> Numbered(p, x)
  BY <1>7 DEF Numbered
<1>9. \A x \in Nodes : WireInv(x)'
  <2>1. <<AckPacket(a.pkt)>> \in Seq(Packets)
    <3>1. 0 \in PacketIds
      BY PacketIdLimitAssumption DEF PacketIds
    <3> QED BY <1>3, <3>1, AnswersAreSeqs
  <2>2. \A p \in ToSet(<<AckPacket(a.pkt)>>) : p.type = "ACK"
    BY DEF ToSet, AckPacket
  <2> QED BY <1>7, <2>1, <2>2, AnswerWire
<1>10. \A x \in Nodes : SenderInv(x)'
  BY <1>7, <1>8 DEF SessionInv, SenderInv
<1>11. ReceiverInv(n)'
  <2>0. ReceiverInv(n)
    BY DEF SessionInv
  <2>1. CASE AcceptExpected(n, a)
    BY <1>1, <1>3, <2>1, SessionAcceptExpected
  <2>2. CASE SaveOutrunning(n, a)
    <3>1. /\ UNCHANGED <<receiveExpectedId, delivered>>
          /\ receiveQueue'[n] = receiveQueue[n] \cup {a.pkt}
      BY <2>2 DEF SaveOutrunning, historyVars, SessionInv, TypeInv, TypeOK
    <3>2. GetSeqIdDistance(IdOf(d + 1), IdOf(a.pkt.data)) > 0
      BY <1>2, <1>4, <2>2 DEF SaveOutrunning, IsOutrunning
    <3>3. d + 1 < a.pkt.data
      BY <1>2, <1>4, <3>2, IdsOrdered
    <3>4. a.pkt.data > Len(delivered[n]) + 1
      BY <1>1, <1>2, <1>4, <3>3
    <3>5. \A x \in receiveQueue'[n] : Numbered(x, m)' /\ x.data > Len(delivered[n]) + 1
      BY <1>1, <1>3, <1>8, <2>0, <3>1, <3>4 DEF ReceiverInv
    <3> QED BY <1>1, <1>7, <2>0, <3>1, <3>5 DEF ReceiverInv
  <2>3. CASE DropProcessed(n, a)
    <3>1. UNCHANGED <<receiveExpectedId, receiveQueue, delivered>>
      BY <2>3 DEF DropProcessed, receiverVars, historyVars
    <3> QED BY <1>7, <1>8, <2>0, <3>1 DEF ReceiverInv
  <2> QED BY <1>6, <2>1, <2>2, <2>3
<1>12. ASSUME NEW x \in Nodes, x # n PROVE ReceiverInv(x)'
  <2>1. /\ receiveExpectedId'[x] = receiveExpectedId[x] /\ delivered'[x] = delivered[x]
        /\ receiveQueue'[x] = receiveQueue[x]
    BY <1>6, <1>12
    DEF AcceptExpected, SaveOutrunning, DropProcessed, receiverVars, historyVars,
        SessionInv, TypeInv, TypeOK
  <2>2. ReceiverInv(x)
    BY DEF SessionInv
  <2> QED BY <1>7, <1>8, <2>1, <2>2 DEF ReceiverInv
<1> QED BY <1>7, <1>9, <1>10, <1>11, <1>12 DEF SessionInv

LEMMA SessionLose ==
    ASSUME SessionInv, NEW n \in Nodes, Lose(n)
    PROVE  SessionInv'
<1>1. /\ TypeInv'
      /\ UNCHANGED <<sendId, sendQueue, writeQueue, receiveExpectedId, receiveQueue,
                     sent, delivered>>
  BY TypeLose DEF SessionInv, Lose, senderVars, receiverVars, historyVars
<1>2. \A p, x : Numbered(p, x)' <=> Numbered(p, x)
  BY <1>1 DEF Numbered
<1>3. /\ InFlight(wire'[n]) \subseteq InFlight(wire[n])
      /\ \A m \in Nodes \ {n} : wire'[m] = wire[m]
  <2>1. PICK w \in Losses(wire[n]) : wire' = [wire EXCEPT ![n] = w]
    BY DEF Lose
  <2>2. InFlight(w) \subseteq InFlight(wire[n])
    BY LossesSound DEF SessionInv, TypeInv, TypeOK
  <2> QED BY <2>1, <2>2 DEF SessionInv, TypeInv, TypeOK
<1>4. ASSUME NEW m \in Nodes PROVE SenderInv(m)' /\ WireInv(m)' /\ ReceiverInv(m)'
  <2>1. SenderInv(m) /\ WireInv(m) /\ ReceiverInv(m)
    BY DEF SessionInv
  <2>2. WireInv(m)'
    BY <1>2, <1>3, <2>1 DEF WireInv
  <2> QED BY <1>1, <1>2, <2>1, <2>2 DEF SenderInv, ReceiverInv
<1> QED BY <1>1, <1>4 DEF SessionInv

LEMMA SessionStep == SessionInv /\ AllWelcome /\ [SessionNext]_vars => SessionInv'
<1> SUFFICES ASSUME SessionInv, AllWelcome, [SessionNext]_vars PROVE SessionInv'
  OBVIOUS
<1>1. ASSUME NEW n \in Nodes, NEW a \in Arrivals(wire[n])
      PROVE  ~ReceiveReset(n, a) /\ ~ReceiveAckReset(n, a)
  <2>1. a.pkt \in InFlight(wire[n])
    BY ArrivalsSound DEF SessionInv, TypeInv, TypeOK
  <2> QED BY <2>1 DEF SessionInv, WireInv, ReceiveReset, ReceiveAckReset
<1>2. ASSUME NEW n \in Nodes, NEW a \in Arrivals(wire[n]), ReceiveData(n, a)
      PROVE  SessionInv'
  <2>1. a.pkt \in InFlight(wire[n])
    BY ArrivalsSound DEF SessionInv, TypeInv, TypeOK
  <2>2. Welcome(n, a.pkt)
    BY <1>2, <2>1 DEF AllWelcome, ReceiveData
  <2> QED BY <1>2, <2>2, SessionReceiveData
<1>4. ASSUME NEW n \in Nodes, Step(n) PROVE SessionInv'
  BY <1>1, <1>2, <1>4, SessionSendData, SessionResend, SessionReceiveAck, SessionLose
  DEF Step, Receive, ReceivePacket
<1>3. CASE UNCHANGED vars
  <2>1. UNCHANGED <<sendId, sendQueue, writeQueue, receiveExpectedId, receiveQueue, wire,
                    sent, delivered, faults>>
    BY <1>3 DEF vars, senderVars, receiverVars, historyVars
  <2>2. \A p, x : Numbered(p, x)' <=> Numbered(p, x)
    BY <2>1 DEF Numbered
  <2>3. TypeInv'
    BY <2>1 DEF SessionInv, TypeInv, TypeOK
  <2>4. ASSUME NEW m \in Nodes PROVE SenderInv(m)' /\ WireInv(m)' /\ ReceiverInv(m)'
    BY <2>1, <2>2 DEF SessionInv, SenderInv, WireInv, ReceiverInv
  <2> QED BY <2>3, <2>4 DEF SessionInv
<1> QED BY <1>3, <1>4 DEF SessionNext

-----------------------------------------------------------------------------
\* The abstract specification

\* A longer sequence that counts from 1 is a shorter one with the numbers in
\* between appended.
LEMMA CountingExtension ==
    ASSUME NEW P, NEW s \in Seq(P), NEW t \in Seq(P), Counts(s), Counts(t), Len(s) <= Len(t)
    PROVE  t = s \o [i \in 1 .. Len(t) - Len(s) |-> Len(s) + i]
<1>1. PICK gap, u : gap = Len(t) - Len(s) /\ u = [i \in 1 .. gap |-> Len(s) + i]
  OBVIOUS
<1>2. /\ Len(s) \in Nat /\ Len(t) \in Nat /\ gap \in Nat /\ Len(t) = Len(s) + gap
      /\ DOMAIN s = 1 .. Len(s) /\ DOMAIN t = 1 .. Len(t)
  BY <1>1, LenProperties
<1>3. s \in Seq(Nat) /\ t \in Seq(Nat)
  <2>1. \A i \in 1 .. Len(s) : s[i] \in Nat
    BY <1>2 DEF Counts
  <2>2. \A i \in 1 .. Len(t) : t[i] \in Nat
    BY <1>2 DEF Counts
  <2> QED BY <1>2, <2>1, <2>2, LenProperties
<1>4. u \in Seq(Nat) /\ Len(u) = gap /\ \A i \in 1 .. gap : u[i] = Len(s) + i
  BY <1>1, <1>2
<1>5. /\ s \o u \in Seq(Nat) /\ Len(s \o u) = Len(s) + Len(u)
      /\ \A k \in 1 .. Len(s) + Len(u) :
            (s \o u)[k] = IF k <= Len(s) THEN s[k] ELSE u[k - Len(s)]
  BY <1>3, <1>4, ConcatProperties
<1>6. Len(s \o u) = Len(t)
  BY <1>2, <1>4, <1>5
<1>7. ASSUME NEW k \in 1 .. Len(t) PROVE (s \o u)[k] = t[k]
  <2>1. t[k] = k /\ k \in 1 .. Len(s) + Len(u)
    BY <1>2, <1>4 DEF Counts
  <2>2. CASE k <= Len(s)
    <3>1. s[k] = k
      BY <1>2, <2>2 DEF Counts
    <3> QED BY <1>5, <2>1, <2>2, <3>1
  <2>3. CASE k > Len(s)
    <3>1. PICK i : i = k - Len(s)
      OBVIOUS
    <3>2. i \in 1 .. gap /\ Len(s) + i = k /\ ~(k <= Len(s))
      BY <1>2, <2>3, <3>1
    <3>3. (s \o u)[k] = u[k - Len(s)]
      BY <1>5, <2>1, <3>2
    <3> QED BY <1>4, <2>1, <3>1, <3>2, <3>3
  <2>4. k <= Len(s) \/ k > Len(s)
    BY <1>2
  <2> QED BY <2>2, <2>3, <2>4
<1>8. s \o u = t
  BY <1>3, <1>5, <1>6, <1>7, SeqEqual
<1> QED BY <1>1, <1>8

\* Every step of a session sends a payload, delivers the next
\* ones, or leaves the stream alone.
LEMMA StreamStep ==
    ASSUME SessionInv, SessionInv', [SessionNext]_vars
    PROVE  [Stream!Next]_(Stream!vars)
<1>1. ASSUME NEW n \in Nodes, SendData(n) PROVE Stream!Send(n)
  BY <1>1 DEF SendData, Stream!Send
<1>2. ASSUME NEW n \in Nodes, NEW a \in Arrivals(wire[n]), a.pkt.type = "DATA",
             AcceptExpected(n, a)
      PROVE  Stream!Deliver(n)
  <2>1. /\ ReceiverInv(n) /\ ReceiverInv(n)' /\ WireInv(n)
        /\ delivered \in [Nodes -> Seq(Payloads)]
        /\ delivered' \in [Nodes -> Seq(Payloads)] /\ Peer[n] \in Nodes
        /\ sent[Peer[n]] \in Nat /\ UNCHANGED sent
    BY <1>2, PeerFacts DEF SessionInv, TypeInv, TypeOK, AcceptExpected
  <2>2. a.pkt \in DataPackets /\ Numbered(a.pkt, Peer[n])
    <3>1. a.pkt \in InFlight(wire[n])
      BY ArrivalsSound DEF SessionInv, TypeInv, TypeOK
    <3>2. Numbered(a.pkt, Peer[n])
      BY <1>2, <2>1, <3>1 DEF WireInv
    <3> QED BY <3>2 DEF Numbered
  <2>3. Len(delivered[n]) + 1 <= Len(delivered'[n])
    BY <1>2, <2>2, SessionAcceptExpected
  <2>4. PICK s, t : s = delivered[n] /\ t = delivered'[n]
    OBVIOUS
  <2>5. /\ s \in Seq(Payloads) /\ t \in Seq(Payloads) /\ Counts(s) /\ Counts(t)
        /\ Len(s) + 1 <= Len(t) /\ Len(t) <= sent[Peer[n]]
    BY <2>1, <2>3, <2>4 DEF ReceiverInv, Counts
  <2>6. Len(s) \in Nat /\ Len(t) \in Nat
    BY <2>5, LenProperties
  <2>7. PICK count : count = Len(t) - Len(s)
    OBVIOUS
  <2>8. count \in 1 .. sent[Peer[n]] - Len(s)
    BY <2>1, <2>5, <2>6, <2>7
  <2>9. t = s \o [i \in 1 .. count |-> Len(s) + i]
    <3>1. Len(s) <= Len(t)
      BY <2>5, <2>6
    <3> QED BY <2>5, <2>7, <3>1, CountingExtension
  <2>10. delivered' = [delivered EXCEPT ![n] = t]
    <3>1. \E new : delivered' = [delivered EXCEPT ![n] = new]
      BY <1>2 DEF AcceptExpected
    <3> QED BY <2>1, <2>4, <3>1
  <2>11. delivered' = [delivered EXCEPT ![n] =
            delivered[n] \o [i \in 1 .. count |-> Len(delivered[n]) + i]]
    BY <2>4, <2>9, <2>10
  <2> QED BY <2>1, <2>4, <2>8, <2>11 DEF Stream!Deliver
<1>3. ASSUME NEW n \in Nodes, Step(n), ~SendData(n),
             ~ \E a \in Arrivals(wire[n]) : a.pkt.type = "DATA" /\ AcceptExpected(n, a)
      PROVE  UNCHANGED <<sent, delivered>>
  BY <1>3
  DEF Step, Resend, FlushWriteQueue, Lose, Receive, ReceivePacket, ReceiveAck,
      ReceiveUnknownAck, ReceiveData, RejectNotOpened, SaveOutrunning, RejectNewSession,
      DropProcessed, AckAndReset, ReceiveReset, ReceiveAckReset, historyVars
<1>4. ASSUME UNCHANGED vars PROVE UNCHANGED <<sent, delivered>>
  BY <1>4 DEF vars, historyVars
<1> QED BY <1>1, <1>2, <1>3, <1>4 DEF SessionNext, Stream!Next, Stream!vars

-----------------------------------------------------------------------------
(***************************************************************************)
(* What a session delivers                                                 *)
(***************************************************************************)

\* A session that is established, or one of new channels whose write queues are
\* emptied by acknowledgements only and in which a late copy of packet 0 is
\* tolerated or cannot come.
Orderly ==
    \/ StartId # 0
    \/ ~FlushesWriteQueue /\ (ZeroTolerance \/ Ordered)

\* An ACK on its way to n is for a payload the other end has.
AckInv(n) ==
    \A p \in InFlight(wire[n]) :
        p.type = "ACK" => \E k \in Received(Peer[n]) : p.id = IdOf(k)

KeptInv(n) ==
    ~FlushesWriteQueue => 1 .. sent[n] \subseteq Pending(n) \cup Received(Peer[n])

QueueInv(n) ==
    /\ Len(sendQueue[n]) <= NormalSSize
    /\ IsInjective(sendQueue[n]) /\ IsInjective(writeQueue[n])
    /\ ToSet(sendQueue[n]) \cap ToSet(writeQueue[n]) = {}

\* The packet that opens a session of new channels, and the others
IsOpening(p) == p.type = "DATA" /\ p.data = 1
IsLater(p) == p.type = "DATA" /\ p.data # 1

\* On an ordered path copies of the opening packet come first.
OpeningFirst(w) ==
    Ordered => \A i, j \in DOMAIN w : i < j /\ IsOpening(w[j]) => ~IsLater(w[i])

\* While the opening packet awaits its ACK it is alone, and the receiver has
\* at most this one; no later packet is sent before the receiver has it.
OpeningInv(n) ==
    LET path == wire[Peer[n]]
        got == Len(delivered[Peer[n]])
    IN  /\ \A p \in ToSet(writeQueue[n]) : ~IsOpening(p)
        /\ \A p \in ToSet(sendQueue[n]) : IsOpening(p) =>
              /\ Len(sendQueue[n]) = 1 /\ got <= 1
              /\ \A q \in InFlight(path) : ~IsLater(q)
        /\ \A q \in InFlight(path) : IsLater(q) => got >= 1
        /\ got = 0 => receiveQueue[Peer[n]] = {}
        /\ OpeningFirst(path)
        /\ Ordered /\ got >= 2 => \A q \in InFlight(path) : ~IsOpening(q)

DeliveryInv ==
    \A n \in Nodes :
        AckInv(n) /\ KeptInv(n) /\ QueueInv(n) /\ (StartId = 0 => OpeningInv(n))

-----------------------------------------------------------------------------
\* The order on a path: copies of the opening packet stay in front when packets
\* are sent that are no such copies, or when nothing later is on the path yet.

LEMMA PutOpeningFirst ==
    ASSUME NEW P, NEW w \in Wires(P), NEW out \in Seq(P), OpeningFirst(w),
           \/ \A p \in ToSet(out) : ~IsOpening(p)
           \/ \A p \in InFlight(w) \cup ToSet(out) : ~IsLater(p)
    PROVE  OpeningFirst(Put(w, out))
<1> SUFFICES ASSUME Ordered PROVE OpeningFirst(Put(w, out))
  BY DEF OpeningFirst
<1>1. w \in Seq(P) /\ InFlight(w) = ToSet(w)
  BY DEF Wires, InFlight
<1>2. /\ w \o out \in Seq(P) /\ DOMAIN (w \o out) = 1 .. Len(w) + Len(out)
      /\ Len(w) \in Nat /\ Len(out) \in Nat
      /\ DOMAIN w = 1 .. Len(w) /\ DOMAIN out = 1 .. Len(out)
      /\ \A k \in 1 .. Len(w) + Len(out) :
            (w \o out)[k] = IF k <= Len(w) THEN w[k] ELSE out[k - Len(w)]
  BY <1>1, ConcatProperties, LenProperties
<1>3. ASSUME NEW j \in 1 .. Len(w) + Len(out)
      PROVE  \/ j \in DOMAIN w /\ (w \o out)[j] = w[j]
             \/ j > Len(w) /\ (w \o out)[j] \in ToSet(out)
  <2>1. CASE j <= Len(w)
    BY <1>2, <2>1
  <2>2. CASE j > Len(w)
    <3>1. j - Len(w) \in DOMAIN out /\ ~(j <= Len(w))
      BY <1>2, <2>2
    <3> QED BY <1>2, <2>2, <3>1 DEF ToSet
  <2> QED BY <1>2, <2>1, <2>2
<1>4. ASSUME NEW i \in 1 .. Len(w) + Len(out), NEW j \in 1 .. Len(w) + Len(out),
             i < j, IsOpening((w \o out)[j])
      PROVE  ~IsLater((w \o out)[i])
  <2>1. CASE \A p \in ToSet(out) : ~IsOpening(p)
    <3>1. j \in DOMAIN w /\ (w \o out)[j] = w[j]
      BY <1>3, <1>4, <2>1
    <3>2. i \in DOMAIN w /\ (w \o out)[i] = w[i]
      BY <1>2, <1>4, <3>1
    <3> QED BY <1>4, <3>1, <3>2 DEF OpeningFirst
  <2>2. CASE \A p \in InFlight(w) \cup ToSet(out) : ~IsLater(p)
    <3>1. (w \o out)[i] \in InFlight(w) \cup ToSet(out)
      BY <1>1, <1>3 DEF ToSet
    <3> QED BY <2>2, <3>1
  <2> QED BY <2>1, <2>2
<1>5. CASE Len(w \o out) <= WireCap
  BY <1>2, <1>4, <1>5 DEF Put, OpeningFirst
<1>6. CASE ~(Len(w \o out) <= WireCap)
  <2>1. Len(w \o out) = Len(w) + Len(out) /\ WireCap \in Nat
    BY <1>2, LenProperties, WireAssumption
  <2>2. 1 \in 1 .. Len(w \o out) + 1 /\ WireCap \in 0 .. Len(w \o out)
    BY <1>2, <1>6, <2>1
  <2>3. /\ Len(SubSeq(w \o out, 1, WireCap)) = WireCap
        /\ \A k \in 1 .. WireCap : SubSeq(w \o out, 1, WireCap)[k] = (w \o out)[k]
        /\ DOMAIN SubSeq(w \o out, 1, WireCap) = 1 .. WireCap
    BY <1>2, <2>1, <2>2, SubSeqProperties
  <2>4. \A k \in 1 .. WireCap : k \in 1 .. Len(w) + Len(out)
    BY <1>2, <1>6, <2>1
  <2>5. PICK u : u = SubSeq(w \o out, 1, WireCap)
    OBVIOUS
  <2>6. OpeningFirst(u)
    <3>1. DOMAIN u = 1 .. WireCap /\ \A k \in 1 .. WireCap : u[k] = (w \o out)[k]
      BY <2>3, <2>5
    <3>2. ASSUME NEW i \in 1 .. WireCap, NEW j \in 1 .. WireCap, i < j, IsOpening(u[j])
          PROVE  ~IsLater(u[i])
      BY <1>4, <2>4, <3>1, <3>2
    <3> QED BY <3>1, <3>2 DEF OpeningFirst
  <2> QED BY <1>6, <2>5, <2>6 DEF Put
<1> QED BY <1>5, <1>6

LEMMA ArrivalOpeningFirst ==
    ASSUME NEW P, NEW w \in Wires(P), NEW a \in Arrivals(w), OpeningFirst(w)
    PROVE  /\ OpeningFirst(a.rest)
           /\ Ordered /\ IsLater(a.pkt) => \A p \in InFlight(a.rest) : ~IsOpening(p)
<1> SUFFICES ASSUME Ordered
             PROVE  /\ OpeningFirst(a.rest)
                    /\ IsLater(a.pkt) => \A p \in InFlight(a.rest) : ~IsOpening(p)
  BY DEF OpeningFirst
<1>1. w \in Seq(P) /\ w # <<>> /\ a = [pkt |-> Head(w), rest |-> Tail(w)]
  BY DEF Wires, Arrivals
<1>2. /\ Len(w) \in Nat /\ DOMAIN w = 1 .. Len(w) /\ Len(w) # 0 /\ Head(w) = w[1]
      /\ DOMAIN Tail(w) = 1 .. Len(w) - 1
      /\ \A i \in 1 .. Len(w) - 1 : Tail(w)[i] = w[i + 1]
  BY <1>1, HeadTailProperties, LenProperties, EmptySeq
<1>3. \A i \in 1 .. Len(w) - 1 : i + 1 \in DOMAIN w /\ 1 \in DOMAIN w /\ 1 < i + 1
  BY <1>2
<1>4. OpeningFirst(Tail(w))
  BY <1>2, <1>3 DEF OpeningFirst
<1>5. ASSUME IsLater(Head(w)), NEW i \in 1 .. Len(w) - 1 PROVE ~IsOpening(Tail(w)[i])
  BY <1>2, <1>3, <1>5 DEF OpeningFirst
<1> QED BY <1>1, <1>2, <1>4, <1>5 DEF InFlight, ToSet

LEMMA LossOpeningFirst ==
    ASSUME NEW P, NEW w \in Wires(P), NEW l \in Losses(w), OpeningFirst(w)
    PROVE  OpeningFirst(l)
<1> SUFFICES ASSUME Ordered PROVE OpeningFirst(l)
  BY DEF OpeningFirst
<1>1. PICK i \in DOMAIN w : w \in Seq(P) /\ l = RemoveAt(w, i)
  BY DEF Wires, Losses
<1>2. /\ DOMAIN l = 1 .. Len(w) - 1 /\ DOMAIN w = 1 .. Len(w) /\ Len(w) \in Nat
      /\ \A k \in 1 .. Len(w) - 1 : l[k] = IF k < i THEN w[k] ELSE w[k + 1]
  BY <1>1, RemoveAtPlaces, LenProperties
<1> DEFINE from(k) == IF k < i THEN k ELSE k + 1
<1>3. \A k \in 1 .. Len(w) - 1 : from(k) \in DOMAIN w /\ l[k] = w[from(k)]
  BY <1>2
<1>4. \A j, k \in 1 .. Len(w) - 1 : j < k => from(j) < from(k)
  BY <1>2
<1> HIDE DEF from
<1> QED BY <1>2, <1>3, <1>4 DEF OpeningFirst

-----------------------------------------------------------------------------
\* What the invariants say of the packets in the queues

LEMMA QueuedPackets ==
    ASSUME SessionInv, NEW n \in Nodes
    PROVE  /\ sendQueue[n] \in Seq(DataPackets) /\ writeQueue[n] \in Seq(DataPackets)
           /\ sent[n] \in Nat /\ sent[n] <= MaxData[n] /\ MaxData[n] \in Nat
           /\ \A p \in ToSet(sendQueue[n]) \cup ToSet(writeQueue[n]) :
                 /\ Numbered(p, n) /\ p \in DataPackets /\ p.type = "DATA"
                 /\ p.data \in 1 .. sent[n] /\ p.data \in 1 .. MaxData[n] + 1
                 /\ p.id = IdOf(p.data)
<1>1. /\ sendQueue[n] \in Seq(DataPackets) /\ writeQueue[n] \in Seq(DataPackets)
      /\ sent[n] \in Nat /\ sent[n] <= MaxData[n] /\ MaxData[n] \in Nat
  BY PeerFacts DEF SessionInv, TypeInv, TypeOK, SenderInv
<1>2. ASSUME NEW p \in ToSet(sendQueue[n]) \cup ToSet(writeQueue[n])
      PROVE  /\ Numbered(p, n) /\ p \in DataPackets /\ p.type = "DATA"
             /\ p.data \in 1 .. sent[n] /\ p.id = IdOf(p.data)
  BY DEF SessionInv, SenderInv, Numbered, DataPackets
<1> QED BY <1>1, <1>2

\* Packets of one end are told apart by their ids.
LEMMA SameIdSamePacket ==
    ASSUME SessionInv, NEW n \in Nodes, NEW p, NEW q, Numbered(p, n), Numbered(q, n),
           p.id = q.id
    PROVE  p = q /\ p.data = q.data
<1>1. /\ p \in DataPackets /\ q \in DataPackets
      /\ p.data \in 1 .. MaxData[n] + 1 /\ q.data \in 1 .. MaxData[n] + 1
      /\ p.id = IdOf(p.data) /\ q.id = IdOf(q.data)
  BY PeerFacts, SMTT(30) DEF Numbered, SessionInv, TypeInv, TypeOK, SenderInv
<1>2. p.data = q.data
  BY <1>1, IdsDistinct
<1> QED BY <1>1, <1>2 DEF DataPackets

\* In a session of new channels the opening packet is the one with id 0.
LEMMA OpeningId ==
    ASSUME StartId = 0, SessionInv, NEW n \in Nodes, NEW k \in 1 .. MaxData[n] + 1
    PROVE  IdOf(k) = 0 <=> k = 1
<1>1. IdOf(1) = 0
  BY PacketIdLimitAssumption DEF IdOf, IdAfter
<1>2. 1 \in 1 .. MaxData[n] + 1
  BY PeerFacts
<1> QED BY <1>1, <1>2, IdsDistinct

\* What was received was sent.
LEMMA ReceivedWasSent ==
    ASSUME SessionInv, NEW n \in Nodes, NEW k \in Received(Peer[n])
    PROVE  k \in 1 .. sent[n] /\ k \in 1 .. MaxData[n] + 1
<1>1. PICK m, d : m = Peer[n] /\ d = Len(delivered[m])
  OBVIOUS
<1>2. /\ m \in Nodes /\ Peer[m] = n /\ d \in Nat /\ d <= sent[n] /\ sent[n] \in Nat
      /\ sent[n] <= MaxData[n] /\ MaxData[n] \in Nat
      /\ delivered[m] \in Seq(Payloads) /\ DOMAIN delivered[m] = 1 .. d
      /\ \A i \in DOMAIN delivered[m] : delivered[m][i] = i
      /\ \A x \in receiveQueue[m] : x.data \in 1 .. sent[n]
  <2>1. m \in Nodes /\ n = Peer[m] /\ Peer[m] = n
    BY <1>1, PeerFacts
  <2>2. /\ d \in Nat /\ d <= sent[n] /\ sent[n] \in Nat
        /\ sent[n] <= MaxData[n] /\ MaxData[n] \in Nat
        /\ delivered[m] \in Seq(Payloads)
        /\ \A x \in receiveQueue[m] : x.data \in d + 2 .. sent[n]
    BY <1>1, <2>1, ReceiverFacts
  <2>3. DOMAIN delivered[m] = 1 .. d
    BY <1>1, <2>2, LenProperties
  <2>4. \A i \in DOMAIN delivered[m] : delivered[m][i] = i
    BY <2>1 DEF SessionInv, ReceiverInv
  <2>5. \A x \in receiveQueue[m] : x.data \in 1 .. sent[n]
    BY <2>2
  <2> QED BY <2>1, <2>2, <2>3, <2>4, <2>5
<1>3. k \in 1 .. d \/ k \in 1 .. sent[n]
  BY <1>1, <1>2 DEF Received, ToSet
<1> QED BY <1>2, <1>3

\* The first payload is received only by being delivered.
LEMMA ReceivedFirst ==
    ASSUME SessionInv, NEW m \in Nodes, 1 \in Received(m)
    PROVE  Len(delivered[m]) >= 1
<1>1. delivered[m] \in Seq(Payloads) /\ Len(delivered[m]) \in Nat
  BY LenProperties DEF SessionInv, TypeInv, TypeOK
<1>2. ASSUME NEW x \in receiveQueue[m] PROVE x.data # 1
  <2>1. x.data > Len(delivered[m]) + 1 /\ Numbered(x, Peer[m])
    BY DEF SessionInv, ReceiverInv
  <2>2. sent[Peer[m]] \in Nat /\ x.data \in 1 .. sent[Peer[m]]
    BY <2>1, PeerFacts DEF Numbered, SessionInv, TypeInv, TypeOK
  <2> QED BY <1>1, <2>1, <2>2
<1>3. 1 \in ToSet(delivered[m])
  BY <1>2 DEF Received
<1>4. \E k \in DOMAIN delivered[m] : TRUE
  BY <1>3 DEF ToSet
<1> QED BY <1>1, <1>4, LenProperties

\* Once something was sent and the opening packet does not await its ACK any
\* more, the other end has it.
LEMMA OpenedBefore ==
    ASSUME StartId = 0, ~FlushesWriteQueue, SessionInv, DeliveryInv, NEW n \in Nodes,
           sent[n] >= 1, \A p \in ToSet(sendQueue[n]) : ~IsOpening(p)
    PROVE  Len(delivered[Peer[n]]) >= 1
<1>1. 1 \in Pending(n) \cup Received(Peer[n])
  <2>1. 1 \in 1 .. sent[n]
    BY QueuedPackets
  <2> QED BY <2>1 DEF DeliveryInv, KeptInv
<1>2. 1 \notin Pending(n)
  <2>1. \A p \in ToSet(sendQueue[n]) \cup ToSet(writeQueue[n]) : ~IsOpening(p)
    BY DEF DeliveryInv, OpeningInv
  <2> QED BY <2>1, QueuedPackets DEF IsOpening, Pending
<1>3. Peer[n] \in Nodes /\ 1 \in Received(Peer[n])
  BY <1>1, <1>2, PeerFacts
<1> QED BY <1>3, ReceivedFirst

-----------------------------------------------------------------------------
LEMMA DeliveryInit == Init => DeliveryInv
<1> SUFFICES ASSUME Init, NEW n \in Nodes
             PROVE  AckInv(n) /\ KeptInv(n) /\ QueueInv(n) /\ OpeningInv(n)
  BY DEF DeliveryInv
<1>1. ToSet(<<>>) = {} /\ InFlight(EmptyWire) = {} /\ Len(<<>>) = 0 /\ DOMAIN <<>> = {}
  BY EmptyWireSound DEF ToSet
<1>2. Peer[n] \in Nodes /\ NormalSSize \in Nat
  BY PeerFacts, ChannelAssumption
<1>3. AckInv(n) /\ KeptInv(n) /\ QueueInv(n)
  BY <1>1, <1>2 DEF Init, AckInv, KeptInv, QueueInv, IsInjective
<1>4. OpeningInv(n)
  BY <1>1, <1>2 DEF Init, OpeningInv, OpeningFirst, EmptyWire
<1> QED BY <1>3, <1>4

-----------------------------------------------------------------------------
\* How a step changes the paths

LEMMA PathOrders ==
    ASSUME StartId = 0, DeliveryInv, NEW m \in Nodes
    PROVE  OpeningFirst(wire[m])
<1>1. Peer[m] \in Nodes /\ Peer[Peer[m]] = m
  BY PeerFacts
<1>2. OpeningInv(Peer[m])
  BY <1>1 DEF DeliveryInv
<1> QED BY <1>1, <1>2 DEF OpeningInv

\* out may be put on the path towards m
MayPut(m, out) ==
    \/ \A p \in ToSet(out) : ~IsOpening(p)
    \/ \A p \in InFlight(wire[m]) \cup ToSet(out) : ~IsLater(p)

LEMMA TransmitOrder ==
    ASSUME StartId = 0, SessionInv, DeliveryInv, NEW n \in Nodes, NEW out \in Seq(Packets),
           Transmit(n, out), MayPut(Peer[n], out)
    PROVE  \A m \in Nodes : OpeningFirst(wire'[m])
<1>1. Peer[n] \in Nodes /\ wire \in [Nodes -> Wires(Packets)]
  BY PeerFacts DEF SessionInv, TypeInv, TypeOK
<1>2. \A m \in Nodes : OpeningFirst(wire[m]) /\ wire[m] \in Wires(Packets)
  BY <1>1, PathOrders
<1>3. OpeningFirst(Put(wire[Peer[n]], out))
  BY <1>1, <1>2, PutOpeningFirst DEF MayPut
<1> QED BY <1>1, <1>2, <1>3 DEF Transmit

LEMMA AnswerOrder ==
    ASSUME StartId = 0, SessionInv, DeliveryInv, NEW n \in Nodes,
           NEW a \in Arrivals(wire[n]), NEW out \in Seq(Packets),
           Answer(n, a, out), MayPut(Peer[n], out)
    PROVE  \A m \in Nodes : OpeningFirst(wire'[m])
<1>1. Peer[n] \in Nodes /\ Peer[n] # n /\ wire \in [Nodes -> Wires(Packets)]
  BY PeerFacts DEF SessionInv, TypeInv, TypeOK
<1>2. \A m \in Nodes : OpeningFirst(wire[m]) /\ wire[m] \in Wires(Packets)
  BY <1>1, PathOrders
<1>3. OpeningFirst(Put(wire[Peer[n]], out))
  BY <1>1, <1>2, PutOpeningFirst DEF MayPut
<1>4. OpeningFirst(a.rest)
  BY <1>2, ArrivalOpeningFirst
<1> QED BY <1>1, <1>2, <1>3, <1>4 DEF Answer

LEMMA LoseOrder ==
    ASSUME StartId = 0, SessionInv, DeliveryInv, NEW n \in Nodes, Lose(n)
    PROVE  \A m \in Nodes : OpeningFirst(wire'[m])
<1>1. PICK w \in Losses(wire[n]) : wire' = [wire EXCEPT ![n] = w]
  BY DEF Lose
<1>2. wire \in [Nodes -> Wires(Packets)]
  BY DEF SessionInv, TypeInv, TypeOK
<1>3. \A m \in Nodes : OpeningFirst(wire[m]) /\ wire[m] \in Wires(Packets)
  BY <1>2, PathOrders
<1>4. OpeningFirst(w)
  BY <1>3, LossOpeningFirst
<1> QED BY <1>1, <1>2, <1>3, <1>4

\* A step at other queues than those of n that puts no DATA on the path
LEMMA OpeningFrame ==
    ASSUME NEW n \in Nodes, OpeningInv(n),
           sendQueue'[n] = sendQueue[n], writeQueue'[n] = writeQueue[n],
           delivered'[Peer[n]] = delivered[Peer[n]],
           receiveQueue'[Peer[n]] = receiveQueue[Peer[n]],
           OpeningFirst(wire'[Peer[n]]),
           \A q \in InFlight(wire'[Peer[n]]) :
              q.type = "DATA" => q \in InFlight(wire[Peer[n]])
    PROVE  OpeningInv(n)'
BY DEF OpeningInv, IsOpening, IsLater, OpeningFirst

\* A step of the sender n concerns no other sender.
LEMMA OpeningOthers ==
    ASSUME StartId = 0, DeliveryInv, NEW n \in Nodes, OpeningInv(n)',
           UNCHANGED <<delivered, receiveQueue>>,
           \A m \in Nodes \ {n} : /\ sendQueue'[m] = sendQueue[m]
                                  /\ writeQueue'[m] = writeQueue[m],
           \A m \in Nodes : OpeningFirst(wire'[m]),
           \A m \in Nodes \ {Peer[n]} : \A q \in InFlight(wire'[m]) :
              q.type = "DATA" => q \in InFlight(wire[m])
    PROVE  \A m \in Nodes : OpeningInv(m)'
<1> SUFFICES ASSUME NEW m \in Nodes, m # n PROVE OpeningInv(m)'
  OBVIOUS
<1>1. Peer[m] \in Nodes /\ Peer[m] # Peer[n]
  BY PeerFacts
<1>2. OpeningInv(m)
  BY DEF DeliveryInv
<1> QED BY <1>1, <1>2, OpeningFrame

LEMMA QueueFrame ==
    ASSUME NEW n \in Nodes, QueueInv(n), KeptInv(n), sent'[n] = sent[n],
           sendQueue'[n] = sendQueue[n], writeQueue'[n] = writeQueue[n],
           Received(Peer[n]) \subseteq Received(Peer[n])'
    PROVE  QueueInv(n)' /\ KeptInv(n)'
BY DEF QueueInv, KeptInv, Pending

\* A step that puts no ACK on a path
LEMMA AckFrame ==
    ASSUME NEW n \in Nodes, AckInv(n), Received(Peer[n]) \subseteq Received(Peer[n])',
           \A q \in InFlight(wire'[n]) : q.type = "ACK" => q \in InFlight(wire[n])
    PROVE  AckInv(n)'
BY DEF AckInv

-----------------------------------------------------------------------------
\* The sender

\* The window opens for a packet only when the opening packet does not await
\* its ACK.
LEMMA GateHoldsLater ==
    ASSUME StartId = 0, SessionInv, DeliveryInv, NEW n \in Nodes, SendNow(sendQueue[n])
    PROVE  \A p \in ToSet(sendQueue[n]) : ~IsOpening(p)
<1> SUFFICES ASSUME NEW p \in ToSet(sendQueue[n]), IsOpening(p) PROVE FALSE
  OBVIOUS
<1>1. Len(sendQueue[n]) = 1
  BY DEF DeliveryInv, OpeningInv
<1>2. p = sendQueue[n][1]
  BY <1>1, QueuedPackets, LenProperties DEF ToSet
<1>3. p.id = IdOf(1) /\ MaxData[n] \in Nat
  BY QueuedPackets DEF IsOpening
<1>4. 1 \in 1 .. MaxData[n] + 1
  BY <1>3
<1>5. p.id = 0
  BY <1>3, <1>4, OpeningId
<1> QED BY <1>1, <1>2, <1>5 DEF SendNow

LEMMA DeliverySendData ==
    ASSUME Orderly, SessionInv, DeliveryInv, NEW n \in Nodes, SendData(n)
    PROVE  DeliveryInv'
<1>p. PICK p : p = DataPacket(sendId[n], sent[n] + 1)
  OBVIOUS
<1>r. PICK r : r = SendPacket(sendQueue[n], writeQueue[n], p)
  OBVIOUS
<1>0. /\ sendQueue \in [Nodes -> Seq(DataPackets)] /\ writeQueue \in [Nodes -> Seq(DataPackets)]
      /\ sent \in [Nodes -> Nat] /\ sendId[n] = IdOf(sent[n] + 1) /\ sendId[n] \in PacketIds
      /\ sent[n] < MaxData[n] /\ MaxData[n] \in Nat /\ wire \in [Nodes -> Wires(Packets)]
  BY PeerFacts DEF SessionInv, TypeInv, TypeOK, SenderInv, SendData
<1>1. /\ sent' = [sent EXCEPT ![n] = sent[n] + 1]
      /\ sendQueue' = [sendQueue EXCEPT ![n] = r.sq]
      /\ writeQueue' = [writeQueue EXCEPT ![n] = r.wq]
      /\ Transmit(n, r.out)
      /\ UNCHANGED <<receiveExpectedId, receiveQueue, delivered>>
  BY <1>p, <1>r DEF SendData, receiverVars
<1>2. p \in DataPackets /\ p.type = "DATA" /\ p.data = sent[n] + 1
  <2>1. sent[n] + 1 \in 1 .. MaxData[n]
    BY <1>0
  <2>2. sent[n] + 1 \in Payloads
    BY <2>1 DEF Payloads
  <2> QED BY <1>0, <1>p, <2>2 DEF DataPackets, DataPacket
<1>3. /\ r.out \in Seq(Packets) /\ ToSet(r.out) \subseteq {p}
      /\ \/ /\ SendNow(sendQueue[n])
            /\ r.sq = Append(sendQueue[n], p) /\ r.wq = writeQueue[n]
         \/ /\ ~SendNow(sendQueue[n])
            /\ r.sq = sendQueue[n] /\ r.wq = Append(writeQueue[n], p) /\ r.out = <<>>
  <2>1. p \in DataPackets /\ sendQueue[n] \in Seq(DataPackets) /\ writeQueue[n] \in Seq(DataPackets)
    BY <1>0, <1>2
  <2>2. r.sq \in Seq(DataPackets) /\ r.wq \in Seq(DataPackets) /\ r.out \in Seq(Packets)
    BY <1>r, <2>1, SendPacketSound
  <2>4. ToSet(r.out) \subseteq {p}
    BY <1>r DEF SendPacket, ToSet
  <2>3. \/ /\ SendNow(sendQueue[n])
           /\ r.sq = Append(sendQueue[n], p) /\ r.wq = writeQueue[n]
        \/ /\ ~SendNow(sendQueue[n])
           /\ r.sq = sendQueue[n] /\ r.wq = Append(writeQueue[n], p) /\ r.out = <<>>
    BY <1>r DEF SendPacket
  <2> QED BY <2>2, <2>3, <2>4
<1>4. /\ p \notin ToSet(sendQueue[n]) \cup ToSet(writeQueue[n])
      /\ ToSet(Append(sendQueue[n], p)) = ToSet(sendQueue[n]) \cup {p}
      /\ ToSet(Append(writeQueue[n], p)) = ToSet(writeQueue[n]) \cup {p}
  <2>1. \A x \in ToSet(sendQueue[n]) \cup ToSet(writeQueue[n]) : x.data \in 1 .. sent[n]
    BY QueuedPackets
  <2>2. sent[n] + 1 \notin 1 .. sent[n]
    BY <1>0
  <2> QED BY <1>0, <1>2, <2>1, <2>2, AppendElements
<1>5. /\ sendQueue'[n] = r.sq /\ writeQueue'[n] = r.wq /\ sent'[n] = sent[n] + 1
      /\ \A m \in Nodes \ {n} : /\ sendQueue'[m] = sendQueue[m]
                                /\ writeQueue'[m] = writeQueue[m] /\ sent'[m] = sent[m]
      /\ \A m : Received(m)' = Received(m)
  BY <1>0, <1>1 DEF Received
<1>6. QueueInv(n)'
  <2>1. QueueInv(n)
    BY DEF DeliveryInv
  <2>2. CASE SendNow(sendQueue[n])
    <3>1. Len(Append(sendQueue[n], p)) <= NormalSSize
      <4>1. Len(sendQueue[n]) < NormalSSize /\ Len(sendQueue[n]) \in Nat
        BY <1>0, <2>2, LenProperties DEF SendNow
      <4>2. Len(Append(sendQueue[n], p)) = Len(sendQueue[n]) + 1 /\ NormalSSize \in Nat
        BY <1>0, <1>2, AppendProperties, ChannelAssumption
      <4> QED BY <4>1, <4>2
    <3>2. IsInjective(Append(sendQueue[n], p))
      BY <1>0, <1>2, <1>4, <2>1, InjectiveAppend DEF QueueInv
    <3> QED BY <1>3, <1>4, <1>5, <2>1, <2>2, <3>1, <3>2 DEF QueueInv
  <2>3. CASE ~SendNow(sendQueue[n])
    <3>1. IsInjective(Append(writeQueue[n], p))
      BY <1>0, <1>2, <1>4, <2>1, InjectiveAppend DEF QueueInv
    <3> QED BY <1>3, <1>4, <1>5, <2>1, <2>3, <3>1 DEF QueueInv
  <2> QED BY <2>2, <2>3
<1>7. KeptInv(n)'
  <2> SUFFICES ASSUME ~FlushesWriteQueue, NEW k \in 1 .. sent'[n]
               PROVE  k \in Pending(n)' \cup Received(Peer[n])
    BY <1>5 DEF KeptInv
  <2>1. ToSet(sendQueue'[n]) \cup ToSet(writeQueue'[n])
          = ToSet(sendQueue[n]) \cup ToSet(writeQueue[n]) \cup {p}
    BY <1>3, <1>4, <1>5
  <2>2. k \in 1 .. sent[n] \/ k = p.data
    BY <1>0, <1>2, <1>5
  <2> QED BY <2>1, <2>2 DEF DeliveryInv, KeptInv, Pending
<1>8. ASSUME NEW m \in Nodes PROVE AckInv(m)'
  <2>1. \A q \in InFlight(wire'[m]) : q.type = "ACK" => q \in InFlight(wire[m])
    BY <1>0, <1>1, <1>2, <1>3, TransmitSound
  <2> QED BY <1>5, <2>1, AckFrame DEF DeliveryInv
<1>9. ASSUME StartId = 0, NEW m \in Nodes, m # n, OpeningFirst(wire'[Peer[m]])
      PROVE  OpeningInv(m)'
  <2>1. Peer[m] \in Nodes /\ Peer[m] # Peer[n]
    BY <1>9, PeerFacts
  <2>2. wire'[Peer[m]] = wire[Peer[m]]
    BY <1>0, <1>1, <1>3, <2>1, TransmitSound
  <2> QED BY <1>1, <1>5, <1>9, <2>1, <2>2, OpeningFrame DEF DeliveryInv
<1>10. ASSUME StartId = 0 PROVE \A m \in Nodes : OpeningInv(m)'
  <2>1. PICK m, got : m = Peer[n] /\ got = Len(delivered[m])
    OBVIOUS
  <2>2. /\ m \in Nodes /\ Peer[m] = n /\ got \in Nat /\ got <= sent[n]
        /\ OpeningInv(n) /\ ~FlushesWriteQueue
    BY <1>10, <2>1, PeerFacts, LenProperties
    DEF SessionInv, TypeInv, TypeOK, ReceiverInv, DeliveryInv, Orderly
  <2>3. /\ InFlight(wire'[m]) \subseteq InFlight(wire[m]) \cup ToSet(r.out)
        /\ \A q \in InFlight(wire[m]) : q.type = "DATA" => q.data \in 1 .. sent[n]
    <3>1. WireInv(m)
      BY <2>2 DEF SessionInv
    <3> QED BY <1>0, <1>1, <1>3, <2>1, <2>2, <3>1, TransmitSound DEF WireInv, Numbered
  <2>4. CASE sent[n] = 0
    <3>1. ToSet(sendQueue[n]) = {} /\ ToSet(writeQueue[n]) = {}
      <4>1. \A x \in ToSet(sendQueue[n]) \cup ToSet(writeQueue[n]) : x.data \in 1 .. sent[n]
        BY QueuedPackets
      <4> QED BY <2>4, <4>1
    <3>2. \A q \in InFlight(wire[m]) : q.type # "DATA"
      BY <2>3, <2>4
    <3>3. got = 0
      BY <2>2, <2>4
    <3>4. sendQueue[n] = <<>>
      BY <1>0, <3>1, HeadElement
    <3>5. SendNow(sendQueue[n]) /\ Len(Append(sendQueue[n], p)) = 1
      <4>1. Len(sendQueue[n]) = 0 /\ NormalSSize \in Nat \ {0}
        BY <3>4, ChannelAssumption
      <4>2. Len(Append(sendQueue[n], p)) = Len(sendQueue[n]) + 1
        BY <1>0, <1>2, AppendProperties
      <4> QED BY <4>1, <4>2 DEF SendNow
    <3>6. ~IsLater(p)
      BY <1>2, <2>4 DEF IsLater
    <3>7. \A q \in InFlight(wire[m]) \cup ToSet(r.out) : ~IsLater(q)
      BY <1>3, <3>2, <3>6 DEF IsLater
    <3>8. \A x \in Nodes : OpeningFirst(wire'[x])
      BY <1>1, <1>3, <1>10, <2>1, <3>7, TransmitOrder DEF MayPut
    <3>9. OpeningInv(n)'
      <4>1. Len(sendQueue'[n]) = 1 /\ ToSet(writeQueue'[n]) = {}
        BY <1>3, <1>5, <3>1, <3>5
      <4>2. receiveQueue'[m] = {} /\ Len(delivered'[m]) = 0
        BY <1>1, <2>1, <2>2, <3>3 DEF OpeningInv
      <4> QED BY <2>1, <2>2, <2>3, <3>7, <3>8, <4>1, <4>2 DEF OpeningInv
    <3> QED BY <1>9, <1>10, <2>2, <3>8, <3>9, PeerFacts
  <2>5. CASE sent[n] # 0
    <3>1. ~IsOpening(p) /\ sent[n] >= 1
      BY <1>0, <1>2, <2>5 DEF IsOpening
    <3>2. MayPut(Peer[n], r.out)
      BY <1>3, <3>1 DEF MayPut
    <3>3. \A x \in Nodes : OpeningFirst(wire'[x])
      BY <1>1, <1>3, <1>10, <3>2, TransmitOrder
    <3>4. SendNow(sendQueue[n]) =>
             got >= 1 /\ \A q \in ToSet(sendQueue[n]) : ~IsOpening(q)
      BY <1>10, <2>1, <2>2, <3>1, GateHoldsLater, OpenedBefore
    <3>5. OpeningInv(n)'
      <4>1. CASE SendNow(sendQueue[n])
        <5>1. /\ \A q \in ToSet(sendQueue'[n]) : ~IsOpening(q)
              /\ writeQueue'[n] = writeQueue[n]
          BY <1>3, <1>4, <1>5, <3>1, <3>4, <4>1
        <5>2. delivered'[m] = delivered[m] /\ receiveQueue'[m] = receiveQueue[m] /\ got >= 1
          BY <1>1, <3>4, <4>1
        <5>3. Ordered /\ got >= 2 => \A q \in InFlight(wire'[m]) : ~IsOpening(q)
          BY <1>3, <2>1, <2>2, <2>3, <3>1 DEF OpeningInv
        <5> QED BY <2>1, <2>2, <3>3, <5>1, <5>2, <5>3 DEF OpeningInv
      <4>2. CASE ~SendNow(sendQueue[n])
        <5>1. /\ sendQueue'[n] = sendQueue[n] /\ ToSet(r.out) = {}
              /\ \A q \in ToSet(writeQueue'[n]) : ~IsOpening(q)
          BY <1>3, <1>4, <1>5, <2>2, <3>1, <4>2, SMTT(30) DEF OpeningInv, ToSet
        <5>2. InFlight(wire'[m]) \subseteq InFlight(wire[m])
          BY <2>3, <5>1
        <5>3. delivered'[m] = delivered[m] /\ receiveQueue'[m] = receiveQueue[m]
          BY <1>1
        <5> QED BY <2>1, <2>2, <3>3, <5>1, <5>2, <5>3 DEF OpeningInv
      <4> QED BY <4>1, <4>2
    <3> QED BY <1>9, <1>10, <2>2, <3>3, <3>5, PeerFacts
  <2> QED BY <2>4, <2>5
<1>11. ASSUME NEW m \in Nodes PROVE QueueInv(m)' /\ KeptInv(m)'
  BY <1>5, <1>6, <1>7, QueueFrame DEF DeliveryInv
<1> QED BY <1>8, <1>10, <1>11 DEF DeliveryInv

\* A later packet of the send queue is sent again only after the opening one
\* was acknowledged.
LEMMA DeliveryResend ==
    ASSUME Orderly, SessionInv, DeliveryInv, NEW n \in Nodes, Resend(n)
    PROVE  DeliveryInv'
<1>0. /\ sendQueue[n] \in Seq(DataPackets) /\ sendQueue[n] # <<>>
      /\ wire \in [Nodes -> Wires(Packets)]
      /\ UNCHANGED <<sendQueue, writeQueue, receiveQueue, sent, delivered>>
      /\ \A m : Received(m)' = Received(m)
  BY DEF SessionInv, TypeInv, TypeOK, Resend, senderVars, receiverVars, historyVars, Received
<1>1. PICK h : h = Head(sendQueue[n])
  OBVIOUS
<1>2. h \in ToSet(sendQueue[n]) /\ Transmit(n, <<h>>)
  BY <1>0, <1>1, HeadElement DEF Resend
<1>3. h \in DataPackets /\ h.type = "DATA" /\ h.data \in 1 .. sent[n] /\ sent[n] \in Nat
  BY <1>2, QueuedPackets
<1>4. <<h>> \in Seq(Packets) /\ ToSet(<<h>>) = {h}
  BY <1>3 DEF ToSet, Packets
<1>5. ASSUME NEW m \in Nodes PROVE AckInv(m)' /\ QueueInv(m)' /\ KeptInv(m)'
  <2>1. \A q \in InFlight(wire'[m]) : q.type = "ACK" => q \in InFlight(wire[m])
    BY <1>0, <1>2, <1>3, <1>4, TransmitSound
  <2> QED BY <1>0, <2>1, AckFrame, QueueFrame DEF DeliveryInv
<1>6. ASSUME StartId = 0 PROVE \A m \in Nodes : OpeningInv(m)'
  <2>1. PICK m, got : m = Peer[n] /\ got = Len(delivered[m])
    OBVIOUS
  <2>2. /\ m \in Nodes /\ Peer[m] = n /\ got \in Nat
        /\ OpeningInv(n) /\ ~FlushesWriteQueue
    BY <1>6, <2>1, PeerFacts, LenProperties
    DEF SessionInv, TypeInv, TypeOK, DeliveryInv, Orderly
  <2>3. /\ InFlight(wire'[m]) \subseteq InFlight(wire[m]) \cup {h}
        /\ \A x \in Nodes \ {m} : wire'[x] = wire[x]
    BY <1>0, <1>2, <1>4, <2>1, TransmitSound
  <2>4. CASE IsOpening(h)
    <3>1. /\ Len(sendQueue[n]) = 1 /\ got <= 1 /\ ~IsLater(h)
          /\ \A q \in InFlight(wire[m]) : ~IsLater(q)
      BY <1>2, <2>1, <2>2, <2>4 DEF OpeningInv, IsOpening, IsLater
    <3>2. \A x \in Nodes : OpeningFirst(wire'[x])
      BY <1>2, <1>4, <1>6, <2>1, <3>1, TransmitOrder DEF MayPut
    <3>3. ~(got >= 2) /\ \A q \in InFlight(wire'[m]) : ~IsLater(q)
      BY <2>2, <2>3, <3>1
    <3>4. OpeningInv(n)'
      BY <1>0, <2>1, <2>2, <3>1, <3>2, <3>3 DEF OpeningInv
    <3> QED BY <1>0, <1>6, <2>1, <2>3, <3>2, <3>4, OpeningOthers
  <2>5. CASE ~IsOpening(h)
    <3>1. \A q \in ToSet(sendQueue[n]) : ~IsOpening(q)
      <4> SUFFICES ASSUME NEW q \in ToSet(sendQueue[n]), IsOpening(q) PROVE FALSE
        OBVIOUS
      <4>1. Len(sendQueue[n]) = 1
        BY <2>2 DEF OpeningInv
      <4>2. DOMAIN sendQueue[n] = {1}
        BY <1>0, <4>1, LenProperties
      <4> QED BY <1>2, <2>5, <4>2 DEF ToSet
    <3>2. got >= 1
      BY <1>3, <1>6, <2>1, <2>2, <3>1, OpenedBefore
    <3>3. \A x \in Nodes : OpeningFirst(wire'[x])
      BY <1>2, <1>4, <1>6, <2>5, TransmitOrder DEF MayPut
    <3>4. Ordered /\ got >= 2 => \A q \in InFlight(wire'[m]) : ~IsOpening(q)
      BY <2>1, <2>2, <2>3, <2>5 DEF OpeningInv
    <3>5. OpeningInv(n)'
      BY <1>0, <2>1, <2>2, <3>1, <3>2, <3>3, <3>4 DEF OpeningInv
    <3> QED BY <1>0, <1>6, <2>1, <2>3, <3>3, <3>5, OpeningOthers
  <2> QED BY <2>4, <2>5
<1> QED BY <1>5, <1>6 DEF DeliveryInv

\* Only an established session may have its write queue flushed.
LEMMA DeliveryFlush ==
    ASSUME Orderly, SessionInv, DeliveryInv, NEW n \in Nodes, FlushWriteQueue(n)
    PROVE  DeliveryInv'
<1>0. /\ writeQueue \in [Nodes -> Seq(DataPackets)] /\ writeQueue[n] # <<>>
      /\ wire \in [Nodes -> Wires(Packets)] /\ FlushesWriteQueue /\ StartId # 0
      /\ writeQueue' = [writeQueue EXCEPT ![n] = Tail(writeQueue[n])]
      /\ UNCHANGED <<sendQueue, receiveQueue, sent, delivered>>
      /\ \A m : Received(m)' = Received(m)
  BY DEF SessionInv, TypeInv, TypeOK, FlushWriteQueue, receiverVars, historyVars, Received,
         Orderly
<1>1. PICK h : h = Head(writeQueue[n])
  OBVIOUS
<1>2. h \in ToSet(writeQueue[n]) /\ Transmit(n, <<h>>)
  BY <1>0, <1>1, HeadElement DEF FlushWriteQueue
<1>3. h \in DataPackets /\ h.type = "DATA"
  BY <1>2, QueuedPackets
<1>4. <<h>> \in Seq(Packets) /\ ToSet(<<h>>) = {h}
  BY <1>3 DEF ToSet, Packets
<1>5. ASSUME NEW m \in Nodes PROVE AckInv(m)'
  <2>1. \A q \in InFlight(wire'[m]) : q.type = "ACK" => q \in InFlight(wire[m])
    BY <1>0, <1>2, <1>3, <1>4, TransmitSound
  <2> QED BY <1>0, <2>1, AckFrame DEF DeliveryInv
<1>6. /\ IsInjective(Tail(writeQueue[n]))
      /\ ToSet(Tail(writeQueue[n])) \subseteq ToSet(writeQueue[n])
  BY <1>0, InjectiveTail, TailElements DEF DeliveryInv, QueueInv
<1>7. ASSUME NEW m \in Nodes PROVE QueueInv(m)'
  BY <1>0, <1>6 DEF DeliveryInv, QueueInv
<1>8. ASSUME NEW m \in Nodes PROVE KeptInv(m)'
  BY <1>0 DEF KeptInv
<1> QED BY <1>0, <1>5, <1>7, <1>8 DEF DeliveryInv

LEMMA DeliveryLose ==
    ASSUME SessionInv, DeliveryInv, NEW n \in Nodes, Lose(n)
    PROVE  DeliveryInv'
<1>1. /\ UNCHANGED <<sendQueue, writeQueue, receiveQueue, sent, delivered>>
      /\ \A m : Received(m)' = Received(m)
  BY DEF Lose, senderVars, receiverVars, historyVars, Received
<1>2. \A m \in Nodes : InFlight(wire'[m]) \subseteq InFlight(wire[m])
  BY LossesSound DEF Lose, SessionInv, TypeInv, TypeOK
<1>3. ASSUME NEW m \in Nodes PROVE AckInv(m)' /\ QueueInv(m)' /\ KeptInv(m)'
  BY <1>1, <1>2, AckFrame, QueueFrame DEF DeliveryInv
<1>4. ASSUME StartId = 0, NEW m \in Nodes PROVE OpeningInv(m)'
  <2>1. Peer[m] \in Nodes
    BY PeerFacts
  <2> QED BY <1>1, <1>2, <1>4, <2>1, LoseOrder, OpeningFrame DEF DeliveryInv
<1> QED BY <1>3, <1>4 DEF DeliveryInv

-----------------------------------------------------------------------------
\* Acknowledgements

\* What is acknowledged was received: the id of an ACK is that of one packet of
\* this session only.
LEMMA AcknowledgedIsReceived ==
    ASSUME SessionInv, DeliveryInv, NEW n \in Nodes, NEW a \in Arrivals(wire[n]),
           a.pkt.type = "ACK", NEW x \in ToSet(sendQueue[n]), x.id = a.pkt.id
    PROVE  x.data \in Received(Peer[n])
<1>1. a.pkt \in InFlight(wire[n])
  BY ArrivalsSound DEF SessionInv, TypeInv, TypeOK
<1>2. PICK k \in Received(Peer[n]) : a.pkt.id = IdOf(k)
  BY <1>1 DEF DeliveryInv, AckInv
<1>3. x.data \in 1 .. MaxData[n] + 1 /\ x.id = IdOf(x.data)
  BY QueuedPackets
<1>4. k \in 1 .. MaxData[n] + 1
  BY <1>2, ReceivedWasSent
<1> QED BY <1>2, <1>3, <1>4, IdsDistinct

\* The acknowledged packet leaves the send queue and there is room for the one
\* that waited longest: it is sent, none goes back to the write queue.
LEMMA RefillFits ==
    ASSUME SessionInv, DeliveryInv, NEW n \in Nodes, NEW i \in DOMAIN sendQueue[n]
    PROVE  SendNow(RemoveAt(sendQueue[n], i))
<1>1. PICK rest : rest = RemoveAt(sendQueue[n], i)
  OBVIOUS
<1>2. /\ rest \in Seq(DataPackets) /\ Len(rest) = Len(sendQueue[n]) - 1
      /\ ToSet(rest) \subseteq ToSet(sendQueue[n])
      /\ Len(sendQueue[n]) \in Nat /\ Len(sendQueue[n]) <= NormalSSize /\ NormalSSize \in Nat
  BY <1>1, QueuedPackets, RemoveAtElements, LenProperties, ChannelAssumption
  DEF DeliveryInv, QueueInv
<1>3. Len(rest) < NormalSSize
  BY <1>2
<1>4. ASSUME Len(rest) = 1, rest[1].id = 0 PROVE FALSE
  <2>1. rest[1] \in ToSet(rest)
    BY <1>2, <1>4, LenProperties DEF ToSet
  <2>2. /\ rest[1] \in ToSet(sendQueue[n]) /\ rest[1].type = "DATA"
        /\ rest[1].data \in 1 .. MaxData[n] + 1 /\ IdOf(rest[1].data) = 0
    BY <1>2, <1>4, <2>1, QueuedPackets
  <2>3. StartId = 0
    BY <2>2, NextIdOf
  <2>4. IsOpening(rest[1])
    BY <2>2, <2>3, OpeningId DEF IsOpening
  <2>5. Len(sendQueue[n]) = 1
    BY <2>2, <2>3, <2>4 DEF DeliveryInv, OpeningInv
  <2> QED BY <1>2, <1>4, <2>5
<1> QED BY <1>1, <1>3, <1>4 DEF SendNow

LEMMA DeliveryReceiveAck ==
    ASSUME Orderly, SessionInv, DeliveryInv, NEW n \in Nodes, NEW a \in Arrivals(wire[n]),
           ReceiveAck(n, a)
    PROVE  DeliveryInv'
<1>0. /\ sendQueue \in [Nodes -> Seq(DataPackets)] /\ writeQueue \in [Nodes -> Seq(DataPackets)]
      /\ wire \in [Nodes -> Wires(Packets)] /\ a.pkt.type = "ACK"
      /\ UNCHANGED <<receiveQueue, sent, delivered>>
      /\ \A m : Received(m)' = Received(m)
  BY DEF SessionInv, TypeInv, TypeOK, ReceiveAck, receiverVars, historyVars, Received
<1>1. PICK i \in DOMAIN sendQueue[n] :
        /\ sendQueue[n][i].id = a.pkt.id
        /\ LET rest == RemoveAt(sendQueue[n], i)
           IN  IF writeQueue[n] = <<>>
               THEN /\ sendQueue' = [sendQueue EXCEPT ![n] = rest]
                    /\ UNCHANGED writeQueue
                    /\ Answer(n, a, <<>>)
               ELSE LET r == SendPacket(rest, writeQueue[n], Head(writeQueue[n]))
                    IN  /\ sendQueue' = [sendQueue EXCEPT ![n] = r.sq]
                        /\ writeQueue' = [writeQueue EXCEPT ![n] = Tail(r.wq)]
                        /\ Answer(n, a, r.out)
  BY DEF ReceiveAck
<1>2. PICK rest, x : rest = RemoveAt(sendQueue[n], i) /\ x = sendQueue[n][i]
  OBVIOUS
<1>3. x \in ToSet(sendQueue[n]) /\ x.data \in Received(Peer[n])
  BY <1>0, <1>1, <1>2, AcknowledgedIsReceived DEF ToSet
<1>4. /\ rest \in Seq(DataPackets) /\ ToSet(rest) \subseteq ToSet(sendQueue[n])
      /\ ToSet(sendQueue[n]) \subseteq ToSet(rest) \cup {x}
      /\ Len(rest) = Len(sendQueue[n]) - 1 /\ Len(sendQueue[n]) \in Nat
  BY <1>0, <1>2, RemoveAtElements, LenProperties
<1>5. SendNow(rest)
  BY <1>2, RefillFits
<1>6. QueueInv(n) /\ IsInjective(rest)
  BY <1>0, <1>2, InjectiveRemoveAt DEF DeliveryInv, QueueInv
\* The queues and the path afterwards
<1>7. PICK out \in Seq(Packets) :
        /\ Answer(n, a, out) /\ ToSet(out) \subseteq ToSet(writeQueue[n])
        /\ ToSet(sendQueue'[n]) \subseteq ToSet(rest) \cup ToSet(out)
        /\ ToSet(writeQueue'[n]) \subseteq ToSet(writeQueue[n])
        /\ ToSet(rest) \cup ToSet(writeQueue[n])
             \subseteq ToSet(sendQueue'[n]) \cup ToSet(writeQueue'[n])
        /\ QueueInv(n)'
        /\ \A m \in Nodes \ {n} :
              sendQueue'[m] = sendQueue[m] /\ writeQueue'[m] = writeQueue[m]
  <2>1. CASE writeQueue[n] = <<>>
    <3>1. /\ sendQueue' = [sendQueue EXCEPT ![n] = rest]
          /\ UNCHANGED writeQueue /\ Answer(n, a, <<>>)
      BY <1>1, <1>2, <2>1
    <3>2. <<>> \in Seq(Packets) /\ ToSet(<<>>) = {}
      BY EmptySeq DEF ToSet
    <3>3. Len(rest) <= NormalSSize
      BY <1>4, <1>6, ChannelAssumption DEF QueueInv
    <3>4. QueueInv(n)'
      BY <1>0, <1>4, <1>6, <3>1, <3>3 DEF QueueInv
    <3> QED BY <1>0, <3>1, <3>2, <3>4
  <2>2. CASE writeQueue[n] # <<>>
    <3>1. PICK h, tail : h = Head(writeQueue[n]) /\ tail = Tail(writeQueue[n])
      OBVIOUS
    <3>2. h \in DataPackets /\ h \in ToSet(writeQueue[n]) /\ tail \in Seq(DataPackets)
      BY <1>0, <2>2, <3>1, HeadElement, HeadTailProperties
    <3>3. SendPacket(rest, writeQueue[n], h)
            = [sq |-> Append(rest, h), wq |-> writeQueue[n], out |-> <<h>>]
      BY <1>5 DEF SendPacket
    <3>4. /\ sendQueue' = [sendQueue EXCEPT ![n] = Append(rest, h)]
          /\ writeQueue' = [writeQueue EXCEPT ![n] = tail]
          /\ Answer(n, a, <<h>>)
      BY <1>1, <1>2, <2>2, <3>1, <3>3
    <3>5. <<h>> \in Seq(Packets) /\ ToSet(<<h>>) = {h}
      BY <3>2 DEF ToSet, Packets
    <3>6. /\ ToSet(Append(rest, h)) = ToSet(rest) \cup {h}
          /\ ToSet(tail) \subseteq ToSet(writeQueue[n])
          /\ ToSet(writeQueue[n]) \subseteq ToSet(tail) \cup {h}
      BY <1>0, <1>4, <2>2, <3>1, <3>2, AppendElements, TailElements, HeadAndTail
    <3>7. h \notin ToSet(rest) /\ h \notin ToSet(tail) /\ IsInjective(tail)
      BY <1>0, <1>4, <1>6, <2>2, <3>1, <3>2, InjectiveTail DEF QueueInv
    <3>8. IsInjective(Append(rest, h)) /\ Len(Append(rest, h)) <= NormalSSize
      <4>1. Len(Append(rest, h)) = Len(rest) + 1
        BY <1>4, <3>2, AppendProperties
      <4>2. Len(rest) + 1 <= NormalSSize
        BY <1>4, <1>6 DEF QueueInv
      <4> QED BY <1>4, <1>6, <3>2, <3>7, <4>1, <4>2, InjectiveAppend
    <3>9. sendQueue'[n] = Append(rest, h) /\ writeQueue'[n] = tail
      BY <1>0, <3>4
    <3>10. ToSet(Append(rest, h)) \cap ToSet(tail) = {}
      BY <1>4, <1>6, <3>6, <3>7 DEF QueueInv
    <3>11. QueueInv(n)'
      BY <3>7, <3>8, <3>9, <3>10 DEF QueueInv
    <3>12. \A m \in Nodes \ {n} :
              sendQueue'[m] = sendQueue[m] /\ writeQueue'[m] = writeQueue[m]
      BY <1>0, <3>4
    <3> QED BY <3>2, <3>4, <3>5, <3>6, <3>9, <3>11, <3>12
  <2> QED BY <2>1, <2>2
<1>8. \A p \in ToSet(out) : p.type = "DATA" /\ p.data \in 1 .. sent[n]
  BY <1>7, QueuedPackets
<1>9. /\ InFlight(wire'[Peer[n]]) \subseteq InFlight(wire[Peer[n]]) \cup ToSet(out)
      /\ InFlight(wire'[n]) \subseteq InFlight(wire[n])
      /\ \A m \in Nodes \ {n, Peer[n]} : wire'[m] = wire[m]
  BY <1>0, <1>7, AnswerSound
<1>10. ASSUME NEW m \in Nodes PROVE AckInv(m)'
  <2>1. \A q \in InFlight(wire'[m]) : q.type = "ACK" => q \in InFlight(wire[m])
    BY <1>8, <1>9
  <2> QED BY <1>0, <2>1, AckFrame DEF DeliveryInv
<1>11. KeptInv(n)'
  <2> SUFFICES ASSUME ~FlushesWriteQueue, NEW k \in 1 .. sent[n]
               PROVE  k \in Pending(n)' \cup Received(Peer[n])
    BY <1>0 DEF KeptInv
  <2>1. CASE k \in Received(Peer[n])
    BY <2>1
  <2>2. CASE k \notin Received(Peer[n])
    <3>1. PICK p \in ToSet(sendQueue[n]) \cup ToSet(writeQueue[n]) : k = p.data
      BY <2>2 DEF DeliveryInv, KeptInv, Pending
    <3>2. p # x
      BY <1>3, <2>2, <3>1
    <3> QED BY <1>4, <1>7, <3>1, <3>2 DEF Pending
  <2> QED BY <2>1, <2>2
<1>12. ASSUME NEW m \in Nodes PROVE QueueInv(m)' /\ KeptInv(m)'
  BY <1>0, <1>7, <1>11, QueueFrame DEF DeliveryInv
<1>13. ASSUME StartId = 0 PROVE \A m \in Nodes : OpeningInv(m)'
  <2>1. PICK m, got : m = Peer[n] /\ got = Len(delivered[m])
    OBVIOUS
  <2>2. /\ m \in Nodes /\ m # n /\ Peer[m] = n /\ got \in Nat
        /\ OpeningInv(n) /\ ~FlushesWriteQueue
    BY <1>13, <2>1, PeerFacts, LenProperties
    DEF SessionInv, TypeInv, TypeOK, DeliveryInv, Orderly
  <2>3. \A p \in ToSet(out) \cup ToSet(writeQueue'[n]) : ~IsOpening(p)
    BY <1>7, <2>2 DEF OpeningInv
  <2>4. \A p \in ToSet(sendQueue'[n]) : ~IsOpening(p)
    <3> SUFFICES ASSUME NEW p \in ToSet(rest), IsOpening(p) PROVE FALSE
      BY <1>7, <2>3
    <3>1. Len(sendQueue[n]) = 1
      BY <1>4, <2>2 DEF OpeningInv
    <3>2. Len(rest) = 0
      BY <1>4, <3>1
    <3> QED BY <1>4, <3>2, LenProperties DEF ToSet
  <2>5. ToSet(out) # {} => got >= 1
    <3> SUFFICES ASSUME ToSet(out) # {} PROVE got >= 1
      OBVIOUS
    <3>1. CASE IsOpening(x)
      <4>1. 1 \in Received(m)
        BY <1>3, <2>1, <3>1 DEF IsOpening
      <4> QED BY <2>1, <2>2, <4>1, ReceivedFirst
    <3>2. CASE ~IsOpening(x)
      <4>1. \A p \in ToSet(sendQueue[n]) : ~IsOpening(p)
        <5> SUFFICES ASSUME NEW p \in ToSet(sendQueue[n]), IsOpening(p) PROVE FALSE
          OBVIOUS
        <5>1. Len(sendQueue[n]) = 1
          BY <2>2 DEF OpeningInv
        <5>2. DOMAIN sendQueue[n] = {1}
          BY <1>0, <5>1, LenProperties
        <5> QED BY <1>3, <3>2, <5>2 DEF ToSet
      <4>2. sent[n] >= 1
        BY <1>8, QueuedPackets
      <4> QED BY <1>13, <2>1, <2>2, <4>1, <4>2, OpenedBefore
    <3> QED BY <3>1, <3>2
  <2>6. \A y \in Nodes : OpeningFirst(wire'[y])
    BY <1>7, <1>13, <2>3, AnswerOrder DEF MayPut
  <2>7. \A q \in InFlight(wire'[m]) : IsLater(q) => got >= 1
    BY <1>9, <2>1, <2>2, <2>5 DEF OpeningInv
  <2>8. Ordered /\ got >= 2 => \A q \in InFlight(wire'[m]) : ~IsOpening(q)
    BY <1>9, <2>1, <2>2, <2>3 DEF OpeningInv
  <2>9. OpeningInv(n)'
    BY <1>0, <2>1, <2>2, <2>3, <2>4, <2>6, <2>7, <2>8 DEF OpeningInv
  <2>10. \A y \in Nodes \ {m} : InFlight(wire'[y]) \subseteq InFlight(wire[y])
    BY <1>9, <2>1
  <2> QED BY <1>0, <1>7, <1>13, <2>1, <2>6, <2>9, <2>10, OpeningOthers
<1> QED BY <1>10, <1>12, <1>13 DEF DeliveryInv

LEMMA DeliveryUnknownAck ==
    ASSUME SessionInv, DeliveryInv, NEW n \in Nodes, NEW a \in Arrivals(wire[n]),
           ReceiveUnknownAck(n, a)
    PROVE  DeliveryInv'
<1>1. /\ UNCHANGED <<sendQueue, writeQueue, receiveQueue, sent, delivered>>
      /\ \A m : Received(m)' = Received(m)
      /\ Answer(n, a, <<>>)
  BY DEF ReceiveUnknownAck, senderVars, receiverVars, historyVars, Received
<1>2. <<>> \in Seq(Packets) /\ ToSet(<<>>) = {}
  BY EmptySeq DEF ToSet
<1>3. \A m \in Nodes : InFlight(wire'[m]) \subseteq InFlight(wire[m])
  BY <1>1, <1>2, AnswerSound DEF SessionInv, TypeInv, TypeOK
<1>4. ASSUME NEW m \in Nodes PROVE AckInv(m)' /\ QueueInv(m)' /\ KeptInv(m)'
  BY <1>1, <1>3, AckFrame, QueueFrame DEF DeliveryInv
<1>5. ASSUME StartId = 0, NEW m \in Nodes PROVE OpeningInv(m)'
  <2>1. Peer[m] \in Nodes
    BY PeerFacts
  <2>2. OpeningFirst(wire'[Peer[m]])
    BY <1>1, <1>2, <1>5, <2>1, AnswerOrder DEF MayPut
  <2> QED BY <1>1, <1>3, <1>5, <2>1, <2>2, OpeningFrame DEF DeliveryInv
<1> QED BY <1>4, <1>5 DEF DeliveryInv

-----------------------------------------------------------------------------
\* The receiver

\* The expected packet is the next payload; nothing that was received before
\* is left out when the drain loop takes saved packets.
LEMMA AcceptReceives ==
    ASSUME SessionInv, NEW n \in Nodes, NEW a \in Arrivals(wire[n]), a.pkt \in DataPackets,
           Numbered(a.pkt, Peer[n]), AcceptExpected(n, a)
    PROVE  /\ a.pkt.data = Len(delivered[n]) + 1
           /\ Received(n) \cup {a.pkt.data} \subseteq Received(n)'
           /\ Received(n)' \subseteq Received(n) \cup {a.pkt.data}
           /\ receiveQueue'[n] \subseteq receiveQueue[n]
           /\ receiveQueue[n] = {} => Len(delivered'[n]) = Len(delivered[n]) + 1
<1>1. PICK m, d : m = Peer[n] /\ d = Len(delivered[n])
  OBVIOUS
<1>2. /\ m \in Nodes /\ d \in Nat /\ sent[m] \in Nat /\ MaxData[m] \in Nat
      /\ d <= sent[m] /\ sent[m] <= MaxData[m] /\ delivered[n] \in Seq(Payloads)
      /\ receiveExpectedId[n] = IdOf(d + 1)
      /\ IsFiniteSet(receiveQueue[n])
      /\ \A x \in receiveQueue[n] : x \in DataPackets
  BY <1>1, ReceiverFacts
<1>3. a.pkt.data = d + 1 /\ a.pkt.data \in Payloads
  <2>1. a.pkt.data \in 1 .. sent[m] /\ a.pkt.id = IdOf(a.pkt.data)
    BY <1>1 DEF Numbered
  <2>2. a.pkt.id = IdOf(d + 1)
    BY <1>2 DEF AcceptExpected, IsExpected
  <2>3. a.pkt.data \in 1 .. MaxData[m] + 1 /\ d + 1 \in 1 .. MaxData[m] + 1
    BY <1>2, <2>1, SMTT(30)
  <2>4. a.pkt.data = d + 1
    BY <1>2, <2>1, <2>2, <2>3, IdsDistinct
  <2> QED BY <2>4 DEF DataPackets
<1>4. PICK next : next = GetNextSeqId(receiveExpectedId[n])
  OBVIOUS
<1>5. PICK count \in 0 .. Cardinality(receiveQueue[n]) :
        /\ DrainsTo(receiveQueue[n], next, count)
        /\ receiveQueue' = [receiveQueue EXCEPT ![n] =
              @ \ Range([i \in 1 .. count |-> Saved(receiveQueue[n], next, i)])]
        /\ delivered' = [delivered EXCEPT ![n] =
              @ \o <<a.pkt.data>>
                \o [i \in 1 .. count |->
                     [j \in 1 .. count |-> Saved(receiveQueue[n], next, j)][i].data]]
  BY <1>4 DEF AcceptExpected
<1>6. count \in Nat
  BY <1>2, FS_CardinalityType
<1>7. \A i \in 1 .. count : Saved(receiveQueue[n], next, i) \in receiveQueue[n]
  BY <1>5, <1>6, DrainedPackets
<1>8. PICK t : t = [i \in 1 .. count |->
                      [j \in 1 .. count |-> Saved(receiveQueue[n], next, j)][i].data]
  OBVIOUS
<1>9. \A i \in 1 .. count : t[i] = Saved(receiveQueue[n], next, i).data /\ t[i] \in Payloads
  BY <1>2, <1>7, <1>8 DEF DataPackets
<1>10. t \in Seq(Payloads) /\ DOMAIN t = 1 .. count /\ Len(t) = count
  <2>1. t = [i \in 1 .. count |-> t[i]]
    BY <1>8
  <2>2. t \in Seq(Payloads) /\ DOMAIN t = 1 .. count
    BY <1>6, <1>9, <2>1
  <2> QED BY <1>6, <2>2, LenProperties
<1>11. /\ delivered'[n] = delivered[n] \o <<a.pkt.data>> \o t
       /\ receiveQueue'[n] = receiveQueue[n]
              \ Range([i \in 1 .. count |-> Saved(receiveQueue[n], next, i)])
  BY <1>5, <1>8 DEF SessionInv, TypeInv, TypeOK
<1>12. PICK u, e, v : u = delivered[n] /\ e = a.pkt.data /\ v = u \o <<e>>
  OBVIOUS
<1>13. /\ u \in Seq(Payloads) /\ e \in Payloads /\ <<e>> \in Seq(Payloads)
       /\ ToSet(<<e>>) = {e} /\ Len(<<e>>) = 1
  BY <1>2, <1>3, <1>12 DEF ToSet
<1>14. v \in Seq(Payloads) /\ ToSet(v) = ToSet(u) \cup {e} /\ Len(v) = Len(u) + 1
  <2>1. /\ u \o <<e>> \in Seq(Payloads) /\ Len(u \o <<e>>) = Len(u) + Len(<<e>>)
        /\ ToSet(u \o <<e>>) = ToSet(u) \cup ToSet(<<e>>)
    BY <1>13, ConcatGives, ZenonT(30)
  <2> QED BY <1>12, <1>13, <2>1
<1>15. ToSet(v \o t) = ToSet(v) \cup ToSet(t) /\ Len(v \o t) = Len(v) + Len(t)
  BY <1>10, <1>14, ConcatGives
<1>16. delivered'[n] = v \o t
  BY <1>11, <1>12
<1>17. ASSUME NEW x \in receiveQueue[n] PROVE x.data \in Received(n)'
  <2>1. CASE x \in receiveQueue'[n]
    BY <2>1 DEF Received
  <2>2. CASE x \notin receiveQueue'[n]
    <3>1. PICK i \in 1 .. count : x = Saved(receiveQueue[n], next, i)
      BY <1>11, <2>2 DEF Range
    <3>2. x.data \in ToSet(t)
      BY <1>9, <1>10, <3>1 DEF ToSet
    <3> QED BY <1>15, <1>16, <3>2 DEF Received
  <2> QED BY <2>1, <2>2
<1>18. Received(n) \cup {a.pkt.data} \subseteq Received(n)'
  <2>1. ToSet(delivered[n]) \cup {e} \subseteq ToSet(delivered'[n])
    BY <1>12, <1>14, <1>15, <1>16
  <2>2. ToSet(delivered'[n]) \subseteq Received(n)'
    BY DEF Received
  <2>3. \A k \in Received(n) : k \in ToSet(delivered[n]) \/ \E x \in receiveQueue[n] : k = x.data
    BY DEF Received
  <2> QED BY <1>12, <1>17, <2>1, <2>2, <2>3
<1>19. ASSUME receiveQueue[n] = {} PROVE Len(delivered'[n]) = d + 1
  <2>1. count = 0
    BY <1>5, <1>19, FS_EmptySet
  <2> QED BY <1>1, <1>2, <1>10, <1>12, <1>14, <1>15, <1>16, <2>1
<1>20. Received(n)' \subseteq Received(n) \cup {a.pkt.data}
  <2>1. ASSUME NEW k \in ToSet(t) PROVE k \in Received(n)
    <3>1. PICK i \in 1 .. count : k = t[i]
      BY <1>10 DEF ToSet
    <3>2. Saved(receiveQueue[n], next, i) \in receiveQueue[n]
      BY <1>7
    <3> QED BY <1>9, <3>1, <3>2 DEF Received
  <2>2. ToSet(delivered'[n]) \subseteq ToSet(delivered[n]) \cup {e} \cup ToSet(t)
    BY <1>12, <1>14, <1>15, <1>16
  <2>3. \A x \in receiveQueue'[n] : x.data \in Received(n)
    BY <1>11 DEF Received
  <2>4. ToSet(delivered[n]) \subseteq Received(n)
    BY DEF Received
  <2>5. \A k \in Received(n)' : k \in ToSet(delivered'[n]) \/ \E x \in receiveQueue'[n] : k = x.data
    BY DEF Received
  <2> QED BY <1>12, <2>1, <2>2, <2>3, <2>4, <2>5
<1> QED BY <1>1, <1>3, <1>11, <1>18, <1>19, <1>20

\* A packet that is neither expected nor saved was received before.
LEMMA DropReceives ==
    ASSUME SessionInv, NEW n \in Nodes, NEW a \in Arrivals(wire[n]),
           Numbered(a.pkt, Peer[n]), ~IsExpected(n, a.pkt), ~IsOutrunning(n, a.pkt)
    PROVE  a.pkt.data \in Received(n)
<1>1. PICK m, d, k : m = Peer[n] /\ d = Len(delivered[n]) /\ k = a.pkt.data
  OBVIOUS
<1>2. /\ m \in Nodes /\ d \in Nat /\ sent[m] \in Nat /\ MaxData[m] \in Nat
      /\ d <= sent[m] /\ sent[m] <= MaxData[m] /\ delivered[n] \in Seq(Payloads)
      /\ receiveExpectedId[n] = IdOf(d + 1)
      /\ \A x \in receiveQueue[n] : x.data \in d + 2 .. sent[m] /\ x.id = IdOf(x.data)
  BY <1>1, ReceiverFacts
<1>3. k \in 1 .. sent[m] /\ a.pkt.id = IdOf(k)
  BY <1>1 DEF Numbered
<1>4. k \in 1 .. MaxData[m] + 1 /\ d + 1 \in 1 .. MaxData[m] + 1
  BY <1>2, <1>3
<1>5. CASE k <= d
  <2>1. k \in DOMAIN delivered[n] /\ delivered[n][k] = k
    BY <1>1, <1>2, <1>3, <1>5, LenProperties DEF SessionInv, ReceiverInv
  <2> QED BY <1>1, <2>1 DEF Received, ToSet
<1>6. CASE k > d
  <2>1. k # d + 1
    BY <1>1, <1>2, <1>3 DEF IsExpected
  <2>2. d + 1 < k
    BY <1>2, <1>4, <1>6, <2>1
  <2>3. GetSeqIdDistance(IdOf(d + 1), IdOf(k)) > 0
    BY <1>2, <1>4, <2>2, IdsOrdered
  <2>4. PICK x \in receiveQueue[n] : x.id = IdOf(k)
    BY <1>2, <1>3, <2>3 DEF IsOutrunning, Ids
  <2>5. x.data \in 1 .. MaxData[m] + 1 /\ x.id = IdOf(x.data)
    BY <1>2, <2>4
  <2>6. x.data = k
    BY <1>2, <1>4, <2>4, <2>5, IdsDistinct
  <2> QED BY <1>1, <2>6 DEF Received
<1> QED BY <1>2, <1>4, <1>5, <1>6

\* No packet in flight makes its receiver reset: packets later than the opening
\* one are on the path only when the session was opened, and a late copy of the
\* opening packet is tolerated or cannot come behind the second packet.
LEMMA DeliveryWelcomes == Orderly /\ SessionInv /\ DeliveryInv => AllWelcome
<1> SUFFICES ASSUME Orderly, SessionInv, DeliveryInv, NEW m \in Nodes,
                    NEW p \in InFlight(wire[m]), p.type = "DATA"
             PROVE  Welcome(m, p)
  BY DEF AllWelcome
<1>1. PICK n, d, k : n = Peer[m] /\ d = Len(delivered[m]) /\ k = p.data
  OBVIOUS
<1>2. /\ n \in Nodes /\ Peer[n] = m /\ d \in Nat /\ sent[n] \in Nat /\ MaxData[n] \in Nat
      /\ d <= sent[n] /\ sent[n] <= MaxData[n] /\ receiveExpectedId[m] = IdOf(d + 1)
  BY <1>1, ReceiverFacts, PeerFacts
<1>3. k \in 1 .. sent[n] /\ p.id = IdOf(k)
  BY <1>1 DEF SessionInv, WireInv, Numbered
<1>4. k \in 1 .. MaxData[n] + 1 /\ d + 1 \in 1 .. MaxData[n] + 1
  BY <1>2, <1>3
<1>5. CASE StartId # 0
  <2>1. p.id # 0 /\ receiveExpectedId[m] # 0
    BY <1>2, <1>3, <1>4, <1>5, NextIdOf
  <2> QED BY <2>1 DEF Welcome, NotOpened, IsNewSession
<1>6. CASE StartId = 0
  <2>1. OpeningInv(n) /\ (ZeroTolerance \/ Ordered)
    BY <1>2, <1>6 DEF DeliveryInv, Orderly
  <2>2. (p.id = 0 <=> k = 1) /\ (receiveExpectedId[m] = 0 <=> d = 0)
    <3>1. d + 1 = 1 <=> d = 0
      BY <1>2
    <3> QED BY <1>2, <1>3, <1>4, <1>6, <3>1, OpeningId
  <2>3. ~NotOpened(m, p)
    <3> SUFFICES ASSUME d = 0, k # 1 PROVE FALSE
      BY <2>2 DEF NotOpened
    <3>1. IsLater(p)
      BY <1>1 DEF IsLater
    <3> QED BY <1>1, <1>2, <2>1, <3>1 DEF OpeningInv
  <2>4. IsNewSession(m, p) => IsExpected(m, p)
    <3> SUFFICES ASSUME k = 1, ~ZeroTolerance, receiveExpectedId[m] # 1, d # 0 PROVE FALSE
      BY <1>2, <2>2, <1>3 DEF IsNewSession, IsExpected
    <3>1. IsOpening(p)
      BY <1>1 DEF IsOpening
    <3>2. ~(d >= 2)
      BY <1>1, <1>2, <2>1, <3>1 DEF OpeningInv
    <3>3. d = 1
      BY <1>2, <3>2
    <3>4. IdOf(2) = 1
      BY <1>6, PacketIdLimitAssumption DEF IdOf, IdAfter
    <3> QED BY <1>2, <3>3, <3>4
  <2> QED BY <2>3, <2>4 DEF Welcome
<1> QED BY <1>5, <1>6

LEMMA DeliveryReceiveData ==
    ASSUME Orderly, SessionInv, DeliveryInv, NEW m \in Nodes, NEW a \in Arrivals(wire[m]),
           ReceiveData(m, a)
    PROVE  DeliveryInv'
<1>1. PICK n, d, k : n = Peer[m] /\ d = Len(delivered[m]) /\ k = a.pkt.data
  OBVIOUS
<1>2. /\ n \in Nodes /\ n # m /\ Peer[n] = m /\ d \in Nat /\ sent[n] \in Nat
      /\ MaxData[n] \in Nat /\ d <= sent[n] /\ sent[n] <= MaxData[n]
      /\ receiveExpectedId[m] = IdOf(d + 1)
  BY <1>1, ReceiverFacts, PeerFacts
<1>3. /\ a.pkt \in Packets /\ a.pkt \in InFlight(wire[m]) /\ a.pkt.type = "DATA"
      /\ a.pkt \in DataPackets /\ Numbered(a.pkt, n)
  <2>1. a.pkt \in Packets /\ a.pkt \in InFlight(wire[m]) /\ a.pkt.type = "DATA"
    BY ArrivalsSound DEF SessionInv, TypeInv, TypeOK, ReceiveData
  <2>2. Numbered(a.pkt, n)
    BY <1>1, <2>1 DEF SessionInv, WireInv
  <2> QED BY <2>1, <2>2 DEF Numbered
<1>4. k \in 1 .. sent[n] /\ a.pkt.id = IdOf(k) /\ k \in 1 .. MaxData[n] + 1
      /\ d + 1 \in 1 .. MaxData[n] + 1
  <2>1. k \in 1 .. sent[n] /\ a.pkt.id = IdOf(k)
    BY <1>1, <1>3 DEF Numbered
  <2> QED BY <1>2, <2>1
<1>5. \/ AcceptExpected(m, a)
      \/ SaveOutrunning(m, a)
      \/ DropProcessed(m, a)
  <2>1. Welcome(m, a.pkt)
    BY <1>3, DeliveryWelcomes DEF AllWelcome
  <2> QED BY <2>1 DEF ReceiveData, RejectNotOpened, RejectNewSession, Welcome
<1>6. /\ UNCHANGED <<sendQueue, writeQueue, sent>>
      /\ Answer(m, a, <<AckPacket(a.pkt)>>)
      /\ \A x \in Nodes \ {m} :
            delivered'[x] = delivered[x] /\ receiveQueue'[x] = receiveQueue[x]
  BY <1>5
  DEF AcceptExpected, SaveOutrunning, DropProcessed, senderVars, receiverVars, historyVars,
      SessionInv, TypeInv, TypeOK
<1>7. /\ <<AckPacket(a.pkt)>> \in Seq(Packets)
      /\ ToSet(<<AckPacket(a.pkt)>>) = {AckPacket(a.pkt)}
      /\ AckPacket(a.pkt).type = "ACK" /\ AckPacket(a.pkt).id = IdOf(k)
  <2>1. 0 \in PacketIds
    BY PacketIdLimitAssumption DEF PacketIds
  <2> QED BY <1>3, <1>4, <2>1, AnswersAreSeqs DEF ToSet, AckPacket
<1>8. /\ InFlight(wire'[n]) \subseteq InFlight(wire[n]) \cup {AckPacket(a.pkt)}
      /\ InFlight(wire'[m]) \subseteq InFlight(wire[m])
      /\ \A x \in Nodes \ {n, m} : wire'[x] = wire[x]
      /\ wire'[m] = a.rest
  <2>1. wire \in [Nodes -> Wires(Packets)]
    BY DEF SessionInv, TypeInv, TypeOK
  <2>2. wire'[m] = a.rest
    BY <1>1, <1>2, <1>6, <2>1 DEF Answer
  <2> QED BY <1>1, <1>6, <1>7, <2>1, <2>2, AnswerSound
\* What m has afterwards
<1>9. /\ Received(m) \cup {k} \subseteq Received(m)'
      /\ \/ /\ k = d + 1 /\ receiveQueue'[m] \subseteq receiveQueue[m]
            /\ Len(delivered'[m]) \in Nat /\ Len(delivered'[m]) >= d + 1
            /\ receiveQueue[m] = {} => Len(delivered'[m]) = d + 1
         \/ /\ k > d + 1 /\ delivered'[m] = delivered[m]
            /\ receiveQueue'[m] = receiveQueue[m] \cup {a.pkt}
         \/ delivered'[m] = delivered[m] /\ receiveQueue'[m] = receiveQueue[m]
  <2>1. CASE AcceptExpected(m, a)
    <3>1. /\ Received(m) \cup {k} \subseteq Received(m)' /\ k = d + 1
          /\ receiveQueue'[m] \subseteq receiveQueue[m]
          /\ receiveQueue[m] = {} => Len(delivered'[m]) = d + 1
      BY <1>1, <1>3, <2>1, AcceptReceives
    <3>2. d + 1 <= Len(delivered'[m])
      BY <1>1, <1>3, <2>1, SessionAcceptExpected
    <3>3. Len(delivered'[m]) \in Nat
      <4>1. TypeInv'
        BY TypeReceiveData DEF SessionInv
      <4> QED BY <4>1, LenProperties DEF TypeInv, TypeOK
    <3> QED BY <1>2, <3>1, <3>2, <3>3
  <2>2. CASE SaveOutrunning(m, a)
    <3>1. /\ delivered'[m] = delivered[m]
          /\ receiveQueue'[m] = receiveQueue[m] \cup {a.pkt}
      BY <2>2 DEF SaveOutrunning, historyVars, SessionInv, TypeInv, TypeOK
    <3>2. GetSeqIdDistance(IdOf(d + 1), IdOf(k)) > 0
      BY <1>2, <1>4, <2>2 DEF SaveOutrunning, IsOutrunning
    <3>3. d + 1 < k
      BY <1>2, <1>4, <3>2, IdsOrdered
    <3>4. k > d + 1
      BY <1>2, <1>4, <3>3
    <3> QED BY <1>1, <3>1, <3>4 DEF Received
  <2>3. CASE DropProcessed(m, a)
    <3>1. delivered'[m] = delivered[m] /\ receiveQueue'[m] = receiveQueue[m]
      BY <2>3 DEF DropProcessed, receiverVars, historyVars
    <3>2. k \in Received(m)
      BY <1>1, <1>3, <2>3, DropReceives DEF DropProcessed
    <3> QED BY <3>1, <3>2 DEF Received
  <2> QED BY <1>5, <2>1, <2>2, <2>3
<1>10. ASSUME NEW x \in Nodes
       PROVE  Received(Peer[x]) \subseteq Received(Peer[x])'
  <2>1. Peer[x] \in Nodes
    BY PeerFacts
  <2>2. CASE Peer[x] = m
    BY <1>9, <2>2
  <2>3. CASE Peer[x] # m
    BY <1>6, <2>1, <2>3 DEF Received
  <2> QED BY <2>2, <2>3
<1>11. ASSUME NEW x \in Nodes PROVE AckInv(x)' /\ QueueInv(x)' /\ KeptInv(x)'
  <2>1. QueueInv(x)' /\ KeptInv(x)'
    BY <1>6, <1>10, QueueFrame DEF DeliveryInv
  <2>2. CASE x = n
    <3>1. \A q \in InFlight(wire'[n]) : q.type = "ACK" =>
             q \in InFlight(wire[n]) \/ q = AckPacket(a.pkt)
      BY <1>8
    <3>2. \E j \in Received(m)' : AckPacket(a.pkt).id = IdOf(j)
      BY <1>7, <1>9
    <3>3. AckInv(n)
      BY <1>2 DEF DeliveryInv
    <3>4. Received(Peer[n]) \subseteq Received(Peer[n])'
      BY <1>2, <1>10
    <3>5. AckInv(n)'
      BY <1>2, <3>1, <3>2, <3>3, <3>4 DEF AckInv
    <3> QED BY <2>1, <2>2, <3>5
  <2>3. CASE x # n
    <3>1. InFlight(wire'[x]) \subseteq InFlight(wire[x])
      BY <1>8, <2>3
    <3> QED BY <1>10, <2>1, <3>1, AckFrame DEF DeliveryInv
  <2> QED BY <2>2, <2>3
<1>12. ASSUME StartId = 0, NEW x \in Nodes PROVE OpeningInv(x)'
  <2>1. \A y \in Nodes : OpeningFirst(wire'[y])
    <3>1. MayPut(Peer[m], <<AckPacket(a.pkt)>>)
      BY <1>7 DEF MayPut, IsOpening
    <3> QED BY <1>6, <1>7, <1>12, <3>1, AnswerOrder
  <2>2. Peer[x] \in Nodes /\ OpeningInv(x)
    BY <1>12, PeerFacts DEF DeliveryInv
  <2>3. CASE x # n
    <3>1. Peer[x] # m
      BY <1>1, <2>3, PeerFacts
    <3>2. \A q \in InFlight(wire'[Peer[x]]) :
             q.type = "DATA" => q \in InFlight(wire[Peer[x]])
      BY <1>7, <1>8, <2>2, <3>1
    <3> QED BY <1>6, <2>1, <2>2, <3>1, <3>2, OpeningFrame
  <2>4. CASE x = n
    <3> DEFINE got == Len(delivered'[m])
    <3>1. OpeningInv(n) /\ (d = 0 => receiveQueue[m] = {})
      BY <1>1, <1>2, <2>2, <2>4 DEF OpeningInv
    <3>2. got \in Nat /\ got >= d
      BY <1>1, <1>2, <1>9
    <3>3. k = 1 \/ (IsLater(a.pkt) /\ d >= 1)
      BY <1>1, <1>2, <1>3, <3>1 DEF OpeningInv, IsLater
    <3>4. ASSUME NEW p \in ToSet(sendQueue'[n]), IsOpening(p)
          PROVE  /\ Len(sendQueue'[n]) = 1 /\ got <= 1
                 /\ \A q \in InFlight(wire'[m]) : ~IsLater(q)
      <4>1. /\ Len(sendQueue'[n]) = 1 /\ d <= 1
            /\ \A q \in InFlight(wire[m]) : ~IsLater(q)
        BY <1>1, <1>2, <1>6, <3>1, <3>4 DEF OpeningInv
      <4>2. k = 1
        BY <1>3, <3>3, <4>1
      <4>3. got <= 1
        BY <1>1, <1>2, <1>9, <3>1, <4>1, <4>2
      <4> QED BY <1>8, <4>1, <4>3
    <3>5. ASSUME NEW q \in InFlight(wire'[m]), IsLater(q) PROVE got >= 1
      <4>1. d >= 1
        BY <1>1, <1>2, <1>8, <3>1, <3>5 DEF OpeningInv
      <4> QED BY <1>2, <3>2, <4>1
    <3>6. got = 0 => receiveQueue'[m] = {}
      BY <1>1, <1>2, <1>4, <1>9, <3>1, <3>3
    <3>7. ASSUME Ordered, got >= 2, NEW q \in InFlight(wire'[m]) PROVE ~IsOpening(q)
      <4>1. CASE d >= 2
        BY <1>1, <1>2, <1>8, <3>1, <3>7, <4>1 DEF OpeningInv
      <4>2. CASE ~(d >= 2)
        <5>0. /\ got # d /\ (got = d \/ k = d + 1)
              /\ (d = 0 => got = d \/ got = d + 1)
          BY <1>1, <1>2, <1>9, <3>1, <3>7, <4>2
        <5>1. k = d + 1 /\ d = 1
          BY <1>2, <3>2, <3>7, <4>2, <5>0
        <5>2. IsLater(a.pkt)
          BY <1>1, <1>3, <5>1 DEF IsLater
        <5>3. wire[m] \in Wires(Packets) /\ OpeningFirst(wire[m])
          BY <1>12, PathOrders DEF SessionInv, TypeInv, TypeOK
        <5>4. \A p \in InFlight(a.rest) : ~IsOpening(p)
          BY <3>7, <5>2, <5>3, ArrivalOpeningFirst
        <5> QED BY <1>8, <5>4
      <4> QED BY <4>1, <4>2
    <3>8. \A p \in ToSet(writeQueue'[n]) : ~IsOpening(p)
      BY <1>6, <3>1 DEF OpeningInv
    <3> HIDE DEF got
    <3>9. OpeningInv(n)'
      <4>1. Peer[n] = m /\ got = Len(delivered'[m])
        BY <1>2 DEF got
      <4> QED BY <1>2, <2>1, <3>4, <3>5, <3>6, <3>7, <3>8, <4>1 DEF OpeningInv
    <3> QED BY <2>4, <3>9
  <2> QED BY <2>3, <2>4
<1> QED BY <1>11, <1>12 DEF DeliveryInv

-----------------------------------------------------------------------------
\* The invariant of a session

SessionDelivery == SessionInv /\ DeliveryInv

LEMMA SessionDeliveryInit == Init => SessionDelivery
BY SessionInit, DeliveryInit DEF SessionDelivery

LEMMA SessionDeliveryStep ==
    Orderly /\ SessionDelivery /\ [SessionNext]_vars => SessionDelivery'
<1> SUFFICES ASSUME Orderly, SessionInv, DeliveryInv, [SessionNext]_vars
             PROVE  SessionInv' /\ DeliveryInv'
  BY DEF SessionDelivery
<1>1. SessionInv'
  BY DeliveryWelcomes, SessionStep
<1>2. ASSUME NEW n \in Nodes, NEW a \in Arrivals(wire[n])
      PROVE  ~ReceiveReset(n, a) /\ ~ReceiveAckReset(n, a)
  <2>1. a.pkt \in InFlight(wire[n])
    BY ArrivalsSound DEF SessionInv, TypeInv, TypeOK
  <2> QED BY <2>1 DEF SessionInv, WireInv, ReceiveReset, ReceiveAckReset
<1>3. ASSUME NEW n \in Nodes, Step(n) PROVE DeliveryInv'
  BY <1>2, <1>3, DeliverySendData, DeliveryResend, DeliveryFlush, DeliveryReceiveAck,
     DeliveryUnknownAck, DeliveryReceiveData, DeliveryLose
  DEF Step, Receive, ReceivePacket
<1>4. ASSUME UNCHANGED vars PROVE DeliveryInv'
  <2>1. UNCHANGED <<sendQueue, writeQueue, receiveQueue, wire, sent, delivered>>
    BY <1>4 DEF vars, senderVars, receiverVars, historyVars
  <2>2. \A m : Received(m)' = Received(m)
    BY <2>1 DEF Received
  <2>3. ASSUME NEW m \in Nodes PROVE AckInv(m)' /\ QueueInv(m)' /\ KeptInv(m)'
    BY <2>1, <2>2, AckFrame, QueueFrame DEF DeliveryInv
  <2>4. ASSUME StartId = 0, NEW m \in Nodes PROVE OpeningInv(m)'
    <3>1. Peer[m] \in Nodes
      BY PeerFacts
    <3>2. OpeningFirst(wire'[Peer[m]])
      BY <2>1, <2>4, <3>1, PathOrders
    <3> QED BY <2>1, <2>4, <3>1, <3>2, OpeningFrame DEF DeliveryInv
  <2> QED BY <2>3, <2>4 DEF DeliveryInv
<1> QED BY <1>1, <1>3, <1>4 DEF SessionNext

LEMMA SessionInvGives == SessionInv => InOrderExactlyOnce /\ NoSpontaneousReset
BY DEF SessionInv, ReceiverInv, WireInv, InOrderExactlyOnce, NoSpontaneousReset

\* On any path an established session, and on the paths of Orderly a session of
\* new channels: each end gets what the other end sent in that order, nothing
\* twice and nothing left out.
\* (cases TRU_ACK and TRU_DATA of trudpChannelProcessReceivedPacket,
\* trudpChannelSendQueueProcess, trudpChannelWriteQueueProcess)
THEOREM SessionCorrect == Orderly => (Session => []InOrderExactlyOnce)
<1> SUFFICES ASSUME Orderly PROVE Session => []InOrderExactlyOnce
  OBVIOUS
<1>1. SessionDelivery /\ [SessionNext]_vars => SessionDelivery'
  BY SessionDeliveryStep
<1>2. SessionDelivery => InOrderExactlyOnce
  BY SessionInvGives DEF SessionDelivery
<1> QED BY <1>1, <1>2, SessionDeliveryInit, PTL DEF Session

\* In such a session no datagram, however late or often it comes, makes a
\* channel reset: no RESET and no ACK of one is ever on the way.
\* (cases TRU_DATA of trudpChannelProcessReceivedPacket that call
\* trudpChannelSendRESET)
THEOREM SessionNeverResets == Orderly => (Session => []NoSpontaneousReset)
<1> SUFFICES ASSUME Orderly PROVE Session => []NoSpontaneousReset
  OBVIOUS
<1>1. SessionDelivery /\ [SessionNext]_vars => SessionDelivery'
  BY SessionDeliveryStep
<1>2. SessionDelivery => NoSpontaneousReset
  BY SessionInvGives DEF SessionDelivery
<1> QED BY <1>1, <1>2, SessionDeliveryInit, PTL DEF Session

LEMMA SavedAreAhead == SessionDelivery => ReceiveQueueAhead
<1> SUFFICES ASSUME SessionInv, DeliveryInv, NEW n \in Nodes
             PROVE  /\ receiveExpectedId[n] = 0 => receiveQueue[n] = {}
                    /\ \A p \in receiveQueue[n] :
                          GetSeqIdDistance(receiveExpectedId[n], p.id) > 0
  BY DEF ReceiveQueueAhead, SessionDelivery
<1>1. PICK m, d : m = Peer[n] /\ d = Len(delivered[n])
  OBVIOUS
<1>2. /\ m \in Nodes /\ Peer[m] = n /\ d \in Nat /\ sent[m] \in Nat /\ MaxData[m] \in Nat
      /\ d <= sent[m] /\ sent[m] <= MaxData[m] /\ receiveExpectedId[n] = IdOf(d + 1)
      /\ \A x \in receiveQueue[n] : x.data \in d + 2 .. sent[m] /\ x.id = IdOf(x.data)
  BY <1>1, ReceiverFacts, PeerFacts
<1>3. d + 1 \in 1 .. MaxData[m] + 1
  BY <1>2
<1>4. ASSUME receiveExpectedId[n] = 0 PROVE receiveQueue[n] = {}
  <2>1. StartId = 0
    BY <1>2, <1>3, <1>4, NextIdOf
  <2>2. d + 1 = 1
    BY <1>2, <1>3, <1>4, <2>1, OpeningId
  <2>3. OpeningInv(m) /\ Len(delivered[Peer[m]]) = 0
    BY <1>1, <1>2, <2>1, <2>2 DEF DeliveryInv
  <2> QED BY <1>2, <2>3 DEF OpeningInv
<1>5. ASSUME NEW p \in receiveQueue[n]
      PROVE  GetSeqIdDistance(receiveExpectedId[n], p.id) > 0
  <2>1. p.data \in 1 .. MaxData[m] + 1 /\ p.id = IdOf(p.data) /\ d + 1 < p.data
    BY <1>2
  <2> QED BY <1>2, <1>3, <2>1, IdsOrdered
<1> QED BY <1>4, <1>5

\* In such a session the drain loop leaves nothing behind that is due: whatever
\* is saved is ahead of the expected id, on both sides of the wrap, and nothing
\* is saved before the opening packet has come.
\* (case TRU_DATA of trudpChannelProcessReceivedPacket)
THEOREM SessionSavesAhead == Orderly => (Session => []ReceiveQueueAhead)
<1> SUFFICES ASSUME Orderly PROVE Session => []ReceiveQueueAhead
  OBVIOUS
<1>1. SessionDelivery /\ [SessionNext]_vars => SessionDelivery'
  BY SessionDeliveryStep
<1> QED BY <1>1, SavedAreAhead, SessionDeliveryInit, PTL DEF Session

\* Such a session implements the reliable stream: the detailed channels, their
\* ids, queues and retransmissions, do nothing the abstract specification of
\* README.md:10-12 does not allow.
THEOREM SessionImplementsStream == Orderly => (Session => ImplementsStream)
<1> SUFFICES ASSUME Orderly PROVE Session => ImplementsStream
  OBVIOUS
<1>1. SessionDelivery /\ [SessionNext]_vars => SessionDelivery'
  BY SessionDeliveryStep
<1>2. Init => Stream!Init
  BY DEF Init, Stream!Init
<1>3. SessionDelivery /\ SessionDelivery' /\ [SessionNext]_vars
        => [Stream!Next]_(Stream!vars)
  BY StreamStep DEF SessionDelivery
<1> QED
  BY <1>1, <1>2, <1>3, SessionDeliveryInit, PTL DEF Session, ImplementsStream, Stream!Stream

LEMMA KeptMeansNotStranded ==
    ~FlushesWriteQueue /\ SessionDelivery => NothingStranded
BY DEF SessionDelivery, DeliveryInv, KeptInv, NothingStranded

\* Where the event loop leaves the write queue to the acknowledgements, a packet
\* leaves the sender's queues only when the receiver has it: an ACK that comes
\* late, twice, or for a packet sent again acknowledges no other packet.
\* (case TRU_ACK of trudpChannelProcessReceivedPacket)
THEOREM SessionStrandsNothing ==
    Orderly /\ ~FlushesWriteQueue => (Session => []NothingStranded)
<1> SUFFICES ASSUME Orderly, ~FlushesWriteQueue PROVE Session => []NothingStranded
  OBVIOUS
<1>1. SessionDelivery /\ [SessionNext]_vars => SessionDelivery'
  BY SessionDeliveryStep
<1>2. SessionDelivery => NothingStranded
  BY KeptMeansNotStranded
<1> QED BY <1>1, <1>2, SessionDeliveryInit, PTL DEF Session

LEMMA KeptMeansDelivered ==
    ~FlushesWriteQueue /\ SessionDelivery => QuiescentMeansDelivered
<1> SUFFICES ASSUME ~FlushesWriteQueue, SessionInv, DeliveryInv, Quiescent, NEW n \in Nodes
             PROVE  Len(delivered[Peer[n]]) = sent[n]
  BY DEF SessionDelivery, QuiescentMeansDelivered
<1>1. PICK m, d : m = Peer[n] /\ d = Len(delivered[m])
  OBVIOUS
<1>2. m \in Nodes /\ Peer[m] = n
  BY <1>1, PeerFacts
<1>3. /\ d \in Nat /\ sent[n] \in Nat /\ d <= sent[n]
      /\ DOMAIN delivered[m] = 1 .. d
      /\ \A x \in receiveQueue[m] : x.data \in d + 2 .. sent[n]
  BY <1>1, <1>2, ReceiverFacts, LenProperties
<1>4. \A i \in DOMAIN delivered[m] : delivered[m][i] = i
  BY <1>2 DEF SessionInv, ReceiverInv
<1>5. 1 .. sent[n] \subseteq Received(m)
  <2>1. ToSet(sendQueue[n]) = {} /\ ToSet(writeQueue[n]) = {}
    BY DEF Quiescent, ToSet
  <2>2. Pending(n) = {}
    BY <2>1 DEF Pending
  <2> QED BY <1>1, <2>2 DEF DeliveryInv, KeptInv
<1>6. ASSUME d < sent[n] PROVE FALSE
  <2>1. d + 1 \in Received(m)
    BY <1>3, <1>5, <1>6
  <2>2. d + 1 \notin ToSet(delivered[m])
    BY <1>3, <1>4 DEF ToSet
  <2>3. PICK x \in receiveQueue[m] : d + 1 = x.data
    BY <2>1, <2>2 DEF Received
  <2> QED BY <1>3, <2>3
<1> QED BY <1>1, <1>3, <1>6

\* When nothing is queued or in flight any more, everything that was sent has
\* been delivered: the receiver is not left waiting for a packet nobody has.
\* (cases TRU_ACK and TRU_DATA of trudpChannelProcessReceivedPacket)
THEOREM SessionSettlesDelivered ==
    Orderly /\ ~FlushesWriteQueue => (Session => []QuiescentMeansDelivered)
<1> SUFFICES ASSUME Orderly, ~FlushesWriteQueue
             PROVE  Session => []QuiescentMeansDelivered
  OBVIOUS
<1>1. SessionDelivery /\ [SessionNext]_vars => SessionDelivery'
  BY SessionDeliveryStep
<1>2. SessionDelivery => QuiescentMeansDelivered
  BY KeptMeansDelivered
<1> QED BY <1>1, <1>2, SessionDeliveryInit, PTL DEF Session

LEMMA QueueIsDisciplined == SessionDelivery => SendQueueDisciplined
<1> SUFFICES ASSUME SessionInv, DeliveryInv, NEW n \in Nodes
             PROVE  /\ Len(sendQueue[n]) <= NormalSSize
                    /\ \A i, j \in DOMAIN sendQueue[n] :
                          sendQueue[n][i].id = sendQueue[n][j].id => i = j
                    /\ 0 \in Ids(ToSet(sendQueue[n])) => Len(sendQueue[n]) = 1
  BY DEF SendQueueDisciplined, SessionDelivery
<1>1. QueueInv(n)
  BY DEF DeliveryInv
<1>2. ASSUME NEW i \in DOMAIN sendQueue[n], NEW j \in DOMAIN sendQueue[n],
             sendQueue[n][i].id = sendQueue[n][j].id
      PROVE  i = j
  <2>1. sendQueue[n][i] \in ToSet(sendQueue[n]) /\ sendQueue[n][j] \in ToSet(sendQueue[n])
    BY DEF ToSet
  <2>2. sendQueue[n][i] = sendQueue[n][j]
    BY <1>2, <2>1, QueuedPackets, SameIdSamePacket
  <2> QED BY <1>1, <2>2 DEF QueueInv, IsInjective
<1>3. ASSUME NEW p \in ToSet(sendQueue[n]), p.id = 0 PROVE Len(sendQueue[n]) = 1
  <2>1. p.data \in 1 .. MaxData[n] + 1 /\ IdOf(p.data) = 0 /\ p.type = "DATA"
    BY <1>3, QueuedPackets
  <2>2. StartId = 0
    BY <2>1, NextIdOf
  <2>3. IsOpening(p)
    BY <2>1, <2>2, OpeningId DEF IsOpening
  <2> QED BY <2>2, <2>3 DEF DeliveryInv, OpeningInv
<1> QED BY <1>1, <1>2, <1>3 DEF QueueInv, Ids

\* The window holds no two packets with one id, and the packet that opens the
\* session waits in it alone, across acknowledgements and the refill from the
\* write queue. (_trudpChannelSendPacket, case TRU_ACK)
THEOREM SessionQueueDisciplined == Orderly => (Session => []SendQueueDisciplined)
<1> SUFFICES ASSUME Orderly PROVE Session => []SendQueueDisciplined
  OBVIOUS
<1>1. SessionDelivery /\ [SessionNext]_vars => SessionDelivery'
  BY SessionDeliveryStep
<1> QED BY <1>1, QueueIsDisciplined, SessionDeliveryInit, PTL DEF Session

-----------------------------------------------------------------------------
\* With resets, restarts and channels that flush their write queues

\* n has room in its window, and the packet with id 0 waits for its ACK alone.
WindowKept(n) ==
    /\ Len(sendQueue[n]) <= NormalSSize
    /\ 0 \in Ids(ToSet(sendQueue[n])) => Len(sendQueue[n]) = 1

\* The packet with id 0 is the first of its session, so it never waits in the
\* write queue behind others.
WindowInv ==
    \A n \in Nodes :
        /\ WindowKept(n)
        /\ 0 \notin Ids(ToSet(writeQueue[n]))
        /\ sendId[n] = 0 => sendQueue[n] = <<>> /\ writeQueue[n] = <<>>

LEMMA WindowInit == Init => WindowInv
<1> SUFFICES ASSUME Init, NEW n \in Nodes
             PROVE  /\ WindowKept(n) /\ 0 \notin Ids(ToSet(writeQueue[n]))
                    /\ sendId[n] = 0 => sendQueue[n] = <<>> /\ writeQueue[n] = <<>>
  BY DEF WindowInv
<1>1. Ids(ToSet(<<>>)) = {} /\ Len(<<>>) = 0 /\ NormalSSize \in Nat
  BY ChannelAssumption DEF ToSet, Ids
<1> QED BY <1>1 DEF Init, WindowKept

\* A packet that may be sent now is put behind none with id 0.
LEMMA WindowAppend ==
    ASSUME NEW q \in Seq(DataPackets), NEW p \in DataPackets, SendNow(q),
           0 \in Ids(ToSet(q)) => Len(q) = 1,
           p.id = 0 => q = <<>>
    PROVE  /\ Len(Append(q, p)) <= NormalSSize
           /\ 0 \in Ids(ToSet(Append(q, p))) => Len(Append(q, p)) = 1
<1>1. /\ Len(q) \in Nat /\ Len(q) < NormalSSize /\ NormalSSize \in Nat
      /\ Len(Append(q, p)) = Len(q) + 1 /\ DOMAIN q = 1 .. Len(q)
      /\ ToSet(Append(q, p)) = ToSet(q) \cup {p}
  BY LenProperties, AppendProperties, AppendElements, ChannelAssumption DEF SendNow
<1>2. 0 \notin Ids(ToSet(q))
  <2> SUFFICES ASSUME NEW x \in ToSet(q), x.id = 0 PROVE FALSE
    BY DEF Ids
  <2>1. Len(q) = 1
    BY DEF Ids
  <2>2. x = q[1]
    BY <1>1, <2>1 DEF ToSet
  <2> QED BY <2>1, <2>2 DEF SendNow
<1>3. ASSUME 0 \in Ids(ToSet(Append(q, p))) PROVE Len(Append(q, p)) = 1
  <2>1. p.id = 0
    BY <1>1, <1>2, <1>3 DEF Ids
  <2>2. Len(q) = 0
    BY <2>1
  <2> QED BY <1>1, <2>2
<1> QED BY <1>1, <1>3

LEMMA WindowSendData ==
    ASSUME TypeInv, WindowInv, NEW n \in Nodes, SendData(n)
    PROVE  WindowInv'
<1>0. /\ sendQueue \in [Nodes -> Seq(DataPackets)] /\ writeQueue \in [Nodes -> Seq(DataPackets)]
      /\ sendId \in [Nodes -> PacketIds]
      /\ sent[n] \in Nat /\ sent[n] < MaxData[n] /\ MaxData[n] \in Nat
  BY ChannelAssumption DEF TypeInv, TypeOK, SendData
<1>p. PICK p : p = DataPacket(sendId[n], sent[n] + 1)
  OBVIOUS
<1>r. PICK r : r = SendPacket(sendQueue[n], writeQueue[n], p)
  OBVIOUS
<1>1. /\ sendId' = [sendId EXCEPT ![n] = GetNextSeqId(sendId[n])]
      /\ sendQueue' = [sendQueue EXCEPT ![n] = r.sq]
      /\ writeQueue' = [writeQueue EXCEPT ![n] = r.wq]
  BY <1>p, <1>r DEF SendData
<1>2. p \in DataPackets /\ p.id = sendId[n]
  <2>1. sent[n] + 1 \in 1 .. MaxData[n]
    BY <1>0
  <2>2. sent[n] + 1 \in Payloads
    BY <2>1 DEF Payloads
  <2> QED BY <1>0, <1>p, <2>2 DEF DataPackets, DataPacket
<1>3. \/ /\ SendNow(sendQueue[n])
         /\ r.sq = Append(sendQueue[n], p) /\ r.wq = writeQueue[n]
      \/ /\ ~SendNow(sendQueue[n])
         /\ r.sq = sendQueue[n] /\ r.wq = Append(writeQueue[n], p)
  BY <1>r DEF SendPacket
<1>4. /\ WindowKept(n) /\ 0 \notin Ids(ToSet(writeQueue[n]))
      /\ p.id = 0 => sendQueue[n] = <<>>
  BY <1>2 DEF WindowInv
<1>5. GetNextSeqId(sendId[n]) # 0
  BY <1>0, NextIsId
<1>6. /\ Len(r.sq) <= NormalSSize
      /\ 0 \in Ids(ToSet(r.sq)) => Len(r.sq) = 1
      /\ 0 \notin Ids(ToSet(r.wq))
  <2>1. CASE SendNow(sendQueue[n])
    <3>1. sendQueue[n] \in Seq(DataPackets)
      BY <1>0
    <3> QED BY <1>2, <1>3, <1>4, <2>1, <3>1, WindowAppend DEF WindowKept
  <2>2. CASE ~SendNow(sendQueue[n])
    <3>1. p.id # 0
      <4>1. SendNow(<<>>)
        BY ChannelAssumption DEF SendNow
      <4> QED BY <1>4, <2>2, <4>1
    <3>2. ToSet(Append(writeQueue[n], p)) = ToSet(writeQueue[n]) \cup {p}
      BY <1>0, <1>2, AppendElements
    <3> QED BY <1>3, <1>4, <2>2, <3>1, <3>2 DEF WindowKept, Ids
  <2> QED BY <2>1, <2>2
<1>7. /\ sendQueue'[n] = r.sq /\ writeQueue'[n] = r.wq /\ sendId'[n] # 0
      /\ \A m \in Nodes \ {n} : /\ sendQueue'[m] = sendQueue[m]
                                /\ writeQueue'[m] = writeQueue[m] /\ sendId'[m] = sendId[m]
  BY <1>0, <1>1, <1>5
<1> QED BY <1>6, <1>7 DEF WindowInv, WindowKept

LEMMA WindowReceiveAck ==
    ASSUME TypeInv, WindowInv, NEW n \in Nodes, NEW a, ReceiveAck(n, a)
    PROVE  WindowInv'
<1>0. /\ sendQueue \in [Nodes -> Seq(DataPackets)] /\ writeQueue \in [Nodes -> Seq(DataPackets)]
      /\ UNCHANGED sendId
  BY DEF TypeInv, TypeOK, ReceiveAck
<1>1. PICK i \in DOMAIN sendQueue[n] :
        LET rest == RemoveAt(sendQueue[n], i)
        IN  IF writeQueue[n] = <<>>
            THEN /\ sendQueue' = [sendQueue EXCEPT ![n] = rest]
                 /\ UNCHANGED writeQueue
                 /\ Answer(n, a, <<>>)
            ELSE LET r == SendPacket(rest, writeQueue[n], Head(writeQueue[n]))
                 IN  /\ sendQueue' = [sendQueue EXCEPT ![n] = r.sq]
                     /\ writeQueue' = [writeQueue EXCEPT ![n] = Tail(r.wq)]
                     /\ Answer(n, a, r.out)
  BY DEF ReceiveAck
<1>2. PICK rest : rest = RemoveAt(sendQueue[n], i)
  OBVIOUS
<1>3. /\ rest \in Seq(DataPackets) /\ Len(rest) = Len(sendQueue[n]) - 1
      /\ ToSet(rest) \subseteq ToSet(sendQueue[n]) /\ Len(sendQueue[n]) \in Nat
      /\ Len(rest) \in Nat /\ DOMAIN rest = 1 .. Len(rest) /\ NormalSSize \in Nat
  BY <1>0, <1>2, RemoveAtElements, LenProperties, ChannelAssumption
<1>4. /\ WindowKept(n) /\ 0 \notin Ids(ToSet(writeQueue[n]))
      /\ sendId[n] # 0
  <2>1. sendQueue[n] # <<>>
    BY <1>1
  <2> QED BY <2>1 DEF WindowInv
<1>5. Len(rest) < NormalSSize /\ 0 \notin Ids(ToSet(rest))
  <2>1. Len(rest) < NormalSSize
    BY <1>3, <1>4 DEF WindowKept
  <2>2. ASSUME NEW x \in ToSet(rest), x.id = 0 PROVE FALSE
    <3>1. Len(sendQueue[n]) = 1
      BY <1>3, <1>4, <2>2 DEF WindowKept, Ids
    <3>2. Len(rest) = 0
      BY <1>3, <3>1
    <3> QED BY <1>3, <2>2, <3>2 DEF ToSet
  <2> QED BY <2>1, <2>2 DEF Ids
<1>6. SendNow(rest)
  <2>1. Len(rest) = 1 => rest[1].id # 0
    <3> SUFFICES ASSUME Len(rest) = 1 PROVE rest[1].id # 0
      OBVIOUS
    <3>1. 1 \in DOMAIN rest
      <4>1. DOMAIN rest = 1 .. Len(rest)
        BY <1>3
      <4> QED BY <4>1
    <3>2. rest[1] \in ToSet(rest)
      BY <3>1 DEF ToSet
    <3> QED BY <1>5, <3>2 DEF Ids
  <2> QED BY <1>5, <2>1 DEF SendNow
<1>7. PICK sq, wq :
        /\ sendQueue' = [sendQueue EXCEPT ![n] = sq]
        /\ writeQueue' = [writeQueue EXCEPT ![n] = wq]
        /\ Len(sq) <= NormalSSize /\ (0 \in Ids(ToSet(sq)) => Len(sq) = 1)
        /\ 0 \notin Ids(ToSet(wq))
  <2>1. CASE writeQueue[n] = <<>>
    <3>1. /\ sendQueue' = [sendQueue EXCEPT ![n] = rest]
          /\ writeQueue' = [writeQueue EXCEPT ![n] = writeQueue[n]]
      BY <1>0, <1>1, <1>2, <2>1
    <3>2. Len(rest) <= NormalSSize
      BY <1>3, <1>5
    <3> QED BY <1>4, <1>5, <3>1, <3>2
  <2>2. CASE writeQueue[n] # <<>>
    <3>1. PICK h : h = Head(writeQueue[n])
      OBVIOUS
    <3>2. SendPacket(rest, writeQueue[n], h)
            = [sq |-> Append(rest, h), wq |-> writeQueue[n], out |-> <<h>>]
      BY <1>6 DEF SendPacket
    <3>3. /\ sendQueue' = [sendQueue EXCEPT ![n] = Append(rest, h)]
          /\ writeQueue' = [writeQueue EXCEPT ![n] = Tail(writeQueue[n])]
      BY <1>1, <1>2, <2>2, <3>1, <3>2
    <3>4. h \in DataPackets /\ h \in ToSet(writeQueue[n])
      BY <1>0, <2>2, <3>1, HeadElement, HeadTailProperties
    <3>5. h.id # 0
      BY <1>4, <3>4 DEF Ids
    <3>6. /\ Len(Append(rest, h)) <= NormalSSize
          /\ 0 \in Ids(ToSet(Append(rest, h))) => Len(Append(rest, h)) = 1
      BY <1>3, <1>5, <1>6, <3>4, <3>5, WindowAppend
    <3>7. ToSet(Tail(writeQueue[n])) \subseteq ToSet(writeQueue[n])
      BY <1>0, <2>2, TailElements
    <3>8. 0 \notin Ids(ToSet(Tail(writeQueue[n])))
      BY <1>4, <3>7 DEF Ids
    <3> QED BY <3>3, <3>6, <3>8
  <2> QED BY <2>1, <2>2
<1>8. /\ sendQueue'[n] = sq /\ writeQueue'[n] = wq /\ sendId' = sendId
      /\ \A m \in Nodes \ {n} :
            sendQueue'[m] = sendQueue[m] /\ writeQueue'[m] = writeQueue[m]
  BY <1>0, <1>7
<1> QED BY <1>4, <1>7, <1>8 DEF WindowInv, WindowKept

LEMMA WindowStep == TypeInv /\ WindowInv /\ [Next]_vars => WindowInv'
<1> SUFFICES ASSUME TypeInv, WindowInv, [Next]_vars PROVE WindowInv'
  OBVIOUS
<1>1. ASSUME UNCHANGED <<sendQueue, writeQueue>>,
             \A m \in Nodes : sendId'[m] = sendId[m] \/ sendId'[m] # 0
      PROVE  WindowInv'
  BY <1>1 DEF WindowInv, WindowKept
<1>2. ASSUME NEW n \in Nodes, FlushWriteQueue(n) PROVE WindowInv'
  <2>1. /\ writeQueue \in [Nodes -> Seq(DataPackets)] /\ writeQueue[n] # <<>>
        /\ UNCHANGED <<sendId, sendQueue>>
        /\ writeQueue' = [writeQueue EXCEPT ![n] = Tail(writeQueue[n])]
    BY <1>2 DEF FlushWriteQueue, TypeInv, TypeOK
  <2>2. ToSet(Tail(writeQueue[n])) \subseteq ToSet(writeQueue[n])
    BY <2>1, TailElements
  <2> QED BY <2>1, <2>2 DEF WindowInv, WindowKept, Ids
<1>3. ASSUME NEW n \in Nodes, ResetChannel(n) PROVE WindowInv'
  <2>1. Ids(ToSet(<<>>)) = {} /\ Len(<<>>) = 0 /\ NormalSSize \in Nat
    BY ChannelAssumption DEF ToSet, Ids
  <2>2. /\ sendQueue'[n] = <<>> /\ writeQueue'[n] = <<>>
        /\ \A m \in Nodes \ {n} : /\ sendQueue'[m] = sendQueue[m]
                                  /\ writeQueue'[m] = writeQueue[m] /\ sendId'[m] = sendId[m]
    BY <1>3 DEF ResetChannel, TypeInv, TypeOK
  <2> QED BY <2>1, <2>2 DEF WindowInv, WindowKept
<1>4. ASSUME NEW n \in Nodes, sendId' = [sendId EXCEPT ![n] = GetNextSeqId(sendId[n])],
             UNCHANGED <<sendQueue, writeQueue>>
      PROVE  WindowInv'
  <2>1. sendId \in [Nodes -> PacketIds] /\ GetNextSeqId(sendId[n]) # 0
    BY NextIsId DEF TypeInv, TypeOK
  <2> QED BY <1>1, <1>4, <2>1
<1>5. ASSUME NEW n \in Nodes, NEW a \in Arrivals(wire[n]), ReceivePacket(n, a)
      PROVE  WindowInv'
  <2>1. ASSUME ReceiveData(n, a), ~AckAndReset(n, a)
        PROVE UNCHANGED <<sendId, sendQueue, writeQueue>>
    BY <2>1
    DEF ReceiveData, RejectNotOpened, AcceptExpected, SaveOutrunning, RejectNewSession,
        DropProcessed, senderVars
  <2>2. ASSUME AckAndReset(n, a) PROVE WindowInv'
    BY <1>4, <2>2 DEF AckAndReset
  <2>3. ASSUME ReceiveReset(n, a) \/ ReceiveAckReset(n, a) PROVE ResetChannel(n)
    BY <2>3 DEF ReceiveReset, ReceiveAckReset
  <2>4. ASSUME ReceiveUnknownAck(n, a) PROVE UNCHANGED <<sendId, sendQueue, writeQueue>>
    BY <2>4 DEF ReceiveUnknownAck, senderVars
  <2> QED BY <1>1, <1>3, <1>5, <2>1, <2>2, <2>3, <2>4, WindowReceiveAck DEF ReceivePacket
<1>6. ASSUME NEW n \in Nodes, Resend(n) \/ Lose(n)
      PROVE  UNCHANGED <<sendId, sendQueue, writeQueue>>
  BY <1>6 DEF Resend, Lose, senderVars
<1>7. ASSUME NEW n \in Nodes, SendReset(n) PROVE WindowInv'
  BY <1>4, <1>7 DEF SendReset
<1>8. ASSUME NEW n \in Nodes, Restart(n) PROVE ResetChannel(n)
  BY <1>8 DEF Restart
<1>9. ASSUME UNCHANGED vars PROVE UNCHANGED <<sendId, sendQueue, writeQueue>>
  BY <1>9 DEF vars, senderVars
<1> QED
  BY <1>1, <1>2, <1>3, <1>5, <1>6, <1>7, <1>8, <1>9, WindowSendData DEF Next, Step, Receive

\* Whatever is reset, restarted, lost or acknowledged late: the window is never
\* overrun, and the packet with id 0 that opens a session waits for its ACK
\* alone. (_trudpChannelSendPacket, the refill in case TRU_ACK and
\* trudpChannelReset)
THEOREM OpeningWaitsAlone == Spec => [](\A n \in Nodes : WindowKept(n))
<1>1. WindowInv => \A n \in Nodes : WindowKept(n)
  BY DEF WindowInv
<1> QED BY <1>1, TypeInit, TypeStep, WindowInit, WindowStep, PTL DEF Spec
-----------------------------------------------------------------------------
(***************************************************************************)
(* Resets and restarts, on paths that lose nothing.  Payloads of several   *)
(* sessions are in flight at once, told apart only by the resets between   *)
(* them, so the invariant speaks of the places of packets on a path.  A    *)
(* direction is a sender, the path to its peer and the receiver there:     *)
(* either what is sent next will be rejected, and answered with a reset,   *)
(* or the packets the receiver lacks are on the path behind the last       *)
(* reset, wait in the write queue or are saved.                            *)
(***************************************************************************)

IsReset(p) == p.type \in {"RESET", "ACK_RESET"}
IsData(p) == p.type = "DATA"
Opens(p) == p.type = "DATA" /\ p.id = 0

\* no packet 0, and no reset either, at the places i to j of a path
NoOpen(w, i, j) == \A l \in i .. j : ~Opens(w[l])
Plain(w, i, j) == \A l \in i .. j : ~Opens(w[l]) /\ ~IsReset(w[l])

\* What comes at place i of the path w finds a receiver that rejects all but
\* packet 0: one that expects 0 now, or will when the resets have come.
Closed(w, i, e) ==
    \/ \E j \in 1 .. i - 1 : IsReset(w[j]) /\ NoOpen(w, j + 1, i - 1)
    \/ e = 0 /\ NoOpen(w, 1, i - 1)

\* What comes at place i is rejected, or finds packet 1 taken.
OneBefore(w, i, e) ==
    \/ Closed(w, i, e)
    \/ \E j \in 1 .. i - 1 : IsData(w[j]) /\ w[j].id = 1 /\ Plain(w, j + 1, i - 1)
    \/ e >= 2 /\ Plain(w, 1, i - 1)

OnesFirst(w, e) ==
    \A i \in DOMAIN w : IsData(w[i]) /\ w[i].id >= 2 => OneBefore(w, i, e)

\* the ids of the packets on the path after place j
IdsAfter(w, j) == {w[i].id : i \in {i \in DOMAIN w : i > j /\ IsData(w[i])}}

\* Every packet of the session that the receiver lacks is on its way, waits,
\* or is saved.
Covers(w, e, rq, s, wq) ==
    \/ \E j \in DOMAIN w : /\ Opens(w[j]) /\ Plain(w, j + 1, Len(w))
                           /\ 1 .. s - 1 \subseteq IdsAfter(w, j) \cup Ids(ToSet(wq))
    \/ /\ Plain(w, 1, Len(w))
       /\ e .. s - 1 \subseteq IdsAfter(w, 0) \cup Ids(ToSet(wq)) \cup Ids(rq)

Below(w, s) ==
    \A i \in DOMAIN w : IsData(w[i]) /\ Plain(w, i + 1, Len(w)) => w[i].id < s

\* The receiver has nothing the sender has not sent, or will be reset.
NotAhead(w, e, rq, s, pend) ==
    \/ pend
    \/ \E j \in DOMAIN w : Opens(w[j])
    \/ e <= s /\ \A k \in Ids(rq) : k < s

\* What holds of the session once its packet 0 was sent.
Running(w, e, rq, s, wq, pend) ==
    /\ Covers(w, e, rq, s, wq)
    /\ Below(w, s)
    /\ NotAhead(w, e, rq, s, pend)
    /\ s >= 2 => 1 \in Ids(ToSet(wq)) \/ OneBefore(w, Len(w) + 1, e)

\* The direction from a sender with the next id s and the write queue wq over
\* the path w to a receiver with the expected id e and the saved packets rq;
\* pend: the sender will be reset.
Direction(w, e, rq, s, wq, pend) ==
    /\ OnesFirst(w, e)
    /\ e \in {0, 1} => rq = {}
    /\ e \notin Ids(rq)
    /\ s > 0 => Closed(w, Len(w) + 1, e) \/ Running(w, e, rq, s, wq, pend)

-----------------------------------------------------------------------------
\* Taking the first packet from a path moves the places of the others.

LEMMA TailPlaces ==
    ASSUME NEW P, NEW w \in Seq(P), w # <<>>
    PROVE  /\ Len(w) \in Nat /\ Len(w) >= 1 /\ DOMAIN w = 1 .. Len(w)
           /\ Tail(w) \in Seq(P) /\ Len(Tail(w)) = Len(w) - 1
           /\ DOMAIN Tail(w) = 1 .. Len(w) - 1
           /\ \A i \in 1 .. Len(w) - 1 : Tail(w)[i] = w[i + 1]
           /\ \A i \in 2 .. Len(w) : Tail(w)[i - 1] = w[i]
           /\ Head(w) = w[1] /\ w[1] \in P
BY HeadTailProperties, LenProperties, EmptySeq, ElementOfSeq

LEMMA ShiftPlain ==
    ASSUME NEW P, NEW w \in Seq(P), w # <<>>, NEW i \in 2 .. Len(w) + 1, NEW j \in Nat, j <= Len(w)
    PROVE  /\ NoOpen(Tail(w), i - 1, j - 1) <=> NoOpen(w, i, j)
           /\ Plain(Tail(w), i - 1, j - 1) <=> Plain(w, i, j)
<1>1. \A l \in i .. j : l - 1 \in i - 1 .. j - 1 /\ Tail(w)[l - 1] = w[l]
  BY TailPlaces
<1>2. \A l \in i - 1 .. j - 1 : l + 1 \in i .. j /\ Tail(w)[l] = w[l + 1]
  BY TailPlaces
<1> QED BY <1>1, <1>2 DEF NoOpen, Plain

\* What the first packet p of a path makes of the expected id e.
Moves(p, e, f) ==
    \/ p.type = "ACK" /\ f = e
    \/ IsReset(p) /\ f = 0
    \/ /\ IsData(p)
       /\ p.id = 0 => f = IF e = 0 THEN 1 ELSE e
       /\ p.id # 0 /\ e = 0 => f = 0
       /\ f >= e
       /\ p.id = 1 /\ e >= 1 => f >= 2

LEMMA ClosedTail ==
    ASSUME NEW P, NEW w \in Seq(P), w # <<>>, NEW e \in Nat, NEW f \in Nat, Moves(w[1], e, f),
           NEW i \in 2 .. Len(w) + 1, Closed(w, i, e)
    PROVE  Closed(Tail(w), i - 1, f)
<1>0. Len(w) \in Nat /\ i \in Nat /\ i >= 2 /\ i <= Len(w) + 1 /\ i - 1 <= Len(w)
  BY TailPlaces
<1>1. CASE e = 0 /\ NoOpen(w, 1, i - 1)
  <2>1. ~Opens(w[1]) /\ NoOpen(w, 2, i - 1)
    BY <1>0, <1>1 DEF NoOpen
  <2>2. f = 0
    BY <1>1, <2>1 DEF Moves, Opens, IsData
  <2>3. NoOpen(Tail(w), 2 - 1, (i - 1) - 1)
    BY <1>0, <2>1, ShiftPlain
  <2> QED BY <2>2, <2>3 DEF Closed
<1>2. CASE \E j \in 1 .. i - 1 : IsReset(w[j]) /\ NoOpen(w, j + 1, i - 1)
  <2>1. PICK j \in 1 .. i - 1 : IsReset(w[j]) /\ NoOpen(w, j + 1, i - 1)
    BY <1>2
  <2>2. NoOpen(Tail(w), (j + 1) - 1, (i - 1) - 1)
    BY <1>0, <2>1, ShiftPlain
  <2>3. CASE j = 1
    <3>1. f = 0
      BY <2>1, <2>3 DEF Moves, IsReset, IsData
    <3> QED BY <2>2, <2>3, <3>1 DEF Closed
  <2>4. CASE j # 1
    <3>1. j - 1 \in 1 .. (i - 1) - 1 /\ IsReset(Tail(w)[j - 1]) /\ (j - 1) + 1 = (j + 1) - 1
      <4>1. j \in 2 .. Len(w)
        BY <1>0, <2>4
      <4>2. Tail(w)[j - 1] = w[j]
        BY <4>1, TailPlaces
      <4> QED BY <1>0, <2>1, <2>4, <4>2
    <3> QED BY <2>2, <3>1 DEF Closed
  <2> QED BY <2>3, <2>4
<1> QED BY <1>1, <1>2 DEF Closed

LEMMA OneBeforeTail ==
    ASSUME NEW P, NEW w \in Seq(P), w # <<>>, NEW e \in Nat, NEW f \in Nat, Moves(w[1], e, f),
           NEW i \in 2 .. Len(w) + 1, OneBefore(w, i, e)
    PROVE  OneBefore(Tail(w), i - 1, f)
<1>0. Len(w) \in Nat /\ i \in Nat /\ i >= 2 /\ i <= Len(w) + 1 /\ i - 1 <= Len(w)
  BY TailPlaces
<1>1. CASE Closed(w, i, e)
  BY <1>1, ClosedTail DEF OneBefore
<1>2. CASE e >= 2 /\ Plain(w, 1, i - 1)
  <2>1. ~Opens(w[1]) /\ ~IsReset(w[1]) /\ Plain(w, 2, i - 1)
    BY <1>0, <1>2 DEF Plain
  <2>2. f >= 2
    BY <1>2, <2>1 DEF Moves, Opens, IsData
  <2>3. Plain(Tail(w), 2 - 1, (i - 1) - 1)
    BY <1>0, <2>1, ShiftPlain
  <2> QED BY <2>2, <2>3 DEF OneBefore
<1>3. CASE \E j \in 1 .. i - 1 : IsData(w[j]) /\ w[j].id = 1 /\ Plain(w, j + 1, i - 1)
  <2>1. PICK j \in 1 .. i - 1 : IsData(w[j]) /\ w[j].id = 1 /\ Plain(w, j + 1, i - 1)
    BY <1>3
  <2>2. Plain(Tail(w), (j + 1) - 1, (i - 1) - 1)
    BY <1>0, <2>1, ShiftPlain
  <2>3. CASE j = 1 /\ e = 0
    <3>1. f = 0
      BY <2>1, <2>3 DEF Moves, IsReset, IsData
    <3>2. NoOpen(Tail(w), 1, (i - 1) - 1)
      BY <2>2, <2>3 DEF Plain, NoOpen
    <3> QED BY <3>1, <3>2 DEF OneBefore, Closed
  <2>4. CASE j = 1 /\ e # 0
    <3>1. f >= 2
      BY <2>1, <2>4 DEF Moves, IsReset, IsData
    <3> QED BY <2>2, <2>4, <3>1 DEF OneBefore
  <2>5. CASE j # 1
    <3>1. /\ j - 1 \in 1 .. (i - 1) - 1 /\ (j - 1) + 1 = (j + 1) - 1
          /\ IsData(Tail(w)[j - 1]) /\ Tail(w)[j - 1].id = 1
      <4>1. j \in 2 .. Len(w)
        BY <1>0, <2>5
      <4>2. Tail(w)[j - 1] = w[j]
        BY <4>1, TailPlaces
      <4>3. j - 1 \in 1 .. (i - 1) - 1 /\ (j - 1) + 1 = (j + 1) - 1
        BY <1>0, <4>1
      <4> QED BY <2>1, <4>2, <4>3
    <3> QED BY <2>2, <3>1 DEF OneBefore
  <2> QED BY <2>3, <2>4, <2>5
<1> QED BY <1>1, <1>2, <1>3 DEF OneBefore

\* What the first packet p makes of the saved packets rq, and whether it is
\* answered with a reset.
Takes(p, e, rq, pend, f, sq, pendAfter) ==
    /\ Moves(p, e, f)
    /\ pend => pendAfter
    /\ f \in {0, 1} => sq = {}
    /\ f \notin Ids(sq)
    /\ p.type = "ACK" => sq = rq
    /\ IsData(p) =>
          /\ Ids(sq) \subseteq Ids(rq) \cup {p.id}
          /\ p.id = 0 /\ e >= 2 => pendAfter
          /\ e >= 1 => \A x \in Ids(rq) \cup {p.id} : x >= f => x \in Ids(sq)
          /\ f = e \/ f - 1 \in Ids(rq) \cup {p.id}

LEMMA TakePlaces ==
    ASSUME NEW w \in Seq(Packets), w # <<>>, NEW e \in Nat, NEW f \in Nat, NEW rq, NEW sq,
           NEW pend, NEW pendAfter, Takes(w[1], e, rq, pend, f, sq, pendAfter),
           OnesFirst(w, e)
    PROVE  OnesFirst(Tail(w), f)
<1> SUFFICES ASSUME NEW i \in DOMAIN Tail(w), IsData(Tail(w)[i]), Tail(w)[i].id >= 2
             PROVE  OneBefore(Tail(w), i, f)
  BY DEF OnesFirst
<1>1. /\ i + 1 \in 2 .. Len(w) + 1 /\ i + 1 \in DOMAIN w /\ Tail(w)[i] = w[i + 1]
      /\ (i + 1) - 1 = i
  <2>1. i \in 1 .. Len(w) - 1 /\ Len(w) \in Nat /\ DOMAIN w = 1 .. Len(w)
    BY TailPlaces
  <2>2. Tail(w)[i] = w[i + 1]
    BY <2>1, TailPlaces
  <2> QED BY <2>1, <2>2
<1>2. OneBefore(w, i + 1, e)
  BY <1>1 DEF OnesFirst
<1> QED BY <1>1, <1>2, OneBeforeTail DEF Takes

LEMMA TakeAfter ==
    ASSUME NEW w \in Seq(Packets), w # <<>>, NEW j \in 1 .. Len(w)
    PROVE  /\ IdsAfter(Tail(w), j - 1) = IdsAfter(w, j)
           /\ IdsAfter(w, 0) \subseteq IdsAfter(w, 1) \cup (IF IsData(w[1]) THEN {w[1].id} ELSE {})
<1>1. ASSUME NEW i \in DOMAIN w, i > j, IsData(w[i]) PROVE w[i].id \in IdsAfter(Tail(w), j - 1)
  <2>1. i - 1 \in DOMAIN Tail(w) /\ i - 1 > j - 1 /\ Tail(w)[i - 1] = w[i]
    BY <1>1, TailPlaces
  <2> QED BY <1>1, <2>1 DEF IdsAfter
<1>2. ASSUME NEW i \in DOMAIN Tail(w), i > j - 1, IsData(Tail(w)[i])
      PROVE  Tail(w)[i].id \in IdsAfter(w, j)
  <2>1. i + 1 \in DOMAIN w /\ i + 1 > j /\ Tail(w)[i] = w[i + 1]
    BY <1>2, TailPlaces
  <2> QED BY <1>2, <2>1 DEF IdsAfter
<1>3. ASSUME NEW i \in DOMAIN w, IsData(w[i])
      PROVE  w[i].id \in IdsAfter(w, 1) \cup (IF IsData(w[1]) THEN {w[1].id} ELSE {})
  <2>1. i = 1 \/ i > 1
    BY TailPlaces
  <2> QED BY <1>3, <2>1 DEF IdsAfter
<1>4. IdsAfter(Tail(w), j - 1) = IdsAfter(w, j)
  BY <1>1, <1>2 DEF IdsAfter
<1>5. IdsAfter(w, 0) \subseteq IdsAfter(w, 1) \cup (IF IsData(w[1]) THEN {w[1].id} ELSE {})
  BY <1>3 DEF IdsAfter
<1> QED BY <1>4, <1>5

\* Closed or not at its end, a running session keeps its promises when the
\* receiver takes the first packet of the path.
LEMMA TakeCovers ==
    ASSUME NEW w \in Seq(Packets), w # <<>>, NEW e \in Nat, NEW f \in Nat, NEW rq, NEW sq,
           NEW pend, NEW pendAfter, Takes(w[1], e, rq, pend, f, sq, pendAfter),
           NEW s \in Nat, NEW wq, Covers(w, e, rq, s, wq), ~Closed(w, Len(w) + 1, e)
    PROVE  Covers(Tail(w), f, sq, s, wq)
<1>0. /\ Len(w) \in Nat /\ Len(w) >= 1 /\ DOMAIN w = 1 .. Len(w)
      /\ Len(Tail(w)) = Len(w) - 1 /\ DOMAIN Tail(w) = 1 .. Len(w) - 1
  BY TailPlaces
<1>1. CASE \E j \in DOMAIN w : /\ Opens(w[j]) /\ Plain(w, j + 1, Len(w))
                               /\ 1 .. s - 1 \subseteq IdsAfter(w, j) \cup Ids(ToSet(wq))
  <2>1. PICK j \in DOMAIN w : /\ Opens(w[j]) /\ Plain(w, j + 1, Len(w))
                              /\ 1 .. s - 1 \subseteq IdsAfter(w, j) \cup Ids(ToSet(wq))
    BY <1>1
  <2>2. /\ Plain(Tail(w), (j + 1) - 1, Len(w) - 1)
        /\ IdsAfter(Tail(w), j - 1) = IdsAfter(w, j)
    BY <1>0, <2>1, ShiftPlain, TakeAfter
  <2>3. CASE j = 1
    <3>1. f >= 1
      BY <2>1, <2>3 DEF Takes, Moves, Opens, IsData, IsReset
    <3>2. f .. s - 1 \subseteq 1 .. s - 1
      BY <3>1
    <3>3. Plain(Tail(w), 1, Len(Tail(w)))
      BY <1>0, <2>2, <2>3
    <3> QED BY <2>1, <2>2, <2>3, <3>2, <3>3 DEF Covers
  <2>4. CASE j # 1
    <3>1. j \in 2 .. Len(w) /\ j - 1 \in DOMAIN Tail(w) /\ (j + 1) - 1 = (j - 1) + 1
      BY <1>0, <2>4
    <3>2. Tail(w)[j - 1] = w[j]
      BY <3>1, TailPlaces
    <3> QED BY <1>0, <2>1, <2>2, <3>1, <3>2 DEF Covers
  <2> QED BY <2>3, <2>4
<1>2. CASE /\ Plain(w, 1, Len(w))
           /\ e .. s - 1 \subseteq IdsAfter(w, 0) \cup Ids(ToSet(wq)) \cup Ids(rq)
  <2>1. e >= 1
    BY <1>2 DEF Closed, Plain, NoOpen
  <2>2. ~IsReset(w[1]) /\ ~Opens(w[1])
    BY <1>0, <1>2 DEF Plain
  <2>3. Plain(Tail(w), 1, Len(w) - 1)
    <3>1. Plain(w, 2, Len(w))
      BY <1>0, <1>2 DEF Plain
    <3>2. Plain(Tail(w), 2 - 1, Len(w) - 1)
      BY <1>0, <3>1, ShiftPlain
    <3> QED BY <3>2
  <2>4. IdsAfter(Tail(w), 0) = IdsAfter(w, 1)
    <3>1. IdsAfter(Tail(w), 1 - 1) = IdsAfter(w, 1)
      BY <1>0, TakeAfter
    <3> QED BY <3>1
  <2>5. /\ IdsAfter(w, 0) \subseteq IdsAfter(Tail(w), 0)
                                   \cup (IF IsData(w[1]) THEN {w[1].id} ELSE {})
    BY <1>0, <2>4, TakeAfter
  <2>6. f >= e
    BY <2>2 DEF Takes, Moves, IsReset, IsData
  <2>7. ASSUME NEW k \in f .. s - 1
        PROVE  k \in IdsAfter(Tail(w), 0) \cup Ids(ToSet(wq)) \cup Ids(sq)
    <3>1. k \in e .. s - 1 /\ k >= f
      BY <2>6
    <3>2. CASE w[1].type = "ACK"
      BY <1>2, <2>5, <3>1, <3>2 DEF Takes, IsData
    <3>3. CASE IsData(w[1])
      <4>1. \A x \in Ids(rq) \cup {w[1].id} : x >= f => x \in Ids(sq)
        BY <2>1, <3>3 DEF Takes
      <4>2. k \in IdsAfter(Tail(w), 0) \cup {w[1].id} \cup Ids(ToSet(wq)) \cup Ids(rq)
        BY <1>2, <2>5, <3>1, <3>3
      <4> QED BY <3>1, <4>1, <4>2
    <3> QED BY <2>2, <3>2, <3>3 DEF Takes, Moves
  <2> QED BY <1>0, <2>3, <2>7 DEF Covers
<1> QED BY <1>1, <1>2 DEF Covers

LEMMA TakeBelow ==
    ASSUME NEW w \in Seq(Packets), w # <<>>, NEW s \in Nat, Below(w, s)
    PROVE  Below(Tail(w), s)
<1> SUFFICES ASSUME NEW i \in DOMAIN Tail(w), IsData(Tail(w)[i]),
                    Plain(Tail(w), i + 1, Len(Tail(w)))
             PROVE  Tail(w)[i].id < s
  BY DEF Below
<1>1. /\ i \in 1 .. Len(w) - 1 /\ Len(w) \in Nat /\ DOMAIN w = 1 .. Len(w)
      /\ Len(Tail(w)) = Len(w) - 1
  BY TailPlaces
<1>2. Tail(w)[i] = w[i + 1]
  BY <1>1, TailPlaces
<1>3. (i + 1) + 1 \in 2 .. Len(w) + 1 /\ ((i + 1) + 1) - 1 = i + 1 /\ i + 1 \in DOMAIN w
  BY <1>1
<1>4. Plain(w, (i + 1) + 1, Len(w))
  <2>1. PICK k : k = (i + 1) + 1
    OBVIOUS
  <2>2. k \in 2 .. Len(w) + 1 /\ k - 1 = i + 1
    BY <1>3, <2>1
  <2>3. Plain(Tail(w), k - 1, Len(w) - 1)
    BY <1>1, <2>2
  <2>4. Plain(w, k, Len(w))
    BY <1>1, <2>2, <2>3, ShiftPlain
  <2> QED BY <2>1, <2>4
<1> QED BY <1>2, <1>3, <1>4 DEF Below

LEMMA TakeNotAhead ==
    ASSUME NEW w \in Seq(Packets), w # <<>>, NEW e \in Nat, NEW f \in Nat, NEW rq, NEW sq,
           NEW pend, NEW pendAfter, Takes(w[1], e, rq, pend, f, sq, pendAfter),
           e \in {0, 1} => rq = {},
           NEW s \in Nat, s > 0, Below(w, s), NotAhead(w, e, rq, s, pend),
           ~Closed(w, Len(w) + 1, e)
    PROVE  NotAhead(Tail(w), f, sq, s, pendAfter)
<1>0. /\ Len(w) \in Nat /\ Len(w) >= 1 /\ DOMAIN w = 1 .. Len(w) /\ w[1] \in Packets
      /\ DOMAIN Tail(w) = 1 .. Len(w) - 1
  BY TailPlaces
<1>1. CASE pend
  BY <1>1 DEF Takes, NotAhead
<1>2. CASE \E j \in 2 .. Len(w) : Opens(w[j])
  <2>1. PICK j \in 2 .. Len(w) : Opens(w[j])
    BY <1>2
  <2>2. j - 1 \in DOMAIN Tail(w) /\ Tail(w)[j - 1] = w[j]
    BY <1>0, TailPlaces
  <2> QED BY <2>1, <2>2 DEF NotAhead
<1>3. Ids({}) = {}
  BY DEF Ids
<1>4. CASE Opens(w[1])
  <2>1. CASE e >= 2
    BY <1>4, <2>1 DEF NotAhead, Takes, Opens, IsData
  <2>2. CASE e < 2
    <3>1. f = 1 /\ sq = {}
      BY <1>4, <2>2 DEF Takes, Moves, Opens, IsData, IsReset
    <3> QED BY <1>3, <3>1 DEF NotAhead
  <2> QED BY <2>1, <2>2
<1>5. CASE /\ e <= s /\ \A k \in Ids(rq) : k < s
           /\ ~Opens(w[1]) /\ ~\E j \in 2 .. Len(w) : Opens(w[j])
  <2>1. CASE w[1].type = "ACK"
    BY <1>5, <2>1 DEF NotAhead, Takes, Moves, IsReset, IsData
  <2>2. CASE IsReset(w[1])
    <3>1. f = 0 /\ sq = {}
      BY <2>2 DEF Takes, Moves, IsReset, IsData
    <3> QED BY <1>3, <3>1 DEF NotAhead
  <2>3. CASE IsData(w[1])
    <3>1. Plain(w, 1 + 1, Len(w))
      <4> SUFFICES ASSUME NEW l \in 2 .. Len(w), IsReset(w[l]) PROVE FALSE
        BY <1>5 DEF Plain
      <4>1. l \in 1 .. (Len(w) + 1) - 1 /\ NoOpen(w, l + 1, (Len(w) + 1) - 1)
        BY <1>0, <1>5 DEF NoOpen
      <4> QED BY <4>1 DEF Closed
    <3>2. w[1].id < s
      BY <1>0, <2>3, <3>1 DEF Below
    <3>3. \A k \in Ids(rq) \cup {w[1].id} : k < s
      BY <1>5, <3>2
    <3>4. \A k \in Ids(sq) : k < s
      BY <2>3, <3>3 DEF Takes
    <3>5. f <= s
      <4>1. f = e \/ f - 1 < s
        BY <2>3, <3>3 DEF Takes
      <4> QED BY <1>5, <4>1
    <3> QED BY <3>4, <3>5 DEF NotAhead
  <2> QED BY <2>1, <2>2, <2>3 DEF Takes, Moves
<1> QED BY <1>0, <1>1, <1>2, <1>4, <1>5 DEF NotAhead

\* The receiver takes the first packet of the path.
LEMMA DirectionTakes ==
    ASSUME NEW w \in Seq(Packets), w # <<>>, NEW e \in Nat, NEW f \in Nat, NEW rq, NEW sq,
           NEW pend, NEW pendAfter, Takes(w[1], e, rq, pend, f, sq, pendAfter),
           NEW s \in Nat, NEW wq, Direction(w, e, rq, s, wq, pend)
    PROVE  Direction(Tail(w), f, sq, s, wq, pendAfter)
<1>0. /\ Len(w) \in Nat /\ Len(w) >= 1 /\ Len(Tail(w)) + 1 = (Len(w) + 1) - 1
      /\ Len(w) + 1 \in 2 .. Len(w) + 1
  BY TailPlaces
<1>1. OnesFirst(Tail(w), f)
  BY TakePlaces DEF Direction
<1>2. ASSUME s > 0, ~Closed(Tail(w), Len(Tail(w)) + 1, f)
      PROVE  Running(Tail(w), f, sq, s, wq, pendAfter)
  <2>1. ~Closed(w, Len(w) + 1, e)
    BY <1>0, <1>2, ClosedTail DEF Takes
  <2>2. Running(w, e, rq, s, wq, pend)
    BY <1>2, <2>1 DEF Direction
  <2>3. Covers(Tail(w), f, sq, s, wq)
    BY <2>1, <2>2, TakeCovers DEF Running
  <2>4. NotAhead(Tail(w), f, sq, s, pendAfter)
    BY <1>2, <2>1, <2>2, TakeNotAhead DEF Running, Direction
  <2>5. OneBefore(w, Len(w) + 1, e) => OneBefore(Tail(w), Len(Tail(w)) + 1, f)
    BY <1>0, OneBeforeTail DEF Takes
  <2> QED BY <2>2, <2>3, <2>4, <2>5, TakeBelow DEF Running
<1> QED BY <1>1, <1>2 DEF Direction, Takes

-----------------------------------------------------------------------------
\* Packets sent go to the end of the path and leave the other places alone.

LEMMA AppendPlaces ==
    ASSUME NEW P, NEW w \in Seq(P), NEW p \in P
    PROVE  /\ Len(w) \in Nat /\ DOMAIN w = 1 .. Len(w)
           /\ Append(w, p) \in Seq(P) /\ Len(Append(w, p)) = Len(w) + 1
           /\ DOMAIN Append(w, p) = 1 .. Len(w) + 1
           /\ \A i \in 1 .. Len(w) : Append(w, p)[i] = w[i]
           /\ Append(w, p)[Len(w) + 1] = p
BY AppendProperties, LenProperties

LEMMA AppendClosed ==
    ASSUME NEW P, NEW w \in Seq(P), NEW p \in P, NEW e \in Nat, NEW i \in 1 .. Len(w) + 1
    PROVE  /\ Closed(w, i, e) => Closed(Append(w, p), i, e)
           /\ OneBefore(w, i, e) => OneBefore(Append(w, p), i, e)
<1>1. \A j \in 1 .. i - 1 : Append(w, p)[j] = w[j]
  BY AppendPlaces
<1>2. \A j \in 1 .. i : NoOpen(w, j, i - 1) => NoOpen(Append(w, p), j, i - 1)
  BY <1>1 DEF NoOpen
<1>3. \A j \in 1 .. i : Plain(w, j, i - 1) => Plain(Append(w, p), j, i - 1)
  BY <1>1 DEF Plain
<1>4. \A j \in 1 .. i - 1 : j + 1 \in 1 .. i
  OBVIOUS
<1>5. Closed(w, i, e) => Closed(Append(w, p), i, e)
  BY <1>1, <1>2, <1>4 DEF Closed
<1>6. OneBefore(w, i, e) => OneBefore(Append(w, p), i, e)
  BY <1>1, <1>3, <1>4, <1>5 DEF OneBefore
<1> QED BY <1>5, <1>6

\* The end of the path stays closed behind a packet that is not packet 0.
LEMMA AppendAtEnd ==
    ASSUME NEW P, NEW w \in Seq(P), NEW p \in P, NEW e \in Nat, ~Opens(p)
    PROVE  /\ Closed(w, Len(w) + 1, e) \/ IsReset(p) => Closed(Append(w, p), Len(w) + 2, e)
           /\ OneBefore(w, Len(w) + 1, e) => OneBefore(Append(w, p), Len(w) + 2, e)
<1>0. Len(w) \in Nat /\ (Len(w) + 1) - 1 = Len(w) /\ (Len(w) + 2) - 1 = Len(w) + 1
  BY AppendPlaces
<1>1. /\ \A j \in 1 .. Len(w) : Append(w, p)[j] = w[j]
      /\ Append(w, p)[Len(w) + 1] = p
  BY AppendPlaces
<1>2. \A j \in 1 .. Len(w) + 1 : NoOpen(w, j, Len(w)) => NoOpen(Append(w, p), j, Len(w) + 1)
  <2> SUFFICES ASSUME NEW j \in 1 .. Len(w) + 1, NoOpen(w, j, Len(w)), NEW l \in j .. Len(w) + 1
               PROVE  ~Opens(Append(w, p)[l])
    BY DEF NoOpen
  <2>1. l \in j .. Len(w) \/ l = Len(w) + 1
    BY <1>0
  <2> QED BY <1>0, <1>1, <2>1 DEF NoOpen
<1>3. ASSUME ~IsReset(p), NEW j \in 1 .. Len(w) + 1, Plain(w, j, Len(w))
      PROVE  Plain(Append(w, p), j, Len(w) + 1)
  <2> SUFFICES ASSUME NEW l \in j .. Len(w) + 1
               PROVE  ~Opens(Append(w, p)[l]) /\ ~IsReset(Append(w, p)[l])
    BY DEF Plain
  <2>1. l \in j .. Len(w) \/ l = Len(w) + 1
    BY <1>0
  <2> QED BY <1>0, <1>1, <1>3, <2>1 DEF Plain
<1>4. Closed(w, Len(w) + 1, e) => Closed(Append(w, p), Len(w) + 2, e)
  <2>1. CASE e = 0 /\ NoOpen(w, 1, (Len(w) + 1) - 1)
    BY <1>0, <1>2, <2>1 DEF Closed
  <2>2. ASSUME NEW j \in 1 .. (Len(w) + 1) - 1, IsReset(w[j]), NoOpen(w, j + 1, (Len(w) + 1) - 1)
        PROVE  Closed(Append(w, p), Len(w) + 2, e)
    <3>1. j \in 1 .. Len(w) /\ j + 1 \in 1 .. Len(w) + 1 /\ j \in 1 .. (Len(w) + 2) - 1
      BY <1>0
    <3>2. NoOpen(Append(w, p), j + 1, (Len(w) + 2) - 1) /\ IsReset(Append(w, p)[j])
      BY <1>0, <1>1, <1>2, <2>2, <3>1
    <3> QED BY <3>1, <3>2 DEF Closed
  <2> QED BY <2>1, <2>2 DEF Closed
<1>5. IsReset(p) => Closed(Append(w, p), Len(w) + 2, e)
  <2> SUFFICES ASSUME IsReset(p) PROVE Closed(Append(w, p), Len(w) + 2, e)
    OBVIOUS
  <2>1. NoOpen(Append(w, p), (Len(w) + 1) + 1, (Len(w) + 2) - 1)
    BY <1>0 DEF NoOpen
  <2>2. Len(w) + 1 \in 1 .. (Len(w) + 2) - 1 /\ IsReset(Append(w, p)[Len(w) + 1])
    BY <1>0, <1>1
  <2> QED BY <2>1, <2>2 DEF Closed
<1>6. OneBefore(w, Len(w) + 1, e) => OneBefore(Append(w, p), Len(w) + 2, e)
  <2>1. CASE Closed(w, Len(w) + 1, e) \/ IsReset(p)
    BY <1>4, <1>5, <2>1 DEF OneBefore
  <2>2. CASE e >= 2 /\ Plain(w, 1, (Len(w) + 1) - 1) /\ ~IsReset(p)
    BY <1>0, <1>3, <2>2 DEF OneBefore
  <2>3. ASSUME NEW j \in 1 .. (Len(w) + 1) - 1, IsData(w[j]), w[j].id = 1,
               Plain(w, j + 1, (Len(w) + 1) - 1), ~IsReset(p)
        PROVE  OneBefore(Append(w, p), Len(w) + 2, e)
    <3>1. j \in 1 .. Len(w) /\ j + 1 \in 1 .. Len(w) + 1 /\ j \in 1 .. (Len(w) + 2) - 1
      BY <1>0
    <3>2. Append(w, p)[j] = w[j]
      BY <1>1, <3>1
    <3>3. Plain(Append(w, p), j + 1, (Len(w) + 2) - 1)
      BY <1>0, <1>3, <2>3, <3>1
    <3> QED BY <2>3, <3>1, <3>2, <3>3 DEF OneBefore
  <2> QED BY <2>1, <2>2, <2>3 DEF OneBefore
<1> QED BY <1>4, <1>5, <1>6

\* An ACK or a reset is put on the path.
LEMMA OnesFirstQuiet ==
    ASSUME NEW w \in Seq(Packets), NEW p \in Packets, ~IsData(p), NEW e \in Nat,
           OnesFirst(w, e)
    PROVE  OnesFirst(Append(w, p), e)
<1> SUFFICES ASSUME NEW i \in DOMAIN Append(w, p), IsData(Append(w, p)[i]),
                    Append(w, p)[i].id >= 2
             PROVE  OneBefore(Append(w, p), i, e)
  BY DEF OnesFirst
<1>1. /\ Len(w) \in Nat /\ DOMAIN w = 1 .. Len(w) /\ i \in 1 .. Len(w) + 1
      /\ Append(w, p)[Len(w) + 1] = p
      /\ \A l \in 1 .. Len(w) : Append(w, p)[l] = w[l]
  BY AppendPlaces
<1>2. i \in 1 .. Len(w) /\ Append(w, p)[i] = w[i]
  BY <1>1
<1>3. OneBefore(w, i, e)
  BY <1>1, <1>2 DEF OnesFirst
<1> QED BY <1>1, <1>3, AppendClosed

LEMMA AppendAfter ==
    ASSUME NEW w \in Seq(Packets), NEW p \in Packets, NEW j \in Nat, j <= Len(w)
    PROVE  /\ IdsAfter(w, j) \subseteq IdsAfter(Append(w, p), j)
           /\ IsData(p) => p.id \in IdsAfter(Append(w, p), j)
<1>1. /\ Len(w) \in Nat /\ DOMAIN w = 1 .. Len(w)
      /\ DOMAIN Append(w, p) = 1 .. Len(w) + 1
      /\ \A i \in 1 .. Len(w) : Append(w, p)[i] = w[i]
      /\ Append(w, p)[Len(w) + 1] = p
  BY AppendPlaces
<1>2. ASSUME NEW i \in DOMAIN w, i > j, IsData(w[i])
      PROVE  w[i].id \in IdsAfter(Append(w, p), j)
  <2>1. i \in DOMAIN Append(w, p) /\ Append(w, p)[i] = w[i]
    BY <1>1
  <2> QED BY <1>2, <2>1 DEF IdsAfter
<1>3. ASSUME IsData(p) PROVE p.id \in IdsAfter(Append(w, p), j)
  <2>1. Len(w) + 1 \in DOMAIN Append(w, p) /\ Len(w) + 1 > j
    BY <1>1
  <2> QED BY <1>1, <1>3, <2>1 DEF IdsAfter
<1>4. IdsAfter(w, j) \subseteq IdsAfter(Append(w, p), j)
  BY <1>2 DEF IdsAfter
<1> QED BY <1>3, <1>4

\* What is neither packet 0 nor a reset leaves a plain end of the path plain.
LEMMA AppendPlain ==
    ASSUME NEW w \in Seq(Packets), NEW p \in Packets, NEW j \in 1 .. Len(w) + 1
    PROVE  /\ ~Opens(p) /\ ~IsReset(p) /\ Plain(w, j, Len(w))
                => Plain(Append(w, p), j, Len(w) + 1)
           /\ Plain(Append(w, p), j, Len(w) + 1)
                => Plain(w, j, Len(w)) /\ ~Opens(p) /\ ~IsReset(p)
<1>1. /\ Len(w) \in Nat /\ Append(w, p)[Len(w) + 1] = p
      /\ \A l \in 1 .. Len(w) : Append(w, p)[l] = w[l]
  BY AppendPlaces
<1>2. \A l \in j .. Len(w) + 1 : l = Len(w) + 1 \/ l \in j .. Len(w)
  BY <1>1
<1>3. \A l \in j .. Len(w) : l \in j .. Len(w) + 1 /\ l \in 1 .. Len(w)
  BY <1>1
<1>4. Len(w) + 1 \in j .. Len(w) + 1
  BY <1>1
<1>5. \A l \in j .. Len(w) : Append(w, p)[l] = w[l]
  BY <1>1, <1>3
<1>6. ASSUME ~Opens(p), ~IsReset(p), Plain(w, j, Len(w)), NEW l \in j .. Len(w) + 1
      PROVE  ~Opens(Append(w, p)[l]) /\ ~IsReset(Append(w, p)[l])
  BY <1>1, <1>2, <1>5, <1>6 DEF Plain
<1>7. ASSUME Plain(Append(w, p), j, Len(w) + 1), NEW l \in j .. Len(w)
      PROVE  ~Opens(w[l]) /\ ~IsReset(w[l])
  BY <1>3, <1>5, <1>7 DEF Plain
<1>8. Plain(Append(w, p), j, Len(w) + 1) => ~Opens(p) /\ ~IsReset(p)
  BY <1>1, <1>4 DEF Plain
<1> QED BY <1>6, <1>7, <1>8 DEF Plain

\* A running session goes on when p is sent, which is no reset and does not
\* open a session; the sender may have passed the id s.
LEMMA AppendRunning ==
    ASSUME NEW w \in Seq(Packets), NEW p \in Packets, ~Opens(p), ~IsReset(p),
           NEW e \in Nat, NEW rq, Ids(rq) \subseteq Nat,
           NEW s \in Nat, NEW t \in Nat, t = s \/ t = s + 1,
           NEW wq, NEW vq, NEW pend, s > 0, Running(w, e, rq, s, wq, pend),
           IsData(p) => p.id < t,
           Ids(ToSet(wq)) \subseteq Ids(ToSet(vq)) \cup (IF IsData(p) THEN {p.id} ELSE {}),
           t = s + 1 => s \in Ids(ToSet(vq)) \cup (IF IsData(p) THEN {p.id} ELSE {})
    PROVE  Running(Append(w, p), e, rq, t, vq, pend)
<1> DEFINE v == Append(w, p)
<1>1. /\ Len(w) \in Nat /\ DOMAIN w = 1 .. Len(w)
      /\ Len(v) = Len(w) + 1 /\ DOMAIN v = 1 .. Len(w) + 1
      /\ \A i \in 1 .. Len(w) : v[i] = w[i]
      /\ v[Len(w) + 1] = p
  BY AppendPlaces
<1> HIDE DEF v
<1>2. \A j \in 0 .. Len(w) : /\ IdsAfter(w, j) \subseteq IdsAfter(v, j)
                             /\ IsData(p) => p.id \in IdsAfter(v, j)
  <2> SUFFICES ASSUME NEW j \in 0 .. Len(w)
               PROVE  /\ IdsAfter(w, j) \subseteq IdsAfter(v, j)
                      /\ IsData(p) => p.id \in IdsAfter(v, j)
    OBVIOUS
  <2>1. j \in Nat /\ j <= Len(w)
    BY <1>1
  <2> QED BY <2>1, AppendAfter DEF v
<1>3. \A j \in 1 .. Len(w) + 1 : Plain(v, j, Len(w) + 1) <=> Plain(w, j, Len(w))
  BY AppendPlain DEF v
<1>4. Covers(v, e, rq, t, vq)
  <2>1. ASSUME NEW lo \in Nat, NEW S, NEW A, NEW B, lo .. s - 1 \subseteq S,
               A \subseteq B, S \subseteq A \cup Ids(ToSet(wq)) \cup Ids(rq), IsData(p) => p.id \in B
        PROVE  lo .. t - 1 \subseteq B \cup Ids(ToSet(vq)) \cup Ids(rq)
    <3> SUFFICES ASSUME NEW k \in lo .. t - 1
                 PROVE  k \in B \cup Ids(ToSet(vq)) \cup Ids(rq)
      OBVIOUS
    <3>1. k \in lo .. s - 1 \/ (k = s /\ t = s + 1)
      OBVIOUS
    <3> QED BY <2>1, <3>1
  <2>a. ASSUME NEW lo \in Nat, NEW A, NEW B, A \subseteq B, IsData(p) => p.id \in B,
               lo .. s - 1 \subseteq A \cup Ids(ToSet(wq))
        PROVE  lo .. t - 1 \subseteq B \cup Ids(ToSet(vq))
    <3> SUFFICES ASSUME NEW k \in lo .. t - 1 PROVE k \in B \cup Ids(ToSet(vq))
      OBVIOUS
    <3>1. k \in lo .. s - 1 \/ (k = s /\ t = s + 1)
      OBVIOUS
    <3> QED BY <2>a, <3>1
  <2>2. CASE \E j \in DOMAIN w : /\ Opens(w[j]) /\ Plain(w, j + 1, Len(w))
                                 /\ 1 .. s - 1 \subseteq IdsAfter(w, j) \cup Ids(ToSet(wq))
    <3>1. PICK j \in DOMAIN w : /\ Opens(w[j]) /\ Plain(w, j + 1, Len(w))
                                /\ 1 .. s - 1 \subseteq IdsAfter(w, j) \cup Ids(ToSet(wq))
      BY <2>2
    <3>2. j \in 0 .. Len(w) /\ j + 1 \in 1 .. Len(w) + 1 /\ j \in 1 .. Len(w) + 1
      BY <1>1
    <3>3. v[j] = w[j] /\ Plain(v, j + 1, Len(w) + 1)
      BY <1>1, <1>3, <3>1, <3>2
    <3>4. 1 .. t - 1 \subseteq IdsAfter(v, j) \cup Ids(ToSet(vq))
      BY <1>2, <2>a, <3>1, <3>2
    <3> QED BY <1>1, <3>1, <3>2, <3>3, <3>4 DEF Covers
  <2>3. CASE /\ Plain(w, 1, Len(w))
             /\ e .. s - 1 \subseteq IdsAfter(w, 0) \cup Ids(ToSet(wq)) \cup Ids(rq)
    <3>1. Plain(v, 1, Len(w) + 1)
      BY <1>1, <1>3, <2>3
    <3>2. e .. t - 1 \subseteq IdsAfter(v, 0) \cup Ids(ToSet(vq)) \cup Ids(rq)
      BY <1>1, <1>2, <2>1, <2>3
    <3> QED BY <1>1, <3>1, <3>2 DEF Covers
  <2> QED BY <2>2, <2>3 DEF Running, Covers
<1>5. Below(v, t)
  <2> SUFFICES ASSUME NEW i \in 1 .. Len(w) + 1, IsData(v[i]), Plain(v, i + 1, Len(w) + 1)
               PROVE  v[i].id < t
    BY <1>1 DEF Below
  <2>1. CASE i = Len(w) + 1
    BY <1>1, <2>1
  <2>2. CASE i \in 1 .. Len(w)
    <3>1. i + 1 \in 1 .. Len(w) + 1 /\ i \in DOMAIN w
      BY <1>1, <2>2
    <3>2. Plain(w, i + 1, Len(w)) /\ v[i] = w[i]
      BY <1>1, <1>3, <2>2, <3>1
    <3>3. w[i].id < s
      BY <3>1, <3>2 DEF Running, Below
    <3>4. w[i].id \in Nat
      BY <1>1, <2>2, ElementOfSeq DEF Packets, DataPackets, PacketIds
    <3>5. s <= t
      OBVIOUS
    <3>6. PICK x \in Nat : x = w[i].id
      BY <3>4
    <3>7. x < t
      <4> HIDE DEF v
      <4>1. \A a \in Nat : a < s => a < t
        BY <3>5
      <4> QED BY <3>3, <3>6, <4>1
    <3> QED BY <3>2, <3>6, <3>7
  <2> QED BY <1>1, <2>1, <2>2
<1>6. NotAhead(v, e, rq, t, pend)
  <2>1. \A j \in DOMAIN w : j \in DOMAIN v /\ v[j] = w[j]
    BY <1>1
  <2>2. ASSUME e <= s /\ \A k \in Ids(rq) : k < s
        PROVE  e <= t /\ \A k \in Ids(rq) : k < t
    <3>1. s <= t
      OBVIOUS
    <3>2. \A k \in Nat : k < s => k < t
      BY <3>1
    <3> QED BY <2>2, <3>1, <3>2
  <2> QED BY <2>1, <2>2 DEF Running, NotAhead
<1>7. ASSUME t >= 2 PROVE 1 \in Ids(ToSet(vq)) \/ OneBefore(v, Len(v) + 1, e)
  <2>1. Len(v) + 1 = Len(w) + 2
    BY <1>1
  <2>2. OneBefore(w, Len(w) + 1, e) => OneBefore(v, Len(w) + 2, e)
    BY AppendAtEnd DEF v
  <2>3. ASSUME IsData(p), p.id = 1 PROVE OneBefore(v, Len(w) + 2, e)
    <3>1. /\ Len(w) + 1 \in 1 .. (Len(w) + 2) - 1
          /\ Plain(v, (Len(w) + 1) + 1, (Len(w) + 2) - 1)
      BY <1>1 DEF Plain
    <3> QED BY <1>1, <2>3, <3>1 DEF OneBefore
  <2>4. s >= 2 \/ (s = 1 /\ t = s + 1)
    BY <1>7
  <2>5. 1 \in Ids(ToSet(wq)) => 1 \in Ids(ToSet(vq)) \/ (IsData(p) /\ p.id = 1)
    OBVIOUS
  <2>6. s = 1 /\ t = s + 1 => 1 \in Ids(ToSet(vq)) \/ (IsData(p) /\ p.id = 1)
    OBVIOUS
  <2> QED BY <2>1, <2>2, <2>3, <2>4, <2>5, <2>6 DEF Running
<1> QED BY <1>4, <1>5, <1>6, <1>7 DEF Running, v
\* What one step of either end makes of a direction: the sender is reset; it
\* hears or sends nothing; an ACK, a reset, or a packet of the session is sent;
\* a packet is put into the write queue; the receiver restarts.

LEMMA DirectionEnds ==
    ASSUME NEW w, NEW e, NEW rq, NEW s, NEW wq, NEW pend, NEW vq, NEW qend,
           Direction(w, e, rq, s, wq, pend)
    PROVE  Direction(w, e, rq, 0, vq, qend)
BY DEF Direction

LEMMA DirectionStays ==
    ASSUME NEW w, NEW e, NEW rq, NEW s, NEW wq, NEW pend, NEW qend, pend => qend,
           Direction(w, e, rq, s, wq, pend)
    PROVE  Direction(w, e, rq, s, wq, qend)
BY DEF Direction, Running, NotAhead

LEMMA DirectionAck ==
    ASSUME NEW w \in Seq(Packets), NEW p \in Packets, p.type = "ACK",
           NEW e \in Nat, NEW rq, Ids(rq) \subseteq Nat, NEW s \in Nat, NEW wq, NEW pend,
           Direction(w, e, rq, s, wq, pend)
    PROVE  Direction(Append(w, p), e, rq, s, wq, pend)
<1>1. ~IsData(p) /\ ~Opens(p) /\ ~IsReset(p)
  BY DEF IsData, Opens, IsReset
<1>2. OnesFirst(Append(w, p), e)
  BY <1>1, OnesFirstQuiet DEF Direction
<1>3. Len(Append(w, p)) + 1 = Len(w) + 2
  BY AppendPlaces
<1>4. Closed(w, Len(w) + 1, e) => Closed(Append(w, p), Len(w) + 2, e)
  BY <1>1, AppendAtEnd
<1>5. s > 0 /\ Running(w, e, rq, s, wq, pend) => Running(Append(w, p), e, rq, s, wq, pend)
  BY <1>1, AppendRunning
<1> QED BY <1>2, <1>3, <1>4, <1>5 DEF Direction

LEMMA DirectionMark ==
    ASSUME NEW w \in Seq(Packets), NEW p \in Packets, IsReset(p),
           NEW e \in Nat, NEW rq, NEW s \in Nat, NEW wq, NEW pend,
           NEW t, NEW vq, NEW qend, Direction(w, e, rq, s, wq, pend)
    PROVE  Direction(Append(w, p), e, rq, t, vq, qend)
<1>1. ~IsData(p) /\ ~Opens(p)
  BY DEF IsData, Opens, IsReset
<1>2. OnesFirst(Append(w, p), e)
  BY <1>1, OnesFirstQuiet DEF Direction
<1>3. Len(Append(w, p)) + 1 = Len(w) + 2
  BY AppendPlaces
<1>4. Closed(Append(w, p), Len(w) + 2, e)
  BY <1>1, AppendAtEnd
<1> QED BY <1>2, <1>3, <1>4 DEF Direction

\* Packet 0 opens the session; a later one with the id k goes on with it, taken
\* from the application or from the head of the write queue.
LEMMA DirectionData ==
    ASSUME NEW w \in Seq(Packets), NEW p \in Packets, IsData(p),
           NEW e \in Nat, NEW rq, Ids(rq) \subseteq Nat,
           NEW s \in Nat, NEW t \in Nat, t = s \/ t = s + 1, p.id < t,
           NEW wq, NEW vq, NEW pend,
           p.id = 0 => s = 0 /\ Ids(ToSet(vq)) = {},
           t = s + 1 => p.id = s,
           s = 0 => t = s + 1,
           Ids(ToSet(wq)) \subseteq Ids(ToSet(vq)) \cup {p.id},
           p.id >= 2 => 1 \notin Ids(ToSet(wq)),
           Direction(w, e, rq, s, wq, pend)
    PROVE  Direction(Append(w, p), e, rq, t, vq, pend)
<1> DEFINE v == Append(w, p)
<1>1. /\ Len(w) \in Nat /\ DOMAIN w = 1 .. Len(w)
      /\ Len(v) = Len(w) + 1 /\ DOMAIN v = 1 .. Len(w) + 1
      /\ \A i \in 1 .. Len(w) : v[i] = w[i]
      /\ v[Len(w) + 1] = p /\ p.id \in Nat
  BY AppendPlaces DEF IsData, Packets, DataPackets, PacketIds
<1> HIDE DEF v
<1>2. ~IsReset(p) /\ (Opens(p) <=> p.id = 0) /\ t > 0
  BY <1>1 DEF IsData, IsReset, Opens
<1>3. p.id >= 2 => OneBefore(w, Len(w) + 1, e)
  <2> SUFFICES ASSUME p.id >= 2 PROVE OneBefore(w, Len(w) + 1, e)
    OBVIOUS
  <2>1. s >= 2
    BY <1>1
  <2> QED BY <2>1 DEF Direction, Running, OneBefore
<1>4. OnesFirst(v, e)
  <2> SUFFICES ASSUME NEW i \in 1 .. Len(w) + 1, IsData(v[i]), v[i].id >= 2
               PROVE  OneBefore(v, i, e)
    BY <1>1 DEF OnesFirst
  <2>1. OneBefore(w, i, e)
    <3>1. CASE i = Len(w) + 1
      BY <1>1, <1>3, <3>1
    <3>2. CASE i \in 1 .. Len(w)
      BY <1>1, <3>2 DEF Direction, OnesFirst
    <3> QED BY <1>1, <3>1, <3>2
  <2> QED BY <2>1, AppendClosed DEF v
<1>5. CASE p.id = 0
  <2>1. s = 0 /\ t = 1 /\ Opens(v[Len(w) + 1]) /\ Len(w) + 1 \in DOMAIN v
    BY <1>1, <1>2, <1>5
  <2>2. Covers(v, e, rq, t, vq)
    <3>1. Plain(v, (Len(w) + 1) + 1, Len(v))
      BY <1>1 DEF Plain
    <3>2. 1 .. t - 1 = {}
      BY <2>1
    <3> QED BY <2>1, <3>1, <3>2 DEF Covers
  <2>3. Below(v, t)
    <3> SUFFICES ASSUME NEW i \in 1 .. Len(w) + 1, Plain(v, i + 1, Len(w) + 1)
                 PROVE  v[i].id < t
      BY <1>1 DEF Below
    <3>1. i = Len(w) + 1
      <4> SUFFICES ASSUME i # Len(w) + 1 PROVE FALSE
        OBVIOUS
      <4>1. Len(w) + 1 \in i + 1 .. Len(w) + 1
        BY <1>1
      <4> QED BY <2>1, <4>1 DEF Plain
    <3> QED BY <1>1, <1>5, <2>1, <3>1
  <2>4. NotAhead(v, e, rq, t, pend)
    BY <2>1 DEF NotAhead
  <2> QED BY <1>4, <2>1, <2>2, <2>3, <2>4 DEF Direction, Running, v
<1>6. CASE p.id # 0
  <2>1. s > 0 /\ ~Opens(p)
    BY <1>1, <1>2, <1>6
  <2>2. Closed(w, Len(w) + 1, e) => Closed(v, Len(v) + 1, e)
    <3>1. Len(v) + 1 = Len(w) + 2
      BY <1>1
    <3> QED BY <2>1, <3>1, AppendAtEnd DEF v
  <2>3. Running(w, e, rq, s, wq, pend) => Running(v, e, rq, t, vq, pend)
    BY <1>2, <2>1, AppendRunning DEF v
  <2> QED BY <1>4, <2>1, <2>2, <2>3 DEF Direction, v
<1> QED BY <1>5, <1>6

LEMMA DirectionQueued ==
    ASSUME NEW w \in Seq(Packets), NEW e \in Nat, NEW rq, Ids(rq) \subseteq Nat,
           NEW s \in Nat, s > 0, NEW wq, NEW vq, NEW pend,
           Ids(ToSet(vq)) = Ids(ToSet(wq)) \cup {s},
           Direction(w, e, rq, s, wq, pend)
    PROVE  Direction(w, e, rq, s + 1, vq, pend)
<1> SUFFICES ASSUME Running(w, e, rq, s, wq, pend)
             PROVE  Running(w, e, rq, s + 1, vq, pend)
  BY DEF Direction
<1>1. ASSUME NEW lo \in Nat, NEW S, lo .. s - 1 \subseteq S \cup Ids(ToSet(wq))
      PROVE  lo .. (s + 1) - 1 \subseteq S \cup Ids(ToSet(vq))
  <2>1. \A k \in lo .. (s + 1) - 1 : k \in lo .. s - 1 \/ k = s
    OBVIOUS
  <2> QED BY <1>1, <2>1
<1>2. ASSUME NEW S, e .. s - 1 \subseteq S \cup Ids(ToSet(wq)) \cup Ids(rq)
      PROVE  e .. (s + 1) - 1 \subseteq S \cup Ids(ToSet(vq)) \cup Ids(rq)
  <2>1. \A k \in e .. (s + 1) - 1 : k \in e .. s - 1 \/ k = s
    OBVIOUS
  <2> QED BY <1>2, <2>1
<1>3. Covers(w, e, rq, s + 1, vq)
  <2>1. \A j : 1 .. s - 1 \subseteq IdsAfter(w, j) \cup Ids(ToSet(wq))
                 => 1 .. (s + 1) - 1 \subseteq IdsAfter(w, j) \cup Ids(ToSet(vq))
    BY <1>1
  <2> QED BY <1>2, <2>1 DEF Running, Covers
<1>4. \A k \in Nat : k < s => k < s + 1
  OBVIOUS
<1>5. Below(w, s + 1)
  <2>1. \A i \in DOMAIN w : w[i].id \in Nat
    BY LenProperties, ElementOfSeq DEF Packets, DataPackets, PacketIds
  <2> QED BY <1>4, <2>1 DEF Running, Below
<1>6. NotAhead(w, e, rq, s + 1, pend)
  <2>1. e <= s => e <= s + 1
    OBVIOUS
  <2> QED BY <1>4, <2>1 DEF Running, NotAhead
<1>7. s + 1 >= 2 => 1 \in Ids(ToSet(vq)) \/ OneBefore(w, Len(w) + 1, e)
  <2>1. s >= 2 \/ s = 1
    OBVIOUS
  <2> QED BY <2>1 DEF Running
<1> QED BY <1>3, <1>5, <1>6, <1>7 DEF Running

LEMMA RestartCloses ==
    ASSUME NEW w, NEW e, NEW i, OneBefore(w, i, e)
    PROVE  OneBefore(w, i, 0) /\ (Closed(w, i, e) => Closed(w, i, 0))
<1>1. Closed(w, i, e) => Closed(w, i, 0)
  BY DEF Closed
<1>2. Plain(w, 1, i - 1) => Closed(w, i, 0)
  BY DEF Closed, Plain, NoOpen
<1> QED BY <1>1, <1>2 DEF OneBefore

LEMMA DirectionRestarts ==
    ASSUME NEW w \in Seq(Packets), NEW e \in Nat, NEW rq, NEW s \in Nat, NEW wq,
           NEW pend, NEW qend, pend => qend, Direction(w, e, rq, s, wq, pend)
    PROVE  Direction(w, 0, {}, s, wq, qend)
<1>1. OnesFirst(w, 0)
  BY RestartCloses DEF Direction, OnesFirst
<1>2. Ids({}) = {}
  BY DEF Ids
<1>3. ASSUME s > 0, ~Closed(w, Len(w) + 1, 0), Running(w, e, rq, s, wq, pend)
      PROVE  Running(w, 0, {}, s, wq, qend)
  <2>1. ~Plain(w, 1, Len(w))
    <3>1. Len(w) \in Nat /\ (Len(w) + 1) - 1 = Len(w)
      BY LenProperties
    <3>2. Plain(w, 1, Len(w)) => NoOpen(w, 1, Len(w))
      BY DEF Plain, NoOpen
    <3> QED BY <1>3, <3>1, <3>2 DEF Closed
  <2>2. Covers(w, 0, {}, s, wq)
    BY <1>3, <2>1 DEF Running, Covers
  <2>3. NotAhead(w, 0, {}, s, qend)
    BY <1>2, <1>3 DEF NotAhead
  <2> QED BY <1>3, <2>2, <2>3, RestartCloses DEF Running
<1>4. Closed(w, Len(w) + 1, e) => Closed(w, Len(w) + 1, 0)
  BY RestartCloses DEF OneBefore
<1> QED BY <1>1, <1>2, <1>3, <1>4 DEF Direction
-----------------------------------------------------------------------------
\* Paths that lose nothing, timers that wait for what is in flight, new
\* channels without tolerance of packet 0, few enough packets and faults that
\* ids do not wrap, and paths that hold all of them.

Longest(n) == MaxData[n] + MaxData[Peer[n]] + MaxFaults

Lossless ==
    /\ Ordered /\ ~MayLose /\ ~EarlyTimeouts /\ ~ZeroTolerance /\ StartId = 0
    /\ \A n \in Nodes :
        /\ Longest(n) < PacketIdLimit \div 2
        /\ 3 * (MaxData[n] + MaxData[Peer[n]]) + 2 * MaxFaults <= WireCap

\* A packet with what answers it: a DATA packet an ACK and a RESET at most, a
\* RESET its acknowledgement.
Cost(p) == IF p.type = "DATA" THEN 3 ELSE IF p.type = "RESET" THEN 2 ELSE 1
Weight(w) == Len(w) + NumberOf(w, {"DATA", "RESET"}) + NumberOf(w, {"DATA"})

NoTwins(queue) == \A i, j \in DOMAIN queue : queue[i].id = queue[j].id => i = j

\* The ids of the queued packets differ and lie behind the next one; packet 1
\* waits at the head of the write queue, behind packet 0.
SenderOk(n) ==
    /\ NoTwins(sendQueue[n]) /\ NoTwins(writeQueue[n])
    /\ Ids(ToSet(sendQueue[n])) \cap Ids(ToSet(writeQueue[n])) = {}
    /\ \A x \in Ids(ToSet(sendQueue[n])) \cup Ids(ToSet(writeQueue[n])) : x < sendId[n]
    /\ 1 \in Ids(ToSet(writeQueue[n])) =>
          /\ writeQueue[n][1].id = 1
          /\ \A x \in Ids(ToSet(sendQueue[n])) : x = 0

ReceiverOk(n) ==
    /\ receiveExpectedId[n] <= Longest(n)
    /\ \A x \in Ids(receiveQueue[n]) : x < Longest(n)

PathOk(n) == \A p \in ToSet(wire[n]) : p.type = "DATA" => p.id < Longest(n)

\* What awaits its ACK is in flight, or its ACK is.
Flying(n) ==
    \A x \in Ids(ToSet(sendQueue[n])) :
        \/ \E p \in ToSet(wire[Peer[n]]) : p.type = "DATA" /\ p.id = x
        \/ \E p \in ToSet(wire[n]) : p.type = "ACK" /\ p.id = x

\* What is on the path to n and waits at n fits, with all the answers, into
\* what the payloads and the faults account for.
Load(n) == Weight(wire[n]) + 3 * Len(writeQueue[n])
Budget(n) == 3 * (sent[n] + sent[Peer[n]]) + 2 * faults
Room(n) == Load(n) + Load(Peer[n]) <= Budget(n)

\* No id is used that was not taken by a payload or a RESET; each packet in
\* flight to n may make n send a RESET yet.
Taken(n) == sent[n] + sent[Peer[n]] + faults
IdsPaid(n) ==
    sendId[n] + NumberOf(wire[n], {"DATA"}) + Len(writeQueue[Peer[n]]) <= Taken(n)

Steady(n) ==
    /\ SenderOk(n) /\ ReceiverOk(n) /\ PathOk(n)
    /\ Flying(n) /\ Room(n) /\ IdsPaid(n)
    /\ sent[n] <= MaxData[n]

ResetComes(w) == \E j \in DOMAIN w : IsReset(w[j])

Directed(n) ==
    Direction(wire[Peer[n]], receiveExpectedId[Peer[n]], receiveQueue[Peer[n]],
              sendId[n], writeQueue[n], ResetComes(wire[n]))

ResetInv ==
    /\ TypeInv /\ WindowInv /\ WriteQueueBacked /\ faults <= MaxFaults
    /\ \A n \in Nodes : Steady(n) /\ Directed(n)

-----------------------------------------------------------------------------
LEMMA WeightAppend ==
    ASSUME NEW w \in Seq(Packets), NEW p \in Packets
    PROVE  /\ Weight(Append(w, p)) = Weight(w) + Cost(p)
           /\ Weight(w) \in Nat /\ Len(w) <= Weight(w) /\ Len(w) \in Nat
           /\ Weight(<<>>) = 0
<1>1. /\ NumberOf(Append(w, p), {"DATA", "RESET"})
            = NumberOf(w, {"DATA", "RESET"}) + IF p.type \in {"DATA", "RESET"} THEN 1 ELSE 0
      /\ NumberOf(Append(w, p), {"DATA"})
            = NumberOf(w, {"DATA"}) + IF p.type \in {"DATA"} THEN 1 ELSE 0
  BY NumberAppend
<1>2. /\ NumberOf(w, {"DATA", "RESET"}) \in Nat /\ NumberOf(w, {"DATA"}) \in Nat
      /\ Len(w) \in Nat /\ Len(Append(w, p)) = Len(w) + 1
  BY PlacesFinite, AppendProperties
<1>3. <<>> \in Seq(Packets) /\ Len(<<>>) = 0
  BY EmptySeq
<1>4. NumberOf(<<>>, {"DATA", "RESET"}) = 0 /\ NumberOf(<<>>, {"DATA"}) = 0
  BY <1>3, PlacesFinite
<1>5. Weight(Append(w, p)) = Weight(w) + Cost(p)
  <2>1. CASE p.type = "DATA"
    BY <1>1, <1>2, <2>1 DEF Weight, Cost
  <2>2. CASE p.type = "RESET"
    BY <1>1, <1>2, <2>2 DEF Weight, Cost
  <2>3. CASE p.type \notin {"DATA", "RESET"}
    BY <1>1, <1>2, <2>3 DEF Weight, Cost
  <2> QED BY <2>1, <2>2, <2>3
<1>6. Weight(w) \in Nat /\ Len(w) <= Weight(w)
  BY <1>2 DEF Weight
<1> QED BY <1>2, <1>3, <1>4, <1>5, <1>6 DEF Weight

LEMMA WeightTail ==
    ASSUME NEW w \in Seq(Packets), w # <<>>
    PROVE  /\ Weight(w) = Weight(Tail(w)) + Cost(Head(w))
           /\ Weight(Tail(w)) \in Nat
<1>1. PICK v, h : v = Tail(w) /\ h = Head(w)
  OBVIOUS
<1>2. /\ NumberOf(w, {"DATA", "RESET"})
            = NumberOf(v, {"DATA", "RESET"}) + IF h.type \in {"DATA", "RESET"} THEN 1 ELSE 0
      /\ NumberOf(w, {"DATA"}) = NumberOf(v, {"DATA"}) + IF h.type \in {"DATA"} THEN 1 ELSE 0
      /\ NumberOf(v, {"DATA", "RESET"}) \in Nat /\ NumberOf(v, {"DATA"}) \in Nat
  BY <1>1, NumberTail
<1>3. Len(w) \in Nat /\ Len(v) = Len(w) - 1 /\ Len(w) >= 1 /\ Len(v) \in Nat
  BY <1>1, TailPlaces
<1>4. Weight(w) = Weight(v) + Cost(h) /\ Weight(v) \in Nat
  <2>1. PICK x \in Nat, y \in Nat, z \in Nat :
          x = Len(v) /\ y = NumberOf(v, {"DATA", "RESET"}) /\ z = NumberOf(v, {"DATA"})
    BY <1>2, <1>3
  <2>2. Weight(v) = x + y + z /\ Len(w) = x + 1
    BY <1>3, <2>1 DEF Weight
  <2>3. CASE h.type = "DATA"
    <3>1. /\ NumberOf(w, {"DATA", "RESET"}) = y + 1 /\ NumberOf(w, {"DATA"}) = z + 1
          /\ Cost(h) = 3
      BY <1>2, <2>1, <2>3 DEF Cost
    <3> QED BY <2>2, <3>1 DEF Weight
  <2>4. CASE h.type = "RESET"
    <3>1. /\ NumberOf(w, {"DATA", "RESET"}) = y + 1 /\ NumberOf(w, {"DATA"}) = z
          /\ Cost(h) = 2
      BY <1>2, <2>1, <2>4 DEF Cost
    <3> QED BY <2>2, <3>1 DEF Weight
  <2>5. CASE h.type \notin {"DATA", "RESET"}
    <3>1. /\ NumberOf(w, {"DATA", "RESET"}) = y /\ NumberOf(w, {"DATA"}) = z
          /\ Cost(h) = 1
      BY <1>2, <2>1, <2>5 DEF Cost
    <3> QED BY <2>2, <3>1 DEF Weight
  <2> QED BY <2>2, <2>3, <2>4, <2>5
<1> QED BY <1>1, <1>4

\* A path that has room takes what is sent on it.
LEMMA PutFits ==
    ASSUME Ordered, NEW w \in Seq(Packets), NEW p \in Packets, NEW q \in Packets
    PROVE  /\ Len(w) <= WireCap => Put(w, <<>>) = w
           /\ Len(w) + 1 <= WireCap => Put(w, <<p>>) = Append(w, p)
           /\ Len(w) + 2 <= WireCap => Put(w, <<p, q>>) = Append(Append(w, p), q)
<1>1. /\ Len(w) \in Nat /\ <<>> \in Seq(Packets) /\ <<p>> \in Seq(Packets)
      /\ <<p, q>> \in Seq(Packets)
  BY LenProperties, EmptySeq
<1>2. w \o <<>> = w
  BY ConcatEmptySeq
<1>3. w \o <<p>> = Append(w, p)
  BY AppendIsConcat
<1>4. w \o <<p, q>> = Append(Append(w, p), q)
  <2>1. <<p, q>> = <<p>> \o <<q>>
    <3>1. <<p, q>> = Append(<<p>>, q)
      OBVIOUS
    <3> QED BY <1>1, <3>1, AppendIsConcat
  <2>2. w \o (<<p>> \o <<q>>) = (w \o <<p>>) \o <<q>>
    BY <1>1, ConcatAssociative
  <2>3. Append(w, p) \in Seq(Packets)
    BY AppendProperties
  <2>4. Append(w, p) \o <<q>> = Append(Append(w, p), q)
    BY <2>3, AppendIsConcat
  <2> QED BY <1>3, <2>1, <2>2, <2>4
<1>5. Len(Append(w, p)) = Len(w) + 1 /\ Len(Append(Append(w, p), q)) = Len(w) + 2
  <2>1. Append(w, p) \in Seq(Packets) /\ Len(Append(w, p)) = Len(w) + 1
    BY AppendProperties
  <2>2. Len(Append(Append(w, p), q)) = Len(Append(w, p)) + 1
    BY <2>1, AppendProperties
  <2> QED BY <1>1, <2>1, <2>2
<1> QED BY <1>1, <1>2, <1>3, <1>4, <1>5 DEF Put
-----------------------------------------------------------------------------
\* What the invariant says of two ends.

LEMMA BothEnds ==
    ASSUME Lossless, ResetInv, NEW n \in Nodes, NEW m, m = Peer[n]
    PROVE  /\ m \in Nodes /\ m # n /\ Peer[m] = n
           /\ \A k \in {n, m} :
                /\ Steady(k) /\ Directed(k)
                /\ sendId[k] \in PacketIds /\ receiveExpectedId[k] \in PacketIds
                /\ sendId[k] \in Nat /\ receiveExpectedId[k] \in Nat
                /\ sendQueue[k] \in Seq(DataPackets) /\ writeQueue[k] \in Seq(DataPackets)
                /\ receiveQueue[k] \subseteq DataPackets /\ Ids(receiveQueue[k]) \subseteq Nat
                /\ wire[k] \in Seq(Packets) /\ sent[k] \in Nat /\ MaxData[k] \in Nat
                /\ Len(writeQueue[k]) \in Nat /\ Weight(wire[k]) \in Nat
                /\ Load(k) \in Nat /\ NumberOf(wire[k], {"DATA"}) \in Nat
                /\ Budget(k) \in Nat /\ Budget(k) = Budget(n)
                /\ Taken(k) \in Nat /\ Taken(k) = Taken(n)
                /\ Longest(k) \in Nat /\ Longest(k) = Longest(n)
           /\ Longest(n) < PacketIdLimit \div 2 /\ Longest(n) < PacketIdLimit - 1
           /\ faults \in Nat /\ MaxFaults \in Nat /\ faults <= MaxFaults
<1>1. m \in Nodes /\ m # n /\ Peer[m] = n
  BY ChannelAssumption
<1>2. MaxFaults \in Nat /\ MaxData \in [Nodes -> Nat] /\ PacketIdLimit \in Nat /\ PacketIdLimit >= 4
  BY ChannelAssumption, PacketIdLimitAssumption
<1>3. ASSUME NEW k \in {n, m}
      PROVE  /\ Steady(k) /\ Directed(k)
             /\ sendId[k] \in PacketIds /\ receiveExpectedId[k] \in PacketIds
             /\ sendId[k] \in Nat /\ receiveExpectedId[k] \in Nat
             /\ sendQueue[k] \in Seq(DataPackets) /\ writeQueue[k] \in Seq(DataPackets)
             /\ receiveQueue[k] \subseteq DataPackets /\ Ids(receiveQueue[k]) \subseteq Nat
             /\ wire[k] \in Seq(Packets) /\ sent[k] \in Nat /\ MaxData[k] \in Nat
  <2>1. k \in Nodes
    BY <1>1
  <2>2. wire[k] \in Seq(Packets)
    BY <2>1 DEF Lossless, ResetInv, TypeInv, TypeOK, Wires
  <2>3. /\ receiveQueue[k] \subseteq DataPackets /\ sendId[k] \in PacketIds
        /\ receiveExpectedId[k] \in PacketIds
        /\ sendQueue[k] \in Seq(DataPackets) /\ writeQueue[k] \in Seq(DataPackets)
        /\ sent[k] \in Nat
    BY <2>1 DEF ResetInv, TypeInv, TypeOK
  <2>4. Ids(receiveQueue[k]) \subseteq Nat
    BY <2>3 DEF Ids, DataPackets, PacketIds
  <2>5. Steady(k) /\ Directed(k)
    BY <2>1 DEF ResetInv
  <2> QED BY <1>2, <2>1, <2>2, <2>3, <2>4, <2>5 DEF PacketIds
<1>4. \A k \in {n, m} : Weight(wire[k]) \in Nat /\ NumberOf(wire[k], {"DATA"}) \in Nat
  <2>1. PICK q \in Packets : TRUE
    <3>1. AckPacket([id |-> 0]) \in Packets
      BY <1>2 DEF AckPacket, Packets, PacketIds
    <3> QED BY <3>1
  <2> QED BY <1>3, <2>1, WeightAppend, PlacesFinite
<1>5. \A k \in {n, m} : Longest(k) \in Nat /\ Longest(k) = Longest(n)
  BY <1>1, <1>2 DEF Longest
<1>6. Longest(n) < PacketIdLimit \div 2 /\ Longest(n) < PacketIdLimit - 1
  <2>1. Longest(n) < PacketIdLimit \div 2
    BY DEF Lossless
  <2> QED BY <1>2, <1>5, <2>1
<1>7. faults \in Nat /\ faults <= MaxFaults
  BY DEF ResetInv, TypeInv, TypeOK
<1>8. \A k \in {n, m} : Len(writeQueue[k]) \in Nat
  BY <1>3, LenProperties
<1>9. ASSUME NEW k \in {n, m}
      PROVE  /\ Load(k) \in Nat /\ Budget(k) \in Nat /\ Budget(k) = Budget(n)
             /\ Taken(k) \in Nat /\ Taken(k) = Taken(n)
  <2>1. \A x, y \in Nat : x + 3 * y \in Nat
    OBVIOUS
  <2>2. Load(k) \in Nat
    BY <1>4, <1>8, <2>1 DEF Load
  <2>3. \A x, y, z \in Nat : /\ 3 * (x + y) + 2 * z \in Nat /\ x + y + z \in Nat
                            /\ x + y = y + x
    OBVIOUS
  <2>4. sent[n] \in Nat /\ sent[m] \in Nat
    BY <1>3
  <2> QED BY <1>1, <1>7, <2>2, <2>3, <2>4 DEF Budget, Taken
<1> QED BY <1>1, <1>2, <1>3, <1>4, <1>5, <1>6, <1>7, <1>8, <1>9

LEMMA QueuedIds ==
    ASSUME TypeInv, NEW n \in Nodes
    PROVE  Ids(ToSet(sendQueue[n])) \cup Ids(ToSet(writeQueue[n])) \subseteq Nat
<1>1. sendQueue[n] \in Seq(DataPackets) /\ writeQueue[n] \in Seq(DataPackets)
  BY DEF TypeInv, TypeOK
<1>2. ToSet(sendQueue[n]) \subseteq DataPackets /\ ToSet(writeQueue[n]) \subseteq DataPackets
  BY <1>1, LenProperties, ElementOfSeq DEF ToSet
<1> QED BY <1>2 DEF Ids, DataPackets, PacketIds

\* The paths have room for what may still be sent.
LEMMA PathsHold ==
    ASSUME Lossless, ResetInv, NEW n \in Nodes, NEW m, m = Peer[n]
    PROVE  /\ Load(n) + Load(m) <= WireCap /\ WireCap \in Nat
           /\ sent[n] < MaxData[n] => Load(n) + Load(m) + 3 <= WireCap
           /\ faults < MaxFaults => Load(n) + Load(m) + 2 <= WireCap
           /\ Weight(wire[n]) <= Load(n) /\ Weight(wire[m]) <= Load(m)
           /\ \A k \in {n, m} : writeQueue[k] # <<>> => Weight(wire[k]) + 3 <= Load(k)
<1>1. /\ Steady(n) /\ Steady(m) /\ sent[n] \in Nat /\ sent[m] \in Nat
      /\ MaxData[n] \in Nat /\ MaxData[m] \in Nat
      /\ faults \in Nat /\ MaxFaults \in Nat /\ faults <= MaxFaults
  BY BothEnds
<1>2. PICK load \in Nat : load = Load(n) + Load(m)
  BY BothEnds
<1>3. load <= 3 * (sent[n] + sent[m]) + 2 * faults
  BY <1>1, <1>2 DEF Steady, Room, Budget
<1>4. sent[n] <= MaxData[n] /\ sent[m] <= MaxData[m]
  BY <1>1 DEF Steady
<1>5. 3 * (MaxData[n] + MaxData[m]) + 2 * MaxFaults <= WireCap /\ WireCap \in Nat
  BY WireAssumption DEF Lossless
<1>6. /\ load <= WireCap
      /\ sent[n] < MaxData[n] => load + 3 <= WireCap
      /\ faults < MaxFaults => load + 2 <= WireCap
  BY <1>1, <1>3, <1>4, <1>5
<1>7. ASSUME NEW k \in {n, m}
      PROVE  /\ Weight(wire[k]) <= Load(k)
             /\ writeQueue[k] # <<>> => Weight(wire[k]) + 3 <= Load(k)
  <2>1. /\ Weight(wire[k]) \in Nat /\ Len(writeQueue[k]) \in Nat
        /\ writeQueue[k] \in Seq(DataPackets)
    BY BothEnds
  <2>2. writeQueue[k] # <<>> => Len(writeQueue[k]) >= 1
    BY <2>1, TailPlaces
  <2>3. \A x, y \in Nat : x <= x + 3 * y /\ (y >= 1 => x + 3 <= x + 3 * y)
    OBVIOUS
  <2> QED BY <2>1, <2>2, <2>3 DEF Load
<1> QED BY <1>2, <1>5, <1>6, <1>7

\* Sending, and answering an arrival, on ordered paths with room.
LEMMA PathSends ==
    ASSUME Lossless, TypeInv, NEW n \in Nodes, NEW p \in Packets
    PROVE  LET w == wire[Peer[n]]
           IN  /\ Transmit(n, <<p>>) /\ Weight(w) + Cost(p) <= WireCap =>
                     /\ wire'[Peer[n]] = Append(w, p)
                     /\ \A k \in Nodes \ {Peer[n]} : wire'[k] = wire[k]
               /\ Transmit(n, <<>>) /\ Weight(w) <= WireCap =>
                     \A k \in Nodes : wire'[k] = wire[k]
<1>1. /\ Peer[n] \in Nodes /\ wire[Peer[n]] \in Seq(Packets)
      /\ wire \in [Nodes -> Seq(Packets)] /\ Ordered
  BY ChannelAssumption DEF Lossless, TypeInv, TypeOK, Wires
<1>2. /\ Weight(wire[Peer[n]]) \in Nat /\ Len(wire[Peer[n]]) <= Weight(wire[Peer[n]])
      /\ Len(wire[Peer[n]]) \in Nat /\ Cost(p) \in {1, 2, 3} /\ WireCap \in Nat
  BY <1>1, WeightAppend, WireAssumption DEF Cost
<1>3. /\ Weight(wire[Peer[n]]) + Cost(p) <= WireCap => Len(wire[Peer[n]]) + 1 <= WireCap
      /\ Weight(wire[Peer[n]]) <= WireCap => Len(wire[Peer[n]]) <= WireCap
  BY <1>2
<1>4. /\ Len(wire[Peer[n]]) <= WireCap => Put(wire[Peer[n]], <<>>) = wire[Peer[n]]
      /\ Len(wire[Peer[n]]) + 1 <= WireCap => Put(wire[Peer[n]], <<p>>) = Append(wire[Peer[n]], p)
  BY <1>1, PutFits
<1> QED BY <1>1, <1>3, <1>4 DEF Transmit

LEMMA PathAnswers ==
    ASSUME Lossless, TypeInv, NEW n \in Nodes, NEW a \in Arrivals(wire[n])
    PROVE  LET m == Peer[n]
               w == wire[Peer[n]]
               took == /\ wire'[n] = Tail(wire[n])
                       /\ \A k \in Nodes \ {n, m} : wire'[k] = wire[k]
           IN  /\ wire[n] # <<>> /\ wire[n] \in Seq(Packets)
               /\ a.pkt = Head(wire[n]) /\ a.pkt \in Packets
               /\ Answer(n, a, <<>>) /\ Weight(w) <= WireCap => took /\ wire'[m] = w
               /\ \A p \in Packets :
                     Answer(n, a, <<p>>) /\ Weight(w) + Cost(p) <= WireCap
                        => took /\ wire'[m] = Append(w, p)
               /\ \A p, q \in Packets :
                     Answer(n, a, <<p, q>>) /\ Weight(w) + Cost(p) + Cost(q) <= WireCap
                        => took /\ wire'[m] = Append(Append(w, p), q)
<1> DEFINE m == Peer[n]
           w == wire[m]
           took == /\ wire'[n] = Tail(wire[n])
                   /\ \A k \in Nodes \ {n, m} : wire'[k] = wire[k]
<1>1. /\ m \in Nodes /\ m # n /\ w \in Seq(Packets)
      /\ wire \in [Nodes -> Seq(Packets)] /\ Ordered
  BY ChannelAssumption DEF Lossless, TypeInv, TypeOK, Wires
<1>2. a = [pkt |-> Head(wire[n]), rest |-> Tail(wire[n])] /\ wire[n] # <<>>
  BY <1>1 DEF Arrivals
<1>3. a.pkt = Head(wire[n]) /\ a.rest = Tail(wire[n]) /\ a.pkt \in Packets
  BY <1>1, <1>2, TailPlaces
<1>4. PICK weight \in Nat, long \in Nat, cap \in Nat :
        weight = Weight(w) /\ long = Len(w) /\ cap = WireCap /\ long <= weight
  BY <1>1, <1>3, WeightAppend, WireAssumption
<1>5. \A p : Cost(p) \in {1, 2, 3}
  BY DEF Cost
<1>7. ASSUME NEW out, Answer(n, a, out) PROVE took /\ wire'[m] = Put(w, out)
  BY <1>1, <1>3, <1>7 DEF Answer
<1> HIDE DEF w, took
<1>6. ASSUME NEW p \in Packets, NEW q \in Packets
      PROVE  /\ Len(w) <= WireCap => Put(w, <<>>) = w
             /\ Len(w) + 1 <= WireCap => Put(w, <<p>>) = Append(w, p)
             /\ Len(w) + 2 <= WireCap => Put(w, <<p, q>>) = Append(Append(w, p), q)
  BY <1>1, PutFits
<1>8. /\ Weight(w) <= WireCap => Len(w) <= WireCap
      /\ \A p \in Packets : Weight(w) + Cost(p) <= WireCap => Len(w) + 1 <= WireCap
      /\ \A p \in Packets, q \in Packets :
            Weight(w) + Cost(p) + Cost(q) <= WireCap => Len(w) + 2 <= WireCap
  <2>1. weight <= cap => long <= cap
    BY <1>4
  <2>2. ASSUME NEW x \in 1 .. 3, weight + x <= cap PROVE long + 1 <= cap
    BY <1>4, <2>2
  <2>3. ASSUME NEW x \in 1 .. 3, NEW y \in 1 .. 3, weight + x + y <= cap PROVE long + 2 <= cap
    <3>1. x + y >= 2 /\ weight + x + y = weight + (x + y) /\ x + y \in Nat
      OBVIOUS
    <3> QED BY <1>4, <2>3, <3>1
  <2>4. \A p : Cost(p) \in 1 .. 3
    BY <1>5
  <2> QED BY <1>4, <2>1, <2>2, <2>3, <2>4
<1>9. Answer(n, a, <<>>) /\ Weight(w) <= WireCap => took /\ wire'[m] = w
  BY <1>3, <1>6, <1>7, <1>8
<1>10. \A p \in Packets : Answer(n, a, <<p>>) /\ Weight(w) + Cost(p) <= WireCap
                             => took /\ wire'[m] = Append(w, p)
  BY <1>6, <1>7, <1>8
<1>11. \A p, q \in Packets : Answer(n, a, <<p, q>>) /\ Weight(w) + Cost(p) + Cost(q) <= WireCap
                                => took /\ wire'[m] = Append(Append(w, p), q)
  BY <1>6, <1>7, <1>8
<1>12. wire[n] \in Seq(Packets)
  BY <1>1
<1> QED BY <1>2, <1>3, <1>9, <1>10, <1>11, <1>12 DEF w, took, m
\* Ids of packets that are put into a queue or leave it
LEMMA TwinsAppend ==
    ASSUME NEW q \in Seq(DataPackets), NEW p \in DataPackets
    PROVE  /\ Append(q, p) \in Seq(DataPackets)
           /\ Ids(ToSet(Append(q, p))) = Ids(ToSet(q)) \cup {p.id}
           /\ NoTwins(q) /\ p.id \notin Ids(ToSet(q)) => NoTwins(Append(q, p))
<1>1. /\ Len(q) \in Nat /\ DOMAIN q = 1 .. Len(q) /\ Append(q, p) \in Seq(DataPackets)
      /\ DOMAIN Append(q, p) = 1 .. Len(q) + 1
      /\ \A i \in 1 .. Len(q) : Append(q, p)[i] = q[i]
      /\ Append(q, p)[Len(q) + 1] = p
  BY AppendPlaces
<1>2. ToSet(Append(q, p)) = ToSet(q) \cup {p}
  BY AppendElements
<1>3. ASSUME NoTwins(q), p.id \notin Ids(ToSet(q)),
             NEW i \in 1 .. Len(q) + 1, NEW j \in 1 .. Len(q) + 1,
             Append(q, p)[i].id = Append(q, p)[j].id
      PROVE  i = j
  <2>1. \A k \in 1 .. Len(q) : q[k].id # p.id
    BY <1>1, <1>3 DEF Ids, ToSet
  <2>2. i \in 1 .. Len(q) \/ i = Len(q) + 1
    BY <1>1
  <2>3. j \in 1 .. Len(q) \/ j = Len(q) + 1
    BY <1>1
  <2> QED BY <1>1, <1>3, <2>1, <2>2, <2>3 DEF NoTwins
<1> QED BY <1>1, <1>2, <1>3 DEF Ids, NoTwins

LEMMA TwinsRemoveAt ==
    ASSUME NEW q \in Seq(DataPackets), NEW i \in DOMAIN q, NoTwins(q)
    PROVE  /\ RemoveAt(q, i) \in Seq(DataPackets) /\ NoTwins(RemoveAt(q, i))
           /\ Ids(ToSet(RemoveAt(q, i))) = Ids(ToSet(q)) \ {q[i].id}
           /\ q[i].id \in Ids(ToSet(q))
<1> DEFINE v == RemoveAt(q, i)
<1>1. /\ Len(q) \in Nat /\ DOMAIN q = 1 .. Len(q) /\ DOMAIN v = 1 .. Len(q) - 1
      /\ v \in Seq(DataPackets)
      /\ \A k \in 1 .. Len(q) - 1 : v[k] = IF k < i THEN q[k] ELSE q[k + 1]
      /\ ToSet(v) \subseteq ToSet(q) /\ ToSet(q) \subseteq ToSet(v) \cup {q[i]}
  BY RemoveAtElements, RemoveAtPlaces, LenProperties
<1> HIDE DEF v
<1>2. \A k \in 1 .. Len(q) - 1 : \E l \in 1 .. Len(q) :
        v[k] = q[l] /\ l # i /\ l = IF k < i THEN k ELSE k + 1
  <2> SUFFICES ASSUME NEW k \in 1 .. Len(q) - 1
               PROVE  \E l \in 1 .. Len(q) :
                         v[k] = q[l] /\ l # i /\ l = IF k < i THEN k ELSE k + 1
    OBVIOUS
  <2>1. PICK l \in 1 .. Len(q) : l = IF k < i THEN k ELSE k + 1
    BY <1>1
  <2>2. l # i
    BY <1>1, <2>1
  <2> QED BY <1>1, <2>1, <2>2
<1>3. NoTwins(v)
  <2> SUFFICES ASSUME NEW k \in 1 .. Len(q) - 1, NEW l \in 1 .. Len(q) - 1, v[k].id = v[l].id
               PROVE  k = l
    BY <1>1 DEF NoTwins
  <2>1. PICK x \in 1 .. Len(q) : v[k] = q[x] /\ x = IF k < i THEN k ELSE k + 1
    BY <1>2
  <2>2. PICK y \in 1 .. Len(q) : v[l] = q[y] /\ y = IF l < i THEN l ELSE l + 1
    BY <1>2
  <2>3. x = y
    BY <1>1, <2>1, <2>2 DEF NoTwins
  <2> QED BY <1>1, <2>1, <2>2, <2>3
<1>4. q[i].id \notin Ids(ToSet(v))
  <2> SUFFICES ASSUME NEW k \in 1 .. Len(q) - 1, v[k].id = q[i].id PROVE FALSE
    BY <1>1 DEF Ids, ToSet
  <2>1. PICK x \in 1 .. Len(q) : v[k] = q[x] /\ x # i
    BY <1>2
  <2> QED BY <1>1, <2>1 DEF NoTwins
<1>5. Ids(ToSet(v)) = Ids(ToSet(q)) \ {q[i].id} /\ q[i].id \in Ids(ToSet(q))
  <2>1. q[i] \in ToSet(q)
    BY DEF ToSet
  <2> QED BY <1>1, <1>4, <2>1 DEF Ids
<1> QED BY <1>1, <1>3, <1>5 DEF v

LEMMA TwinsTail ==
    ASSUME NEW q \in Seq(DataPackets), q # <<>>, NoTwins(q)
    PROVE  /\ Tail(q) \in Seq(DataPackets) /\ NoTwins(Tail(q))
           /\ Head(q) \in DataPackets /\ Head(q) = q[1]
           /\ Ids(ToSet(Tail(q))) = Ids(ToSet(q)) \ {Head(q).id}
           /\ Head(q).id \in Ids(ToSet(q))
           /\ Len(Tail(q)) \in Nat /\ Len(q) = Len(Tail(q)) + 1
<1>1. 1 \in DOMAIN q /\ Tail(q) = RemoveAt(q, 1) /\ Head(q) = q[1]
  BY TailIsRemoveAt
<1>2. /\ RemoveAt(q, 1) \in Seq(DataPackets) /\ NoTwins(RemoveAt(q, 1))
      /\ Ids(ToSet(RemoveAt(q, 1))) = Ids(ToSet(q)) \ {q[1].id}
      /\ q[1].id \in Ids(ToSet(q))
  BY <1>1, TwinsRemoveAt
<1>3. Len(Tail(q)) \in Nat /\ Len(q) = Len(Tail(q)) + 1 /\ q[1] \in DataPackets
  BY TailPlaces
<1> QED BY <1>1, <1>2, <1>3

-----------------------------------------------------------------------------
\* What a step of n leaves alone.
OthersKept(n) ==
    /\ \A k \in Nodes \ {n} :
        /\ sendId'[k] = sendId[k] /\ sendQueue'[k] = sendQueue[k]
        /\ writeQueue'[k] = writeQueue[k]
        /\ receiveExpectedId'[k] = receiveExpectedId[k]
        /\ receiveQueue'[k] = receiveQueue[k] /\ sent'[k] = sent[k]
    /\ \A k \in Nodes \ {n, Peer[n]} : wire'[k] = wire[k]

SenderKept(k) ==
    /\ sendId'[k] = sendId[k] /\ sendQueue'[k] = sendQueue[k]
    /\ writeQueue'[k] = writeQueue[k]

ReceiverKept(k) ==
    receiveExpectedId'[k] = receiveExpectedId[k] /\ receiveQueue'[k] = receiveQueue[k]

\* The other pairs of ends do not notice a step of n.
LEMMA OtherPairs ==
    ASSUME Lossless, ResetInv, NEW n \in Nodes, OthersKept(n), faults' \in Nat,
           faults <= faults', faults' <= MaxFaults,
           TypeInv', WindowInv', WriteQueueBacked',
           \A k \in {n, Peer[n]} : Steady(k)' /\ Directed(k)'
    PROVE  ResetInv'
<1> SUFFICES ASSUME NEW k \in Nodes, k # n, k # Peer[n]
             PROVE  Steady(k)' /\ Directed(k)'
  BY DEF ResetInv
<1>1. /\ Peer[k] \in Nodes /\ Peer[k] # n /\ Peer[k] # Peer[n]
  BY ChannelAssumption
<1>2. /\ wire'[k] = wire[k] /\ wire'[Peer[k]] = wire[Peer[k]]
      /\ SenderKept(k) /\ ReceiverKept(k) /\ sent'[k] = sent[k]
      /\ SenderKept(Peer[k]) /\ ReceiverKept(Peer[k]) /\ sent'[Peer[k]] = sent[Peer[k]]
  BY <1>1 DEF OthersKept, SenderKept, ReceiverKept
<1>3. Steady(k) /\ Directed(k)
  BY DEF ResetInv
<1>4. SenderOk(k)' /\ ReceiverOk(k)' /\ PathOk(k)' /\ Flying(k)'
  BY <1>2, <1>3
  DEF Steady, SenderOk, ReceiverOk, PathOk, Flying, SenderKept, ReceiverKept, Longest
<1>5. Room(k)' /\ IdsPaid(k)'
  <2>1. /\ Load(k)' = Load(k) /\ Load(Peer[k])' = Load(Peer[k])
        /\ sendId'[k] = sendId[k] /\ wire'[k] = wire[k]
        /\ writeQueue'[Peer[k]] = writeQueue[Peer[k]]
    BY <1>2 DEF Load, SenderKept
  <2>2. /\ Load(k) \in Nat /\ Load(Peer[k]) \in Nat
        /\ Budget(k) \in Nat /\ Taken(k) \in Nat
        /\ sent[k] \in Nat /\ sent[Peer[k]] \in Nat /\ faults \in Nat
        /\ sendId[k] \in Nat /\ NumberOf(wire[k], {"DATA"}) \in Nat
        /\ Len(writeQueue[Peer[k]]) \in Nat
    BY BothEnds
  <2>3. Budget(k) <= Budget(k)' /\ Taken(k) <= Taken(k)' /\ Budget(k)' \in Nat /\ Taken(k)' \in Nat
    <3>1. \A x, y, f, g \in Nat : f <= g => /\ 3 * (x + y) + 2 * f <= 3 * (x + y) + 2 * g
                                           /\ x + y + f <= x + y + g
                                           /\ 3 * (x + y) + 2 * g \in Nat /\ x + y + g \in Nat
      OBVIOUS
    <3> QED BY <1>2, <2>2, <3>1 DEF Budget, Taken
  <2>4. \A x, y, z \in Nat : x <= y /\ y <= z => x <= z
    OBVIOUS
  <2>5. Load(k) + Load(Peer[k]) <= Budget(k)
    BY <1>3 DEF Steady, Room
  <2>6. sendId[k] + NumberOf(wire[k], {"DATA"}) + Len(writeQueue[Peer[k]]) <= Taken(k)
    BY <1>3 DEF Steady, IdsPaid
  <2>7. Room(k)'
    <3>1. Load(k) + Load(Peer[k]) \in Nat
      <4>1. \A x, y \in Nat : x + y \in Nat
        OBVIOUS
      <4> QED BY <2>2, <4>1
    <3>2. Load(k) + Load(Peer[k]) <= Budget(k)'
      BY <2>2, <2>3, <2>4, <2>5, <3>1
    <3> QED BY <2>1, <3>2 DEF Room
  <2>8. IdsPaid(k)'
    <3>1. sendId[k] + NumberOf(wire[k], {"DATA"}) + Len(writeQueue[Peer[k]]) \in Nat
      <4>1. \A x, y, z \in Nat : x + y + z \in Nat
        OBVIOUS
      <4> QED BY <2>2, <4>1
    <3>2. sendId[k] + NumberOf(wire[k], {"DATA"}) + Len(writeQueue[Peer[k]]) <= Taken(k)'
      BY <2>2, <2>3, <2>4, <2>6, <3>1
    <3> QED BY <2>1, <3>2 DEF IdsPaid
  <2> QED BY <2>7, <2>8
<1>6. Directed(k)'
  BY <1>2, <1>3 DEF Directed, SenderKept, ReceiverKept
<1>7. (sent[k] <= MaxData[k])'
  BY <1>2, <1>3 DEF Steady
<1> QED BY <1>4, <1>5, <1>6, <1>7 DEF Steady
\* The next id is one more as long as a payload, a fault or a packet in flight
\* still has its id to take.
LEMMA NextIdTaken ==
    ASSUME Lossless, ResetInv, NEW n \in Nodes,
           \/ sent[n] < MaxData[n] \/ faults < MaxFaults
           \/ NumberOf(wire[n], {"DATA"}) >= 1
    PROVE  /\ sendId[n] < Longest(n)
           /\ GetNextSeqId(sendId[n]) = sendId[n] + 1
<1>1. PICK m : m = Peer[n]
  OBVIOUS
<1>2. /\ Steady(n) /\ Steady(m) /\ sendId[n] \in PacketIds /\ sendId[n] \in Nat
      /\ sent[n] \in Nat /\ sent[m] \in Nat /\ MaxData[n] \in Nat /\ MaxData[m] \in Nat
      /\ faults \in Nat /\ MaxFaults \in Nat /\ faults <= MaxFaults
      /\ NumberOf(wire[n], {"DATA"}) \in Nat /\ Len(writeQueue[m]) \in Nat
      /\ Longest(n) \in Nat /\ Longest(n) < PacketIdLimit - 1
  BY <1>1, BothEnds
<1>3. /\ sendId[n] + NumberOf(wire[n], {"DATA"}) + Len(writeQueue[m])
            <= sent[n] + sent[m] + faults
      /\ sent[n] <= MaxData[n] /\ sent[m] <= MaxData[m]
      /\ Longest(n) = MaxData[n] + MaxData[m] + MaxFaults
  BY <1>1, <1>2 DEF Steady, IdsPaid, Taken, Longest
<1>4. \A s, x, y, a, b, f, A, B, F \in Nat :
        s + x + y <= a + b + f /\ a <= A /\ b <= B /\ f <= F /\ (a < A \/ f < F \/ x >= 1)
          => s < A + B + F
  OBVIOUS
<1>5. sendId[n] < Longest(n)
  <2>1. PICK s \in Nat, x \in Nat, y \in Nat, a \in Nat, b \in Nat :
           /\ s = sendId[n] /\ x = NumberOf(wire[n], {"DATA"}) /\ y = Len(writeQueue[m])
           /\ a = sent[n] /\ b = sent[m]
    BY <1>2
  <2>2. PICK f \in Nat, A \in Nat, B \in Nat, F \in Nat :
           f = faults /\ A = MaxData[n] /\ B = MaxData[m] /\ F = MaxFaults
    BY <1>2
  <2>3. /\ s + x + y <= a + b + f /\ a <= A /\ b <= B /\ f <= F
        /\ a < A \/ f < F \/ x >= 1
    BY <1>2, <1>3, <2>1, <2>2
  <2>4. s < A + B + F
    BY <1>4, <2>3
  <2> QED BY <1>3, <2>1, <2>2, <2>4
<1>6. sendId[n] # PacketIdLimit - 1
  BY <1>2, <1>5, PacketIdLimitAssumption
<1> QED BY <1>2, <1>5, <1>6, NextClosed

-----------------------------------------------------------------------------
\* The numbers that Room and IdsPaid relate.

Counted(wn, wm, qn, qm, dn, dm, sn, sm, an, am, f) ==
    /\ wn + 3 * qn + (wm + 3 * qm) <= 3 * (an + am) + 2 * f
    /\ sn + dn + qm <= an + am + f
    /\ sm + dm + qn <= an + am + f

Numbers(n, m, wn, wm, qn, qm, dn, dm, sn, sm, an, am, f) ==
    /\ wn = Weight(wire[n]) /\ wm = Weight(wire[m])
    /\ qn = Len(writeQueue[n]) /\ qm = Len(writeQueue[m])
    /\ dn = NumberOf(wire[n], {"DATA"}) /\ dm = NumberOf(wire[m], {"DATA"})
    /\ sn = sendId[n] /\ sm = sendId[m] /\ an = sent[n] /\ am = sent[m] /\ f = faults

CountsHold(n, m) ==
    \E wn, wm, qn, qm, dn, dm, sn, sm, an, am, f \in Nat :
        /\ Numbers(n, m, wn, wm, qn, qm, dn, dm, sn, sm, an, am, f)
        /\ Counted(wn, wm, qn, qm, dn, dm, sn, sm, an, am, f)

LEMMA CountsNow ==
    ASSUME Lossless, ResetInv, NEW n \in Nodes, NEW m, m = Peer[n]
    PROVE  CountsHold(n, m)
<1>1. /\ \A k \in {n, m} : /\ Weight(wire[k]) \in Nat /\ Len(writeQueue[k]) \in Nat
                           /\ NumberOf(wire[k], {"DATA"}) \in Nat
                           /\ sendId[k] \in Nat /\ sent[k] \in Nat /\ Steady(k)
      /\ faults \in Nat /\ Peer[m] = n
  BY BothEnds
<1>2. PICK wn \in Nat, wm \in Nat, qn \in Nat, qm \in Nat, dn \in Nat, dm \in Nat :
         /\ wn = Weight(wire[n]) /\ wm = Weight(wire[m])
         /\ qn = Len(writeQueue[n]) /\ qm = Len(writeQueue[m])
         /\ dn = NumberOf(wire[n], {"DATA"}) /\ dm = NumberOf(wire[m], {"DATA"})
  BY <1>1
<1>3. PICK sn \in Nat, sm \in Nat, an \in Nat, am \in Nat, f \in Nat :
         sn = sendId[n] /\ sm = sendId[m] /\ an = sent[n] /\ am = sent[m] /\ f = faults
  BY <1>1
<1>4. wn + 3 * qn + (wm + 3 * qm) <= 3 * (an + am) + 2 * f
  BY <1>1, <1>2, <1>3 DEF Steady, Room, Load, Budget
<1>5. sn + dn + qm <= an + am + f
  BY <1>1, <1>2, <1>3 DEF Steady, IdsPaid, Taken
<1>6. sm + dm + qn <= am + an + f
  BY <1>1, <1>2, <1>3 DEF Steady, IdsPaid, Taken
<1>7. sm + dm + qn <= an + am + f
  BY <1>6
<1>8. Counted(wn, wm, qn, qm, dn, dm, sn, sm, an, am, f)
  BY <1>4, <1>5, <1>7 DEF Counted
<1>9. Numbers(n, m, wn, wm, qn, qm, dn, dm, sn, sm, an, am, f)
  BY <1>2, <1>3 DEF Numbers
<1> QED BY <1>8, <1>9 DEF CountsHold

LEMMA CountsAgain ==
    ASSUME NEW n \in Nodes, NEW m, m = Peer[n],
           NEW wn \in Nat, NEW wm \in Nat, NEW qn \in Nat, NEW qm \in Nat,
           NEW dn \in Nat, NEW dm \in Nat, NEW sn \in Nat, NEW sm \in Nat,
           NEW an \in Nat, NEW am \in Nat, NEW f \in Nat,
           Numbers(n, m, wn, wm, qn, qm, dn, dm, sn, sm, an, am, f)',
           Counted(wn, wm, qn, qm, dn, dm, sn, sm, an, am, f)
    PROVE  Room(n)' /\ Room(m)' /\ IdsPaid(n)' /\ IdsPaid(m)'
<1>1. Peer[m] = n /\ Peer[n] = m
  BY ChannelAssumption
<1>2. /\ wn + 3 * qn + (wm + 3 * qm) <= 3 * (an + am) + 2 * f
      /\ wm + 3 * qm + (wn + 3 * qn) <= 3 * (am + an) + 2 * f
      /\ sn + dn + qm <= an + am + f
      /\ sm + dm + qn <= am + an + f
  BY DEF Counted
<1>3. Room(n)' /\ Room(m)'
  BY <1>1, <1>2 DEF Room, Load, Budget, Numbers
<1>4. IdsPaid(n)' /\ IdsPaid(m)'
  BY <1>1, <1>2 DEF IdsPaid, Taken, Numbers
<1> QED BY <1>3, <1>4

\* How a packet sent or taken changes them.
LEMMA CountsOfPath ==
    ASSUME NEW w \in Seq(Packets), NEW p \in Packets
    PROVE  /\ Weight(Append(w, p)) = Weight(w) + Cost(p)
           /\ NumberOf(Append(w, p), {"DATA"})
                = NumberOf(w, {"DATA"}) + IF IsData(p) THEN 1 ELSE 0
           /\ w # <<>> => /\ Weight(w) = Weight(Tail(w)) + Cost(Head(w))
                          /\ Weight(Tail(w)) \in Nat
                          /\ NumberOf(w, {"DATA"}) = NumberOf(Tail(w), {"DATA"})
                                                     + IF IsData(Head(w)) THEN 1 ELSE 0
                          /\ NumberOf(Tail(w), {"DATA"}) \in Nat
<1>1. \A q : q.type \in {"DATA"} <=> IsData(q)
  BY DEF IsData
<1>2. NumberOf(Append(w, p), {"DATA"}) = NumberOf(w, {"DATA"}) + IF IsData(p) THEN 1 ELSE 0
  BY <1>1, NumberAppend
<1>3. ASSUME w # <<>>
      PROVE  /\ NumberOf(w, {"DATA"}) = NumberOf(Tail(w), {"DATA"})
                                        + IF IsData(Head(w)) THEN 1 ELSE 0
             /\ NumberOf(Tail(w), {"DATA"}) \in Nat
  BY <1>1, <1>3, NumberTail
<1> QED BY <1>2, <1>3, WeightAppend, WeightTail

\* The packets on a path, and whether a reset is among them.
LEMMA ResetOnPath ==
    ASSUME NEW w \in Seq(Packets), NEW p \in Packets
    PROVE  /\ ToSet(Append(w, p)) = ToSet(w) \cup {p}
           /\ ResetComes(w) \/ IsReset(p) => ResetComes(Append(w, p))
           /\ w # <<>> => /\ ToSet(w) = ToSet(Tail(w)) \cup {Head(w)}
                          /\ ResetComes(w) /\ ~IsReset(Head(w)) => ResetComes(Tail(w))
                          /\ Tail(w) \in Seq(Packets)
           /\ Append(w, p) \in Seq(Packets)
<1>1. ToSet(Append(w, p)) = ToSet(w) \cup {p} /\ Append(w, p) \in Seq(Packets)
  BY AppendElements, AppendPlaces
<1>2. w # <<>> => ToSet(w) = ToSet(Tail(w)) \cup {Head(w)} /\ Tail(w) \in Seq(Packets)
  BY HeadAndTail, HeadElement, TailElements, TailPlaces
<1>3. \A v : ResetComes(v) <=> \E q \in ToSet(v) : IsReset(q)
  BY DEF ResetComes, ToSet
<1> QED BY <1>1, <1>2, <1>3

-----------------------------------------------------------------------------
\* trudpChannelSendData

LEMMA SendDataEffect ==
    ASSUME Lossless, ResetInv, NEW n \in Nodes, NEW m, m = Peer[n], SendData(n)
    PROVE  \E p \in DataPackets :
              /\ p.type = "DATA" /\ p.id = sendId[n] /\ p \in Packets
              /\ sent[n] < MaxData[n] /\ sent'[n] = sent[n] + 1 /\ faults' = faults
              /\ sendId'[n] = sendId[n] + 1 /\ ReceiverKept(n) /\ OthersKept(n)
              /\ wire'[n] = wire[n]
              /\ \/ /\ SendNow(sendQueue[n]) /\ sendQueue'[n] = Append(sendQueue[n], p)
                    /\ writeQueue'[n] = writeQueue[n] /\ wire'[m] = Append(wire[m], p)
                 \/ /\ ~SendNow(sendQueue[n]) /\ sendQueue'[n] = sendQueue[n]
                    /\ writeQueue'[n] = Append(writeQueue[n], p) /\ wire'[m] = wire[m]
<1>1. PICK p : p = DataPacket(sendId[n], sent[n] + 1)
  OBVIOUS
<1>2. PICK r : r = SendPacket(sendQueue[n], writeQueue[n], p)
  OBVIOUS
<1>3. /\ sent[n] < MaxData[n] /\ Transmit(n, r.out)
      /\ sendQueue' = [sendQueue EXCEPT ![n] = r.sq]
      /\ writeQueue' = [writeQueue EXCEPT ![n] = r.wq]
      /\ sendId' = [sendId EXCEPT ![n] = GetNextSeqId(sendId[n])]
      /\ sent' = [sent EXCEPT ![n] = sent[n] + 1]
      /\ UNCHANGED <<receiveExpectedId, receiveQueue, faults>>
  BY <1>1, <1>2 DEF SendData, receiverVars
<1>4. /\ m \in Nodes /\ m # n /\ sent[n] \in Nat /\ MaxData[n] \in Nat /\ sendId[n] \in PacketIds
      /\ sendId \in [Nodes -> PacketIds] /\ sent \in [Nodes -> Nat]
      /\ sendQueue \in [Nodes -> Seq(DataPackets)] /\ writeQueue \in [Nodes -> Seq(DataPackets)]
      /\ TypeInv
  BY BothEnds DEF ResetInv, TypeInv, TypeOK
<1>5. p \in DataPackets /\ p \in Packets /\ p.type = "DATA" /\ p.id = sendId[n]
  <2>1. sent[n] + 1 \in 1 .. MaxData[n]
    BY <1>3, <1>4
  <2>2. sent[n] + 1 \in Payloads
    BY <2>1 DEF Payloads
  <2> QED BY <1>1, <1>4, <2>2 DEF DataPacket, DataPackets, Packets
<1>6. GetNextSeqId(sendId[n]) = sendId[n] + 1
  BY <1>3, NextIdTaken
<1>7. /\ Weight(wire[m]) <= WireCap /\ Weight(wire[m]) + Cost(p) <= WireCap
  <2>1. /\ Load(n) \in Nat /\ Load(m) \in Nat /\ Weight(wire[m]) \in Nat /\ WireCap \in Nat
        /\ Load(n) + Load(m) + 3 <= WireCap /\ Weight(wire[m]) <= Load(m)
    BY <1>3, BothEnds, PathsHold
  <2>2. \A x, y, w, c \in Nat : x + y + 3 <= c /\ w <= y => w <= c /\ w + 3 <= c
    OBVIOUS
  <2> QED BY <1>5, <2>1, <2>2 DEF Cost
<1>8. \/ /\ SendNow(sendQueue[n]) /\ r.sq = Append(sendQueue[n], p)
         /\ r.wq = writeQueue[n] /\ r.out = <<p>>
      \/ /\ ~SendNow(sendQueue[n]) /\ r.sq = sendQueue[n]
         /\ r.wq = Append(writeQueue[n], p) /\ r.out = <<>>
  BY <1>2 DEF SendPacket
<1>9. /\ r.out = <<p>> => /\ wire'[m] = Append(wire[m], p)
                          /\ \A k \in Nodes \ {m} : wire'[k] = wire[k]
      /\ r.out = <<>> => \A k \in Nodes : wire'[k] = wire[k]
  BY <1>3, <1>4, <1>5, <1>7, PathSends, ZenonT(40)
<1>10. /\ sendQueue'[n] = r.sq /\ writeQueue'[n] = r.wq /\ sendId'[n] = sendId[n] + 1
       /\ sent'[n] = sent[n] + 1 /\ faults' = faults
  BY <1>3, <1>4, <1>6
<1>11. \A k \in Nodes \ {m} : wire'[k] = wire[k]
  BY <1>4, <1>8, <1>9
<1>12. OthersKept(n) /\ ReceiverKept(n)
  BY <1>3, <1>4, <1>11 DEF OthersKept, ReceiverKept
<1>13. \/ /\ SendNow(sendQueue[n]) /\ sendQueue'[n] = Append(sendQueue[n], p)
          /\ writeQueue'[n] = writeQueue[n] /\ wire'[m] = Append(wire[m], p)
       \/ /\ ~SendNow(sendQueue[n]) /\ sendQueue'[n] = sendQueue[n]
          /\ writeQueue'[n] = Append(writeQueue[n], p) /\ wire'[m] = wire[m]
  BY <1>4, <1>8, <1>9, <1>10
<1> QED BY <1>3, <1>4, <1>5, <1>10, <1>11, <1>12, <1>13

\* The packet takes its place in the queues: with packet 1 waiting, packet 0 is
\* alone in flight and nothing is sent past it.
LEMMA SenderSends ==
    ASSUME Lossless, ResetInv, NEW n \in Nodes, NEW p \in DataPackets, p.id = sendId[n],
           sendId'[n] = sendId[n] + 1,
           \/ /\ SendNow(sendQueue[n]) /\ sendQueue'[n] = Append(sendQueue[n], p)
              /\ writeQueue'[n] = writeQueue[n]
           \/ /\ ~SendNow(sendQueue[n]) /\ sendQueue'[n] = sendQueue[n]
              /\ writeQueue'[n] = Append(writeQueue[n], p)
    PROVE  /\ SenderOk(n)'
           /\ SendNow(sendQueue[n]) => 1 \notin Ids(ToSet(writeQueue[n]))
           /\ ~SendNow(sendQueue[n]) => sendId[n] > 0
           /\ sendId[n] = 0 => Ids(ToSet(writeQueue[n])) = {}
<1> DEFINE sq == sendQueue[n]
           wq == writeQueue[n]
           s == sendId[n]
<1>1. /\ sq \in Seq(DataPackets) /\ wq \in Seq(DataPackets) /\ s \in Nat /\ SenderOk(n)
      /\ \A x \in Ids(ToSet(sq)) \cup Ids(ToSet(wq)) : x \in Nat
  <2>1. sq \in Seq(DataPackets) /\ wq \in Seq(DataPackets) /\ s \in Nat /\ SenderOk(n)
    BY BothEnds DEF Steady
  <2>2. ToSet(sq) \subseteq DataPackets /\ ToSet(wq) \subseteq DataPackets
    BY <2>1, ElementOfSeq DEF ToSet
  <2> QED BY <2>1, <2>2 DEF Ids, DataPackets, PacketIds
<1>2. /\ WindowKept(n) /\ 0 \notin Ids(ToSet(wq)) /\ (wq # <<>> => sq # <<>>)
      /\ s = 0 => sq = <<>> /\ wq = <<>>
  BY DEF ResetInv, WindowInv, WriteQueueBacked
<1>3. Ids(ToSet(<<>>)) = {} /\ SendNow(<<>>)
  BY ChannelAssumption DEF Ids, ToSet, SendNow
<1>4. s = 0 => Ids(ToSet(wq)) = {} /\ SendNow(sq)
  BY <1>2, <1>3
<1>5. SendNow(sq) => 1 \notin Ids(ToSet(wq))
  <2> SUFFICES ASSUME 1 \in Ids(ToSet(wq)) PROVE ~SendNow(sq)
    OBVIOUS
  <2>1. sq # <<>> /\ \A x \in Ids(ToSet(sq)) : x = 0
    BY <1>1, <1>2, <1>3 DEF SenderOk
  <2>2. sq[1] \in ToSet(sq) /\ Len(sq) \in Nat
    BY <1>1, <2>1, TailPlaces DEF ToSet
  <2>3. sq[1].id = 0 /\ Len(sq) = 1
    BY <1>2, <2>1, <2>2 DEF Ids, WindowKept
  <2> QED BY <2>3 DEF SendNow
<1>6. p.id \notin Ids(ToSet(sq)) /\ p.id \notin Ids(ToSet(wq))
  BY <1>1 DEF SenderOk
<1> HIDE DEF sq, wq, s
<1>7. CASE SendNow(sq)
  <2>1. /\ sendQueue'[n] = Append(sq, p) /\ writeQueue'[n] = wq
    BY <1>7 DEF sq, wq
  <2>2. Ids(ToSet(Append(sq, p))) = Ids(ToSet(sq)) \cup {p.id} /\ NoTwins(Append(sq, p))
    BY <1>1, <1>6, TwinsAppend DEF SenderOk, sq
  <2>3. p.id = s /\ sendId'[n] = s + 1
    BY DEF s
  <2>4. SenderOk(n)'
    <3>1. /\ NoTwins(wq) /\ Ids(ToSet(sq)) \cap Ids(ToSet(wq)) = {}
          /\ \A x \in Ids(ToSet(sq)) \cup Ids(ToSet(wq)) : x < s
      BY <1>1 DEF SenderOk, sq, wq, s
    <3>2. \A x \in Ids(ToSet(sq)) \cup {s} \cup Ids(ToSet(wq)) : x < s + 1
      BY <1>1, <3>1
    <3> QED BY <1>5, <1>6, <1>7, <2>1, <2>2, <2>3, <3>1, <3>2 DEF SenderOk
  <2> QED BY <1>4, <1>5, <1>7, <2>4 DEF sq, wq, s
<1>8. CASE ~SendNow(sq)
  <2>1. /\ sendQueue'[n] = sq /\ writeQueue'[n] = Append(wq, p)
    BY <1>8 DEF sq, wq
  <2>2. Ids(ToSet(Append(wq, p))) = Ids(ToSet(wq)) \cup {p.id} /\ NoTwins(Append(wq, p))
    BY <1>1, <1>6, TwinsAppend DEF SenderOk, wq
  <2>3. p.id = s /\ sendId'[n] = s + 1 /\ s > 0
    BY <1>1, <1>4, <1>8 DEF s
  <2>4. SenderOk(n)'
    <3>1. /\ NoTwins(sq) /\ Ids(ToSet(sq)) \cap Ids(ToSet(wq)) = {}
          /\ \A x \in Ids(ToSet(sq)) \cup Ids(ToSet(wq)) : x < s
          /\ 1 \in Ids(ToSet(wq)) => wq[1].id = 1 /\ \A x \in Ids(ToSet(sq)) : x = 0
      BY <1>1 DEF SenderOk, sq, wq, s
    <3>2. \A x \in Ids(ToSet(sq)) \cup {s} \cup Ids(ToSet(wq)) : x < s + 1
      BY <1>1, <3>1
    <3>3. ASSUME 1 \in Ids(ToSet(wq)) \cup {s}
          PROVE  Append(wq, p)[1].id = 1 /\ \A x \in Ids(ToSet(sq)) : x = 0
      <4>1. CASE 1 \in Ids(ToSet(wq))
        <5>1. wq # <<>>
          BY <1>3, <4>1
        <5>2. Append(wq, p)[1] = wq[1]
          BY <1>1, <5>1, TailPlaces, AppendPlaces
        <5> QED BY <3>1, <4>1, <5>2
      <4>2. CASE 1 \notin Ids(ToSet(wq))
        <5>1. s = 1
          BY <3>3, <4>2
        <5>2. \A x \in Ids(ToSet(sq)) \cup Ids(ToSet(wq)) : x = 0
          BY <1>1, <3>1, <5>1
        <5>3. wq = <<>>
          <6> SUFFICES ASSUME wq # <<>> PROVE FALSE
            OBVIOUS
          <6>1. wq[1].id \in Ids(ToSet(wq))
            BY <1>1, TailPlaces DEF Ids, ToSet
          <6> QED BY <1>2, <5>2, <6>1 DEF wq
        <5>4. Append(wq, p)[1] = p
          BY <5>3
        <5> QED BY <2>3, <5>1, <5>2, <5>4
      <4> QED BY <4>1, <4>2
    <3> QED BY <1>6, <2>1, <2>2, <2>3, <3>1, <3>2, <3>3 DEF SenderOk
  <2> QED BY <1>8, <1>4, <1>5, <2>3, <2>4 DEF sq, wq, s
<1> QED BY <1>7, <1>8

LEMMA SendDataKeeps ==
    ASSUME Lossless, ResetInv, NEW n \in Nodes, NEW m, m = Peer[n], SendData(n)
    PROVE  /\ OthersKept(n) /\ faults' = faults
           /\ \A k \in {n, m} : Steady(k)' /\ Directed(k)'
<1>1. PICK p \in DataPackets :
              /\ p.type = "DATA" /\ p.id = sendId[n] /\ p \in Packets
              /\ sent[n] < MaxData[n] /\ sent'[n] = sent[n] + 1 /\ faults' = faults
              /\ sendId'[n] = sendId[n] + 1 /\ ReceiverKept(n) /\ OthersKept(n)
              /\ wire'[n] = wire[n]
              /\ \/ /\ SendNow(sendQueue[n]) /\ sendQueue'[n] = Append(sendQueue[n], p)
                    /\ writeQueue'[n] = writeQueue[n] /\ wire'[m] = Append(wire[m], p)
                 \/ /\ ~SendNow(sendQueue[n]) /\ sendQueue'[n] = sendQueue[n]
                    /\ writeQueue'[n] = Append(writeQueue[n], p) /\ wire'[m] = wire[m]
  BY SendDataEffect
<1>2. /\ m \in Nodes /\ m # n /\ Peer[m] = n /\ Peer[n] = m
      /\ \A k \in {n, m} :
            /\ Steady(k) /\ Directed(k) /\ sendId[k] \in Nat /\ receiveExpectedId[k] \in Nat
            /\ sendQueue[k] \in Seq(DataPackets) /\ writeQueue[k] \in Seq(DataPackets)
            /\ Ids(receiveQueue[k]) \subseteq Nat /\ wire[k] \in Seq(Packets)
            /\ sent[k] \in Nat /\ MaxData[k] \in Nat
  BY BothEnds
<1>3. /\ SenderKept(m) /\ ReceiverKept(m) /\ sent'[m] = sent[m]
  BY <1>1, <1>2 DEF OthersKept, SenderKept, ReceiverKept
<1>4. /\ SenderOk(n)'
      /\ SendNow(sendQueue[n]) => 1 \notin Ids(ToSet(writeQueue[n]))
      /\ ~SendNow(sendQueue[n]) => sendId[n] > 0
      /\ sendId[n] = 0 => Ids(ToSet(writeQueue[n])) = {}
  BY <1>1, SenderSends
<1>5. SenderOk(m)' /\ ReceiverOk(m)' /\ ReceiverOk(n)'
  BY <1>1, <1>2, <1>3 DEF Steady, SenderOk, ReceiverOk, SenderKept, ReceiverKept, Longest
<1>6. sendId[n] < Longest(n) /\ Longest(m) = Longest(n)
  BY <1>1, NextIdTaken, BothEnds
<1>7. ToSet(wire'[m]) \subseteq ToSet(wire[m]) \cup {p} /\ ToSet(wire[m]) \subseteq ToSet(wire'[m])
      /\ (ResetComes(wire[m]) => ResetComes(wire'[m]))
      /\ (SendNow(sendQueue[n]) => p \in ToSet(wire'[m]))
  <2>1. /\ ToSet(Append(wire[m], p)) = ToSet(wire[m]) \cup {p}
        /\ ResetComes(wire[m]) => ResetComes(Append(wire[m], p))
    BY <1>1, <1>2, ResetOnPath
  <2> QED BY <1>1, <2>1
<1>8. PathOk(n)' /\ PathOk(m)'
  BY <1>1, <1>2, <1>6, <1>7 DEF Steady, PathOk, Longest
<1>9. Flying(n)'
  <2> SUFFICES ASSUME NEW x \in Ids(ToSet(sendQueue'[n]))
               PROVE  \/ \E q \in ToSet(wire'[m]) : q.type = "DATA" /\ q.id = x
                      \/ \E q \in ToSet(wire'[n]) : q.type = "ACK" /\ q.id = x
    BY <1>2 DEF Flying
  <2>1. CASE x \in Ids(ToSet(sendQueue[n]))
    BY <1>1, <1>2, <1>7, <2>1 DEF Steady, Flying
  <2>2. CASE x \notin Ids(ToSet(sendQueue[n]))
    <3>1. SendNow(sendQueue[n]) /\ x \in Ids(ToSet(Append(sendQueue[n], p)))
      BY <1>1, <2>2
    <3>2. x = p.id
      BY <1>1, <1>2, <2>2, <3>1, TwinsAppend
    <3> QED BY <1>1, <1>7, <3>1, <3>2
  <2> QED BY <2>1, <2>2
<1>10. Flying(m)'
  <2> SUFFICES ASSUME NEW x \in Ids(ToSet(sendQueue[m]))
               PROVE  \/ \E q \in ToSet(wire'[n]) : q.type = "DATA" /\ q.id = x
                      \/ \E q \in ToSet(wire'[m]) : q.type = "ACK" /\ q.id = x
    BY <1>2, <1>3 DEF Flying, SenderKept
  <2>1. \/ \E q \in ToSet(wire[n]) : q.type = "DATA" /\ q.id = x
        \/ \E q \in ToSet(wire[m]) : q.type = "ACK" /\ q.id = x
    BY <1>2 DEF Steady, Flying
  <2> QED BY <1>1, <1>7, <2>1
<1>11. Room(n)' /\ Room(m)' /\ IdsPaid(n)' /\ IdsPaid(m)'
  <2>0. CountsHold(n, m)
    BY CountsNow
  <2>1. PICK wn, wm, qn, qm, dn, dm, sn, sm, an, am, f \in Nat :
              /\ Numbers(n, m, wn, wm, qn, qm, dn, dm, sn, sm, an, am, f)
              /\ Counted(wn, wm, qn, qm, dn, dm, sn, sm, an, am, f)
    BY <2>0 DEF CountsHold
  <2>2. CASE wire'[m] = Append(wire[m], p) /\ writeQueue'[n] = writeQueue[n]
    <3>1. /\ Weight(wire'[m]) = Weight(wire[m]) + 3
          /\ NumberOf(wire'[m], {"DATA"}) = NumberOf(wire[m], {"DATA"}) + 1
      BY <1>1, <1>2, <2>2, CountsOfPath DEF Cost, IsData
    <3>2. Numbers(n, m, wn, wm + 3, qn, qm, dn, dm + 1, sn + 1, sm, an + 1, am, f)'
      BY <1>1, <1>3, <2>1, <2>2, <3>1 DEF Numbers, SenderKept
    <3>3. Counted(wn, wm + 3, qn, qm, dn, dm + 1, sn + 1, sm, an + 1, am, f)
      BY <2>1 DEF Counted
    <3>4. wm + 3 \in Nat /\ dm + 1 \in Nat /\ sn + 1 \in Nat /\ an + 1 \in Nat
      OBVIOUS
    <3> QED BY <3>2, <3>3, <3>4, CountsAgain
  <2>3. CASE wire'[m] = wire[m] /\ writeQueue'[n] = Append(writeQueue[n], p)
    <3>1. Len(writeQueue'[n]) = Len(writeQueue[n]) + 1
      BY <1>1, <1>2, <2>3, AppendPlaces
    <3>2. Numbers(n, m, wn, wm, qn + 1, qm, dn, dm, sn + 1, sm, an + 1, am, f)'
      BY <1>1, <1>3, <2>1, <2>3, <3>1 DEF Numbers, SenderKept
    <3>3. Counted(wn, wm, qn + 1, qm, dn, dm, sn + 1, sm, an + 1, am, f)
      BY <2>1 DEF Counted
    <3>4. qn + 1 \in Nat /\ sn + 1 \in Nat /\ an + 1 \in Nat
      OBVIOUS
    <3> QED BY <3>2, <3>3, <3>4, CountsAgain
  <2> QED BY <1>1, <2>2, <2>3
<1>12. (sent[n] <= MaxData[n])' /\ (sent[m] <= MaxData[m])'
  BY <1>1, <1>2, <1>3 DEF Steady
<1>13. Directed(n)'
  <2>1. Direction(wire[m], receiveExpectedId[m], receiveQueue[m], sendId[n], writeQueue[n],
                  ResetComes(wire[n]))
    BY <1>2 DEF Directed
  <2>2. CASE SendNow(sendQueue[n])
    <3>1. Direction(Append(wire[m], p), receiveExpectedId[m], receiveQueue[m], sendId[n] + 1,
                    writeQueue[n], ResetComes(wire[n]))
      <4>1. /\ IsData(p) /\ sendId[n] + 1 \in Nat /\ p.id < sendId[n] + 1
            /\ p.id >= 2 => 1 \notin Ids(ToSet(writeQueue[n]))
            /\ p.id = 0 => sendId[n] = 0 /\ Ids(ToSet(writeQueue[n])) = {}
        <5>1. sendId[n] \in Nat /\ p.id = sendId[n] /\ p.type = "DATA"
          BY <1>1, <1>2
        <5> QED BY <1>4, <2>2, <5>1 DEF IsData
      <4> QED BY <1>1, <1>2, <2>1, <4>1, DirectionData
    <3> QED BY <1>1, <1>2, <1>3, <2>2, <3>1 DEF Directed, ReceiverKept
  <2>3. CASE ~SendNow(sendQueue[n])
    <3>1. Ids(ToSet(Append(writeQueue[n], p))) = Ids(ToSet(writeQueue[n])) \cup {sendId[n]}
      BY <1>1, <1>2, TwinsAppend
    <3>2. Direction(wire[m], receiveExpectedId[m], receiveQueue[m], sendId[n] + 1,
                    Append(writeQueue[n], p), ResetComes(wire[n]))
      BY <1>1, <1>2, <1>4, <2>1, <2>3, <3>1, DirectionQueued
    <3> QED BY <1>1, <1>2, <1>3, <2>3, <3>2 DEF Directed, ReceiverKept
  <2> QED BY <2>2, <2>3
<1>14. Directed(m)'
  <2>1. Direction(wire[n], receiveExpectedId[n], receiveQueue[n], sendId[m], writeQueue[m],
                  ResetComes(wire[m]))
    BY <1>2 DEF Directed
  <2>2. Direction(wire[n], receiveExpectedId[n], receiveQueue[n], sendId[m], writeQueue[m],
                  ResetComes(wire'[m]))
    BY <1>7, <2>1, DirectionStays
  <2> QED BY <1>1, <1>2, <1>3, <2>2 DEF Directed, SenderKept, ReceiverKept
<1>15. Steady(n)' /\ Steady(m)'
  BY <1>4, <1>5, <1>8, <1>9, <1>10, <1>11, <1>12 DEF Steady
<1> QED BY <1>1, <1>13, <1>14, <1>15


\* No id beyond those that payloads and faults have taken was used.
LEMMA IdsBounded ==
    ASSUME Lossless, ResetInv, NEW n \in Nodes
    PROVE  sendId[n] <= Longest(n)
<1>1. PICK m : m = Peer[n]
  OBVIOUS
<1>2. /\ Steady(n) /\ Steady(m) /\ sendId[n] \in Nat
      /\ sent[n] \in Nat /\ sent[m] \in Nat /\ MaxData[n] \in Nat /\ MaxData[m] \in Nat
      /\ faults \in Nat /\ MaxFaults \in Nat /\ faults <= MaxFaults
      /\ NumberOf(wire[n], {"DATA"}) \in Nat /\ Len(writeQueue[m]) \in Nat
  BY <1>1, BothEnds
<1>3. PICK s \in Nat, x \in Nat, y \in Nat, a \in Nat, b \in Nat :
         /\ s = sendId[n] /\ x = NumberOf(wire[n], {"DATA"}) /\ y = Len(writeQueue[m])
         /\ a = sent[n] /\ b = sent[m]
  BY <1>2
<1>4. PICK f \in Nat, A \in Nat, B \in Nat, F \in Nat :
         f = faults /\ A = MaxData[n] /\ B = MaxData[m] /\ F = MaxFaults
  BY <1>2
<1>5. s + x + y <= a + b + f /\ a <= A /\ b <= B /\ f <= F /\ Longest(n) = A + B + F
  BY <1>1, <1>2, <1>3, <1>4 DEF Steady, IdsPaid, Taken, Longest
<1>6. s <= A + B + F
  BY <1>5
<1> QED BY <1>3, <1>5, <1>6

\* What waits at the head of the write queue.
LEMMA WaitsFirst ==
    ASSUME Lossless, ResetInv, NEW n \in Nodes, NEW m, m = Peer[n], writeQueue[n] # <<>>,
           NEW p, p = Head(writeQueue[n])
    PROVE  /\ p \in DataPackets /\ p \in Packets /\ IsData(p) /\ p.id \in Nat /\ p.id # 0
           /\ p.id < sendId[n] /\ sendId[n] > 0 /\ p.id < Longest(n)
           /\ p.id \notin Ids(ToSet(sendQueue[n]))
           /\ NoTwins(Tail(writeQueue[n])) /\ 1 \notin Ids(ToSet(Tail(writeQueue[n])))
           /\ Ids(ToSet(Tail(writeQueue[n]))) = Ids(ToSet(writeQueue[n])) \ {p.id}
           /\ p.id \in Ids(ToSet(writeQueue[n]))
           /\ p.id >= 2 => 1 \notin Ids(ToSet(writeQueue[n]))
           /\ \E q \in Nat : Len(Tail(writeQueue[n])) = q /\ Len(writeQueue[n]) = q + 1
           /\ Weight(wire[m]) + 3 <= WireCap
<1>1. /\ Steady(n) /\ sendId[n] \in Nat /\ writeQueue[n] \in Seq(DataPackets)
      /\ Longest(n) \in Nat /\ m \in Nodes /\ Weight(wire[m]) \in Nat /\ Weight(wire[n]) \in Nat
      /\ Load(n) \in Nat /\ Load(m) \in Nat
  BY BothEnds
<1>2. /\ NoTwins(Tail(writeQueue[n])) /\ p \in DataPackets /\ p = writeQueue[n][1]
      /\ Ids(ToSet(Tail(writeQueue[n]))) = Ids(ToSet(writeQueue[n])) \ {p.id}
      /\ p.id \in Ids(ToSet(writeQueue[n]))
      /\ \E q \in Nat : Len(Tail(writeQueue[n])) = q /\ Len(writeQueue[n]) = q + 1
  BY <1>1, TwinsTail DEF Steady, SenderOk
<1>3. p \in Packets /\ IsData(p) /\ p.id \in Nat
  BY <1>2 DEF Packets, DataPackets, IsData, PacketIds
<1>4. /\ p.id < sendId[n] /\ p.id \notin Ids(ToSet(sendQueue[n]))
      /\ 1 \in Ids(ToSet(writeQueue[n])) => p.id = 1
  BY <1>1, <1>2 DEF Steady, SenderOk
<1>5. p.id # 0
  BY <1>2 DEF ResetInv, WindowInv
<1>6. p.id < Longest(n)
  <2>1. sendId[n] <= Longest(n)
    BY IdsBounded
  <2> QED BY <1>1, <1>3, <1>4, <2>1
<1>7. Weight(wire[m]) + 3 <= WireCap
  <2>1. /\ Load(n) + Load(m) <= WireCap /\ WireCap \in Nat /\ Weight(wire[m]) <= Load(m)
        /\ Weight(wire[n]) + 3 <= Load(n)
    BY PathsHold
  <2>2. PICK v \in Nat, w \in Nat, x \in Nat, y \in Nat :
           v = Weight(wire[n]) /\ w = Weight(wire[m]) /\ x = Load(n) /\ y = Load(m)
    BY <1>1
  <2>3. x + y <= WireCap /\ w <= y /\ v + 3 <= x
    BY <2>1, <2>2
  <2>4. w + 3 <= WireCap
    BY <2>1, <2>3
  <2> QED BY <2>2, <2>4
<1>8. sendId[n] > 0 /\ (p.id >= 2 => 1 \notin Ids(ToSet(writeQueue[n])))
      /\ 1 \notin Ids(ToSet(Tail(writeQueue[n])))
  BY <1>1, <1>2, <1>3, <1>4
<1> QED BY <1>2, <1>3, <1>4, <1>5, <1>6, <1>7, <1>8

-----------------------------------------------------------------------------
\* trudpChannelWriteQueueProcess

LEMMA FlushKeeps ==
    ASSUME Lossless, ResetInv, NEW n \in Nodes, NEW m, m = Peer[n], FlushWriteQueue(n)
    PROVE  /\ OthersKept(n) /\ faults' = faults
           /\ \A k \in {n, m} : Steady(k)' /\ Directed(k)'
<1>1. PICK p : p = Head(writeQueue[n])
  OBVIOUS
<1>2. /\ m \in Nodes /\ m # n /\ Peer[m] = n /\ Peer[n] = m
      /\ \A k \in {n, m} :
            /\ Steady(k) /\ Directed(k) /\ sendId[k] \in Nat /\ receiveExpectedId[k] \in Nat
            /\ sendQueue[k] \in Seq(DataPackets) /\ writeQueue[k] \in Seq(DataPackets)
            /\ Ids(receiveQueue[k]) \subseteq Nat /\ wire[k] \in Seq(Packets)
            /\ sent[k] \in Nat /\ MaxData[k] \in Nat
  BY BothEnds
<1>3. /\ p \in DataPackets /\ p \in Packets /\ IsData(p) /\ p.id \in Nat /\ p.id # 0
      /\ p.id < sendId[n] /\ sendId[n] > 0 /\ p.id < Longest(n)
      /\ NoTwins(Tail(writeQueue[n])) /\ 1 \notin Ids(ToSet(Tail(writeQueue[n])))
      /\ Ids(ToSet(Tail(writeQueue[n]))) = Ids(ToSet(writeQueue[n])) \ {p.id}
      /\ p.id >= 2 => 1 \notin Ids(ToSet(writeQueue[n]))
      /\ \E q \in Nat : Len(Tail(writeQueue[n])) = q /\ Len(writeQueue[n]) = q + 1
      /\ Weight(wire[m]) + 3 <= WireCap
  BY <1>1, WaitsFirst DEF FlushWriteQueue
<1>4. /\ wire'[m] = Append(wire[m], p) /\ wire'[n] = wire[n]
      /\ \A k \in Nodes \ {n, m} : wire'[k] = wire[k]
  <2>1. Transmit(n, <<p>>)
    BY <1>1 DEF FlushWriteQueue
  <2>2. Cost(p) = 3 /\ TypeInv
    BY <1>3 DEF Cost, IsData, ResetInv
  <2>3. wire'[m] = Append(wire[m], p) /\ \A k \in Nodes \ {m} : wire'[k] = wire[k]
    BY <1>2, <1>3, <2>1, <2>2, PathSends, SMTT(20)
  <2> QED BY <1>2, <2>3
<1>5. /\ writeQueue'[n] = Tail(writeQueue[n]) /\ writeQueue'[m] = writeQueue[m]
      /\ OthersKept(n) /\ sendId' = sendId /\ sendQueue' = sendQueue /\ sent' = sent
      /\ receiveExpectedId' = receiveExpectedId /\ receiveQueue' = receiveQueue
      /\ faults' = faults
  BY <1>2, <1>4
  DEF FlushWriteQueue, OthersKept, receiverVars, historyVars, ResetInv, TypeInv, TypeOK
<1>6. SenderOk(n)' /\ SenderOk(m)' /\ ReceiverOk(n)' /\ ReceiverOk(m)'
  BY <1>2, <1>3, <1>5 DEF Steady, SenderOk, ReceiverOk, Longest
<1>7. /\ ToSet(wire'[m]) = ToSet(wire[m]) \cup {p}
      /\ ResetComes(wire[m]) => ResetComes(wire'[m])
  BY <1>2, <1>3, <1>4, ResetOnPath, SMTT(20)
<1>8. PathOk(n)' /\ PathOk(m)'
  <2>1. Longest(m) = Longest(n)
    BY BothEnds
  <2> QED BY <1>2, <1>3, <1>4, <1>7, <2>1 DEF Steady, PathOk, Longest
<1>9. Flying(n)' /\ Flying(m)'
  <2> SUFFICES ASSUME NEW k \in {n, m}, NEW x \in Ids(ToSet(sendQueue[k]))
               PROVE  \/ \E q \in ToSet(wire'[Peer[k]]) : q.type = "DATA" /\ q.id = x
                      \/ \E q \in ToSet(wire'[k]) : q.type = "ACK" /\ q.id = x
    BY <1>5 DEF Flying
  <2>1. \/ \E q \in ToSet(wire[Peer[k]]) : q.type = "DATA" /\ q.id = x
        \/ \E q \in ToSet(wire[k]) : q.type = "ACK" /\ q.id = x
    BY <1>2 DEF Steady, Flying
  <2> QED BY <1>2, <1>4, <1>7, <2>1
<1>10. Room(n)' /\ Room(m)' /\ IdsPaid(n)' /\ IdsPaid(m)'
  <2>0. CountsHold(n, m)
    BY CountsNow
  <2>1. PICK wn, wm, qn, qm, dn, dm, sn, sm, an, am, f \in Nat :
              /\ Numbers(n, m, wn, wm, qn, qm, dn, dm, sn, sm, an, am, f)
              /\ Counted(wn, wm, qn, qm, dn, dm, sn, sm, an, am, f)
    BY <2>0 DEF CountsHold
  <2>2. PICK q \in Nat : Len(writeQueue'[n]) = q /\ Len(writeQueue[n]) = q + 1
    BY <1>3, <1>5
  <2>3. /\ Weight(wire'[m]) = Weight(wire[m]) + 3
        /\ NumberOf(wire'[m], {"DATA"}) = NumberOf(wire[m], {"DATA"}) + 1
    BY <1>2, <1>3, <1>4, CountsOfPath DEF Cost, IsData
  <2>4. Numbers(n, m, wn, wm + 3, q, qm, dn, dm + 1, sn, sm, an, am, f)' /\ qn = q + 1
    BY <1>4, <1>5, <2>1, <2>2, <2>3 DEF Numbers
  <2>5. Counted(wn, wm + 3, q, qm, dn, dm + 1, sn, sm, an, am, f)
    BY <2>1, <2>4 DEF Counted
  <2>6. wm + 3 \in Nat /\ dm + 1 \in Nat
    OBVIOUS
  <2> QED BY <2>4, <2>5, <2>6, CountsAgain
<1>11. Directed(n)'
  <2>1. Direction(wire[m], receiveExpectedId[m], receiveQueue[m], sendId[n], writeQueue[n],
                  ResetComes(wire[n]))
    BY <1>2 DEF Directed
  <2>2. Direction(Append(wire[m], p), receiveExpectedId[m], receiveQueue[m], sendId[n],
                  Tail(writeQueue[n]), ResetComes(wire[n]))
    <3>1. sendId[n] # sendId[n] + 1 /\ sendId[n] # 0 /\ sendId[n] \in Nat
      BY <1>2, <1>3
    <3>2. Ids(ToSet(writeQueue[n])) \subseteq Ids(ToSet(Tail(writeQueue[n]))) \cup {p.id}
      BY <1>3
    <3> QED BY <1>2, <1>3, <2>1, <3>1, <3>2, DirectionData
  <2> QED BY <1>2, <1>4, <1>5, <2>2 DEF Directed
<1>12. Directed(m)'
  <2>1. Direction(wire[n], receiveExpectedId[n], receiveQueue[n], sendId[m], writeQueue[m],
                  ResetComes(wire[m]))
    BY <1>2 DEF Directed
  <2>2. Direction(wire[n], receiveExpectedId[n], receiveQueue[n], sendId[m], writeQueue[m],
                  ResetComes(wire'[m]))
    BY <1>7, <2>1, DirectionStays
  <2> QED BY <1>2, <1>4, <1>5, <2>2 DEF Directed
<1>13. Steady(n)' /\ Steady(m)'
  BY <1>2, <1>5, <1>6, <1>8, <1>9, <1>10 DEF Steady
<1> QED BY <1>5, <1>11, <1>12, <1>13


-----------------------------------------------------------------------------
\* Taking a packet from the path leaves room for the answers.
LEMMA PathFits ==
    ASSUME Lossless, ResetInv, NEW n \in Nodes, NEW m, m = Peer[n]
    PROVE  /\ Weight(wire[m]) <= WireCap /\ Weight(wire[m]) \in Nat /\ WireCap \in Nat
           /\ wire[n] # <<>> => Weight(wire[m]) + Cost(Head(wire[n])) <= WireCap
           /\ faults < MaxFaults => Weight(wire[m]) + 2 <= WireCap
<1>1. /\ Weight(wire[m]) \in Nat /\ Weight(wire[n]) \in Nat /\ wire[n] \in Seq(Packets)
      /\ Load(n) \in Nat /\ Load(m) \in Nat
  BY BothEnds
<1>2. PICK v \in Nat, w \in Nat, x \in Nat, y \in Nat, c \in Nat :
         v = Weight(wire[n]) /\ w = Weight(wire[m]) /\ x = Load(n) /\ y = Load(m) /\ c = WireCap
  BY <1>1, PathsHold
<1>3. x + y <= c /\ w <= y /\ v <= x /\ (faults < MaxFaults => x + y + 2 <= c)
  BY <1>2, PathsHold
<1>4. w <= c /\ v + w <= c /\ (faults < MaxFaults => w + 2 <= c)
  BY <1>3
<1>5. ASSUME wire[n] # <<>> PROVE w + Cost(Head(wire[n])) <= c
  <2>1. /\ Weight(wire[n]) = Weight(Tail(wire[n])) + Cost(Head(wire[n]))
        /\ Weight(Tail(wire[n])) \in Nat /\ Cost(Head(wire[n])) \in 1 .. 3
    BY <1>1, <1>5, WeightTail DEF Cost
  <2>2. PICK t \in Nat, h \in Nat : t = Weight(Tail(wire[n])) /\ h = Cost(Head(wire[n]))
    BY <2>1
  <2>3. v = t + h
    BY <1>2, <2>1, <2>2
  <2>4. w + h <= c
    BY <1>4, <2>3
  <2> QED BY <2>2, <2>4
<1> QED BY <1>1, <1>2, <1>4, <1>5

\* An ACK changes nothing at the receiver.
LEMMA AckTaken ==
    ASSUME Lossless, ResetInv, NEW n \in Nodes, NEW m, m = Peer[n],
           wire[n] # <<>>, Head(wire[n]).type = "ACK", NEW pend, ResetComes(wire[m]) => pend
    PROVE  /\ Direction(Tail(wire[n]), receiveExpectedId[n], receiveQueue[n], sendId[m],
                        writeQueue[m], pend)
           /\ ResetComes(wire[n]) => ResetComes(Tail(wire[n]))
<1>1. /\ Direction(wire[n], receiveExpectedId[n], receiveQueue[n], sendId[m], writeQueue[m],
                   ResetComes(wire[m]))
      /\ wire[n] \in Seq(Packets) /\ receiveExpectedId[n] \in Nat /\ sendId[m] \in Nat
  BY BothEnds DEF Directed
<1>2. wire[n][1].type = "ACK" /\ Head(wire[n]) = wire[n][1] /\ Head(wire[n]) \in Packets
  BY <1>1, TailPlaces
<1>3. Takes(wire[n][1], receiveExpectedId[n], receiveQueue[n], ResetComes(wire[m]),
            receiveExpectedId[n], receiveQueue[n], pend)
  BY <1>1, <1>2 DEF Takes, Moves, Direction, IsData
<1>4. ~IsReset(Head(wire[n]))
  BY <1>2 DEF IsReset
<1> QED BY <1>1, <1>2, <1>3, <1>4, DirectionTakes, ResetOnPath

\* The ACK of the head of the path and the packets that fly with it.
LEMMA AckFlies ==
    ASSUME Lossless, ResetInv, NEW n \in Nodes, NEW m, m = Peer[n],
           wire[n] # <<>>, Head(wire[n]).type = "ACK"
    PROVE  /\ \A x \in Ids(ToSet(sendQueue[n])) \ {Head(wire[n]).id} :
                 \/ \E p \in ToSet(wire[m]) : p.type = "DATA" /\ p.id = x
                 \/ \E p \in ToSet(Tail(wire[n])) : p.type = "ACK" /\ p.id = x
           /\ \A x \in Ids(ToSet(sendQueue[m])) :
                 \/ \E p \in ToSet(Tail(wire[n])) : p.type = "DATA" /\ p.id = x
                 \/ \E p \in ToSet(wire[m]) : p.type = "ACK" /\ p.id = x
           /\ ToSet(Tail(wire[n])) \subseteq ToSet(wire[n])
<1>1. /\ Flying(n) /\ Flying(m) /\ Peer[m] = n /\ wire[n] \in Seq(Packets)
  BY BothEnds DEF Steady
<1>2. Head(wire[n]) \in Packets
  BY <1>1, TailPlaces
<1>3. ToSet(wire[n]) = ToSet(Tail(wire[n])) \cup {Head(wire[n])}
  BY <1>1, <1>2, ResetOnPath
<1> QED BY <1>1, <1>3 DEF Flying

-----------------------------------------------------------------------------
\* trudpChannelProcessReceivedPacket, case TRU_ACK

LEMMA UnknownAckKeeps ==
    ASSUME Lossless, ResetInv, NEW n \in Nodes, NEW m, m = Peer[n],
           NEW a \in Arrivals(wire[n]), ReceiveUnknownAck(n, a)
    PROVE  /\ OthersKept(n) /\ faults' = faults
           /\ \A k \in {n, m} : Steady(k)' /\ Directed(k)'
<1>2. /\ m \in Nodes /\ m # n /\ Peer[m] = n /\ Peer[n] = m
      /\ \A k \in {n, m} :
            /\ Steady(k) /\ Directed(k) /\ sendId[k] \in Nat /\ receiveExpectedId[k] \in Nat
            /\ wire[k] \in Seq(Packets)
  BY BothEnds
<1>3. /\ wire[n] # <<>> /\ a.pkt = Head(wire[n]) /\ Head(wire[n]).type = "ACK"
      /\ Head(wire[n]) \in Packets /\ Head(wire[n]).id \notin Ids(ToSet(sendQueue[n]))
      /\ wire'[n] = Tail(wire[n]) /\ wire'[m] = wire[m]
      /\ \A k \in Nodes \ {n, m} : wire'[k] = wire[k]
  BY PathAnswers, PathFits DEF ResetInv, ReceiveUnknownAck
<1>4. /\ OthersKept(n) /\ sendId' = sendId /\ sendQueue' = sendQueue
      /\ writeQueue' = writeQueue /\ sent' = sent /\ receiveExpectedId' = receiveExpectedId
      /\ receiveQueue' = receiveQueue /\ faults' = faults
  BY <1>2, <1>3 DEF ReceiveUnknownAck, OthersKept, senderVars, receiverVars, historyVars
<1>5. SenderOk(n)' /\ SenderOk(m)' /\ ReceiverOk(n)' /\ ReceiverOk(m)'
  BY <1>2, <1>4 DEF Steady, SenderOk, ReceiverOk, Longest
<1>6. /\ \A x \in Ids(ToSet(sendQueue[n])) \ {Head(wire[n]).id} :
                 \/ \E p \in ToSet(wire[m]) : p.type = "DATA" /\ p.id = x
                 \/ \E p \in ToSet(Tail(wire[n])) : p.type = "ACK" /\ p.id = x
      /\ \A x \in Ids(ToSet(sendQueue[m])) :
                 \/ \E p \in ToSet(Tail(wire[n])) : p.type = "DATA" /\ p.id = x
                 \/ \E p \in ToSet(wire[m]) : p.type = "ACK" /\ p.id = x
      /\ ToSet(Tail(wire[n])) \subseteq ToSet(wire[n])
  BY <1>3, AckFlies
<1>7. PathOk(n)' /\ PathOk(m)' /\ Flying(n)' /\ Flying(m)'
  BY <1>2, <1>3, <1>4, <1>6 DEF Steady, PathOk, Flying, Longest
<1>8. Room(n)' /\ Room(m)' /\ IdsPaid(n)' /\ IdsPaid(m)'
  <2>0. CountsHold(n, m)
    BY CountsNow
  <2>1. PICK wn, wm, qn, qm, dn, dm, sn, sm, an, am, f \in Nat :
              /\ Numbers(n, m, wn, wm, qn, qm, dn, dm, sn, sm, an, am, f)
              /\ Counted(wn, wm, qn, qm, dn, dm, sn, sm, an, am, f)
    BY <2>0 DEF CountsHold
  <2>2. PICK v \in Nat : v = Weight(wire'[n]) /\ Weight(wire[n]) = v + 1
    BY <1>2, <1>3, CountsOfPath DEF Cost
  <2>3. NumberOf(wire'[n], {"DATA"}) = NumberOf(wire[n], {"DATA"})
    BY <1>2, <1>3, CountsOfPath DEF IsData
  <2>4. Numbers(n, m, v, wm, qn, qm, dn, dm, sn, sm, an, am, f)' /\ wn = v + 1
    BY <1>3, <1>4, <2>1, <2>2, <2>3 DEF Numbers
  <2>5. Counted(v, wm, qn, qm, dn, dm, sn, sm, an, am, f)
    BY <2>1, <2>4 DEF Counted
  <2> QED BY <2>4, <2>5, CountsAgain
<1>9. Directed(n)'
  <2>1. Direction(wire[m], receiveExpectedId[m], receiveQueue[m], sendId[n], writeQueue[n],
                  ResetComes(wire[n]))
    BY <1>2 DEF Directed
  <2>2. Direction(wire[m], receiveExpectedId[m], receiveQueue[m], sendId[n], writeQueue[n],
                  ResetComes(wire'[n]))
    BY <1>3, <2>1, AckTaken, DirectionStays
  <2> QED BY <1>2, <1>3, <1>4, <2>2 DEF Directed
<1>10. Directed(m)'
  BY <1>2, <1>3, <1>4, AckTaken DEF Directed
<1>11. Steady(n)' /\ Steady(m)'
  BY <1>2, <1>4, <1>5, <1>7, <1>8 DEF Steady
<1> QED BY <1>4, <1>9, <1>10, <1>11

-----------------------------------------------------------------------------
\* An ACK that takes its packet from the send queue.

\* When an ACK has freed a place, the next packet of the write queue takes it.
LEMMA RefillSends ==
    ASSUME TypeInv, WindowInv, NEW n \in Nodes, NEW i \in DOMAIN sendQueue[n]
    PROVE  SendNow(RemoveAt(sendQueue[n], i))
<1>0. sendQueue \in [Nodes -> Seq(DataPackets)]
  BY DEF TypeInv, TypeOK
<1>2. PICK rest : rest = RemoveAt(sendQueue[n], i)
  OBVIOUS
<1>3. /\ rest \in Seq(DataPackets) /\ Len(rest) = Len(sendQueue[n]) - 1
      /\ ToSet(rest) \subseteq ToSet(sendQueue[n]) /\ Len(sendQueue[n]) \in Nat
      /\ Len(rest) \in Nat /\ DOMAIN rest = 1 .. Len(rest) /\ NormalSSize \in Nat
  BY <1>0, <1>2, RemoveAtElements, LenProperties, ChannelAssumption
<1>4. WindowKept(n)
  BY DEF WindowInv
<1>5. Len(rest) < NormalSSize
  BY <1>3, <1>4 DEF WindowKept
<1>6. ASSUME Len(rest) = 1, rest[1].id = 0 PROVE FALSE
  <2>1. 1 \in DOMAIN rest
    <3>1. DOMAIN rest = 1 .. Len(rest)
      BY <1>3
    <3> QED BY <1>6, <3>1
  <2>2. rest[1] \in ToSet(sendQueue[n])
    BY <1>3, <2>1 DEF ToSet
  <2>3. Len(sendQueue[n]) = 1
    BY <1>4, <1>6, <2>2 DEF WindowKept, Ids
  <2> QED BY <1>3, <1>6, <2>3
<1> QED BY <1>2, <1>5, <1>6 DEF SendNow

LEMMA AckEffect ==
    ASSUME Lossless, ResetInv, NEW n \in Nodes, NEW m, m = Peer[n],
           NEW a \in Arrivals(wire[n]), ReceiveAck(n, a)
    PROVE  /\ wire[n] # <<>> /\ Head(wire[n]).type = "ACK" /\ Head(wire[n]) \in Packets
           /\ wire'[n] = Tail(wire[n]) /\ OthersKept(n)
           /\ sendId' = sendId /\ sent' = sent /\ faults' = faults
           /\ receiveExpectedId' = receiveExpectedId /\ receiveQueue' = receiveQueue
           /\ SenderKept(m)
           /\ \E i \in DOMAIN sendQueue[n] :
                 /\ sendQueue[n][i].id = Head(wire[n]).id
                 /\ \/ /\ sendQueue'[n] = RemoveAt(sendQueue[n], i)
                       /\ writeQueue'[n] = writeQueue[n] /\ wire'[m] = wire[m]
                    \/ /\ writeQueue[n] # <<>>
                       /\ sendQueue'[n] = Append(RemoveAt(sendQueue[n], i), Head(writeQueue[n]))
                       /\ writeQueue'[n] = Tail(writeQueue[n])
                       /\ wire'[m] = Append(wire[m], Head(writeQueue[n]))
<1>1. /\ m \in Nodes /\ m # n /\ TypeInv /\ WindowInv
      /\ sendQueue \in [Nodes -> Seq(DataPackets)] /\ writeQueue \in [Nodes -> Seq(DataPackets)]
  BY BothEnds DEF ResetInv, TypeInv, TypeOK
<1>2. PICK i \in DOMAIN sendQueue[n] :
        /\ sendQueue[n][i].id = a.pkt.id
        /\ LET rest == RemoveAt(sendQueue[n], i)
           IN  IF writeQueue[n] = <<>>
               THEN /\ sendQueue' = [sendQueue EXCEPT ![n] = rest]
                    /\ UNCHANGED writeQueue
                    /\ Answer(n, a, <<>>)
               ELSE LET r == SendPacket(rest, writeQueue[n], Head(writeQueue[n]))
                    IN  /\ sendQueue' = [sendQueue EXCEPT ![n] = r.sq]
                        /\ writeQueue' = [writeQueue EXCEPT ![n] = Tail(r.wq)]
                        /\ Answer(n, a, r.out)
  BY DEF ReceiveAck
<1>3. /\ wire[n] # <<>> /\ a.pkt = Head(wire[n]) /\ Head(wire[n]).type = "ACK"
      /\ Head(wire[n]) \in Packets
  BY <1>1, PathAnswers DEF ReceiveAck
<1>4. /\ sendId' = sendId /\ sent' = sent /\ faults' = faults
      /\ receiveExpectedId' = receiveExpectedId /\ receiveQueue' = receiveQueue
  BY DEF ReceiveAck, receiverVars, historyVars
<1>5. CASE writeQueue[n] = <<>>
  <2>1. /\ wire'[n] = Tail(wire[n]) /\ wire'[m] = wire[m]
        /\ \A k \in Nodes \ {n, m} : wire'[k] = wire[k]
    BY <1>1, <1>2, <1>5, PathAnswers, PathFits
  <2>2. /\ sendQueue'[n] = RemoveAt(sendQueue[n], i) /\ writeQueue'[n] = writeQueue[n]
        /\ \A k \in Nodes \ {n} : sendQueue'[k] = sendQueue[k] /\ writeQueue'[k] = writeQueue[k]
    BY <1>1, <1>2, <1>5
  <2> QED BY <1>1, <1>2, <1>3, <1>4, <2>1, <2>2 DEF OthersKept, SenderKept
<1>6. CASE writeQueue[n] # <<>>
  <2>1. PICK p, rest : p = Head(writeQueue[n]) /\ rest = RemoveAt(sendQueue[n], i)
    OBVIOUS
  <2>2. SendNow(rest)
    BY <1>1, <1>2, <2>1, RefillSends
  <2>3. SendPacket(rest, writeQueue[n], p)
            = [sq |-> Append(rest, p), wq |-> writeQueue[n], out |-> <<p>>]
    BY <2>2 DEF SendPacket
  <2>4. /\ sendQueue' = [sendQueue EXCEPT ![n] = Append(rest, p)]
        /\ writeQueue' = [writeQueue EXCEPT ![n] = Tail(writeQueue[n])]
        /\ Answer(n, a, <<p>>)
    BY <1>2, <1>6, <2>1, <2>3
  <2>5. p \in Packets /\ Weight(wire[m]) + Cost(p) <= WireCap
    BY <1>6, <2>1, WaitsFirst DEF Cost, IsData
  <2>6. /\ wire'[n] = Tail(wire[n]) /\ wire'[m] = Append(wire[m], p)
        /\ \A k \in Nodes \ {n, m} : wire'[k] = wire[k]
    BY <1>1, <2>4, <2>5, PathAnswers
  <2>7. /\ sendQueue'[n] = Append(rest, p) /\ writeQueue'[n] = Tail(writeQueue[n])
        /\ \A k \in Nodes \ {n} : sendQueue'[k] = sendQueue[k] /\ writeQueue'[k] = writeQueue[k]
    BY <1>1, <2>4
  <2> QED BY <1>1, <1>2, <1>3, <1>4, <1>6, <2>1, <2>6, <2>7 DEF OthersKept, SenderKept
<1> QED BY <1>5, <1>6

\* The queues of the sender after it.
LEMMA AckQueues ==
    ASSUME Lossless, ResetInv, NEW n \in Nodes, NEW m, m = Peer[n],
           NEW i \in DOMAIN sendQueue[n], sendId' = sendId,
           \/ /\ sendQueue'[n] = RemoveAt(sendQueue[n], i) /\ writeQueue'[n] = writeQueue[n]
           \/ /\ writeQueue[n] # <<>>
              /\ sendQueue'[n] = Append(RemoveAt(sendQueue[n], i), Head(writeQueue[n]))
              /\ writeQueue'[n] = Tail(writeQueue[n])
    PROVE  /\ SenderOk(n)'
           /\ Ids(ToSet(sendQueue'[n])) \subseteq (Ids(ToSet(sendQueue[n])) \ {sendQueue[n][i].id})
                 \cup IF writeQueue'[n] = writeQueue[n] THEN {} ELSE {Head(writeQueue[n]).id}
<1>1. sendQueue[n] \in Seq(DataPackets) /\ writeQueue[n] \in Seq(DataPackets) /\ SenderOk(n)
  BY BothEnds DEF Steady
<1>2. PICK rest : rest = RemoveAt(sendQueue[n], i)
  OBVIOUS
<1>3. /\ rest \in Seq(DataPackets) /\ NoTwins(rest)
      /\ Ids(ToSet(rest)) = Ids(ToSet(sendQueue[n])) \ {sendQueue[n][i].id}
  BY <1>1, <1>2, TwinsRemoveAt DEF SenderOk
<1>4. CASE sendQueue'[n] = rest /\ writeQueue'[n] = writeQueue[n]
  BY <1>1, <1>3, <1>4 DEF SenderOk
<1>5. CASE /\ writeQueue[n] # <<>> /\ sendQueue'[n] = Append(rest, Head(writeQueue[n]))
           /\ writeQueue'[n] = Tail(writeQueue[n])
  <2>1. PICK p : p = Head(writeQueue[n])
    OBVIOUS
  <2>2. /\ p \in DataPackets /\ p.id < sendId[n] /\ p.id \notin Ids(ToSet(sendQueue[n]))
        /\ NoTwins(Tail(writeQueue[n])) /\ 1 \notin Ids(ToSet(Tail(writeQueue[n])))
        /\ Ids(ToSet(Tail(writeQueue[n]))) = Ids(ToSet(writeQueue[n])) \ {p.id}
        /\ p.id \in Ids(ToSet(writeQueue[n]))
    BY <1>5, <2>1, WaitsFirst
  <2>3. /\ Ids(ToSet(sendQueue'[n])) = Ids(ToSet(rest)) \cup {p.id}
        /\ NoTwins(sendQueue'[n])
    BY <1>3, <1>5, <2>1, <2>2, TwinsAppend
  <2>4. writeQueue'[n] # writeQueue[n]
    BY <1>5, <2>2
  <2>5. SenderOk(n)'
    BY <1>1, <1>3, <1>5, <2>2, <2>3 DEF SenderOk
  <2> QED BY <1>3, <2>1, <2>3, <2>4, <2>5
<1> QED BY <1>2, <1>4, <1>5


LEMMA AckCounts ==
    ASSUME NEW w \in Seq(Packets), w # <<>>, Head(w).type = "ACK"
    PROVE  \E v \in Nat : /\ v = Weight(Tail(w)) /\ Weight(w) = v + 1
                          /\ NumberOf(Tail(w), {"DATA"}) = NumberOf(w, {"DATA"})
<1>1. PICK d, e : d = NumberOf(Tail(w), {"DATA"}) /\ e = NumberOf(w, {"DATA"})
  OBVIOUS
<1>2. Head(w) \in Packets /\ ~IsData(Head(w)) /\ Cost(Head(w)) = 1
  BY TailPlaces DEF IsData, Cost
<1>3. /\ Weight(w) = Weight(Tail(w)) + Cost(Head(w)) /\ Weight(Tail(w)) \in Nat
      /\ e = d + (IF IsData(Head(w)) THEN 1 ELSE 0) /\ d \in Nat
  BY <1>1, <1>2, CountsOfPath
<1>4. e = d
  BY <1>2, <1>3
<1> QED BY <1>1, <1>2, <1>3, <1>4

LEMMA ReceiveAckKeeps ==
    ASSUME Lossless, ResetInv, NEW n \in Nodes, NEW m, m = Peer[n],
           NEW a \in Arrivals(wire[n]), ReceiveAck(n, a)
    PROVE  /\ OthersKept(n) /\ faults' = faults
           /\ \A k \in {n, m} : Steady(k)' /\ Directed(k)'
<1>1. /\ wire[n] # <<>> /\ Head(wire[n]).type = "ACK" /\ Head(wire[n]) \in Packets
      /\ wire'[n] = Tail(wire[n]) /\ OthersKept(n)
      /\ sendId' = sendId /\ sent' = sent /\ faults' = faults
      /\ receiveExpectedId' = receiveExpectedId /\ receiveQueue' = receiveQueue
      /\ sendQueue'[m] = sendQueue[m] /\ writeQueue'[m] = writeQueue[m]
  BY AckEffect DEF SenderKept
<1>2. PICK i \in DOMAIN sendQueue[n] :
         /\ sendQueue[n][i].id = Head(wire[n]).id
         /\ \/ /\ sendQueue'[n] = RemoveAt(sendQueue[n], i)
               /\ writeQueue'[n] = writeQueue[n] /\ wire'[m] = wire[m]
            \/ /\ writeQueue[n] # <<>>
               /\ sendQueue'[n] = Append(RemoveAt(sendQueue[n], i), Head(writeQueue[n]))
               /\ writeQueue'[n] = Tail(writeQueue[n])
               /\ wire'[m] = Append(wire[m], Head(writeQueue[n]))
  BY AckEffect
<1>3. PICK p : p = Head(writeQueue[n])
  OBVIOUS
<1>4. /\ m \in Nodes /\ m # n /\ Peer[m] = n /\ Peer[n] = m
      /\ \A k \in {n, m} :
            /\ Steady(k) /\ Directed(k) /\ sendId[k] \in Nat /\ receiveExpectedId[k] \in Nat
            /\ sendQueue[k] \in Seq(DataPackets) /\ writeQueue[k] \in Seq(DataPackets)
            /\ Ids(receiveQueue[k]) \subseteq Nat /\ wire[k] \in Seq(Packets)
            /\ sent[k] \in Nat /\ MaxData[k] \in Nat
  BY BothEnds
<1>5. /\ SenderOk(n)'
      /\ Ids(ToSet(sendQueue'[n])) \subseteq (Ids(ToSet(sendQueue[n])) \ {Head(wire[n]).id})
            \cup IF writeQueue'[n] = writeQueue[n] THEN {} ELSE {p.id}
  BY <1>1, <1>2, <1>3, AckQueues
<1>6. SenderOk(m)' /\ ReceiverOk(n)' /\ ReceiverOk(m)'
  BY <1>1, <1>4 DEF Steady, SenderOk, ReceiverOk, Longest
<1>7. /\ \A x \in Ids(ToSet(sendQueue[n])) \ {Head(wire[n]).id} :
                 \/ \E q \in ToSet(wire[m]) : q.type = "DATA" /\ q.id = x
                 \/ \E q \in ToSet(wire'[n]) : q.type = "ACK" /\ q.id = x
      /\ \A x \in Ids(ToSet(sendQueue[m])) :
                 \/ \E q \in ToSet(wire'[n]) : q.type = "DATA" /\ q.id = x
                 \/ \E q \in ToSet(wire[m]) : q.type = "ACK" /\ q.id = x
      /\ ToSet(wire'[n]) \subseteq ToSet(wire[n])
  <2>1. wire[n] # <<>> /\ Head(wire[n]).type = "ACK"
    BY <1>1
  <2>2. /\ \A x \in Ids(ToSet(sendQueue[n])) \ {Head(wire[n]).id} :
                 \/ \E q \in ToSet(wire[m]) : q.type = "DATA" /\ q.id = x
                 \/ \E q \in ToSet(Tail(wire[n])) : q.type = "ACK" /\ q.id = x
        /\ \A x \in Ids(ToSet(sendQueue[m])) :
                 \/ \E q \in ToSet(Tail(wire[n])) : q.type = "DATA" /\ q.id = x
                 \/ \E q \in ToSet(wire[m]) : q.type = "ACK" /\ q.id = x
        /\ ToSet(Tail(wire[n])) \subseteq ToSet(wire[n])
    BY <2>1, AckFlies, SMTT(20)
  <2> QED BY <1>1, <2>2
<1>8. ASSUME writeQueue[n] # <<>>
      PROVE  /\ p \in DataPackets /\ p \in Packets /\ IsData(p) /\ p.id \in Nat /\ p.id # 0
             /\ p.id < sendId[n] /\ sendId[n] > 0 /\ p.id < Longest(n)
             /\ Ids(ToSet(Tail(writeQueue[n]))) = Ids(ToSet(writeQueue[n])) \ {p.id}
             /\ p.id \in Ids(ToSet(writeQueue[n]))
             /\ p.id >= 2 => 1 \notin Ids(ToSet(writeQueue[n]))
             /\ \E q \in Nat : Len(Tail(writeQueue[n])) = q /\ Len(writeQueue[n]) = q + 1
  BY <1>3, <1>8, WaitsFirst
<1>9. ToSet(wire[m]) \subseteq ToSet(wire'[m]) /\ (ResetComes(wire[m]) => ResetComes(wire'[m]))
  <2>1. CASE wire'[m] = wire[m]
    BY <2>1
  <2>2. CASE writeQueue[n] # <<>> /\ wire'[m] = Append(wire[m], p)
    <3>1. /\ ToSet(Append(wire[m], p)) = ToSet(wire[m]) \cup {p}
          /\ ResetComes(wire[m]) => ResetComes(Append(wire[m], p))
      BY <1>4, <1>8, <2>2, ResetOnPath
    <3> QED BY <2>2, <3>1
  <2> QED BY <1>2, <1>3, <2>1, <2>2
<1>10. ASSUME writeQueue'[n] = writeQueue[n], wire'[m] = wire[m]
       PROVE /\ PathOk(n)' /\ PathOk(m)' /\ Flying(n)' /\ Flying(m)'
             /\ Room(n)' /\ Room(m)' /\ IdsPaid(n)' /\ IdsPaid(m)' /\ Directed(n)'
  <2>0. PathOk(n)' /\ PathOk(m)'
    BY <1>1, <1>4, <1>7, <1>10 DEF Steady, PathOk, Longest
  <2>1. Flying(n)' /\ Flying(m)'
    <3> SUFFICES ASSUME NEW k \in {n, m}, NEW x \in Ids(ToSet(sendQueue'[k]))
                 PROVE  \/ \E q \in ToSet(wire'[Peer[k]]) : q.type = "DATA" /\ q.id = x
                        \/ \E q \in ToSet(wire'[k]) : q.type = "ACK" /\ q.id = x
      BY DEF Flying
    <3>1. CASE k = n
      <4>1. x \in Ids(ToSet(sendQueue[n])) \ {Head(wire[n]).id}
        BY <1>5, <1>10, <3>1
      <4>2. Peer[k] = m
        BY <1>4, <3>1
      <4> QED BY <1>7, <1>10, <3>1, <4>1, <4>2
    <3>2. CASE k = m
      BY <1>1, <1>4, <1>7, <1>10, <3>2
    <3> QED BY <3>1, <3>2
  <2>2. Room(n)' /\ Room(m)' /\ IdsPaid(n)' /\ IdsPaid(m)'
    <3>0. CountsHold(n, m)
      BY CountsNow
    <3>1. PICK wn, wm, qn, qm, dn, dm, sn, sm, an, am, f \in Nat :
                /\ Numbers(n, m, wn, wm, qn, qm, dn, dm, sn, sm, an, am, f)
                /\ Counted(wn, wm, qn, qm, dn, dm, sn, sm, an, am, f)
      BY <3>0 DEF CountsHold
    <3>2. PICK v \in Nat : /\ v = Weight(wire'[n]) /\ Weight(wire[n]) = v + 1
                           /\ NumberOf(wire'[n], {"DATA"}) = NumberOf(wire[n], {"DATA"})
      BY <1>1, <1>4, AckCounts
    <3>4. Numbers(n, m, v, wm, qn, qm, dn, dm, sn, sm, an, am, f)' /\ wn = v + 1
      BY <1>1, <1>10, <3>1, <3>2 DEF Numbers
    <3>5. Counted(v, wm, qn, qm, dn, dm, sn, sm, an, am, f)
      BY <3>1, <3>4 DEF Counted
    <3> QED BY <3>4, <3>5, CountsAgain
  <2>3. Directed(n)'
    <3>1. Direction(wire[m], receiveExpectedId[m], receiveQueue[m], sendId[n], writeQueue[n],
                    ResetComes(wire[n]))
      BY <1>4 DEF Directed
    <3>2. Direction(wire[m], receiveExpectedId[m], receiveQueue[m], sendId[n], writeQueue[n],
                    ResetComes(wire'[n]))
      BY <1>1, <3>1, AckTaken, DirectionStays
    <3> QED BY <1>1, <1>4, <1>10, <3>2 DEF Directed
  <2> QED BY <2>0, <2>1, <2>2, <2>3
<1>11. ASSUME writeQueue[n] # <<>>, writeQueue'[n] = Tail(writeQueue[n]),
              wire'[m] = Append(wire[m], p)
       PROVE /\ PathOk(n)' /\ PathOk(m)' /\ Flying(n)' /\ Flying(m)'
             /\ Room(n)' /\ Room(m)' /\ IdsPaid(n)' /\ IdsPaid(m)' /\ Directed(n)'
  <2>0. ToSet(wire'[m]) = ToSet(wire[m]) \cup {p}
    BY <1>4, <1>8, <1>11, ResetOnPath
  <2>1. PathOk(n)' /\ PathOk(m)'
    <3>1. Longest(m) = Longest(n)
      BY BothEnds
    <3> QED BY <1>1, <1>3, <1>4, <1>7, <1>8, <1>11, <2>0, <3>1 DEF Steady, PathOk, Longest
  <2>2. Flying(n)'
    <3> SUFFICES ASSUME NEW x \in Ids(ToSet(sendQueue'[n]))
                 PROVE  \/ \E q \in ToSet(wire'[m]) : q.type = "DATA" /\ q.id = x
                        \/ \E q \in ToSet(wire'[n]) : q.type = "ACK" /\ q.id = x
      BY <1>4 DEF Flying
    <3>1. CASE x = p.id
      BY <1>8, <1>11, <2>0, <3>1 DEF IsData
    <3>2. CASE x # p.id
      BY <1>1, <1>3, <1>5, <1>7, <1>9, <3>2
    <3> QED BY <3>1, <3>2
  <2>3. Flying(m)'
    <3> SUFFICES ASSUME NEW x \in Ids(ToSet(sendQueue[m]))
                 PROVE  \/ \E q \in ToSet(wire'[n]) : q.type = "DATA" /\ q.id = x
                        \/ \E q \in ToSet(wire'[m]) : q.type = "ACK" /\ q.id = x
      BY <1>1, <1>4 DEF Flying
    <3> QED BY <1>7, <1>9
  <2>4. Room(n)' /\ Room(m)' /\ IdsPaid(n)' /\ IdsPaid(m)'
    <3>0. CountsHold(n, m)
      BY CountsNow
    <3>1. PICK wn, wm, qn, qm, dn, dm, sn, sm, an, am, f \in Nat :
                /\ Numbers(n, m, wn, wm, qn, qm, dn, dm, sn, sm, an, am, f)
                /\ Counted(wn, wm, qn, qm, dn, dm, sn, sm, an, am, f)
      BY <3>0 DEF CountsHold
    <3>2. PICK v \in Nat : /\ v = Weight(wire'[n]) /\ Weight(wire[n]) = v + 1
                           /\ NumberOf(wire'[n], {"DATA"}) = NumberOf(wire[n], {"DATA"})
      BY <1>1, <1>4, AckCounts
    <3>4. PICK q \in Nat : Len(writeQueue'[n]) = q /\ Len(writeQueue[n]) = q + 1
      BY <1>8, <1>11
    <3>5. /\ Weight(wire'[m]) = Weight(wire[m]) + 3
          /\ NumberOf(wire'[m], {"DATA"}) = NumberOf(wire[m], {"DATA"}) + 1
      BY <1>4, <1>8, <1>11, CountsOfPath DEF Cost, IsData
    <3>6. /\ Numbers(n, m, v, wm + 3, q, qm, dn, dm + 1, sn, sm, an, am, f)'
          /\ wn = v + 1 /\ qn = q + 1
      BY <1>1, <1>11, <3>1, <3>2, <3>4, <3>5 DEF Numbers
    <3>7. Counted(v, wm + 3, q, qm, dn, dm + 1, sn, sm, an, am, f)
      BY <3>1, <3>6 DEF Counted
    <3>8. wm + 3 \in Nat /\ dm + 1 \in Nat
      OBVIOUS
    <3> QED BY <3>6, <3>7, <3>8, CountsAgain
  <2>5. Directed(n)'
    <3>1. Direction(wire[m], receiveExpectedId[m], receiveQueue[m], sendId[n], writeQueue[n],
                    ResetComes(wire[n]))
      BY <1>4 DEF Directed
    <3>2. Direction(Append(wire[m], p), receiveExpectedId[m], receiveQueue[m], sendId[n],
                    Tail(writeQueue[n]), ResetComes(wire[n]))
      <4>1. sendId[n] # sendId[n] + 1 /\ sendId[n] # 0 /\ sendId[n] \in Nat
        BY <1>4, <1>8, <1>11
      <4>2. Ids(ToSet(writeQueue[n])) \subseteq Ids(ToSet(Tail(writeQueue[n]))) \cup {p.id}
        BY <1>8, <1>11
      <4> QED BY <1>4, <1>8, <1>11, <3>1, <4>1, <4>2, DirectionData
    <3>3. Direction(Append(wire[m], p), receiveExpectedId[m], receiveQueue[m], sendId[n],
                    Tail(writeQueue[n]), ResetComes(wire'[n]))
      BY <1>1, <3>2, AckTaken, DirectionStays
    <3> QED BY <1>1, <1>4, <1>11, <3>3 DEF Directed
  <2> QED BY <2>1, <2>2, <2>3, <2>4, <2>5
<1>12. Directed(m)'
  <2>1. Direction(Tail(wire[n]), receiveExpectedId[n], receiveQueue[n], sendId[m],
                  writeQueue[m], ResetComes(wire'[m]))
    BY <1>1, <1>9, AckTaken
  <2> QED BY <1>1, <1>4, <2>1 DEF Directed
<1>13. Steady(n)' /\ Steady(m)' /\ Directed(n)'
  BY <1>1, <1>2, <1>3, <1>4, <1>5, <1>6, <1>10, <1>11 DEF Steady
<1> QED BY <1>1, <1>12, <1>13


-----------------------------------------------------------------------------
\* What the cases of TRU_DATA make of the expected id and the saved packets.

LEMMA SmallDistance ==
    ASSUME NEW x \in Nat, NEW y \in Nat, x < PacketIdLimit \div 2, y < PacketIdLimit \div 2
    PROVE  GetSeqIdDistance(x, y) = y - x
<1> DEFINE half == PacketIdLimit \div 2
<1>1. half \in Nat /\ 2 * half <= PacketIdLimit /\ PacketIdLimit \in Nat /\ PacketIdLimit >= 4
  BY PacketIdLimitAssumption
<1>2. x < half /\ y < half
  OBVIOUS
<1> HIDE DEF half
<1>3. x % PacketIdLimit = x /\ y % PacketIdLimit = y
  BY <1>1, <1>2, ModSmall
<1>4. ModSubU(y, x, PacketIdLimit) = (y + PacketIdLimit - x) % PacketIdLimit
  BY <1>3 DEF ModSubU
<1>5. CASE x <= y
  <2>1. (y + PacketIdLimit - x) % PacketIdLimit = y - x
    <3>1. (y + PacketIdLimit - x) % PacketIdLimit = (y + PacketIdLimit - x) - PacketIdLimit
      BY <1>1, <1>2, <1>5, ModOnce
    <3> QED BY <1>1, <3>1
  <2>2. y - x < half
    BY <1>1, <1>2, <1>5
  <2> QED BY <1>4, <2>1, <2>2 DEF GetSeqIdDistance, half
<1>6. CASE x > y
  <2>1. (y + PacketIdLimit - x) % PacketIdLimit = y + PacketIdLimit - x
    BY <1>1, <1>2, <1>6, ModSmall
  <2>2. ~(y + PacketIdLimit - x < half) /\ (y + PacketIdLimit - x) - PacketIdLimit = y - x
    BY <1>1, <1>2, <1>6
  <2> QED BY <1>4, <2>1, <2>2 DEF GetSeqIdDistance, half
<1> QED BY <1>5, <1>6

\* Nothing but an answer: the packet is rejected, or was taken before.
LEMMA TakesNothing ==
    ASSUME NEW p, IsData(p), p.id \in Nat, NEW e \in Nat, NEW rq, NEW pend, NEW pendAfter,
           e \in {0, 1} => rq = {}, e \notin Ids(rq), pend => pendAfter,
           \/ e = 0 /\ p.id # 0
           \/ e >= 1 /\ p.id # e /\ (p.id < e \/ p.id \in Ids(rq)),
           p.id = 0 /\ e >= 2 => pendAfter
    PROVE  Takes(p, e, rq, pend, e, rq, pendAfter)
BY DEF Takes, Moves, IsData, IsReset

LEMMA TakesOutrunning ==
    ASSUME NEW p, IsData(p), p.id \in Nat, NEW e \in Nat, NEW rq, NEW pend, NEW pendAfter,
           e >= 2, p.id > e, e \notin Ids(rq), pend => pendAfter
    PROVE  Takes(p, e, rq, pend, e, rq \cup {p}, pendAfter)
<1>1. Ids(rq \cup {p}) = Ids(rq) \cup {p.id}
  BY DEF Ids
<1> QED BY <1>1 DEF Takes, Moves, IsData, IsReset

\* The drain loop stops at the first id that is missing, below the ids that
\* were never used.
LEMMA DrainsBelow ==
    ASSUME NEW L \in Nat, L < PacketIdLimit - 1, NEW e \in Nat, e < L,
           NEW rq, \A x \in Ids(rq) : x \in Nat /\ x < L,
           NEW count \in Nat, DrainsTo(rq, e + 1, count)
    PROVE  /\ e + 1 + count <= L
           /\ \A i \in 0 .. count : IdAfter(e + 1, i) = e + 1 + i
<1>1. PacketIdLimit \in Nat
  BY PacketIdLimitAssumption
<1>2. e + 1 + count <= L
  <2> SUFFICES ASSUME e + 1 + count > L PROVE FALSE
    BY <1>1
  <2>1. PICK i \in 1 .. count : i = L - e
    <3>1. L - e \in 1 .. count
      OBVIOUS
    <3> QED BY <3>1
  <2>2. IdAfter(e + 1, i - 1) = L
    <3>1. (e + 1) + (i - 1) = L /\ L < PacketIdLimit
      BY <1>1, <2>1
    <3> QED BY <3>1 DEF IdAfter
  <2>3. L \in Ids(rq)
    BY <2>2 DEF DrainsTo
  <2> QED BY <2>3
<1>3. ASSUME NEW i \in 0 .. count PROVE IdAfter(e + 1, i) = e + 1 + i
  <2>1. e + 1 + i < PacketIdLimit
    BY <1>1, <1>2
  <2> QED BY <2>1 DEF IdAfter
<1> QED BY <1>2, <1>3

Drained(rq, e, count) == Range([i \in 1 .. count |-> Saved(rq, e + 1, i)])

\* The expected packet p takes count saved ones with it, and sq is left.
TakesSaved(L, e, p, rq, count, sq, f) ==
    /\ L \in Nat /\ L < PacketIdLimit - 1 /\ e \in Nat /\ p.id = e /\ e < L
    /\ \A x \in Ids(rq) : x \in Nat /\ x < L
    /\ e \in {0, 1} => rq = {}
    /\ count \in Nat /\ DrainsTo(rq, e + 1, count)
    /\ sq = rq \ Drained(rq, e, count) /\ f = e + 1 + count

LEMMA TakesExpected ==
    ASSUME NEW L, NEW e, NEW p, IsData(p), NEW rq, NEW count, NEW sq, NEW f,
           TakesSaved(L, e, p, rq, count, sq, f), NEW pend, NEW pendAfter, pend => pendAfter
    PROVE  /\ IdAfter(e + 1, count) = f /\ f <= L /\ f \in Nat
           /\ Takes(p, e, rq, pend, f, sq, pendAfter)
<1>0. /\ L \in Nat /\ L < PacketIdLimit - 1 /\ e \in Nat /\ p.id = e /\ e < L
      /\ \A x \in Ids(rq) : x \in Nat /\ x < L
      /\ e \in {0, 1} => rq = {}
      /\ count \in Nat /\ DrainsTo(rq, e + 1, count)
      /\ sq = rq \ Drained(rq, e, count) /\ f = e + 1 + count
  BY DEF TakesSaved
<1>1. e + 1 + count <= L /\ \A i \in 0 .. count : IdAfter(e + 1, i) = e + 1 + i
  BY <1>0, DrainsBelow
<1>2. f \in Nat /\ f = e + 1 + count
  BY <1>0
<1>3. f > e /\ f >= 1 /\ IdAfter(e + 1, count) = f
  <2>1. count \in 0 .. count
    BY <1>0
  <2> QED BY <1>0, <1>1, <1>2, <2>1
<1>4. f \notin Ids(rq) /\ \A i \in 1 .. count : e + i \in Ids(rq)
  <2>1. f \notin Ids(rq)
    BY <1>0, <1>3 DEF DrainsTo
  <2>2. ASSUME NEW i \in 1 .. count PROVE e + i \in Ids(rq)
    <3>1. i - 1 \in 0 .. count /\ e + 1 + (i - 1) = e + i
      BY <1>0
    <3>2. IdAfter(e + 1, i - 1) = e + i
      BY <1>0, <1>1, <3>1
    <3> QED BY <1>0, <3>2 DEF DrainsTo
  <2> QED BY <1>0, <2>1, <2>2
<1>5. Ids(sq) \subseteq Ids(rq) /\ (rq = {} => sq = {})
  BY <1>0 DEF Ids
<1>6. Ids({}) = {}
  BY <1>0 DEF Ids
<1>7. e = 0 => count = 0
  <2> SUFFICES ASSUME e = 0, count >= 1 PROVE FALSE
    BY <1>0
  <2>1. 1 \in 1 .. count
    BY <1>0
  <2>2. e + 1 \in Ids({})
    BY <1>0, <1>4, <2>1
  <2> QED BY <1>0, <1>6, <2>2
<1>8. ASSUME NEW x \in Ids(rq), x >= f PROVE x \in Ids(sq)
  <2>1. PICK q \in rq : q.id = x
    BY <1>0 DEF Ids
  <2>2. ASSUME NEW i \in 1 .. count, q = Saved(rq, e + 1, i) PROVE FALSE
    <3>1. i - 1 \in 0 .. count /\ e + 1 + (i - 1) = e + i /\ e + i < f
      BY <1>0, <1>2
    <3>2. IdAfter(e + 1, i - 1) = e + i
      BY <1>0, <1>1, <3>1
    <3>3. \E r \in rq : r.id = IdAfter(e + 1, i - 1)
      BY <1>0, <1>4, <3>2 DEF Ids
    <3>4. Saved(rq, e + 1, i).id = e + i
      BY <1>0, <3>2, <3>3 DEF Saved
    <3> QED BY <1>0, <1>8, <2>1, <2>2, <3>1, <3>4
  <2>3. q \notin Range([i \in 1 .. count |-> Saved(rq, e + 1, i)])
    BY <1>0, <2>2 DEF Range
  <2> QED BY <1>0, <2>1, <2>3 DEF Ids, Drained
<1>9. f - 1 \in Ids(rq) \cup {p.id}
  <2>1. CASE count = 0
    BY <1>0, <1>2, <2>1
  <2>2. CASE count # 0
    <3>1. count \in 1 .. count /\ f - 1 = e + count
      BY <1>0, <1>2, <2>2
    <3> QED BY <1>0, <1>4, <3>1
  <2> QED BY <1>0, <2>1, <2>2
<1>10. Moves(p, e, f)
  <2>1. p.id = 0 => f = 1
    BY <1>0, <1>2, <1>7
  <2>2. p.id = 1 => f >= 2
    BY <1>0, <1>2
  <2> QED BY <1>0, <1>3, <2>1, <2>2 DEF Moves
<1>11. f \in {0, 1} => sq = {}
  <2>1. f \in {0, 1} => e = 0
    BY <1>0, <1>2
  <2> QED BY <1>0, <1>5, <2>1
<1>12. \A x \in Ids(rq) \cup {p.id} : x >= f => x \in Ids(sq)
  BY <1>0, <1>3, <1>8
<1>13. Takes(p, e, rq, pend, f, sq, pendAfter)
  <2>1. p.type # "ACK" /\ ~(p.id = 0 /\ e >= 2)
    BY <1>0 DEF IsData
  <2>2. f \notin Ids(sq) /\ Ids(sq) \subseteq Ids(rq) \cup {p.id}
    BY <1>0, <1>4, <1>5
  <2> QED BY <1>0, <1>9, <1>10, <1>11, <1>12, <2>1, <2>2 DEF Takes
<1> QED BY <1>0, <1>1, <1>2, <1>3, <1>13


-----------------------------------------------------------------------------
\* trudpChannelProcessReceivedPacket, case TRU_DATA

\* The packet leaves the path and its ACK is sent, and a RESET or none.
Acknowledges(n, m, reset) ==
    LET p == Head(wire[n])
    IN  /\ wire'[n] = Tail(wire[n]) /\ OthersKept(n)
        /\ sendQueue'[n] = sendQueue[n] /\ writeQueue'[n] = writeQueue[n]
        /\ SenderKept(m) /\ ReceiverKept(m) /\ sent' = sent /\ faults' = faults
        /\ ~reset => sendId'[n] = sendId[n] /\ wire'[m] = Append(wire[m], AckPacket(p))
        /\ reset => /\ sendId'[n] = sendId[n] + 1
                    /\ wire'[m] = Append(Append(wire[m], AckPacket(p)), ResetPacket(sendId[n]))

LEMMA DataAcknowledged ==
    ASSUME Lossless, ResetInv, NEW n \in Nodes, NEW m, m = Peer[n],
           NEW a \in Arrivals(wire[n]), ReceiveData(n, a)
    PROVE  /\ wire[n] # <<>> /\ a.pkt = Head(wire[n]) /\ Head(wire[n]) \in Packets
           /\ IsData(Head(wire[n])) /\ Head(wire[n]).id < Longest(n)
           /\ IF RejectNotOpened(n, a) \/ RejectNewSession(n, a)
              THEN Acknowledges(n, m, TRUE) /\ ReceiverKept(n)
              ELSE Acknowledges(n, m, FALSE)
<1>1. /\ m \in Nodes /\ m # n /\ TypeInv /\ Peer[m] = n /\ Steady(n)
      /\ sendId \in [Nodes -> PacketIds] /\ wire[n] \in Seq(Packets) /\ wire[m] \in Seq(Packets)
      /\ receiveExpectedId \in [Nodes -> PacketIds]
      /\ receiveQueue \in [Nodes -> SUBSET DataPackets]
  BY BothEnds DEF ResetInv, TypeInv, TypeOK
<1>2. PICK p : p = Head(wire[n])
  OBVIOUS
<1>3. /\ wire[n] # <<>> /\ a.pkt = p /\ p \in Packets /\ IsData(p)
  BY <1>1, <1>2, PathAnswers DEF ReceiveData, IsData
<1>4. p.id < Longest(n) /\ p.id \in PacketIds
  <2>1. p \in ToSet(wire[n])
    BY <1>1, <1>2, <1>3, ResetOnPath
  <2> QED BY <1>1, <1>3, <2>1 DEF Steady, PathOk, IsData, Packets, DataPackets
<1>5. /\ AckPacket(p) \in Packets /\ ResetPacket(sendId[n]) \in Packets
      /\ Cost(AckPacket(p)) = 1 /\ Cost(ResetPacket(sendId[n])) = 2 /\ Cost(p) = 3
  BY <1>1, <1>3, <1>4 DEF AckPacket, ResetPacket, Packets, Cost, IsData
<1>6. /\ Weight(wire[m]) + Cost(AckPacket(p)) <= WireCap
      /\ Weight(wire[m]) + Cost(AckPacket(p)) + Cost(ResetPacket(sendId[n])) <= WireCap
  <2>1. Weight(wire[m]) + 3 <= WireCap /\ Weight(wire[m]) \in Nat /\ WireCap \in Nat
    BY <1>2, <1>3, <1>5, PathFits
  <2>2. \A x, y \in Nat : x + 3 <= y => x + 1 <= y /\ x + 1 + 2 <= y
    OBVIOUS
  <2> QED BY <1>5, <2>1, <2>2
<1>7. GetNextSeqId(sendId[n]) = sendId[n] + 1
  <2>1. NumberOf(wire[n], {"DATA"}) = NumberOf(Tail(wire[n]), {"DATA"}) + 1
        /\ NumberOf(Tail(wire[n]), {"DATA"}) \in Nat
    BY <1>1, <1>2, <1>3, CountsOfPath
  <2>2. NumberOf(wire[n], {"DATA"}) >= 1
    BY <2>1
  <2> QED BY <2>2, NextIdTaken
<1>8. CASE RejectNotOpened(n, a) \/ RejectNewSession(n, a)
  <2>1. AckAndReset(n, a)
    BY <1>8 DEF RejectNotOpened, RejectNewSession
  <2>2. /\ Answer(n, a, <<AckPacket(p), ResetPacket(sendId[n])>>)
        /\ sendId' = [sendId EXCEPT ![n] = GetNextSeqId(sendId[n])]
        /\ UNCHANGED <<sendQueue, writeQueue, receiveExpectedId, receiveQueue, sent, faults>>
    BY <1>3, <2>1 DEF AckAndReset, receiverVars, historyVars
  <2>3. /\ wire'[n] = Tail(wire[n])
        /\ \A k \in Nodes \ {n, m} : wire'[k] = wire[k]
        /\ wire'[m] = Append(Append(wire[m], AckPacket(p)), ResetPacket(sendId[n]))
    BY <1>1, <1>5, <1>6, <2>2, PathAnswers, ZenonT(40)
  <2>4. sendId'[n] = sendId[n] + 1 /\ \A k \in Nodes \ {n} : sendId'[k] = sendId[k]
    BY <1>1, <1>7, <2>2
  <2>5. ReceiverKept(n) /\ OthersKept(n) /\ SenderKept(m) /\ ReceiverKept(m)
    BY <1>1, <2>2, <2>3, <2>4 DEF OthersKept, ReceiverKept, SenderKept
  <2>6. Acknowledges(n, m, TRUE)
    BY <1>2, <2>2, <2>3, <2>4, <2>5 DEF Acknowledges
  <2> QED BY <1>2, <1>3, <1>4, <1>8, <2>5, <2>6
<1>9. CASE ~(RejectNotOpened(n, a) \/ RejectNewSession(n, a))
  <2>1. AcceptExpected(n, a) \/ SaveOutrunning(n, a) \/ DropProcessed(n, a)
    BY <1>9 DEF ReceiveData
  <2>2. /\ Answer(n, a, <<AckPacket(p)>>)
        /\ UNCHANGED <<sendId, sendQueue, writeQueue, sent, faults>>
    BY <1>3, <2>1 DEF AcceptExpected, SaveOutrunning, DropProcessed, senderVars, historyVars
  <2>3. \A k \in Nodes \ {n} : /\ receiveExpectedId'[k] = receiveExpectedId[k]
                               /\ receiveQueue'[k] = receiveQueue[k]
    BY <1>1, <2>1 DEF AcceptExpected, SaveOutrunning, DropProcessed, receiverVars
  <2>4. /\ wire'[n] = Tail(wire[n])
        /\ \A k \in Nodes \ {n, m} : wire'[k] = wire[k]
        /\ wire'[m] = Append(wire[m], AckPacket(p))
    BY <1>1, <1>5, <1>6, <2>2, PathAnswers
  <2>5. OthersKept(n) /\ SenderKept(m) /\ ReceiverKept(m)
    BY <1>1, <2>2, <2>3, <2>4 DEF OthersKept, ReceiverKept, SenderKept
  <2>6. Acknowledges(n, m, FALSE)
    BY <1>2, <2>2, <2>4, <2>5 DEF Acknowledges
  <2> QED BY <1>2, <1>3, <1>4, <1>9, <2>6
<1> QED BY <1>8, <1>9


\* What it makes of the receiver at n, the peer m being reset if pend.
Handles(n, m, f, sq, reset) ==
    /\ Takes(Head(wire[n]), receiveExpectedId[n], receiveQueue[n], ResetComes(wire[m]),
             f, sq, ResetComes(wire[m]) \/ reset)
    /\ f <= Longest(n) /\ \A x \in Ids(sq) : x < Longest(n)
    /\ receiveExpectedId'[n] = f /\ receiveQueue'[n] = sq

LEMMA DataHandled ==
    ASSUME Lossless, ResetInv, NEW n \in Nodes, NEW m, m = Peer[n],
           NEW a \in Arrivals(wire[n]), ReceiveData(n, a)
    PROVE  \E f \in Nat, reset \in BOOLEAN :
              \E sq : Acknowledges(n, m, reset) /\ Handles(n, m, f, sq, reset)
<1>1. PICK p, e, rq, pend, L : /\ p = Head(wire[n]) /\ e = receiveExpectedId[n]
                               /\ rq = receiveQueue[n] /\ pend = ResetComes(wire[m])
                               /\ L = Longest(n)
  OBVIOUS
<1>2. /\ wire[n] # <<>> /\ a.pkt = p /\ p \in Packets /\ IsData(p) /\ p.id < L
      /\ IF RejectNotOpened(n, a) \/ RejectNewSession(n, a)
         THEN Acknowledges(n, m, TRUE) /\ ReceiverKept(n)
         ELSE Acknowledges(n, m, FALSE)
  BY <1>1, DataAcknowledged
<1>3. /\ m \in Nodes /\ Peer[m] = n /\ Steady(n) /\ Directed(m) /\ wire[n] \in Seq(Packets)
      /\ e \in Nat /\ e \in PacketIds /\ rq \subseteq DataPackets /\ Ids(rq) \subseteq Nat
      /\ L \in Nat /\ L < PacketIdLimit \div 2 /\ L < PacketIdLimit - 1
      /\ receiveExpectedId \in [Nodes -> PacketIds]
      /\ receiveQueue \in [Nodes -> SUBSET DataPackets] /\ p.id \in Nat
  <2>1. p.id \in Nat
    BY <1>2 DEF IsData, Packets, DataPackets, PacketIds
  <2> QED BY <1>1, <2>1, BothEnds DEF ResetInv, TypeInv, TypeOK
<1>4. /\ OnesFirst(wire[n], e) /\ (e \in {0, 1} => rq = {}) /\ e \notin Ids(rq)
      /\ e <= L /\ \A x \in Ids(rq) : x \in Nat /\ x < L
  BY <1>1, <1>3 DEF Directed, Direction, Steady, ReceiverOk
<1>5. e < PacketIdLimit \div 2 /\ p.id < PacketIdLimit \div 2 /\ PacketIdLimit \div 2 \in Nat
  <2>1. PacketIdLimit \div 2 \in Nat
    BY PacketIdLimitAssumption
  <2>2. PICK h \in Nat : h = PacketIdLimit \div 2
    BY <2>1
  <2>3. e < h /\ p.id < h
    BY <1>2, <1>3, <1>4, <2>2
  <2> QED BY <2>2, <2>3
<1>6. GetSeqIdDistance(e, p.id) > 0 <=> p.id > e
  <2>1. GetSeqIdDistance(e, p.id) = p.id - e
    BY <1>3, <1>5, SmallDistance
  <2> QED BY <1>3, <2>1
<1>7. ASSUME NEW reset \in BOOLEAN, Takes(p, e, rq, pend, e, rq, pend \/ reset),
             Acknowledges(n, m, reset), ReceiverKept(n)
      PROVE  Acknowledges(n, m, reset) /\ Handles(n, m, e, rq, reset)
  BY <1>1, <1>4, <1>7 DEF Handles, ReceiverKept
<1>8. CASE RejectNotOpened(n, a) \/ RejectNewSession(n, a)
  <2>1. Acknowledges(n, m, TRUE) /\ ReceiverKept(n)
    BY <1>2, <1>8
  <2>2. \/ e = 0 /\ p.id # 0
        \/ e # 0 /\ p.id = 0
    BY <1>1, <1>2, <1>8 DEF RejectNotOpened, RejectNewSession, NotOpened, IsExpected, IsNewSession
  <2>3. \/ e = 0 /\ p.id # 0
        \/ e >= 1 /\ p.id # e /\ (p.id < e \/ p.id \in Ids(rq))
    BY <1>3, <2>2
  <2>4. Takes(p, e, rq, pend, e, rq, pend \/ TRUE)
    BY <1>2, <1>3, <1>4, <2>3, TakesNothing
  <2> QED BY <1>3, <1>7, <2>1, <2>4
<1>9. CASE ~(RejectNotOpened(n, a) \/ RejectNewSession(n, a))
  <2>1. Acknowledges(n, m, FALSE)
    BY <1>2, <1>9
  <2>2. CASE DropProcessed(n, a)
    <3>1. ReceiverKept(n)
      BY <2>2 DEF DropProcessed, receiverVars, ReceiverKept
    <3>2. /\ ~(e = 0 /\ p.id # 0) /\ p.id # e /\ ~(p.id > e /\ p.id \notin Ids(rq))
          /\ ~(p.id = 0 /\ e # 1)
      BY <1>1, <1>2, <1>6, <2>2
      DEF DropProcessed, NotOpened, IsExpected, IsOutrunning, IsNewSession, Lossless
    <3>3. e >= 1 /\ p.id # e /\ (p.id < e \/ p.id \in Ids(rq)) /\ ~(p.id = 0 /\ e >= 2)
      BY <1>3, <3>2
    <3>4. Takes(p, e, rq, pend, e, rq, pend \/ FALSE)
      BY <1>2, <1>3, <1>4, <3>3, TakesNothing
    <3> QED BY <1>3, <1>7, <2>1, <3>1, <3>4
  <2>3. CASE SaveOutrunning(n, a)
    <3>1. /\ receiveExpectedId'[n] = e /\ receiveQueue'[n] = rq \cup {p}
          /\ p.id > e /\ ~(e = 0 /\ p.id # 0)
      BY <1>1, <1>2, <1>3, <1>6, <2>3 DEF SaveOutrunning, NotOpened, IsOutrunning
    <3>2. p.id >= 2 /\ e >= 1
      BY <1>3, <3>1
    <3>3. e >= 2
      <4>1. 1 \in DOMAIN wire[n] /\ wire[n][1] = p
        BY <1>1, <1>2, <1>3, TailPlaces
      <4>2. OneBefore(wire[n], 1, e)
        BY <1>2, <1>4, <3>2, <4>1 DEF OnesFirst
      <4>3. 1 .. 1 - 1 = {}
        OBVIOUS
      <4> QED BY <3>2, <4>2, <4>3 DEF OneBefore, Closed
    <3>4. Takes(p, e, rq, pend, e, rq \cup {p}, pend \/ FALSE)
      BY <1>2, <1>3, <1>4, <3>1, <3>3, TakesOutrunning
    <3>5. \A x \in Ids(rq \cup {p}) : x < L
      BY <1>2, <1>4 DEF Ids
    <3>6. Handles(n, m, e, rq \cup {p}, FALSE)
      BY <1>1, <1>4, <3>1, <3>4, <3>5 DEF Handles
    <3> QED BY <1>3, <2>1, <3>6
  <2>4. CASE AcceptExpected(n, a)
    <3>1. GetNextSeqId(e) = e + 1 /\ p.id = e
      <4>1. p.id = e
        BY <1>1, <1>2, <2>4 DEF AcceptExpected, IsExpected
      <4>2. e # PacketIdLimit - 1
        BY <1>2, <1>3, <4>1, PacketIdLimitAssumption
      <4> QED BY <1>3, <4>1, <4>2, NextClosed
    <3>2. PICK count \in 0 .. Cardinality(receiveQueue[n]) :
            LET next == GetNextSeqId(receiveExpectedId[n])
                queue == receiveQueue[n]
                drained == [i \in 1 .. count |-> Saved(queue, next, i)]
            IN  /\ DrainsTo(queue, next, count)
                /\ receiveExpectedId' = [receiveExpectedId EXCEPT ![n] = IdAfter(next, count)]
                /\ receiveQueue' = [receiveQueue EXCEPT ![n] = @ \ Range(drained)]
      BY <2>4 DEF AcceptExpected
    <3>9. count \in Nat
      BY FS_CardinalityType DEF ResetInv, TypeInv
    <3>10. /\ DrainsTo(rq, e + 1, count)
           /\ receiveExpectedId' = [receiveExpectedId EXCEPT ![n] = IdAfter(e + 1, count)]
           /\ receiveQueue' = [receiveQueue EXCEPT ![n] =
                  rq \ Drained(rq, e, count)]
      BY <1>1, <3>1, <3>2 DEF Drained
    <3>3. PICK sq : sq = rq \ Drained(rq, e, count)
      OBVIOUS
    <3>11. PICK f : f = e + 1 + count
      OBVIOUS
    <3>12. TakesSaved(L, e, p, rq, count, sq, f)
      BY <1>2, <1>3, <1>4, <3>1, <3>3, <3>9, <3>10, <3>11 DEF TakesSaved
    <3>4. /\ IdAfter(e + 1, count) = f /\ f <= L /\ f \in Nat
          /\ Takes(p, e, rq, pend, f, sq, pend \/ FALSE)
      BY <1>2, <3>12, TakesExpected
    <3>5. receiveExpectedId'[n] = f /\ receiveQueue'[n] = sq
      BY <1>3, <3>10, <3>3, <3>4
    <3>6. \A x \in Ids(sq) : x < L
      BY <1>4, <3>3 DEF Ids
    <3>7. Handles(n, m, f, sq, FALSE)
      BY <1>1, <3>4, <3>5, <3>6 DEF Handles
    <3> QED BY <2>1, <3>4, <3>7
  <2> QED BY <1>9, <2>2, <2>3, <2>4 DEF ReceiveData
<1> QED BY <1>8, <1>9


\* What is on the path to the peer when the packet is acknowledged.
LEMMA AnswersOnPath ==
    ASSUME Lossless, ResetInv, NEW n \in Nodes, NEW m, m = Peer[n],
           wire[n] # <<>>, IsData(Head(wire[n])), NEW reset \in BOOLEAN, Acknowledges(n, m, reset)
    PROVE  /\ AckPacket(Head(wire[n])) \in Packets /\ AckPacket(Head(wire[n])) \in ToSet(wire'[m])
           /\ AckPacket(Head(wire[n])).type = "ACK" /\ AckPacket(Head(wire[n])).id = Head(wire[n]).id
           /\ ResetPacket(sendId[n]) \in Packets /\ IsReset(ResetPacket(sendId[n]))
           /\ ToSet(wire[m]) \subseteq ToSet(wire'[m])
           /\ \A q \in ToSet(wire'[m]) : q.type = "DATA" => q \in ToSet(wire[m])
           /\ ResetComes(wire[m]) \/ reset => ResetComes(wire'[m])
           /\ ToSet(wire[n]) = ToSet(wire'[n]) \cup {Head(wire[n])}
           /\ ResetComes(wire[n]) => ResetComes(wire'[n])
<1>1. /\ wire[m] \in Seq(Packets) /\ wire[n] \in Seq(Packets) /\ sendId[n] \in PacketIds
  BY BothEnds
<1>2. PICK p, a, r : /\ p = Head(wire[n]) /\ a = AckPacket(p) /\ r = ResetPacket(sendId[n])
  OBVIOUS
<1>3. /\ p \in Packets /\ ToSet(wire[n]) = ToSet(Tail(wire[n])) \cup {p} /\ ~IsReset(p)
      /\ ResetComes(wire[n]) => ResetComes(Tail(wire[n]))
  <2>1. p \in Packets /\ ~IsReset(p)
    BY <1>1, <1>2, TailPlaces DEF IsData, IsReset
  <2> QED BY <1>1, <1>2, <2>1, ResetOnPath
<1>4. /\ a \in Packets /\ a.type = "ACK" /\ a.id = p.id
      /\ r \in Packets /\ r.type = "RESET" /\ IsReset(r)
  <2>1. p.id \in PacketIds
    BY <1>3 DEF Packets, DataPackets
  <2> QED BY <1>1, <1>2, <2>1 DEF AckPacket, ResetPacket, Packets, IsReset
<1>5. /\ Append(wire[m], a) \in Seq(Packets) /\ ToSet(Append(wire[m], a)) = ToSet(wire[m]) \cup {a}
      /\ ResetComes(wire[m]) => ResetComes(Append(wire[m], a))
  BY <1>1, <1>4, ResetOnPath
<1>6. /\ ToSet(Append(Append(wire[m], a), r)) = ToSet(wire[m]) \cup {a, r}
      /\ ResetComes(Append(Append(wire[m], a), r))
  <2>1. PICK v : v = Append(wire[m], a)
    OBVIOUS
  <2>2. v \in Seq(Packets)
    BY <1>5, <2>1
  <2>3. ToSet(Append(v, r)) = ToSet(v) \cup {r} /\ ResetComes(Append(v, r))
    BY <1>4, <2>2, ResetOnPath
  <2> QED BY <1>5, <2>1, <2>3
<1>7. wire'[n] = Tail(wire[n])
  BY DEF Acknowledges
<1>8. CASE reset
  <2>1. wire'[m] = Append(Append(wire[m], a), r)
    BY <1>2, <1>8 DEF Acknowledges
  <2>2. ToSet(wire'[m]) = ToSet(wire[m]) \cup {a, r} /\ ResetComes(wire'[m])
    BY <1>6, <2>1
  <2>3. a.type # "DATA" /\ r.type # "DATA"
    BY <1>4
  <2> QED BY <1>2, <1>3, <1>4, <1>7, <2>2, <2>3
<1>9. CASE ~reset
  <2>1. wire'[m] = Append(wire[m], a)
    BY <1>2, <1>9 DEF Acknowledges
  <2>2. /\ ToSet(wire'[m]) = ToSet(wire[m]) \cup {a}
        /\ ResetComes(wire[m]) => ResetComes(wire'[m])
    BY <1>5, <2>1
  <2>3. a.type # "DATA"
    BY <1>4
  <2> QED BY <1>2, <1>3, <1>4, <1>7, <1>9, <2>2, <2>3
<1> QED BY <1>8, <1>9

LEMMA ReceiveDataKeeps ==
    ASSUME Lossless, ResetInv, NEW n \in Nodes, NEW m, m = Peer[n],
           NEW a \in Arrivals(wire[n]), ReceiveData(n, a)
    PROVE  /\ OthersKept(n) /\ faults' = faults
           /\ \A k \in {n, m} : Steady(k)' /\ Directed(k)'
<1>1. PICK p : p = Head(wire[n])
  OBVIOUS
<1>2. PICK f \in Nat, reset \in BOOLEAN :
         \E sq : Acknowledges(n, m, reset) /\ Handles(n, m, f, sq, reset)
  BY DataHandled
<1>3. PICK sq : Acknowledges(n, m, reset) /\ Handles(n, m, f, sq, reset)
  BY <1>2
<1>4. wire[n] # <<>> /\ p \in Packets /\ IsData(p)
  BY <1>1, DataAcknowledged
<1>5. /\ m \in Nodes /\ m # n /\ Peer[m] = n /\ Peer[n] = m
      /\ \A k \in {n, m} :
            /\ Steady(k) /\ Directed(k) /\ sendId[k] \in Nat /\ receiveExpectedId[k] \in Nat
            /\ Ids(receiveQueue[k]) \subseteq Nat /\ wire[k] \in Seq(Packets)
  BY BothEnds
<1>6. /\ AckPacket(p) \in Packets /\ AckPacket(p) \in ToSet(wire'[m])
      /\ AckPacket(p).type = "ACK" /\ AckPacket(p).id = p.id
      /\ ResetPacket(sendId[n]) \in Packets /\ IsReset(ResetPacket(sendId[n]))
      /\ ToSet(wire[m]) \subseteq ToSet(wire'[m])
      /\ \A q \in ToSet(wire'[m]) : q.type = "DATA" => q \in ToSet(wire[m])
      /\ ResetComes(wire[m]) \/ reset => ResetComes(wire'[m])
      /\ ToSet(wire[n]) = ToSet(wire'[n]) \cup {p}
      /\ ResetComes(wire[n]) => ResetComes(wire'[n])
  <2>1. wire[n] # <<>> /\ IsData(Head(wire[n])) /\ Acknowledges(n, m, reset)
    BY <1>1, <1>3, <1>4
  <2>2. /\ AckPacket(Head(wire[n])) \in Packets /\ AckPacket(Head(wire[n])) \in ToSet(wire'[m])
        /\ AckPacket(Head(wire[n])).type = "ACK" /\ AckPacket(Head(wire[n])).id = Head(wire[n]).id
        /\ ResetPacket(sendId[n]) \in Packets /\ IsReset(ResetPacket(sendId[n]))
        /\ ToSet(wire[m]) \subseteq ToSet(wire'[m])
        /\ \A q \in ToSet(wire'[m]) : q.type = "DATA" => q \in ToSet(wire[m])
        /\ ResetComes(wire[m]) \/ reset => ResetComes(wire'[m])
        /\ ToSet(wire[n]) = ToSet(wire'[n]) \cup {Head(wire[n])}
        /\ ResetComes(wire[n]) => ResetComes(wire'[n])
    BY <2>1, AnswersOnPath
  <2> QED BY <1>1, <2>2
<1>7. /\ wire'[n] = Tail(wire[n]) /\ OthersKept(n)
      /\ sendQueue'[n] = sendQueue[n] /\ writeQueue'[n] = writeQueue[n]
      /\ SenderKept(m) /\ ReceiverKept(m) /\ sent' = sent /\ faults' = faults
      /\ sendId'[n] = sendId[n] \/ sendId'[n] = sendId[n] + 1
      /\ receiveExpectedId'[n] = f /\ receiveQueue'[n] = sq
      /\ f <= Longest(n) /\ \A x \in Ids(sq) : x < Longest(n)
  BY <1>3 DEF Acknowledges, Handles
<1>8. SenderOk(n)' /\ SenderOk(m)'
  <2>2. \A x \in Ids(ToSet(sendQueue[n])) \cup Ids(ToSet(writeQueue[n])) : x \in Nat
    BY QueuedIds DEF ResetInv
  <2>3. \A x \in Nat : x < sendId[n] => x < sendId[n] + 1
    BY <1>5
  <2>4. SenderOk(n)'
    BY <1>5, <1>7, <2>2, <2>3 DEF Steady, SenderOk
  <2> QED BY <1>5, <1>7, <2>4 DEF Steady, SenderOk, SenderKept
<1>9. ReceiverOk(n)' /\ ReceiverOk(m)'
  BY <1>5, <1>7 DEF Steady, ReceiverOk, ReceiverKept, Longest
<1>10. PathOk(n)' /\ PathOk(m)'
  BY <1>5, <1>6 DEF Steady, PathOk, Longest
<1>11. Flying(n)'
  <2> SUFFICES ASSUME NEW x \in Ids(ToSet(sendQueue[n]))
               PROVE  \/ \E q \in ToSet(wire'[m]) : q.type = "DATA" /\ q.id = x
                      \/ \E q \in ToSet(wire'[n]) : q.type = "ACK" /\ q.id = x
    BY <1>5, <1>7 DEF Flying
  <2>1. \/ \E q \in ToSet(wire[m]) : q.type = "DATA" /\ q.id = x
        \/ \E q \in ToSet(wire[n]) : q.type = "ACK" /\ q.id = x
    BY <1>5 DEF Steady, Flying
  <2>2. p.type # "ACK"
    BY <1>4 DEF IsData
  <2> QED BY <1>6, <2>1, <2>2
<1>12. Flying(m)'
  <2> SUFFICES ASSUME NEW x \in Ids(ToSet(sendQueue[m]))
               PROVE  \/ \E q \in ToSet(wire'[n]) : q.type = "DATA" /\ q.id = x
                      \/ \E q \in ToSet(wire'[m]) : q.type = "ACK" /\ q.id = x
    BY <1>5, <1>7 DEF Flying, SenderKept
  <2>1. \/ \E q \in ToSet(wire[n]) : q.type = "DATA" /\ q.id = x
        \/ \E q \in ToSet(wire[m]) : q.type = "ACK" /\ q.id = x
    BY <1>5 DEF Steady, Flying
  <2> QED BY <1>6, <2>1
<1>13. Room(n)' /\ Room(m)' /\ IdsPaid(n)' /\ IdsPaid(m)'
  <2>0. CountsHold(n, m)
    BY CountsNow
  <2>1. PICK wn, wm, qn, qm, dn, dm, sn, sm, an, am, fl \in Nat :
              /\ Numbers(n, m, wn, wm, qn, qm, dn, dm, sn, sm, an, am, fl)
              /\ Counted(wn, wm, qn, qm, dn, dm, sn, sm, an, am, fl)
    BY <2>0 DEF CountsHold
  <2>2. PICK v \in Nat, d \in Nat :
            /\ v = Weight(wire'[n]) /\ Weight(wire[n]) = v + 3
            /\ d = NumberOf(wire'[n], {"DATA"}) /\ NumberOf(wire[n], {"DATA"}) = d + 1
    BY <1>1, <1>4, <1>5, <1>7, CountsOfPath DEF Cost, IsData
  <2>3. /\ Weight(Append(wire[m], AckPacket(p))) = Weight(wire[m]) + 1
        /\ NumberOf(Append(wire[m], AckPacket(p)), {"DATA"}) = NumberOf(wire[m], {"DATA"})
        /\ Append(wire[m], AckPacket(p)) \in Seq(Packets)
    <3>1. Cost(AckPacket(p)) = 1 /\ ~IsData(AckPacket(p))
      BY DEF Cost, IsData, AckPacket
    <3>2. NumberOf(wire[m], {"DATA"}) \in Nat
      BY BothEnds
    <3> QED BY <1>5, <1>6, <3>1, <3>2, CountsOfPath, AppendPlaces
  <2>4. CASE ~reset
    <3>1. wire'[m] = Append(wire[m], AckPacket(p)) /\ sendId'[n] = sendId[n]
      BY <1>1, <1>3, <2>4 DEF Acknowledges
    <3>2. Numbers(n, m, v, wm + 1, qn, qm, d, dm, sn, sm, an, am, fl)' /\ wn = v + 3 /\ dn = d + 1
      BY <1>7, <2>1, <2>2, <2>3, <3>1 DEF Numbers, SenderKept
    <3>3. Counted(v, wm + 1, qn, qm, d, dm, sn, sm, an, am, fl)
      BY <2>1, <3>2 DEF Counted
    <3>4. wm + 1 \in Nat
      OBVIOUS
    <3> QED BY <3>2, <3>3, <3>4, CountsAgain
  <2>5. CASE reset
    <3>1. /\ wire'[m] = Append(Append(wire[m], AckPacket(p)), ResetPacket(sendId[n]))
          /\ sendId'[n] = sendId[n] + 1
      BY <1>1, <1>3, <2>5 DEF Acknowledges
    <3>2. /\ Weight(wire'[m]) = Weight(Append(wire[m], AckPacket(p))) + 2
          /\ NumberOf(wire'[m], {"DATA"}) = NumberOf(wire[m], {"DATA"})
      <4>1. Cost(ResetPacket(sendId[n])) = 2 /\ ~IsData(ResetPacket(sendId[n]))
        BY DEF Cost, IsData, ResetPacket
      <4>2. NumberOf(wire[m], {"DATA"}) \in Nat
        BY BothEnds
      <4>3. PICK w, r : w = Append(wire[m], AckPacket(p)) /\ r = ResetPacket(sendId[n])
        OBVIOUS
      <4>4. /\ w \in Seq(Packets) /\ r \in Packets /\ Cost(r) = 2 /\ ~IsData(r)
            /\ NumberOf(w, {"DATA"}) \in Nat
        BY <1>6, <2>3, <4>1, <4>2, <4>3
      <4>5. /\ Weight(Append(w, r)) = Weight(w) + 2
            /\ NumberOf(Append(w, r), {"DATA"}) = NumberOf(w, {"DATA"})
        BY <4>4, CountsOfPath
      <4> QED BY <2>3, <3>1, <4>3, <4>5
    <3>3. Weight(wire'[m]) = Weight(wire[m]) + 3
      <4>1. Weight(wire[m]) \in Nat
        BY BothEnds
      <4> QED BY <2>3, <3>2, <4>1
    <3>4. /\ Numbers(n, m, v, wm + 3, qn, qm, d, dm, sn + 1, sm, an, am, fl)'
          /\ wn = v + 3 /\ dn = d + 1
      BY <1>7, <2>1, <2>2, <3>1, <3>2, <3>3 DEF Numbers, SenderKept
    <3>5. Counted(v, wm + 3, qn, qm, d, dm, sn + 1, sm, an, am, fl)
      BY <2>1, <3>4 DEF Counted
    <3>6. wm + 3 \in Nat /\ sn + 1 \in Nat
      OBVIOUS
    <3> QED BY <3>4, <3>5, <3>6, CountsAgain
  <2> QED BY <2>4, <2>5
<1>14. Directed(n)'
  <2>1. Direction(wire[m], receiveExpectedId[m], receiveQueue[m], sendId[n], writeQueue[n],
                  ResetComes(wire[n]))
    BY <1>5 DEF Directed
  <2>2. /\ Direction(Append(wire[m], AckPacket(p)), receiveExpectedId[m], receiveQueue[m],
                     sendId[n], writeQueue[n], ResetComes(wire[n]))
        /\ Append(wire[m], AckPacket(p)) \in Seq(Packets)
    BY <1>5, <1>6, <2>1, DirectionAck, AppendPlaces
  <2>3. Direction(wire'[m], receiveExpectedId[m], receiveQueue[m], sendId'[n], writeQueue[n],
                  ResetComes(wire[n]))
    <3>1. CASE ~reset
      BY <1>1, <1>3, <2>2, <3>1 DEF Acknowledges
    <3>2. CASE reset
      <4>1. wire'[m] = Append(Append(wire[m], AckPacket(p)), ResetPacket(sendId[n]))
        BY <1>1, <1>3, <3>2 DEF Acknowledges
      <4>2. PICK w, r : w = Append(wire[m], AckPacket(p)) /\ r = ResetPacket(sendId[n])
        OBVIOUS
      <4>3. /\ w \in Seq(Packets) /\ r \in Packets /\ IsReset(r)
            /\ Direction(w, receiveExpectedId[m], receiveQueue[m], sendId[n], writeQueue[n],
                         ResetComes(wire[n]))
        BY <1>6, <2>2, <4>2
      <4>4. Direction(Append(w, r), receiveExpectedId[m], receiveQueue[m], sendId'[n],
                      writeQueue[n], ResetComes(wire[n]))
        BY <1>5, <4>3, DirectionMark
      <4> QED BY <4>1, <4>2, <4>4
    <3> QED BY <3>1, <3>2
  <2>4. Direction(wire'[m], receiveExpectedId[m], receiveQueue[m], sendId'[n], writeQueue[n],
                  ResetComes(wire'[n]))
    BY <1>6, <2>3, DirectionStays
  <2> QED BY <1>5, <1>7, <2>4 DEF Directed, ReceiverKept
<1>15. Directed(m)'
  <2>1. Direction(wire[n], receiveExpectedId[n], receiveQueue[n], sendId[m], writeQueue[m],
                  ResetComes(wire[m]))
    BY <1>5 DEF Directed
  <2>2. Takes(wire[n][1], receiveExpectedId[n], receiveQueue[n], ResetComes(wire[m]),
              f, sq, ResetComes(wire[m]) \/ reset)
    BY <1>3, <1>4, <1>5, TailPlaces DEF Handles
  <2>3. Direction(Tail(wire[n]), f, sq, sendId[m], writeQueue[m], ResetComes(wire[m]) \/ reset)
    BY <1>4, <1>5, <2>1, <2>2, DirectionTakes
  <2>4. Direction(Tail(wire[n]), f, sq, sendId[m], writeQueue[m], ResetComes(wire'[m]))
    BY <1>6, <2>3, DirectionStays
  <2> QED BY <1>5, <1>7, <2>4 DEF Directed, SenderKept
<1>16. (sent[n] <= MaxData[n])' /\ (sent[m] <= MaxData[m])'
  BY <1>5, <1>7 DEF Steady
<1>17. Steady(n)' /\ Steady(m)'
  BY <1>8, <1>9, <1>10, <1>11, <1>12, <1>13, <1>16 DEF Steady
<1> QED BY <1>7, <1>14, <1>15, <1>17


-----------------------------------------------------------------------------
\* _trudpChannelReset, on a RESET, on its acknowledgement and by a restart

LEMMA ResetHere ==
    ASSUME Lossless, ResetInv, NEW n \in Nodes, NEW m, m = Peer[n], ResetChannel(n), sent' = sent,
           \A k \in Nodes \ {n, m} : wire'[k] = wire[k]
    PROVE  /\ OthersKept(n) /\ SenderKept(m) /\ ReceiverKept(m)
           /\ sendId'[n] = 0 /\ writeQueue'[n] = <<>> /\ Len(writeQueue'[n]) = 0
           /\ receiveExpectedId'[n] = 0 /\ receiveQueue'[n] = {}
           /\ SenderOk(n)' /\ SenderOk(m)' /\ ReceiverOk(n)' /\ ReceiverOk(m)' /\ Flying(n)'
           /\ sendQueue'[m] = sendQueue[m]
<1>1. /\ m \in Nodes /\ m # n /\ Steady(m) /\ Longest(n) \in Nat
      /\ sendId \in [Nodes -> PacketIds] /\ receiveExpectedId \in [Nodes -> PacketIds]
      /\ sendQueue \in [Nodes -> Seq(DataPackets)] /\ writeQueue \in [Nodes -> Seq(DataPackets)]
      /\ receiveQueue \in [Nodes -> SUBSET DataPackets]
  BY BothEnds DEF ResetInv, TypeInv, TypeOK
<1>2. /\ sendId'[n] = 0 /\ sendQueue'[n] = <<>> /\ writeQueue'[n] = <<>>
      /\ receiveExpectedId'[n] = 0 /\ receiveQueue'[n] = {}
      /\ \A k \in Nodes \ {n} :
            /\ sendId'[k] = sendId[k] /\ sendQueue'[k] = sendQueue[k]
            /\ writeQueue'[k] = writeQueue[k]
            /\ receiveExpectedId'[k] = receiveExpectedId[k]
            /\ receiveQueue'[k] = receiveQueue[k]
  BY <1>1 DEF ResetChannel
<1>3. OthersKept(n) /\ SenderKept(m) /\ ReceiverKept(m)
  BY <1>1, <1>2 DEF OthersKept, SenderKept, ReceiverKept
<1>4. /\ Ids(ToSet(<<>>)) = {} /\ Ids({}) = {} /\ Len(<<>>) = 0 /\ NoTwins(<<>>)
  BY DEF Ids, ToSet, NoTwins
<1>5. SenderOk(n)' /\ Flying(n)'
  BY <1>2, <1>4 DEF SenderOk, Flying
<1>6. ReceiverOk(n)'
  BY <1>1, <1>2, <1>4 DEF ReceiverOk, Longest
<1>7. SenderOk(m)' /\ ReceiverOk(m)'
  BY <1>1, <1>2 DEF Steady, SenderOk, ReceiverOk, Longest
<1> QED BY <1>1, <1>2, <1>3, <1>4, <1>5, <1>6, <1>7

\* The packet that resets the channel at n leaves the path.
LEMMA ResetTaken ==
    ASSUME Lossless, ResetInv, NEW n \in Nodes, NEW m, m = Peer[n],
           wire[n] # <<>>, IsReset(Head(wire[n])), NEW pend, ResetComes(wire[m]) => pend
    PROVE  /\ Direction(Tail(wire[n]), 0, {}, sendId[m], writeQueue[m], pend)
           /\ ToSet(wire[n]) = ToSet(Tail(wire[n])) \cup {Head(wire[n])}
           /\ \E v \in Nat : /\ v = Weight(Tail(wire[n])) /\ Weight(wire[n]) = v + Cost(Head(wire[n]))
                             /\ NumberOf(Tail(wire[n]), {"DATA"}) = NumberOf(wire[n], {"DATA"})
<1>1. /\ Direction(wire[n], receiveExpectedId[n], receiveQueue[n], sendId[m], writeQueue[m],
                   ResetComes(wire[m]))
      /\ wire[n] \in Seq(Packets) /\ receiveExpectedId[n] \in Nat /\ sendId[m] \in Nat
  BY BothEnds DEF Directed
<1>2. PICK p : p = Head(wire[n])
  OBVIOUS
<1>3. p = wire[n][1] /\ p \in Packets /\ p.type # "ACK" /\ ~IsData(p) /\ IsReset(p)
  BY <1>1, <1>2, TailPlaces DEF IsReset, IsData
<1>4. Takes(wire[n][1], receiveExpectedId[n], receiveQueue[n], ResetComes(wire[m]), 0, {}, pend)
  BY <1>3 DEF Takes, Moves, Ids
<1>5. Direction(Tail(wire[n]), 0, {}, sendId[m], writeQueue[m], pend)
  BY <1>1, <1>4, DirectionTakes
<1>6. ToSet(wire[n]) = ToSet(Tail(wire[n])) \cup {p}
  BY <1>1, <1>2, <1>3, ResetOnPath
<1>7. PICK d, e : d = NumberOf(Tail(wire[n]), {"DATA"}) /\ e = NumberOf(wire[n], {"DATA"})
  OBVIOUS
<1>8. /\ Weight(wire[n]) = Weight(Tail(wire[n])) + Cost(p) /\ Weight(Tail(wire[n])) \in Nat
      /\ e = d + (IF IsData(p) THEN 1 ELSE 0) /\ d \in Nat
  BY <1>1, <1>2, <1>3, <1>7, CountsOfPath
<1>9. e = d
  BY <1>3, <1>8
<1> QED BY <1>2, <1>5, <1>6, <1>7, <1>8, <1>9

LEMMA ReceiveResetKeeps ==
    ASSUME Lossless, ResetInv, NEW n \in Nodes, NEW m, m = Peer[n],
           NEW a \in Arrivals(wire[n]), ReceiveReset(n, a) \/ ReceiveAckReset(n, a)
    PROVE  /\ OthersKept(n) /\ faults' = faults
           /\ \A k \in {n, m} : Steady(k)' /\ Directed(k)'
<1>1. PICK p, r : p = Head(wire[n]) /\ r = AckResetPacket(p)
  OBVIOUS
<1>2. /\ m \in Nodes /\ m # n /\ Peer[m] = n /\ Peer[n] = m /\ TypeInv
      /\ \A k \in {n, m} :
            /\ Steady(k) /\ Directed(k) /\ sendId[k] \in Nat /\ receiveExpectedId[k] \in Nat
            /\ wire[k] \in Seq(Packets)
  BY BothEnds DEF ResetInv
<1>3. /\ wire[n] # <<>> /\ a.pkt = p /\ p \in Packets /\ IsReset(p) /\ sent' = sent
      /\ faults' = faults /\ ResetChannel(n) /\ p.type # "DATA"
  BY <1>1, <1>2, PathAnswers DEF ReceiveReset, ReceiveAckReset, IsReset, historyVars
<1>4. r \in Packets /\ IsReset(r) /\ Cost(r) = 1 /\ ~IsData(r) /\ r.type = "ACK_RESET"
  <2>1. p.id \in PacketIds
    BY <1>3 DEF Packets, DataPackets
  <2> QED BY <1>1, <2>1 DEF AckResetPacket, Packets, IsReset, IsData, Cost
<1>5. /\ wire'[n] = Tail(wire[n]) /\ \A k \in Nodes \ {n, m} : wire'[k] = wire[k]
      /\ \/ wire'[m] = Append(wire[m], r) /\ Cost(p) = 2
         \/ wire'[m] = wire[m] /\ Cost(p) = 1
  <2>1. CASE ReceiveReset(n, a)
    <3>1. Answer(n, a, <<r>>) /\ p.type = "RESET"
      BY <1>1, <1>3, <2>1 DEF ReceiveReset
    <3>2. Cost(p) = 2
      BY <3>1 DEF Cost
    <3>3. Weight(wire[m]) + Cost(r) <= WireCap
      <4>1. Weight(wire[m]) + 2 <= WireCap /\ Weight(wire[m]) \in Nat /\ WireCap \in Nat
        BY <1>1, <1>3, <3>2, PathFits
      <4> QED BY <1>4, <4>1
    <3>4. /\ wire'[n] = Tail(wire[n]) /\ wire'[m] = Append(wire[m], r)
          /\ \A k \in Nodes \ {n, m} : wire'[k] = wire[k]
      <4>1. \A q \in Packets : Answer(n, a, <<q>>) /\ Weight(wire[m]) + Cost(q) <= WireCap
               => /\ wire'[n] = Tail(wire[n]) /\ wire'[m] = Append(wire[m], q)
                  /\ \A k \in Nodes \ {n, m} : wire'[k] = wire[k]
        BY <1>2, PathAnswers
      <4> QED BY <1>4, <3>1, <3>3, <4>1
    <3> QED BY <3>2, <3>4
  <2>2. CASE ReceiveAckReset(n, a)
    <3>1. Answer(n, a, <<>>) /\ p.type = "ACK_RESET"
      BY <1>3, <2>2 DEF ReceiveAckReset
    <3>2. Cost(p) = 1
      BY <3>1 DEF Cost
    <3> QED BY <1>2, <3>1, <3>2, PathAnswers, PathFits
  <2> QED BY <2>1, <2>2
<1>6. /\ OthersKept(n) /\ SenderKept(m) /\ ReceiverKept(m)
      /\ sendId'[n] = 0 /\ writeQueue'[n] = <<>> /\ Len(writeQueue'[n]) = 0
      /\ receiveExpectedId'[n] = 0 /\ receiveQueue'[n] = {}
      /\ SenderOk(n)' /\ SenderOk(m)' /\ ReceiverOk(n)' /\ ReceiverOk(m)' /\ Flying(n)'
      /\ sendQueue'[m] = sendQueue[m]
  BY <1>3, <1>5, ResetHere
<1>7. /\ ToSet(wire[m]) \subseteq ToSet(wire'[m])
      /\ \A q \in ToSet(wire'[m]) : q.type = "DATA" => q \in ToSet(wire[m])
      /\ ResetComes(wire[m]) => ResetComes(wire'[m])
  <2>1. /\ ToSet(Append(wire[m], r)) = ToSet(wire[m]) \cup {r}
        /\ ResetComes(wire[m]) => ResetComes(Append(wire[m], r))
    BY <1>2, <1>4, ResetOnPath
  <2>2. r.type # "DATA"
    BY <1>4
  <2> QED BY <1>5, <2>1, <2>2
<1>8. /\ Direction(Tail(wire[n]), 0, {}, sendId[m], writeQueue[m], ResetComes(wire'[m]))
      /\ ToSet(wire[n]) = ToSet(Tail(wire[n])) \cup {p}
      /\ \E v \in Nat : /\ v = Weight(Tail(wire[n])) /\ Weight(wire[n]) = v + Cost(p)
                        /\ NumberOf(Tail(wire[n]), {"DATA"}) = NumberOf(wire[n], {"DATA"})
  BY <1>1, <1>3, <1>7, ResetTaken
<1>9. PathOk(n)' /\ PathOk(m)'
  BY <1>2, <1>5, <1>7, <1>8 DEF Steady, PathOk, Longest
<1>10. Flying(m)'
  <2> SUFFICES ASSUME NEW x \in Ids(ToSet(sendQueue[m]))
               PROVE  \/ \E q \in ToSet(wire'[n]) : q.type = "DATA" /\ q.id = x
                      \/ \E q \in ToSet(wire'[m]) : q.type = "ACK" /\ q.id = x
    BY <1>2, <1>6 DEF Flying
  <2>1. \/ \E q \in ToSet(wire[n]) : q.type = "DATA" /\ q.id = x
        \/ \E q \in ToSet(wire[m]) : q.type = "ACK" /\ q.id = x
    BY <1>2 DEF Steady, Flying
  <2> QED BY <1>3, <1>5, <1>7, <1>8, <2>1
<1>11. Room(n)' /\ Room(m)' /\ IdsPaid(n)' /\ IdsPaid(m)'
  <2>0. CountsHold(n, m)
    BY CountsNow
  <2>1. PICK wn, wm, qn, qm, dn, dm, sn, sm, an, am, f \in Nat :
              /\ Numbers(n, m, wn, wm, qn, qm, dn, dm, sn, sm, an, am, f)
              /\ Counted(wn, wm, qn, qm, dn, dm, sn, sm, an, am, f)
    BY <2>0 DEF CountsHold
  <2>2. PICK v \in Nat : /\ v = Weight(wire'[n]) /\ Weight(wire[n]) = v + Cost(p)
                         /\ NumberOf(wire'[n], {"DATA"}) = NumberOf(wire[n], {"DATA"})
    BY <1>5, <1>8
  <2>3. CASE wire'[m] = Append(wire[m], r) /\ Cost(p) = 2
    <3>1. /\ Weight(wire'[m]) = Weight(wire[m]) + 1
          /\ NumberOf(wire'[m], {"DATA"}) = NumberOf(wire[m], {"DATA"})
      <4>1. NumberOf(wire[m], {"DATA"}) \in Nat
        BY BothEnds
      <4> QED BY <1>2, <1>4, <2>3, <4>1, CountsOfPath
    <3>2. Numbers(n, m, v, wm + 1, 0, qm, dn, dm, 0, sm, an, am, f)' /\ wn = v + 2
      BY <1>3, <1>6, <2>1, <2>2, <2>3, <3>1 DEF Numbers, SenderKept
    <3>3. Counted(v, wm + 1, 0, qm, dn, dm, 0, sm, an, am, f)
      BY <2>1, <3>2 DEF Counted
    <3>4. wm + 1 \in Nat /\ 0 \in Nat
      OBVIOUS
    <3> QED BY <3>2, <3>3, <3>4, CountsAgain
  <2>4. CASE wire'[m] = wire[m] /\ Cost(p) = 1
    <3>1. Numbers(n, m, v, wm, 0, qm, dn, dm, 0, sm, an, am, f)' /\ wn = v + 1
      BY <1>3, <1>6, <2>1, <2>2, <2>4 DEF Numbers, SenderKept
    <3>2. Counted(v, wm, 0, qm, dn, dm, 0, sm, an, am, f)
      BY <2>1, <3>1 DEF Counted
    <3>3. 0 \in Nat
      OBVIOUS
    <3> QED BY <3>1, <3>2, <3>3, CountsAgain
  <2> QED BY <1>5, <2>3, <2>4
<1>12. Directed(n)'
  <2>1. Direction(wire[m], receiveExpectedId[m], receiveQueue[m], sendId[n], writeQueue[n],
                  ResetComes(wire[n]))
    BY <1>2 DEF Directed
  <2>2. Direction(wire'[m], receiveExpectedId[m], receiveQueue[m], 0, <<>>, ResetComes(wire'[n]))
    <3>1. CASE wire'[m] = Append(wire[m], r)
      BY <1>2, <1>4, <2>1, <3>1, DirectionMark
    <3>2. CASE wire'[m] = wire[m]
      BY <2>1, <3>2, DirectionEnds
    <3> QED BY <1>5, <3>1, <3>2
  <2> QED BY <1>2, <1>6, <2>2 DEF Directed, ReceiverKept
<1>13. Directed(m)'
  BY <1>2, <1>5, <1>6, <1>8 DEF Directed, SenderKept
<1>14. (sent[n] <= MaxData[n])' /\ (sent[m] <= MaxData[m])'
  BY <1>2, <1>3 DEF Steady
<1>15. Steady(n)' /\ Steady(m)'
  BY <1>6, <1>9, <1>10, <1>11, <1>14 DEF Steady
<1> QED BY <1>3, <1>6, <1>12, <1>13, <1>15


\* trudpChannelSendRESET, called by the application
LEMMA SendResetKeeps ==
    ASSUME Lossless, ResetInv, NEW n \in Nodes, NEW m, m = Peer[n], SendReset(n)
    PROVE  /\ OthersKept(n) /\ faults' = faults + 1 /\ faults' <= MaxFaults
           /\ \A k \in {n, m} : Steady(k)' /\ Directed(k)'
<1>1. PICK s, r : s = sendId[n] /\ r = ResetPacket(s)
  OBVIOUS
<1>2. /\ m \in Nodes /\ m # n /\ Peer[m] = n /\ Peer[n] = m /\ TypeInv /\ WindowInv
      /\ \A k \in {n, m} :
            /\ Steady(k) /\ Directed(k) /\ sendId[k] \in Nat /\ receiveExpectedId[k] \in Nat
            /\ wire[k] \in Seq(Packets)
      /\ s \in PacketIds /\ faults \in Nat /\ MaxFaults \in Nat
  BY <1>1, BothEnds DEF ResetInv
<1>3. /\ faults < MaxFaults /\ faults' = faults + 1 /\ Transmit(n, <<r>>)
      /\ sendId' = [sendId EXCEPT ![n] = GetNextSeqId(s)] /\ sent' = sent
      /\ receiveExpectedId' = receiveExpectedId /\ receiveQueue' = receiveQueue
      /\ sendQueue' = sendQueue /\ writeQueue' = writeQueue
  BY <1>1 DEF SendReset, historyVars, receiverVars
<1>4. r \in Packets /\ IsReset(r) /\ Cost(r) = 2 /\ ~IsData(r) /\ r.type = "RESET"
  BY <1>1, <1>2 DEF ResetPacket, Packets, IsReset, IsData, Cost
<1>5. wire'[m] = Append(wire[m], r) /\ \A k \in Nodes \ {m} : wire'[k] = wire[k]
  <2>1. Weight(wire[m]) + Cost(r) <= WireCap
    <3>1. Weight(wire[m]) + 2 <= WireCap
      BY <1>3, PathFits
    <3> QED BY <1>4, <3>1
  <2>2. \A q \in Packets : Transmit(n, <<q>>) /\ Weight(wire[m]) + Cost(q) <= WireCap
           => wire'[m] = Append(wire[m], q) /\ \A k \in Nodes \ {m} : wire'[k] = wire[k]
    BY <1>2, PathSends
  <2> QED BY <1>3, <1>4, <2>1, <2>2
<1>6. /\ sendId'[n] = s + 1 /\ \A k \in Nodes \ {n} : sendId'[k] = sendId[k]
      /\ OthersKept(n) /\ faults' <= MaxFaults
  <2>1. GetNextSeqId(s) = s + 1
    BY <1>1, <1>3, NextIdTaken
  <2> QED BY <1>2, <1>3, <1>5, <2>1 DEF OthersKept, TypeInv, TypeOK
<1>7. /\ ToSet(wire'[m]) = ToSet(wire[m]) \cup {r} /\ ResetComes(wire'[m])
      /\ wire'[n] = wire[n] /\ r.type # "DATA"
  BY <1>2, <1>4, <1>5, ResetOnPath
<1>8. SenderOk(n)' /\ SenderOk(m)' /\ ReceiverOk(n)' /\ ReceiverOk(m)' /\ PathOk(n)' /\ PathOk(m)'
  <2>1. \A x \in Ids(ToSet(sendQueue[n])) \cup Ids(ToSet(writeQueue[n])) : x \in Nat /\ x < s
    <3>1. Ids(ToSet(sendQueue[n])) \cup Ids(ToSet(writeQueue[n])) \subseteq Nat
      BY <1>2, QueuedIds
    <3> QED BY <1>1, <1>2, <3>1 DEF Steady, SenderOk
  <2>2. \A x \in Ids(ToSet(sendQueue[n])) \cup Ids(ToSet(writeQueue[n])) : x < s + 1
    BY <1>1, <1>2, <2>1
  <2>3. SenderOk(n)'
    BY <1>2, <1>3, <1>6, <2>2 DEF Steady, SenderOk
  <2>4. SenderOk(m)'
    BY <1>2, <1>3, <1>6 DEF Steady, SenderOk
  <2> QED BY <1>2, <1>3, <1>7, <2>3, <2>4 DEF Steady, ReceiverOk, PathOk, Longest
<1>9. Flying(n)' /\ Flying(m)'
  BY <1>2, <1>3, <1>7 DEF Steady, Flying
<1>10. Room(n)' /\ Room(m)' /\ IdsPaid(n)' /\ IdsPaid(m)'
  <2>0. CountsHold(n, m)
    BY CountsNow
  <2>1. PICK wn, wm, qn, qm, dn, dm, sn, sm, an, am, f \in Nat :
              /\ Numbers(n, m, wn, wm, qn, qm, dn, dm, sn, sm, an, am, f)
              /\ Counted(wn, wm, qn, qm, dn, dm, sn, sm, an, am, f)
    BY <2>0 DEF CountsHold
  <2>2. /\ Weight(wire'[m]) = Weight(wire[m]) + 2
        /\ NumberOf(wire'[m], {"DATA"}) = NumberOf(wire[m], {"DATA"})
    <3>1. NumberOf(wire[m], {"DATA"}) \in Nat
      BY BothEnds
    <3> QED BY <1>2, <1>4, <1>5, <3>1, CountsOfPath
  <2>3. Numbers(n, m, wn, wm + 2, qn, qm, dn, dm, sn + 1, sm, an, am, f + 1)'
    BY <1>1, <1>2, <1>3, <1>6, <1>7, <2>1, <2>2 DEF Numbers
  <2>4. Counted(wn, wm + 2, qn, qm, dn, dm, sn + 1, sm, an, am, f + 1)
    BY <2>1 DEF Counted
  <2>5. wm + 2 \in Nat /\ sn + 1 \in Nat /\ f + 1 \in Nat
    OBVIOUS
  <2> QED BY <2>3, <2>4, <2>5, CountsAgain
<1>11. Directed(n)'
  <2>1. Direction(wire[m], receiveExpectedId[m], receiveQueue[m], s, writeQueue[n],
                  ResetComes(wire[n]))
    BY <1>1, <1>2 DEF Directed
  <2>2. Direction(Append(wire[m], r), receiveExpectedId[m], receiveQueue[m], s + 1, writeQueue[n],
                  ResetComes(wire[n]))
    BY <1>1, <1>2, <1>4, <2>1, DirectionMark
  <2> QED BY <1>2, <1>3, <1>5, <1>6, <1>7, <2>2 DEF Directed
<1>12. Directed(m)'
  <2>1. Direction(wire[n], receiveExpectedId[n], receiveQueue[n], sendId[m], writeQueue[m],
                  ResetComes(wire[m]))
    BY <1>2 DEF Directed
  <2>2. Direction(wire[n], receiveExpectedId[n], receiveQueue[n], sendId[m], writeQueue[m],
                  ResetComes(wire'[m]))
    BY <1>7, <2>1, DirectionStays
  <2> QED BY <1>2, <1>3, <1>6, <1>7, <2>2 DEF Directed
<1>13. Steady(n)' /\ Steady(m)'
  BY <1>2, <1>3, <1>8, <1>9, <1>10 DEF Steady
<1> QED BY <1>3, <1>6, <1>11, <1>12, <1>13

\* trudpChannelDestroy and a new channel, or a restart of the process
LEMMA RestartKeeps ==
    ASSUME Lossless, ResetInv, NEW n \in Nodes, NEW m, m = Peer[n], Restart(n)
    PROVE  /\ OthersKept(n) /\ faults' = faults + 1 /\ faults' <= MaxFaults
           /\ \A k \in {n, m} : Steady(k)' /\ Directed(k)'
<1>1. /\ m \in Nodes /\ m # n /\ Peer[m] = n /\ Peer[n] = m
      /\ \A k \in {n, m} :
            /\ Steady(k) /\ Directed(k) /\ sendId[k] \in Nat /\ receiveExpectedId[k] \in Nat
            /\ wire[k] \in Seq(Packets)
      /\ faults \in Nat /\ MaxFaults \in Nat
  BY BothEnds
<1>2. /\ faults < MaxFaults /\ faults' = faults + 1 /\ wire' = wire /\ sent' = sent
      /\ ResetChannel(n)
  BY DEF Restart, historyVars
<1>3. /\ OthersKept(n) /\ SenderKept(m) /\ ReceiverKept(m)
      /\ sendId'[n] = 0 /\ writeQueue'[n] = <<>> /\ Len(writeQueue'[n]) = 0
      /\ receiveExpectedId'[n] = 0 /\ receiveQueue'[n] = {}
      /\ SenderOk(n)' /\ SenderOk(m)' /\ ReceiverOk(n)' /\ ReceiverOk(m)' /\ Flying(n)'
      /\ sendQueue'[m] = sendQueue[m] /\ faults' <= MaxFaults
  BY <1>1, <1>2, ResetHere
<1>4. PathOk(n)' /\ PathOk(m)' /\ Flying(m)'
  BY <1>1, <1>2, <1>3 DEF Steady, PathOk, Flying, Longest
<1>5. Room(n)' /\ Room(m)' /\ IdsPaid(n)' /\ IdsPaid(m)'
  <2>0. CountsHold(n, m)
    BY CountsNow
  <2>1. PICK wn, wm, qn, qm, dn, dm, sn, sm, an, am, f \in Nat :
              /\ Numbers(n, m, wn, wm, qn, qm, dn, dm, sn, sm, an, am, f)
              /\ Counted(wn, wm, qn, qm, dn, dm, sn, sm, an, am, f)
    BY <2>0 DEF CountsHold
  <2>2. Numbers(n, m, wn, wm, 0, qm, dn, dm, 0, sm, an, am, f + 1)'
    BY <1>1, <1>2, <1>3, <2>1 DEF Numbers, SenderKept
  <2>3. Counted(wn, wm, 0, qm, dn, dm, 0, sm, an, am, f + 1)
    BY <2>1 DEF Counted
  <2>4. 0 \in Nat /\ f + 1 \in Nat
    OBVIOUS
  <2> QED BY <2>2, <2>3, <2>4, CountsAgain
<1>6. Directed(n)'
  <2>1. Direction(wire[m], receiveExpectedId[m], receiveQueue[m], sendId[n], writeQueue[n],
                  ResetComes(wire[n]))
    BY <1>1 DEF Directed
  <2>2. Direction(wire[m], receiveExpectedId[m], receiveQueue[m], 0, <<>>, ResetComes(wire[n]))
    BY <2>1, DirectionEnds
  <2> QED BY <1>1, <1>2, <1>3, <2>2 DEF Directed, ReceiverKept
<1>7. Directed(m)'
  <2>1. Direction(wire[n], receiveExpectedId[n], receiveQueue[n], sendId[m], writeQueue[m],
                  ResetComes(wire[m]))
    BY <1>1 DEF Directed
  <2>2. Direction(wire[n], 0, {}, sendId[m], writeQueue[m], ResetComes(wire[m]))
    BY <1>1, <2>1, DirectionRestarts
  <2> QED BY <1>1, <1>2, <1>3, <2>2 DEF Directed, SenderKept
<1>8. Steady(n)' /\ Steady(m)'
  BY <1>1, <1>2, <1>3, <1>4, <1>5 DEF Steady
<1> QED BY <1>2, <1>3, <1>6, <1>7, <1>8


-----------------------------------------------------------------------------
\* The invariant of the resets holds at the start and after each step.

LEMMA DirectionInit == Direction(<<>>, 0, {}, 0, <<>>, FALSE)
<1>1. DOMAIN <<>> = {} /\ Ids({}) = {}
  BY DEF Ids
<1> QED BY <1>1 DEF Direction, OnesFirst

LEMMA ResetInit == Lossless /\ Init => ResetInv
<1> SUFFICES ASSUME Lossless, Init PROVE ResetInv
  OBVIOUS
<1>1. TypeInv /\ WindowInv /\ WriteQueueBacked /\ faults = 0 /\ MaxFaults \in Nat
  BY TypeInit, WindowInit, ChannelAssumption DEF Init, WriteQueueBacked
<1>2. /\ Ids(ToSet(<<>>)) = {} /\ ToSet(<<>>) = {} /\ Ids({}) = {}
      /\ Len(<<>>) = 0 /\ DOMAIN <<>> = {} /\ <<>> \in Seq(Packets)
  BY EmptySeq DEF ToSet, Ids
<1>3. Weight(<<>>) = 0 /\ NumberOf(<<>>, {"DATA"}) = 0 /\ ~ResetComes(<<>>)
  <2>1. NumberOf(<<>>, {"DATA", "RESET"}) = 0 /\ NumberOf(<<>>, {"DATA"}) = 0
    BY <1>2, PlacesFinite
  <2> QED BY <1>2, <2>1 DEF Weight, ResetComes
<1> SUFFICES ASSUME NEW n \in Nodes PROVE Steady(n) /\ Directed(n)
  BY <1>1 DEF ResetInv
<1>4. PICK m : m = Peer[n]
  OBVIOUS
<1>5. /\ m \in Nodes /\ Peer[m] = n
      /\ \A k \in {n, m} :
            /\ sendId[k] = 0 /\ sendQueue[k] = <<>> /\ writeQueue[k] = <<>>
            /\ receiveExpectedId[k] = 0 /\ receiveQueue[k] = {}
            /\ wire[k] = <<>> /\ sent[k] = 0
      /\ faults = 0 /\ MaxData[n] \in Nat /\ MaxData[m] \in Nat /\ MaxFaults \in Nat
  BY <1>4, ChannelAssumption DEF Init, Lossless, EmptyWire
<1>6. NoTwins(<<>>)
  BY <1>2 DEF NoTwins
<1>7. SenderOk(n)
  BY <1>2, <1>5, <1>6 DEF SenderOk
<1>8. ReceiverOk(n) /\ PathOk(n) /\ Flying(n)
  <2>1. 0 <= Longest(n)
    BY <1>4, <1>5 DEF Longest
  <2> QED BY <1>2, <1>5, <2>1 DEF ReceiverOk, PathOk, Flying
<1>9. Room(n) /\ IdsPaid(n)
  BY <1>2, <1>3, <1>4, <1>5 DEF Room, IdsPaid, Load, Budget, Taken
<1>10. Steady(n)
  BY <1>5, <1>7, <1>8, <1>9 DEF Steady
<1>11. Directed(n)
  <2>1. ResetComes(wire[n]) = FALSE
    BY <1>3, <1>5 DEF ResetComes
  <2> QED BY <1>4, <1>5, <2>1, DirectionInit DEF Directed
<1> QED BY <1>10, <1>11

\* Nothing is sent again before its ACK could have come.
LEMMA NothingToResend ==
    ASSUME Lossless, ResetInv, NEW n \in Nodes, Resend(n)
    PROVE  FALSE
<1>1. PICK m : m = Peer[n]
  OBVIOUS
<1>2. /\ m \in Nodes /\ Flying(n) /\ Peer[n] = m /\ sendQueue[n] \in Seq(DataPackets)
  BY <1>1, BothEnds DEF Steady
<1>3. sendQueue[n] # <<>> /\ wire[n] = <<>> /\ wire[m] = <<>>
  BY <1>2 DEF Resend, Lossless, EmptyWire
<1>4. ToSet(<<>>) = {}
  BY DEF ToSet
<1>5. sendQueue[n][1] \in ToSet(sendQueue[n])
  <2>1. Len(sendQueue[n]) \in Nat /\ Len(sendQueue[n]) >= 1
        /\ DOMAIN sendQueue[n] = 1 .. Len(sendQueue[n])
    BY <1>2, <1>3, TailPlaces
  <2> QED BY <2>1 DEF ToSet
<1> QED BY <1>2, <1>3, <1>4, <1>5 DEF Flying, Ids

LEMMA ResetStep == Lossless /\ ResetInv /\ [Next]_vars => ResetInv'
<1> SUFFICES ASSUME Lossless, ResetInv, [Next]_vars PROVE ResetInv'
  OBVIOUS
<1>1. TypeInv' /\ WindowInv' /\ WriteQueueBacked'
  BY TypeStep, WindowStep, BackedStep DEF ResetInv
<1>2. faults \in Nat /\ faults <= MaxFaults /\ MaxFaults \in Nat
  BY ChannelAssumption DEF ResetInv, TypeInv, TypeOK
<1>3. ASSUME NEW n \in Nodes, OthersKept(n), faults' \in Nat, faults <= faults',
             faults' <= MaxFaults, \A k \in {n, Peer[n]} : Steady(k)' /\ Directed(k)'
      PROVE  ResetInv'
  BY <1>1, <1>3, OtherPairs
<1>4. ASSUME NEW n \in Nodes, NEW a \in Arrivals(wire[n]), ReceivePacket(n, a)
      PROVE  ResetInv'
  <2>1. /\ OthersKept(n) /\ faults' = faults
        /\ \A k \in {n, Peer[n]} : Steady(k)' /\ Directed(k)'
    <3>1. CASE ReceiveAck(n, a)
      BY <3>1, ReceiveAckKeeps
    <3>2. CASE ReceiveUnknownAck(n, a)
      BY <3>2, UnknownAckKeeps
    <3>3. CASE ReceiveData(n, a)
      BY <3>3, ReceiveDataKeeps
    <3>4. CASE ReceiveReset(n, a) \/ ReceiveAckReset(n, a)
      BY <3>4, ReceiveResetKeeps
    <3> QED BY <1>4, <3>1, <3>2, <3>3, <3>4 DEF ReceivePacket
  <2> QED BY <1>2, <1>3, <2>1
<1>5. ASSUME NEW n \in Nodes, SendData(n) \/ FlushWriteQueue(n) PROVE ResetInv'
  <2>1. /\ OthersKept(n) /\ faults' = faults
        /\ \A k \in {n, Peer[n]} : Steady(k)' /\ Directed(k)'
    BY <1>5, SendDataKeeps, FlushKeeps
  <2> QED BY <1>2, <1>3, <2>1
<1>6. ASSUME NEW n \in Nodes, SendReset(n) \/ Restart(n) PROVE ResetInv'
  <2>1. /\ OthersKept(n) /\ faults' = faults + 1 /\ faults' <= MaxFaults
        /\ \A k \in {n, Peer[n]} : Steady(k)' /\ Directed(k)'
    BY <1>6, SendResetKeeps, RestartKeeps
  <2> QED BY <1>2, <1>3, <2>1
<1>7. ASSUME NEW n \in Nodes, Resend(n) \/ Lose(n) PROVE FALSE
  <2>1. ~Lose(n)
    BY DEF Lose, Lossless
  <2> QED BY <1>7, <2>1, NothingToResend
<1>8. CASE UNCHANGED vars
  <2>1. /\ sendId' = sendId /\ sendQueue' = sendQueue /\ writeQueue' = writeQueue
        /\ receiveExpectedId' = receiveExpectedId /\ receiveQueue' = receiveQueue
        /\ wire' = wire /\ sent' = sent /\ faults' = faults
    BY <1>8 DEF vars, senderVars, receiverVars, historyVars
  <2>2. \A n \in Nodes : Steady(n)' /\ Directed(n)'
    <3> SUFFICES ASSUME NEW n \in Nodes PROVE Steady(n)' /\ Directed(n)'
      OBVIOUS
    <3>1. Steady(n) /\ Directed(n)
      BY DEF ResetInv
    <3>2. Directed(n)'
      BY <2>1, <3>1 DEF Directed
    <3>3. SenderOk(n)' /\ ReceiverOk(n)' /\ PathOk(n)' /\ Flying(n)'
      BY <2>1, <3>1 DEF Steady, SenderOk, ReceiverOk, PathOk, Flying, Longest
    <3>4. Room(n)' /\ IdsPaid(n)'
      BY <2>1, <3>1 DEF Steady, Room, IdsPaid, Load, Budget, Taken
    <3> QED BY <2>1, <3>1, <3>2, <3>3, <3>4 DEF Steady
  <2> QED BY <1>1, <1>2, <2>1, <2>2 DEF ResetInv
<1>9. ASSUME NEW n \in Nodes, Step(n) PROVE ResetInv'
  BY <1>4, <1>5, <1>7, <1>9 DEF Step, Receive
<1> QED BY <1>6, <1>8, <1>9 DEF Next

\* With nothing queued or in flight, the invariant leaves the next id and the
\* expected one no way to disagree for good.
LEMMA SettledAgrees == Lossless /\ ResetInv => Resynchronisable
<1> SUFFICES ASSUME Lossless, ResetInv, Quiescent, NEW n \in Nodes,
                    NEW s, s = sendId[n], NEW e, e = receiveExpectedId[Peer[n]], e # 0
             PROVE  s = e \/ (s = 0 /\ GetSeqIdDistance(e, 0) < 0)
  BY DEF Resynchronisable
<1>1. PICK m : m = Peer[n]
  OBVIOUS
<1>2. /\ m \in Nodes /\ s \in Nat /\ e \in Nat /\ Directed(n) /\ e <= Longest(n)
      /\ Longest(n) \in Nat /\ Longest(n) < PacketIdLimit \div 2
  BY <1>1, BothEnds DEF Steady, ReceiverOk
<1>3. wire[n] = <<>> /\ wire[m] = <<>> /\ writeQueue[n] = <<>>
  BY <1>2 DEF Quiescent, Lossless, EmptyWire
<1>4. Direction(<<>>, e, receiveQueue[m], s, <<>>, FALSE)
  <2>1. ResetComes(wire[n]) = FALSE
    BY <1>3 DEF ResetComes
  <2> QED BY <1>1, <1>2, <1>3, <2>1 DEF Directed
<1>5. CASE s = 0
  <2>1. GetSeqIdDistance(e, 0) = 0 - e
    <3>1. e < PacketIdLimit \div 2 /\ 0 < PacketIdLimit \div 2 /\ 0 \in Nat
      BY <1>2, PacketIdLimitAssumption
    <3> QED BY <1>2, <3>1, SmallDistance
  <2> QED BY <1>2, <1>5, <2>1
<1>6. CASE s > 0
  <2>1. DOMAIN <<>> = {} /\ Len(<<>>) = 0 /\ IdsAfter(<<>>, 0) = {} /\ Ids(ToSet(<<>>)) = {}
    BY DEF IdsAfter, Ids, ToSet
  <2>2. ~Closed(<<>>, Len(<<>>) + 1, e)
    BY <2>1 DEF Closed
  <2>3. Running(<<>>, e, receiveQueue[m], s, <<>>, FALSE) /\ e \notin Ids(receiveQueue[m])
    BY <1>4, <1>6, <2>2 DEF Direction
  <2>4. e .. s - 1 \subseteq Ids(receiveQueue[m])
    BY <2>1, <2>3 DEF Running, Covers
  <2>5. e <= s
    BY <2>1, <2>3 DEF Running, NotAhead
  <2>6. ~(e <= s - 1)
    BY <1>2, <2>3, <2>4
  <2> QED BY <1>2, <2>5, <2>6
<1> QED BY <1>2, <1>5, <1>6

\* After any resets and restarts of two channels, when all has settled: the
\* next packet of either end is the one the other expects, or it will make the
\* channels reset, or it is an opening packet. Neither waits for an id the
\* other has passed. (trudpChannelSendRESET, the TRU_RESET cases and the tests
\* of case TRU_DATA, on paths that lose nothing)
THEOREM ResetsResynchronise == Lossless => (Spec => []Resynchronisable)
<1> SUFFICES ASSUME Lossless PROVE Spec => []Resynchronisable
  OBVIOUS
<1>1. Init => ResetInv
  BY ResetInit
<1>2. ResetInv /\ [Next]_vars => ResetInv'
  BY ResetStep
<1>3. ResetInv => Resynchronisable
  BY SettledAgrees
<1> QED BY <1>1, <1>2, <1>3, PTL DEF Spec

\* And however the sessions of the two channels follow one another, a send
\* queue holds at most a window of packets, no two with one id, and the packet
\* with id 0 alone. (_trudpChannelReset sets the send id back only with the
\* queues empty)
THEOREM ResetQueueDisciplined == Lossless => (Spec => []SendQueueDisciplined)
<1> SUFFICES ASSUME Lossless PROVE Spec => []SendQueueDisciplined
  OBVIOUS
<1>1. ResetInv => SendQueueDisciplined
  BY DEF ResetInv, WindowInv, WindowKept, Steady, SenderOk, NoTwins, SendQueueDisciplined
<1>2. Init => ResetInv
  BY ResetInit
<1>3. ResetInv /\ [Next]_vars => ResetInv'
  BY ResetStep
<1> QED BY <1>1, <1>2, <1>3, PTL DEF Spec
=============================================================================
