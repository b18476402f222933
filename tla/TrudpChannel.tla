---------------------------- MODULE TrudpChannel ----------------------------
(***************************************************************************)
(* Two TR-UDP channels talking to each other (trudp_channel.c): the send,  *)
(* write and receive queues, packet ids, acknowledgements, retransmission  *)
(* and the RESET handshake, over the UDP paths of UdpWire.                 *)
(*                                                                         *)
(* A handler of the code runs to its end before the next one starts (one   *)
(* event loop thread per trudpData), so each is one action.  Time is left  *)
(* out: a retransmission may happen whenever the send queue has a head.    *)
(* PING packets change no variable of this module and are left out.        *)
(***************************************************************************)
EXTENDS TrudpSeqId, UdpWire, FiniteSets

CONSTANTS
    Nodes,          \* the two endpoints
    Peer,           \* Peer[n]: the endpoint n's channel is connected with
    NormalSSize,    \* NORMAL_S_SIZE, the size of the send queue window
    ZeroTolerance,  \* zero_tolerance_f, set by the application on a channel
    StartId,        \* sendId and receiveExpectedId of both ends at the start:
                    \* 0 for new channels, else an idle established session
    MaxData,        \* bound: MaxData[n] calls of trudpChannelSendData at n
    MaxFaults,      \* bound: application resets and restarts in a behaviour
    MayLose,        \* the paths lose datagrams
    EarlyTimeouts,  \* a retransmission timer may fire while the packet or
                    \* its acknowledgement is still in flight
    FlushesWriteQueue \* the event loop calls trudpProcessWriteQueue

ASSUME ChannelAssumption ==
    /\ Peer \in [Nodes -> Nodes]
    /\ \A n \in Nodes : Peer[n] # n /\ Peer[Peer[n]] = n
    /\ NormalSSize \in Nat \ {0}
    /\ ZeroTolerance \in BOOLEAN
    /\ StartId \in PacketIds
    /\ MaxData \in [Nodes -> Nat]
    \* no datagram outlives half an id cycle, what every id of finite width needs
    /\ \A n \in Nodes : MaxData[n] + 2 <= PacketIdLimit \div 2
    /\ MaxFaults \in Nat
    /\ MayLose \in BOOLEAN
    /\ EarlyTimeouts \in BOOLEAN
    /\ FlushesWriteQueue \in BOOLEAN

VARIABLES
    sendId,             \* id of the next packet
    sendQueue,          \* packets sent and not acknowledged
    writeQueue,         \* packets that wait for room in the send queue
    receiveExpectedId,  \* id of the next packet to hand to the application
    receiveQueue,       \* packets that arrived ahead of the expected one
    wire,               \* wire[n]: the UDP path towards n
    sent,               \* number of trudpChannelSendData calls at n
    delivered,          \* payloads handed to the application at n (GOT_DATA)
    faults              \* application resets and restarts so far

senderVars == <<sendId, sendQueue, writeQueue>>
receiverVars == <<receiveExpectedId, receiveQueue>>
historyVars == <<sent, delivered>>
vars == <<senderVars, receiverVars, wire, historyVars, faults>>

-----------------------------------------------------------------------------
\* The payload of the k-th trudpChannelSendData call of an endpoint is k.
Payloads == UNION {1 .. MaxData[n] : n \in Nodes}

DataPackets == [type : {"DATA"}, id : PacketIds, data : Payloads]
Packets == DataPackets
           \cup [type : {"ACK", "RESET", "ACK_RESET"}, id : PacketIds, data : {0}]

DataPacket(id, k) == [type |-> "DATA", id |-> id, data |-> k]
AckPacket(p) == [type |-> "ACK", id |-> p.id, data |-> 0]
ResetPacket(id) == [type |-> "RESET", id |-> id, data |-> 0]
AckResetPacket(p) == [type |-> "ACK_RESET", id |-> p.id, data |-> 0]

Ids(packets) == {p.id : p \in packets}

Init ==
    /\ sendId = [n \in Nodes |-> StartId]
    /\ sendQueue = [n \in Nodes |-> <<>>]
    /\ writeQueue = [n \in Nodes |-> <<>>]
    /\ receiveExpectedId = [n \in Nodes |-> StartId]
    /\ receiveQueue = [n \in Nodes |-> {}]
    /\ wire = [n \in Nodes |-> EmptyWire]
    /\ sent = [n \in Nodes |-> 0]
    /\ delivered = [n \in Nodes |-> <<>>]
    /\ faults = 0

-----------------------------------------------------------------------------
\* The path to n after out was sent on it.
Transmit(n, out) == wire' = [wire EXCEPT ![Peer[n]] = Put(@, out)]

\* n takes the arrival a from its path and answers with the packets out.
Answer(n, a, out) ==
    wire' = [wire EXCEPT ![n] = a.rest, ![Peer[n]] = Put(@, out)]


-----------------------------------------------------------------------------
\* Sending

\* mutants of SendNow: the handshake gate dropped, the window ignored
SendNowUngated(queue) == Len(queue) < NormalSSize
SendNowUnbounded(queue) == ~(Len(queue) = 1 /\ queue[1].id = 0)

\* sendNowFlag: there is room in the window, and the packet with id 0, which
\* opens the session, is not alone in flight
SendNow(queue) ==
    /\ Len(queue) < NormalSSize
    /\ ~(Len(queue) = 1 /\ queue[1].id = 0)

\* mutant of SendPacket: a packet is sent but not kept for retransmission
SendPacketUnsaved(queue, waiting, p) ==
    IF SendNow(queue)
    THEN [sq |-> queue, wq |-> waiting, out |-> <<p>>]
    ELSE [sq |-> queue, wq |-> Append(waiting, p), out |-> <<>>]

\* _trudpChannelSendPacket with save_to_send_queue: the queues it leaves and
\* the packets it gives to PROCESS_SEND
SendPacket(queue, waiting, p) ==
    IF SendNow(queue)
    THEN [sq |-> Append(queue, p), wq |-> waiting, out |-> <<p>>]
    ELSE [sq |-> queue, wq |-> Append(waiting, p), out |-> <<>>]

\* trudpChannelSendData
SendData(n) ==
    /\ sent[n] < MaxData[n]
    /\ LET r == SendPacket(sendQueue[n], writeQueue[n],
                           DataPacket(sendId[n], sent[n] + 1))
       IN  /\ sendQueue' = [sendQueue EXCEPT ![n] = r.sq]
           /\ writeQueue' = [writeQueue EXCEPT ![n] = r.wq]
           /\ Transmit(n, r.out)
    /\ sendId' = [sendId EXCEPT ![n] = GetNextSeqId(@)]
    /\ sent' = [sent EXCEPT ![n] = @ + 1]
    /\ UNCHANGED <<receiverVars, delivered, faults>>

\* trudpChannelSendQueueProcess when the head of the queue has expired
Resend(n) ==
    /\ sendQueue[n] # <<>>
    /\ EarlyTimeouts \/ \A m \in Nodes : wire[m] = EmptyWire
    /\ Transmit(n, <<Head(sendQueue[n])>>)
    /\ UNCHANGED <<senderVars, receiverVars, historyVars, faults>>

\* trudpChannelWriteQueueProcess
FlushWriteQueue(n) ==
    /\ FlushesWriteQueue
    /\ writeQueue[n] # <<>>
    /\ Transmit(n, <<Head(writeQueue[n])>>)
    /\ writeQueue' = [writeQueue EXCEPT ![n] = Tail(@)]
    /\ UNCHANGED <<sendId, sendQueue, receiverVars, historyVars, faults>>

-----------------------------------------------------------------------------
\* trudpChannelProcessReceivedPacket, case TRU_ACK

\* mutant of ReceiveAck: nothing is taken from the write queue
ReceiveAckNoRefill(n, a) ==
    /\ a.pkt.type = "ACK"
    /\ \E i \in DOMAIN sendQueue[n] :
        /\ sendQueue[n][i].id = a.pkt.id
        /\ sendQueue' = [sendQueue EXCEPT ![n] = RemoveAt(@, i)]
    /\ Answer(n, a, <<>>)
    /\ UNCHANGED <<sendId, writeQueue, receiverVars, historyVars, faults>>

\* The acknowledged packet leaves the send queue; the first packet of the
\* write queue is sent in its place, or goes to the end of the write queue.
ReceiveAck(n, a) ==
    /\ a.pkt.type = "ACK"
    /\ \E i \in DOMAIN sendQueue[n] :
        /\ sendQueue[n][i].id = a.pkt.id
        /\ LET rest == RemoveAt(sendQueue[n], i)
           IN  IF writeQueue[n] = <<>>
               THEN /\ sendQueue' = [sendQueue EXCEPT ![n] = rest]
                    /\ UNCHANGED writeQueue
                    /\ Answer(n, a, <<>>)
               ELSE LET r == SendPacket(rest, writeQueue[n], Head(writeQueue[n]))
                    IN  /\ sendQueue' = [sendQueue EXCEPT ![n] = r.sq]
                        /\ writeQueue' = [writeQueue EXCEPT ![n] = Tail(r.wq)]
                        /\ Answer(n, a, r.out)
    /\ UNCHANGED <<sendId, receiverVars, historyVars, faults>>

\* The acknowledgement of a packet that is no longer in the send queue.
ReceiveUnknownAck(n, a) ==
    /\ a.pkt.type = "ACK"
    /\ a.pkt.id \notin Ids(ToSet(sendQueue[n]))
    /\ Answer(n, a, <<>>)
    /\ UNCHANGED <<senderVars, receiverVars, historyVars, faults>>

-----------------------------------------------------------------------------
\* trudpChannelProcessReceivedPacket, case TRU_DATA: the packet is always
\* acknowledged first, then the first of the following cases applies.

\* The session has not been opened here and this packet does not open it.
NotOpened(n, p) == receiveExpectedId[n] = 0 /\ p.id # 0

\* mutants of IsExpected: a later or an earlier packet is taken for it
IsExpectedOrLater(n, p) == GetSeqIdDistance(receiveExpectedId[n], p.id) >= 0
IsExpectedOrBefore(n, p) == GetSeqIdDistance(receiveExpectedId[n], p.id) <= 0

IsExpected(n, p) == p.id = receiveExpectedId[n]

\* mutants of IsOutrunning: ids compared as plain numbers, nothing saved
IsOutrunningPlain(n, p) ==
    p.id > receiveExpectedId[n] /\ p.id \notin Ids(receiveQueue[n])
IsOutrunningNever(n, p) == FALSE

IsOutrunning(n, p) ==
    /\ GetSeqIdDistance(receiveExpectedId[n], p.id) > 0
    /\ p.id \notin Ids(receiveQueue[n])

IsNewSession(n, p) == p.id = 0 /\ ~ZeroTolerance /\ receiveExpectedId[n] # 1

\* Answering with an ACK and a RESET, which takes an id of its own.
AckAndReset(n, a) ==
    /\ Answer(n, a, <<AckPacket(a.pkt), ResetPacket(sendId[n])>>)
    /\ sendId' = [sendId EXCEPT ![n] = GetNextSeqId(@)]
    /\ UNCHANGED <<sendQueue, writeQueue, receiverVars, historyVars, faults>>

RejectNotOpened(n, a) == NotOpened(n, a.pkt) /\ AckAndReset(n, a)

\* mutant of DrainsTo: the drain loop left out
DrainsNowhere(queue, next, count) == count = 0

\* The loop over the saved packets takes those with the ids next, next + 1,
\* ..., count of them, and stops at the first id that is missing.
DrainsTo(queue, next, count) ==
    /\ \A i \in 1 .. count : IdAfter(next, i - 1) \in Ids(queue)
    /\ IdAfter(next, count) \notin Ids(queue)

\* the i-th packet the loop takes
Saved(queue, next, i) == CHOOSE p \in queue : p.id = IdAfter(next, i - 1)

AcceptExpected(n, a) ==
    /\ IsExpected(n, a.pkt)
    /\ \E count \in 0 .. Cardinality(receiveQueue[n]) :
        LET next == GetNextSeqId(receiveExpectedId[n])
            queue == receiveQueue[n]
            drained == [i \in 1 .. count |-> Saved(queue, next, i)]
        IN  /\ DrainsTo(queue, next, count)
            /\ receiveExpectedId' =
                  [receiveExpectedId EXCEPT ![n] = IdAfter(next, count)]
            /\ receiveQueue' = [receiveQueue EXCEPT ![n] = @ \ Range(drained)]
            /\ delivered' = [delivered EXCEPT ![n] =
                  @ \o <<a.pkt.data>> \o [i \in 1 .. count |-> drained[i].data]]
    /\ Answer(n, a, <<AckPacket(a.pkt)>>)
    /\ UNCHANGED <<senderVars, sent, faults>>

SaveOutrunning(n, a) ==
    /\ ~NotOpened(n, a.pkt) /\ ~IsExpected(n, a.pkt)
    /\ IsOutrunning(n, a.pkt)
    /\ receiveQueue' = [receiveQueue EXCEPT ![n] = @ \cup {a.pkt}]
    /\ Answer(n, a, <<AckPacket(a.pkt)>>)
    /\ UNCHANGED <<senderVars, receiveExpectedId, historyVars, faults>>

RejectNewSession(n, a) ==
    /\ ~NotOpened(n, a.pkt) /\ ~IsExpected(n, a.pkt) /\ ~IsOutrunning(n, a.pkt)
    /\ IsNewSession(n, a.pkt)
    /\ AckAndReset(n, a)

\* mutant of DropProcessed: a repeated packet is not acknowledged again
DropSilently(n, a) ==
    /\ ~NotOpened(n, a.pkt) /\ ~IsExpected(n, a.pkt) /\ ~IsOutrunning(n, a.pkt)
    /\ ~IsNewSession(n, a.pkt)
    /\ Answer(n, a, <<>>)
    /\ UNCHANGED <<senderVars, receiverVars, historyVars, faults>>

DropProcessed(n, a) ==
    /\ ~NotOpened(n, a.pkt) /\ ~IsExpected(n, a.pkt) /\ ~IsOutrunning(n, a.pkt)
    /\ ~IsNewSession(n, a.pkt)
    /\ Answer(n, a, <<AckPacket(a.pkt)>>)
    /\ UNCHANGED <<senderVars, receiverVars, historyVars, faults>>

ReceiveData(n, a) ==
    /\ a.pkt.type = "DATA"
    /\ \/ RejectNotOpened(n, a)
       \/ AcceptExpected(n, a)
       \/ SaveOutrunning(n, a)
       \/ RejectNewSession(n, a)
       \/ DropProcessed(n, a)

-----------------------------------------------------------------------------
\* Reset

\* mutants of ResetChannel: one of the queues or the send id is forgotten
ResetKeepsSendQueue(n) ==
    /\ sendId' = [sendId EXCEPT ![n] = 0]
    /\ writeQueue' = [writeQueue EXCEPT ![n] = <<>>]
    /\ receiveExpectedId' = [receiveExpectedId EXCEPT ![n] = 0]
    /\ receiveQueue' = [receiveQueue EXCEPT ![n] = {}]
    /\ UNCHANGED sendQueue
ResetKeepsWriteQueue(n) ==
    /\ sendId' = [sendId EXCEPT ![n] = 0]
    /\ sendQueue' = [sendQueue EXCEPT ![n] = <<>>]
    /\ receiveExpectedId' = [receiveExpectedId EXCEPT ![n] = 0]
    /\ receiveQueue' = [receiveQueue EXCEPT ![n] = {}]
    /\ UNCHANGED writeQueue
ResetKeepsReceiveQueue(n) ==
    /\ sendId' = [sendId EXCEPT ![n] = 0]
    /\ sendQueue' = [sendQueue EXCEPT ![n] = <<>>]
    /\ writeQueue' = [writeQueue EXCEPT ![n] = <<>>]
    /\ receiveExpectedId' = [receiveExpectedId EXCEPT ![n] = 0]
    /\ UNCHANGED receiveQueue
ResetKeepsSendId(n) ==
    /\ sendQueue' = [sendQueue EXCEPT ![n] = <<>>]
    /\ writeQueue' = [writeQueue EXCEPT ![n] = <<>>]
    /\ receiveExpectedId' = [receiveExpectedId EXCEPT ![n] = 0]
    /\ receiveQueue' = [receiveQueue EXCEPT ![n] = {}]
    /\ UNCHANGED sendId

\* _trudpChannelReset: the three queues emptied, the defaults set again
ResetChannel(n) ==
    /\ sendId' = [sendId EXCEPT ![n] = 0]
    /\ sendQueue' = [sendQueue EXCEPT ![n] = <<>>]
    /\ writeQueue' = [writeQueue EXCEPT ![n] = <<>>]
    /\ receiveExpectedId' = [receiveExpectedId EXCEPT ![n] = 0]
    /\ receiveQueue' = [receiveQueue EXCEPT ![n] = {}]

\* case TRU_RESET
ReceiveReset(n, a) ==
    /\ a.pkt.type = "RESET"
    /\ ResetChannel(n)
    /\ Answer(n, a, <<AckResetPacket(a.pkt)>>)
    /\ UNCHANGED <<historyVars, faults>>

\* case TRU_ACK | TRU_RESET
ReceiveAckReset(n, a) ==
    /\ a.pkt.type = "ACK_RESET"
    /\ ResetChannel(n)
    /\ Answer(n, a, <<>>)
    /\ UNCHANGED <<historyVars, faults>>

\* trudpChannelSendRESET, called by the application
SendReset(n) ==
    /\ faults < MaxFaults
    /\ Transmit(n, <<ResetPacket(sendId[n])>>)
    /\ sendId' = [sendId EXCEPT ![n] = GetNextSeqId(@)]
    /\ faults' = faults + 1
    /\ UNCHANGED <<sendQueue, writeQueue, receiverVars, historyVars>>

\* trudpChannelDestroy and a new channel for the same peer, or a restart of
\* the process: what is in flight and in the socket buffer survives.
Restart(n) ==
    /\ faults < MaxFaults
    /\ ResetChannel(n)
    /\ faults' = faults + 1
    /\ UNCHANGED <<wire, historyVars>>

Lose(n) ==
    /\ MayLose
    /\ \E w \in Losses(wire[n]) : wire' = [wire EXCEPT ![n] = w]
    /\ UNCHANGED <<senderVars, receiverVars, historyVars, faults>>

-----------------------------------------------------------------------------
ReceivePacket(n, a) ==
    \/ ReceiveAck(n, a)
    \/ ReceiveUnknownAck(n, a)
    \/ ReceiveData(n, a)
    \/ ReceiveReset(n, a)
    \/ ReceiveAckReset(n, a)

Receive(n) == \E a \in Arrivals(wire[n]) : ReceivePacket(n, a)

Step(n) == SendData(n) \/ Resend(n) \/ FlushWriteQueue(n) \/ Receive(n) \/ Lose(n)

\* A session: the application neither resets nor restarts a channel.
SessionNext == \E n \in Nodes : Step(n)
Session == Init /\ [][SessionNext]_vars

Next == \E n \in Nodes : Step(n) \/ SendReset(n) \/ Restart(n)
Spec == Init /\ [][Next]_vars

-----------------------------------------------------------------------------
\* Fairness of a session: the event loop serves an expired timer, and the path
\* does not lose every copy of a packet that is sent again and again.

\* the id of the k-th payload of a session
IdOf(k) == IdAfter(StartId, k - 1)

SessionPackets(n) ==
    {DataPacket(IdOf(k), k) : k \in 1 .. MaxData[Peer[n]]}
    \cup {AckPacket([id |-> IdOf(k)]) : k \in 1 .. MaxData[n]}

ReceiveCopyOf(n, p) ==
    \E a \in Arrivals(wire[n]) : a.pkt = p /\ ReceivePacket(n, a)

FairSession ==
    /\ Session
    /\ \A n \in Nodes :
        /\ WF_vars(Resend(n))
        /\ \A p \in SessionPackets(n) : SF_vars(ReceiveCopyOf(n, p))

-----------------------------------------------------------------------------
TypeOK ==
    /\ sendId \in [Nodes -> PacketIds]
    /\ sendQueue \in [Nodes -> Seq(DataPackets)]
    /\ writeQueue \in [Nodes -> Seq(DataPackets)]
    /\ receiveExpectedId \in [Nodes -> PacketIds]
    /\ receiveQueue \in [Nodes -> SUBSET DataPackets]
    /\ wire \in [Nodes -> Wires(Packets)]
    /\ sent \in [Nodes -> Nat]
    /\ delivered \in [Nodes -> Seq(Payloads)]
    /\ faults \in Nat

\* the payloads n still has to get acknowledged
Pending(n) == {p.data : p \in ToSet(sendQueue[n]) \cup ToSet(writeQueue[n])}

\* the payloads that reached n
Received(n) == ToSet(delivered[n]) \cup {p.data : p \in receiveQueue[n]}

\* What the application of one end gets is what the other end sent, in that
\* order, nothing twice and nothing left out (cases of TRU_DATA).
InOrderExactlyOnce ==
    \A n \in Nodes :
        /\ Len(delivered[n]) <= sent[Peer[n]]
        /\ \A k \in DOMAIN delivered[n] : delivered[n][k] = k

\* A packet leaves the sender's queues only when the receiver has it: whatever
\* was sent can still be retransmitted or has arrived (case TRU_ACK).
NothingStranded ==
    \A n \in Nodes : 1 .. sent[n] \subseteq Pending(n) \cup Received(Peer[n])

\* Loss, delay and duplication of datagrams alone never make a channel reset.
NoSpontaneousReset ==
    \A n \in Nodes : \A p \in InFlight(wire[n]) : p.type \in {"DATA", "ACK"}

\* The write queue is emptied only by acknowledgements, so it must not be
\* left behind by an empty send queue.
WriteQueueBacked ==
    \A n \in Nodes : writeQueue[n] # <<>> => sendQueue[n] # <<>>

\* At most a window of packets awaits acknowledgement, no two with one id, and
\* the packet that opens a session waits alone.
SendQueueDisciplined ==
    \A n \in Nodes :
        /\ Len(sendQueue[n]) <= NormalSSize
        /\ \A i, j \in DOMAIN sendQueue[n] :
              sendQueue[n][i].id = sendQueue[n][j].id => i = j
        /\ 0 \in Ids(ToSet(sendQueue[n])) => Len(sendQueue[n]) = 1

\* Saved packets wait for their turn: each is ahead of the expected id (so
\* the drain loop left none behind that was due), and there is none before
\* the session is opened.
ReceiveQueueAhead ==
    \A n \in Nodes :
        /\ \A p \in receiveQueue[n] :
              GetSeqIdDistance(receiveExpectedId[n], p.id) > 0
        /\ receiveExpectedId[n] = 0 => receiveQueue[n] = {}

\* When nothing is queued or in flight any more everything that was sent has
\* been delivered: there is no gap the receiver keeps waiting for.
Quiescent ==
    \A n \in Nodes :
        wire[n] = EmptyWire /\ sendQueue[n] = <<>> /\ writeQueue[n] = <<>>

QuiescentMeansDelivered ==
    Quiescent => \A n \in Nodes : Len(delivered[Peer[n]]) = sent[n]

\* After any resets and restarts the next packet of an idle end is either the
\* expected one, or makes the channels reset, or it is the opening packet that
\* a receiver waiting for id 1 takes for a repeated one and skips.  Never does
\* the receiver wait for an id the sender has passed, or the sender use ids
\* the receiver has passed.
Resynchronisable ==
    Quiescent => \A n \in Nodes :
        LET next == sendId[n]
            expected == receiveExpectedId[Peer[n]]
        IN  \/ next = expected
            \/ expected = 0
            \/ next = 0 /\ GetSeqIdDistance(expected, 0) < 0

Stream == INSTANCE ReliableStream

\* A session implements the reliable stream: its safety part on any path, and
\* its liveness when the path is fair.
ImplementsStream == Stream!Stream
ImplementsFairStream == Stream!FairStream
=============================================================================
