---------------------------- MODULE TrudpMeasure ----------------------------
(***************************************************************************)
(* How a channel measures the network: the timestamps in the headers of    *)
(* packet.c, the trip time and its middle value in trudp_channel.c, the    *)
(* expected times they lead to, and the speed of the last packets received *)
(* in trudp_stat.c.                                                        *)
(*                                                                         *)
(* Two hosts with clocks of their own share one channel.  The network loses*)
(* and reorders datagrams.  What a packet of data does to the receive queue*)
(* is TrudpChannel's: here it is received, dropped as a repeat, or answered*)
(* by a RESET, whichever it may be.                                        *)
(***************************************************************************)
EXTENDS TrudpLast10, FiniteSets

CONSTANTS
    Hosts,          \* the two ends
    Offset,         \* Offset[h]: how far the clock of h is ahead of now
    Payloads,       \* Payloads[h]: lengths of the data the application of h sends
    PingPayloads,   \* PingPayloads[h]: lengths of the data of its PINGs
    NormalSSize,    \* NORMAL_S_SIZE
    RTT, MAX_RTT, START_MIDDLE_TIME, MAX_TRIPTIME_MIDDLE,
    Damages,        \* changes of a byte
    Delays,         \* steps of the clock
    MaxNow,         \* bound: the time
    MaxId,          \* bound: ids a host uses in a session
    MaxWire,        \* bound: datagrams in flight
    MaxResets       \* bound: RESETs answering a packet of data

Ids == INSTANCE TrudpSeqId WITH PacketIdLimit <- Word

ASSUME MeasureAssumption ==
    /\ \E a, b \in Hosts : a # b /\ Hosts = {a, b}
    /\ Offset \in [Hosts -> Nat]
    /\ Payloads \in [Hosts -> SUBSET Nat]
    /\ PingPayloads \in [Hosts -> SUBSET Nat]
    /\ NormalSSize \in Nat \ {0}
    /\ RTT \in Nat /\ MAX_RTT \in Nat /\ RTT <= MAX_RTT
    /\ START_MIDDLE_TIME \in Nat /\ MAX_TRIPTIME_MIDDLE \in Nat
    /\ START_MIDDLE_TIME <= MAX_TRIPTIME_MIDDLE
    /\ MAX_TRIPTIME_MIDDLE + RTT < Word
    /\ Word >= 4
    /\ Damages \subseteq 1 .. Byte - 1
    /\ Delays \subseteq Nat

Peer(h) == CHOOSE g \in Hosts : g # h

VARIABLES
    now,            \* real time
    wire,           \* datagrams in flight: [to, packet, stamped]; the
                    \* history stamped is that of the packet itself
                    \* or, in an answer, of the packet it answers
    sendId, sendQueue, writeQueue,
    triptime, triptimeMiddle,
    received,       \* the part of tcd->stat that is about the last packets received
    resets,         \* RESETs that answered a packet of data
    measured        \* history: the time since the copy was stamped whose answer
                    \* triptime[h] was computed from

channelVars ==
    <<sendId, sendQueue, writeQueue, triptime, triptimeMiddle, received, measured>>
vars == <<now, wire, channelVars, resets>>

Timestamp(h) == (now + Offset[h]) % Word

NoMeasure == [own |-> FALSE, age |-> 0]

Init ==
    /\ now = 0
    /\ wire = {}
    /\ sendId = [h \in Hosts |-> 0]
    /\ sendQueue = [h \in Hosts |-> <<>>]
    /\ writeQueue = [h \in Hosts |-> <<>>]
    /\ triptime = [h \in Hosts |-> 0]
    /\ triptimeMiddle = [h \in Hosts |-> START_MIDDLE_TIME]
    /\ received = [h \in Hosts |-> NoReceive]
    /\ resets = 0
    /\ measured = [h \in Hosts |-> NoMeasure]

-----------------------------------------------------------------------------
\* The outcomes of converting halves / 2 to a uint32_t: of a value that does not
\* fit, which is undefined, x86-64 keeps the low bits and ARM the largest value.
ToUint32(halves) ==
    IF halves \div 2 < Word THEN {halves \div 2}
    ELSE {(halves \div 2) % Word, Word - 1}

AtMost(a, b) == IF a > b THEN b ELSE a

\* mutant of MiddleTimes: triptimeMiddle is not clamped
MiddleTimesUnclamped(middle, t) ==
    IF middle = START_MIDDLE_TIME \/ t > middle
    THEN ToUint32(3 * t) ELSE {(middle * 19 + t) \div 20}

\* The values _trudpChannelCalculateTriptime may give triptimeMiddle from middle
\* and a trip time t: 3 * t halves are triptime * triptimeFactor.
MiddleTimes(middle, t) ==
    LET first == IF middle = START_MIDDLE_TIME \/ t > middle
                 THEN ToUint32(3 * t)
                 ELSE {((middle * 19 + t) % Word) \div 20}
        raised == UNION {IF 2 * m < 3 * t THEN ToUint32(3 * t) ELSE {m} : m \in first}
    IN  {AtMost(AtMost(m, (t * 10) % Word), MAX_TRIPTIME_MIDDLE) : m \in raised}

\* _trudpChannelCalculateTriptime
CalculateTriptime(h, d) ==
    LET t == (Timestamp(h) - d.packet.header.timestamp) % Word
    IN  /\ triptime' = [triptime EXCEPT ![h] = t]
        /\ \E m \in MiddleTimes(triptimeMiddle[h], t) :
                triptimeMiddle' = [triptimeMiddle EXCEPT ![h] = m]
        /\ measured' = [measured EXCEPT ![h] =
                IF d.packet.header.message_type = TRU_PING THEN NoMeasure
                ELSE [own |-> TRUE, age |-> now - d.stamped]]

\* _trudpChannelCalculateExpectedTime
ExpectedTime(h) == now + AtMost((triptimeMiddle[h] + RTT) % Word, MAX_RTT)

-----------------------------------------------------------------------------
\* PROCESS_SEND: the datagram leaves, or is lost at once
Datagram(to, p, stamped) == [to |-> to, packet |-> p, stamped |-> stamped]

Put(datagrams) ==
    /\ wire' = datagrams
    /\ Cardinality(wire') <= MaxWire

\* _trudpChannelSendPacket with save_to_send_queue, for a packet that was stamped
\* at some time: it goes to the send queue sq and leaves, or to the write queue.
SendPacket(h, sq, wq, p, stamped, datagrams) ==
    LET sendNow == /\ Len(sq) < NormalSSize
                   /\ ~ (Len(sq) = 1 /\ sq[1].packet.header.id = 0)
    IN  IF sendNow
        THEN /\ sendQueue' = [sendQueue EXCEPT ![h] =
                    Append(sq, [packet |-> p, expected |-> ExpectedTime(h),
                                queued |-> now, stamped |-> stamped])]
             /\ writeQueue' = [writeQueue EXCEPT ![h] = wq]
             /\ Put(datagrams \cup {Datagram(Peer(h), p, stamped)})
        ELSE /\ sendQueue' = [sendQueue EXCEPT ![h] = sq]
             /\ writeQueue' = [writeQueue EXCEPT ![h] =
                    Append(wq, [packet |-> p, stamped |-> stamped])]
             /\ Put(datagrams)

\* _trudpChannelGetNewId: sendId[h] is taken.
GetNewId(h) ==
    /\ sendId[h] < MaxId
    /\ sendId' = [sendId EXCEPT ![h] = Ids!GetNextSeqId(@)]

SendData(h, data_length) ==
    /\ GetNewId(h)
    /\ SendPacket(h, sendQueue[h], writeQueue[h],
                  DATAcreateNew(sendId[h], 0, data_length, Timestamp(h)), now, wire)
    /\ UNCHANGED <<now, triptime, triptimeMiddle, received, resets, measured>>

SendPING(h, data_length) ==
    /\ Put(wire \cup {Datagram(Peer(h),
                PINGcreateNew(sendId[h], 0, data_length, Timestamp(h)), now)})
    /\ UNCHANGED <<now, channelVars, resets>>

\* trudpChannelSendQueueProcess: the first packet of the send queue leaves again.
SendQueueProcess(h) ==
    /\ sendQueue[h] # <<>>
    /\ LET first == Head(sendQueue[h])
           p == UpdateTimestamp(first.packet, Timestamp(h))
       IN  /\ first.expected <= now
           /\ sendQueue' = [sendQueue EXCEPT ![h][1] =
                    [packet |-> p, expected |-> ExpectedTime(h),
                     queued |-> now, stamped |-> now]]
           /\ Put(wire \cup {Datagram(Peer(h), p, now)})
    /\ UNCHANGED <<now, sendId, writeQueue, triptime, triptimeMiddle,
                   received, resets, measured>>

-----------------------------------------------------------------------------
\* trudpChannelProcessReceivedPacket, by type of the packet
Last10Receive(h, d) ==
    received' = [received EXCEPT ![h] =
                    ProcessLast10Receive(@, d.packet)]

\* The acknowledged packet leaves the send queue; the first packet of the write
\* queue is sent in its place, or goes to the end of the write queue.
ReceiveAck(h, d) ==
    /\ d.packet.header.message_type = TRU_ACK
    /\ CalculateTriptime(h, d)
    /\ \/ /\ \A e \in ToSet(sendQueue[h]) : e.packet.header.id # d.packet.header.id
          /\ wire' = wire \ {d}
          /\ UNCHANGED <<sendQueue, writeQueue>>
       \/ \E i \in DOMAIN sendQueue[h] :
            /\ sendQueue[h][i].packet.header.id = d.packet.header.id
            /\ LET rest == RemoveAt(sendQueue[h], i)
                   first == Head(writeQueue[h])
               IN  IF writeQueue[h] # <<>>
                   THEN SendPacket(h, rest, Tail(writeQueue[h]), first.packet,
                                   first.stamped, wire \ {d})
                   ELSE /\ sendQueue' = [sendQueue EXCEPT ![h] = rest]
                        /\ wire' = wire \ {d}
                        /\ UNCHANGED writeQueue
    /\ UNCHANGED <<sendId, received, resets>>

ReceiveAckPing(h, d) ==
    /\ d.packet.header.message_type = TRU_ACK_PING
    /\ CalculateTriptime(h, d)
    /\ wire' = wire \ {d}
    /\ UNCHANGED <<sendId, sendQueue, writeQueue, received, resets>>

ReceivePing(h, d) ==
    /\ d.packet.header.message_type = TRU_PING
    /\ CalculateTriptime(h, d)
    /\ Last10Receive(h, d)
    /\ Put((wire \ {d}) \cup
           {Datagram(Peer(h), ACKtoPINGcreateNew(d.packet), d.stamped)})
    /\ UNCHANGED <<sendId, sendQueue, writeQueue, resets>>

\* The packet is acknowledged, and received or dropped or answered by a RESET.
ReceiveData(h, d) ==
    LET ack == Datagram(Peer(h), ACKcreateNew(d.packet), d.stamped)
        reset == Datagram(Peer(h), RESETcreateNew(sendId[h], 0, Timestamp(h)), now)
    IN  /\ d.packet.header.message_type = TRU_DATA
        /\ \/ /\ Put((wire \ {d}) \cup {ack})
              /\ Last10Receive(h, d)
              /\ UNCHANGED <<sendId, resets>>
           \/ /\ resets < MaxResets
              /\ resets' = resets + 1
              /\ GetNewId(h)
              /\ Put((wire \ {d}) \cup {ack, reset})
              /\ UNCHANGED received
        /\ UNCHANGED <<sendQueue, writeQueue, triptime, triptimeMiddle, measured>>

\* _trudpChannelReset, at a RESET and at the ACK to one
ChannelReset(h) ==
    /\ sendId' = [sendId EXCEPT ![h] = 0]
    /\ sendQueue' = [sendQueue EXCEPT ![h] = <<>>]
    /\ writeQueue' = [writeQueue EXCEPT ![h] = <<>>]
    /\ triptime' = [triptime EXCEPT ![h] = 0]
    /\ triptimeMiddle' = [triptimeMiddle EXCEPT ![h] = START_MIDDLE_TIME]
    /\ received' = [received EXCEPT ![h] = NoReceive]
    /\ measured' = [measured EXCEPT ![h] = NoMeasure]

ReceiveReset(h, d) ==
    /\ d.packet.header.message_type = TRU_RESET
    /\ ChannelReset(h)
    /\ Put((wire \ {d}) \cup
           {Datagram(Peer(h), ACKtoRESETcreateNew(d.packet), d.stamped)})
    /\ UNCHANGED resets

ReceiveAckReset(h, d) ==
    /\ d.packet.header.message_type = TRU_ACK_RESET
    /\ ChannelReset(h)
    /\ wire' = wire \ {d}
    /\ UNCHANGED resets

\* A datagram that is not a TR-UDP packet goes to the application.
ReceiveNoTrudp(d) == wire' = wire \ {d} /\ UNCHANGED <<channelVars, resets>>

Receive(d) ==
    /\ IF Check(d.packet)
       THEN \/ ReceiveAck(d.to, d)      \/ ReceiveAckPing(d.to, d)
            \/ ReceivePing(d.to, d)     \/ ReceiveData(d.to, d)
            \/ ReceiveReset(d.to, d)    \/ ReceiveAckReset(d.to, d)
       ELSE ReceiveNoTrudp(d)
    /\ UNCHANGED now

Lose(d) == wire' = wire \ {d} /\ UNCHANGED <<now, channelVars, resets>>

Tick ==
    /\ \E t \in Delays : now' = now + t /\ now' <= MaxNow
    /\ UNCHANGED <<wire, channelVars, resets>>

Next ==
    \/ \E h \in Hosts :
        \/ \E n \in Payloads[h] : SendData(h, n)
        \/ \E n \in PingPayloads[h] : SendPING(h, n)
        \/ SendQueueProcess(h)
    \/ \E d \in wire : Receive(d) \/ Lose(d)
    \/ Tick

Spec == Init /\ [][Next]_vars

-----------------------------------------------------------------------------
\* Every field of a header keeps its width, and the receiver takes a datagram
\* for a packet exactly when its payload fits in the 12 bits of payload_length,
\* also when it was sent again, is an answer or waited in the write queue; with
\* one byte of the header damaged it does not.
\* (trudpPacketCheck and the functions that make and restamp packets; a longer
\* payload is accepted for sending by trudpChannelSendData all the same.)
CheckIsExact ==
    \A d \in wire :
        /\ d.packet \in Packet
        /\ Check(d.packet) <=> d.packet.length < HeaderLength + PayloadMod
        /\ \A b \in Damages : \A th \in OneByteChanged(d.packet.header, b) :
                ~ Check([d.packet EXCEPT !.header = th])

\* The trip time taken from the answer to a packet of one's own is the time
\* since that very copy was stamped, whichever copies are lost, late or answered
\* in another order, whatever the peer's clock shows and however the 32 bits of
\* the timestamps wrap.  (A packet that waited in the write queue is stamped
\* when it is made and not when it leaves: its first copy measures the wait too.)
TripTimeOfTheCopy ==
    \A h \in Hosts : measured[h].own =>
        triptime[h] = measured[h].age % Word

\* Whatever was measured, a PING stamped by the clock of another host included,
\* a packet in the send queue is sent again after RTT at the earliest and comes
\* due after MAX_RTT at the latest: the clamps of the trip time keep its 32-bit
\* sum with RTT from wrapping.
RetransmissionPaced ==
    \A h \in Hosts : \A i \in DOMAIN sendQueue[h] :
        sendQueue[h][i].expected - sendQueue[h][i].queued \in RTT .. MAX_RTT

\* While the clocks of the hosts agree and do not wrap, a host that has received
\* LAST10_SIZE packets shows their bytes over the time since the oldest of them.
\* (the comments of trudpStatProcessLast10Receive, trudp_stat.c:100 and 123)
ReceiveSpeedOfTheLast ==
    \A h \in Hosts : SpeedSinceOldest(received[h])
=============================================================================
