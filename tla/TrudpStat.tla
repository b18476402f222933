------------------------------ MODULE TrudpStat ------------------------------
(***************************************************************************)
(* The packet statistics of a channel (trudpStatChannelData, trudp_stat.c) *)
(* over a session of two ends: what trudp_channel.c counts when a packet   *)
(* is sent, sent again, received, dropped or acknowledged, and the columns *)
(* ksnTRUDPstatShowStr shows of it.  A reset, which a session is free of,  *)
(* would set the counters to zero.                                         *)
(*                                                                         *)
(* The packets are those of TrudpChannel on ordered paths that lose some;  *)
(* every action here is an action there and what it counts.  PING packets, *)
(* which TrudpChannel leaves out, are counted here with the data: they are *)
(* a number in flight, for their order among the others changes nothing.   *)
(* Sizes, speeds and the trip time columns are left out (TrudpMeasure).    *)
(***************************************************************************)
EXTENDS TrudpChannel

CONSTANTS
    MaxAttempts,    \* bound: MaxAttempts[n] retransmissions at n
    MaxPings        \* bound: MaxPings[n] PING packets sent by n

\* The paths are ordered and hold everything the bounds let the ends send, so
\* that a datagram is lost only by Lose.
ASSUME StatAssumption ==
    /\ Ordered
    /\ MaxAttempts \in [Nodes -> Nat]
    /\ MaxPings \in [Nodes -> Nat]
    /\ \A n \in Nodes : WireCap >= MaxData[n] + MaxAttempts[n]
                                   + MaxData[Peer[n]] + MaxAttempts[Peer[n]]

VARIABLES
    stat,       \* tcd->stat
    pings,      \* PING packets n has sent
    pingWire,   \* pingWire[n]: the PINGs and their ACKs in flight towards n
    flushed,    \* packets trudpChannelWriteQueueProcess sent for n
    lost        \* lost[n]: datagrams towards n the path has lost

statVars == <<stat, pings, pingWire, flushed, lost>>
allVars == <<vars, statVars>>

Counters == {"packets_send", "packets_attempt", "ack_receive",
             "packets_receive", "packets_receive_dropped"}

NoCounts == [c \in Counters |-> 0]

\* trudpStatChannelInit, when a channel is created
StatInit ==
    /\ Init
    /\ stat = [n \in Nodes |-> NoCounts]
    /\ pings = [n \in Nodes |-> 0]
    /\ pingWire = [n \in Nodes |-> [ping |-> 0, ack |-> 0]]
    /\ flushed = [n \in Nodes |-> 0]
    /\ lost = [n \in Nodes |-> [copies |-> 0, answers |-> 0]]

\* n's counters of the set up are incremented.
Count(n, up) ==
    stat' = [stat EXCEPT ![n] = [c \in Counters |-> IF c \in up THEN @[c] + 1 ELSE @[c]]]

-----------------------------------------------------------------------------
\* mutant of CountSent: a packet counts when the application hands it over
CountAccepted(n) == Count(n, {"packets_send"})

\* the end of _trudpChannelSendPacket: a packet counts when it leaves, not
\* when it is put into the write queue
CountSent(n) ==
    Count(n, IF Len(sendQueue'[n]) > Len(sendQueue[n]) THEN {"packets_send"} ELSE {})

StatSendData(n) ==
    /\ SendData(n)
    /\ CountSent(n)
    /\ UNCHANGED <<pings, pingWire, flushed, lost>>

\* trudpChannelSendQueueProcess
StatResend(n) ==
    /\ stat[n].packets_attempt < MaxAttempts[n]
    /\ Resend(n)
    /\ Count(n, {"packets_attempt"})
    /\ UNCHANGED <<pings, pingWire, flushed, lost>>

\* trudpChannelWriteQueueProcess counts nothing.
StatFlush(n) ==
    /\ FlushWriteQueue(n)
    /\ flushed' = [flushed EXCEPT ![n] = @ + 1]
    /\ UNCHANGED <<stat, pings, pingWire, lost>>

\* A packet of the write queue leaves when the send queue keeps its length
\* although the ACK took one out.
Refilled(n) == Len(writeQueue'[n]) < Len(writeQueue[n])

\* mutant of StatReceiveAck: the ACK of a packet that is no longer awaited is
\* not counted
StatReceiveAwaitedAck(n, a) ==
    /\ ReceiveAck(n, a) \/ ReceiveUnknownAck(n, a)
    /\ Count(n, (IF a.pkt.id \in Ids(ToSet(sendQueue[n])) THEN {"ack_receive"} ELSE {})
                \cup (IF Refilled(n) THEN {"packets_send"} ELSE {}))
    /\ UNCHANGED <<pings, pingWire, flushed, lost>>

\* case TRU_ACK: every ACK counts (_trudpChannelCalculateTriptime), the first
\* packet of the write queue is sent by it
StatReceiveAck(n, a) ==
    /\ ReceiveAck(n, a) \/ ReceiveUnknownAck(n, a)
    /\ Count(n, {"ack_receive"} \cup (IF Refilled(n) THEN {"packets_send"} ELSE {}))
    /\ UNCHANGED <<pings, pingWire, flushed, lost>>

\* mutant of CountReceived: a packet counts when the application gets it, so
\* that one drained later is missed
CountDelivered(n, p) ==
    Count(n, IF NotOpened(n, p) \/ IsNewSession(n, p) THEN {}
             ELSE IF IsExpected(n, p) THEN {"packets_receive"}
             ELSE IF IsOutrunning(n, p) THEN {}
             ELSE {"packets_receive_dropped"})

\* case TRU_DATA: a packet that is expected or saved counts as received, one
\* that was here before as dropped, one that makes the channels reset not at
\* all.  Those the drain loop hands over were counted when they were saved.
CountReceived(n, p) ==
    Count(n, IF NotOpened(n, p) THEN {}
             ELSE IF IsExpected(n, p) \/ IsOutrunning(n, p) THEN {"packets_receive"}
             ELSE IF IsNewSession(n, p) THEN {}
             ELSE {"packets_receive_dropped"})

StatReceiveData(n, a) ==
    /\ ReceiveData(n, a)
    /\ CountReceived(n, a.pkt)
    /\ UNCHANGED <<pings, pingWire, flushed, lost>>

-----------------------------------------------------------------------------
\* PING

Sends(n, kind) == [pingWire EXCEPT ![Peer[n]][kind] = @ + 1]

\* trudpChannelSendPING, by trudpProcessKeepConnection
SendPing(n) ==
    /\ pings[n] < MaxPings[n]
    /\ pings' = [pings EXCEPT ![n] = @ + 1]
    /\ pingWire' = Sends(n, "ping")
    /\ Count(n, {"packets_send"})
    /\ UNCHANGED <<vars, flushed, lost>>

\* mutant of CountPing: a PING counts as received only
CountPingOnce(n) == Count(n, {"packets_receive"})

\* case TRU_PING computes a trip time, which counts it as an ACK too.
CountPing(n) == Count(n, {"packets_receive", "ack_receive"})

ReceivePing(n) ==
    /\ pingWire[n].ping > 0
    /\ pingWire' = [Sends(n, "ack") EXCEPT ![n].ping = @ - 1]
    /\ CountPing(n)
    /\ UNCHANGED <<vars, pings, flushed, lost>>

\* case TRU_ACK | TRU_PING
ReceiveAckPing(n) ==
    /\ pingWire[n].ack > 0
    /\ pingWire' = [pingWire EXCEPT ![n].ack = @ - 1]
    /\ Count(n, {"ack_receive"})
    /\ UNCHANGED <<vars, pings, flushed, lost>>

-----------------------------------------------------------------------------
InFlightOf(w, type) == Cardinality({i \in DOMAIN w : w[i].type = type})

StatLose(n) ==
    /\ Lose(n)
    /\ lost' = [lost EXCEPT
          ![n].copies = @ + InFlightOf(wire[n], "DATA") - InFlightOf(wire'[n], "DATA"),
          ![n].answers = @ + InFlightOf(wire[n], "ACK") - InFlightOf(wire'[n], "ACK")]
    /\ UNCHANGED <<stat, pings, pingWire, flushed>>

StatLosePing(n) ==
    /\ \/ /\ pingWire[n].ping > 0
          /\ pingWire' = [pingWire EXCEPT ![n].ping = @ - 1]
          /\ lost' = [lost EXCEPT ![n].copies = @ + 1]
       \/ /\ pingWire[n].ack > 0
          /\ pingWire' = [pingWire EXCEPT ![n].ack = @ - 1]
          /\ lost' = [lost EXCEPT ![n].answers = @ + 1]
    /\ UNCHANGED <<vars, stat, pings, flushed>>

-----------------------------------------------------------------------------
StatReceive(n) ==
    \E a \in Arrivals(wire[n]) : StatReceiveAck(n, a) \/ StatReceiveData(n, a)

StatNext == \E n \in Nodes :
    \/ StatSendData(n) \/ StatResend(n) \/ StatFlush(n)
    \/ StatReceive(n)
    \/ SendPing(n) \/ ReceivePing(n) \/ ReceiveAckPing(n)
    \/ StatLose(n) \/ StatLosePing(n)

StatSpec == StatInit /\ [][StatNext]_allVars

-----------------------------------------------------------------------------
\* trudpStatGet: a channel's counters with the sizes of its queues
ChannelStatistic(n) ==
    [c \in Counters \cup {"sq", "rq"} |->
        CASE c = "sq" -> Len(sendQueue[n])
          [] c = "rq" -> Cardinality(receiveQueue[n])
          [] OTHER -> stat[n][c]]

\* ksnTRUDPstatShowStr: the columns that count packets
Row(n) ==
    LET s == ChannelStatistic(n)
    IN  [send |-> s.packets_send,
         recv |-> s.packets_receive,
         ack |-> s.ack_receive,
         repeat |-> s.packets_attempt,
         drop |-> s.packets_receive_dropped,
         SQ |-> s.sq,
         WQ |-> Len(writeQueue[n]),
         RQ |-> s.rq]

\* "send" is what the application handed over and is no longer in the write
\* queue, with the PINGs and without what a flush sent: a packet that waits is
\* counted once, when an ACK lets it go.
SendColumnExact ==
    \A n \in Nodes :
        Row(n).send + flushed[n] + Row(n).WQ = sent[n] + pings[n]

\* the PINGs n has received
PingsReceived(n) ==
    Row(n).recv - (Len(delivered[n]) + Row(n).RQ)

\* What one end shows as sent and repeated is what the other end shows as
\* received and dropped, with what is in flight, what the path lost and what
\* was flushed: the difference of the two tables is the loss of the path.  As
\* such a path does not duplicate, only what one end sent again is dropped at the
\* other.
EveryCopyCountedOnce ==
    \A n \in Nodes :
        LET m == Peer[n]
        IN  /\ Row(n).send + Row(n).repeat + flushed[n]
               = Row(m).recv + Row(m).drop + InFlightOf(wire[m], "DATA")
                 + pingWire[m].ping + lost[m].copies
            /\ Row(m).drop <= Row(n).repeat
            /\ lost[m].copies = 0 /\ wire[m] = <<>> => Row(m).drop = Row(n).repeat

\* Every copy that was received was answered: the ACK column of the other end
\* lacks the answers in flight and the lost ones only, once the PINGs that it
\* counts as ACKs as well are taken out.
EveryAnswerCountedOnce ==
    \A n \in Nodes :
        LET m == Peer[n]
        IN  Row(n).recv + Row(n).drop
            = Row(m).ack - PingsReceived(m) + InFlightOf(wire[m], "ACK")
              + pingWire[m].ack + lost[m].answers
=============================================================================
