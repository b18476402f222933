----------------------------- MODULE TrudpLast10 -----------------------------
(***************************************************************************)
(* The receive speed that the statistics show: trudp_stat.c keeps the size *)
(* and the timestamp of the last LAST10_SIZE packets a channel has         *)
(* received in a ring and divides the sum of the sizes by a time.          *)
(***************************************************************************)
EXTENDS TrudpPacket, Sequences, SequencesExt

CONSTANT LAST10_SIZE

ASSUME Last10Assumption == LAST10_SIZE \in Nat \ {0}

Received(size_b, ts) == [size_b |-> size_b, ts |-> ts]

\* trudpStatChannelReset
NoReceive ==
    [last |-> [i \in 1 .. LAST10_SIZE |-> Received(0, 0)], idx_rcv |-> 1]

\* The loop over the ring: a timestamp that is greater than those before it is
\* not looked at as a least one.  UINT32_MAX stands for no timestamp.
MinTs(last) ==
    FoldLeft(LAMBDA found, e :
                IF e.ts > found.max_ts THEN [found EXCEPT !.max_ts = e.ts]
                ELSE IF e.ts > 0 /\ e.ts < found.min_ts
                     THEN [found EXCEPT !.min_ts = e.ts]
                     ELSE found,
             [min_ts |-> Word - 1, max_ts |-> 0], last).min_ts

\* trudpStatProcessLast10Receive.  receive_speed becomes the sum of the sizes
\* over the time since MinTs of the ring.
ProcessLast10Receive(received, p) ==
    [last |-> [received.last EXCEPT ![received.idx_rcv] =
                    Received(GetPacketLength(p), p.header.timestamp)],
     idx_rcv |-> (received.idx_rcv % LAST10_SIZE) + 1]

-----------------------------------------------------------------------------
\* The bytes of the last packets are divided by the time since the oldest of
\* them was stamped, once the ring is full.
\* (trudpStatProcessLast10Receive: "Calculate size sum & define minimum and
\* maximum timestamp")
SpeedSinceOldest(received) ==
    LET stamps == {e.ts : e \in ToSet(received.last)}
    IN  0 \notin stamps =>
            /\ MinTs(received.last) \in stamps
            /\ \A ts \in stamps : MinTs(received.last) <= ts
=============================================================================
