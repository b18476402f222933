------------------------------- MODULE UdpWire -------------------------------
(***************************************************************************)
(* The UDP path towards one endpoint, with the socket buffer at its end.   *)
(*                                                                         *)
(* Ordered = TRUE: a FIFO path that may drop datagrams, a bounded buffer   *)
(* that drops at its tail.  Ordered = FALSE: the datagrams in flight are a *)
(* set, so they may overtake one another and be delivered several times.   *)
(* Loss, the owner of the path decides when, is Losses in either mode.     *)
(***************************************************************************)
EXTENDS Naturals, Sequences, SequencesExt

CONSTANTS
    Ordered,    \* datagrams arrive in the order they were sent, at most once
    WireCap     \* the most datagrams an ordered path holds

ASSUME WireAssumption == Ordered \in BOOLEAN /\ WireCap \in Nat \ {0}

Wires(Packets) == IF Ordered THEN Seq(Packets) ELSE SUBSET Packets

EmptyWire == IF Ordered THEN <<>> ELSE {}

InFlight(w) == IF Ordered THEN ToSet(w) ELSE w

\* The path w after the datagrams of the sequence pkts were sent on it.
Put(w, pkts) ==
    IF Ordered
    THEN LET all == w \o pkts
         IN  IF Len(all) <= WireCap THEN all ELSE SubSeq(all, 1, WireCap)
    ELSE w \cup ToSet(pkts)

\* What can arrive next, each with the path it leaves behind.
Arrivals(w) ==
    IF Ordered
    THEN IF w = <<>> THEN {} ELSE {[pkt |-> Head(w), rest |-> Tail(w)]}
    ELSE {[pkt |-> p, rest |-> w] : p \in w}
         \cup {[pkt |-> p, rest |-> w \ {p}] : p \in w}

\* The paths that remain when one datagram is lost.
Losses(w) ==
    IF Ordered
    THEN {RemoveAt(w, i) : i \in DOMAIN w}
    ELSE {w \ {p} : p \in w}
=============================================================================
