--------------------------- MODULE PacketSequence ---------------------------
(***************************************************************************)
(* What a packet queue promises: a sequence of packets, no two with the    *)
(* same id.                                                                *)
(***************************************************************************)
EXTENDS Naturals, Sequences, SequencesExt

CONSTANTS Ids, Contents
VARIABLE packets

Init == packets = <<>>

Add(id, content) ==
    /\ \A i \in DOMAIN packets : packets[i].id # id
    /\ packets' = Append(packets, [id |-> id, content |-> content])

Delete(id) ==
    \E i \in DOMAIN packets :
        packets[i].id = id /\ packets' = RemoveAt(packets, i)

MoveFirstToEnd ==
    packets # <<>> /\ packets' = Append(Tail(packets), Head(packets))

Clear == packets' = <<>>

Next ==
    \/ \E id \in Ids : Delete(id) \/ \E content \in Contents : Add(id, content)
    \/ MoveFirstToEnd
    \/ Clear

Spec == Init /\ [][Next]_packets
=============================================================================
