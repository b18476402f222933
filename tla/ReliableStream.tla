--------------------------- MODULE ReliableStream ---------------------------
(***************************************************************************)
(* What a pair of TR-UDP channels promises the two applications: each end  *)
(* gets the payloads the other end sent, in order, every one exactly once. *)
(* The k-th payload an end sends is k.                                     *)
(***************************************************************************)
EXTENDS Naturals, Sequences

CONSTANTS
    Nodes,      \* the two ends
    Peer,       \* Peer[n]: the other end
    MaxData     \* bound: the number of payloads sent at n

VARIABLES
    sent,       \* number of payloads sent at n
    delivered   \* payloads handed to the application at n

vars == <<sent, delivered>>

Init ==
    /\ sent = [n \in Nodes |-> 0]
    /\ delivered = [n \in Nodes |-> <<>>]

Send(n) ==
    /\ sent[n] < MaxData[n]
    /\ sent' = [sent EXCEPT ![n] = @ + 1]
    /\ UNCHANGED delivered

\* One or more payloads in a row, when the first of them closes a gap.
Deliver(n) ==
    /\ \E count \in 1 .. sent[Peer[n]] - Len(delivered[n]) :
          delivered' = [delivered EXCEPT ![n] =
              @ \o [i \in 1 .. count |-> Len(@) + i]]
    /\ UNCHANGED sent

Next == \E n \in Nodes : Send(n) \/ Deliver(n)

\* Safety only
Stream == Init /\ [][Next]_vars

\* Whatever is sent is delivered in the end.
FairStream == Stream /\ \A n \in Nodes : WF_vars(Deliver(n))
=============================================================================
