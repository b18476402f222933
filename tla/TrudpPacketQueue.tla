-------------------------- MODULE TrudpPacketQueue --------------------------
(***************************************************************************)
(* The packet queue (packet_queue.c) under the send and receive queues: a  *)
(* list of elements in memory and an index from packet ids to elements.    *)
(* It is used through trudp_send_queue.c and trudp_receive_queue.c, which  *)
(* only pass the calls on.  The list and the map are those of teoccl,      *)
(* which is not part of the repository.  The memory is shared with all     *)
(* that the process allocates; TrudpMemory has the queues of a channel.    *)
(***************************************************************************)
EXTENDS Naturals, SequencesExt

CONSTANTS
    Ids,        \* packet ids
    Contents,   \* what packets with the same id differ in
    Cells       \* addresses of list elements

VARIABLES
    memory,     \* memory[a]: what is allocated at a; an element is its packet
    q,          \* tq->q: addresses of the elements, in the order of the list
    idx         \* tq->idx: from ids to addresses

vars == <<memory, q, idx>>

Packets == [id : Ids, content : Contents]

\* trudpPacketQueueNew
Init == q = <<>> /\ idx = <<>>

-----------------------------------------------------------------------------
\* trudpPacketQueueFindById
Found(id) == id \in DOMAIN idx
FindById(id) == idx[id]

\* trudpPacketQueueAdd.  The callers add no packet whose id the queue has: the
\* receive queue is searched first, the ids of a send queue are consecutive.
Add(p) ==
    /\ ~Found(p.id)
    /\ \E a \in Cells \ DOMAIN memory :
        /\ memory' = [x \in DOMAIN memory \cup {a} |-> IF x = a THEN p ELSE memory[x]]
        /\ q' = Append(q, a)
        /\ idx' = [id \in DOMAIN idx \cup {p.id} |-> IF id = p.id THEN a ELSE idx[id]]

\* mutant of Delete: the index keeps the address
DeleteFromList(a) ==
    /\ \E i \in DOMAIN q : q[i] = a /\ q' = RemoveAt(q, i)
    /\ memory' = Restrict(memory, DOMAIN memory \ {a})
    /\ UNCHANGED idx

\* mutant of Delete: the first element leaves the list
DeleteFirst(a) ==
    /\ idx' = Restrict(idx, DOMAIN idx \ {memory[a].id})
    /\ q' = Tail(q)
    /\ memory' = Restrict(memory, DOMAIN memory \ {Head(q)})

\* trudpPacketQueueDelete
Delete(a) ==
    /\ idx' = Restrict(idx, DOMAIN idx \ {memory[a].id})
    /\ \E i \in DOMAIN q : q[i] = a /\ q' = RemoveAt(q, i)
    /\ memory' = Restrict(memory, DOMAIN memory \ {a})

\* the element a caller has found by its id is deleted
DeleteFound(id) == Found(id) /\ Delete(FindById(id))

\* trudpPacketQueueGetFirst, of a queue that is not empty
GetFirst == Head(q)

\* trudpPacketQueueMoveToEnd, for the first element
MoveFirstToEnd ==
    /\ q # <<>>
    /\ q' = Append(Tail(q), GetFirst)
    /\ UNCHANGED <<memory, idx>>

\* trudpPacketQueueFree
FreeAll ==
    /\ memory' = Restrict(memory, DOMAIN memory \ ToSet(q))
    /\ q' = <<>>
    /\ idx' = <<>>

Next ==
    \/ \E p \in Packets : Add(p)
    \/ \E id \in Ids : DeleteFound(id)
    \/ MoveFirstToEnd
    \/ FreeAll

-----------------------------------------------------------------------------
\* Index and list agree: what is found by its id is an element of the list
\* that still has this id, and each element of the list can be found.  A stale
\* entry would be a pointer to freed memory.
IndexMatchesList ==
    /\ IsInjective(q)
    /\ ToSet(q) \subseteq DOMAIN memory
    /\ \A id \in DOMAIN idx : idx[id] \in ToSet(q) /\ memory[idx[id]].id = id
    /\ \A a \in ToSet(q) : memory[a].id \in DOMAIN idx /\ idx[memory[a].id] = a

\* The queue behaves like the sequence of packets the channel module works
\* with: packets are added at the end and found and deleted by their id.
Queue == INSTANCE PacketSequence WITH packets <- [i \in DOMAIN q |-> memory[q[i]]]
ImplementsSequence == Queue!Spec
=============================================================================
