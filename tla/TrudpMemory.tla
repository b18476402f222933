----------------------------- MODULE TrudpMemory -----------------------------
(***************************************************************************)
(* The memory of the queues of one channel: elements of the send and the   *)
(* receive queue, elements of the write queue (write_queue.c) and the      *)
(* copies of packets these point to, through the handlers of               *)
(* trudp_channel.c that allocate and free them.                            *)
(*                                                                         *)
(* A handler that hands a packet to the application (GOT_ACK,              *)
(* PROCESS_SEND) keeps pointers over the callback, and the application may *)
(* send in it: handlers are split at their callbacks, and where one uses   *)
(* its pointer after the element was freed.  A send inside the callback of *)
(* a send is the same as two sends.  The receive queue is used in every    *)
(* way packet_queue.c allows.                                              *)
(***************************************************************************)
EXTENDS TrudpSeqId, SequencesExt

CONSTANTS
    Cells,          \* addresses: bound on what is allocated at a time
    NormalSSize,    \* NORMAL_S_SIZE
    ReceivedIds,    \* ids and contents of packets in the receive queue
    Contents

ASSUME MemoryAssumption ==
    /\ IsFiniteSet(Cells)
    /\ NormalSSize \in Nat \ {0}
    /\ ReceivedIds \subseteq PacketIds

VARIABLES
    heap,                       \* heap[a]: what is at a, while a is allocated
    sendQueue, sendIdx,         \* tcd->sendQueue: list and index
    receiveQueue, receiveIdx,   \* tcd->receiveQueue
    writeQueue,                 \* tcd->writeQueue: addresses of its elements
    sendId,                     \* tcd->sendId
    handler,                    \* the step a handler has come to, and the
                                \* pointer it keeps to use it again
    pending                     \* history: ids the queues have to keep

sender == <<sendQueue, sendIdx>>
receiver == <<receiveQueue, receiveIdx>>
vars == <<heap, sender, receiver, writeQueue, sendId, handler, pending>>

SendQ == INSTANCE TrudpPacketQueue
           WITH memory <- heap, q <- sendQueue, idx <- sendIdx,
                Ids <- PacketIds, Contents <- {"data"}
ReceiveQ == INSTANCE TrudpPacketQueue
              WITH memory <- heap, q <- receiveQueue, idx <- receiveIdx,
                   Ids <- ReceivedIds

Idle == [step |-> "idle"]
At(step, a) == [step |-> step, kept |-> a]

\* trudpChannelNew
Init ==
    /\ heap = <<>>
    /\ SendQ!Init /\ ReceiveQ!Init
    /\ writeQueue = <<>>
    /\ sendId = 0
    /\ handler = Idle
    /\ pending = {}

-----------------------------------------------------------------------------
\* _trudpChannelSendPacket, with save_to_send_queue

\* sendNowFlag
SendNow ==
    /\ Len(sendQueue) < NormalSSize
    /\ ~(Len(sendQueue) = 1 /\ heap[Head(sendQueue)].id = 0)

\* mutant of WriteQueueAdd: it keeps the packet itself, which its maker frees
WriteQueueAddUncopied(packet) ==
    \E c, e \in Cells \ DOMAIN heap :
        /\ c # e
        /\ heap' = [x \in DOMAIN heap \cup {e} |-> IF x = e THEN [packet_ptr |-> c] ELSE heap[x]]
        /\ writeQueue' = Append(writeQueue, e)

\* trudpWriteQueueAdd, with a copy of the packet
WriteQueueAdd(packet) ==
    \E c, e \in Cells \ DOMAIN heap :
        /\ c # e
        /\ heap' = [x \in DOMAIN heap \cup {c, e} |->
                      CASE x = c -> packet [] x = e -> [packet_ptr |-> c] [] OTHER -> heap[x]]
        /\ writeQueue' = Append(writeQueue, e)

SendPacket(packet) ==
    \/ SendNow /\ SendQ!Add(packet) /\ UNCHANGED writeQueue
    \/ ~SendNow /\ WriteQueueAdd(packet) /\ UNCHANGED sender

\* mutant of SendData: GOT_ACK comes after its packet has left the send queue
SendDataAfterDelete ==
    /\ handler.step \in {"idle", "refill", "PROCESS_SEND", "flush"}
    /\ sendId \notin pending
    /\ SendPacket([id |-> sendId, content |-> "data"])
    /\ sendId' = GetNextSeqId(sendId)
    /\ pending' = pending \cup {sendId}
    /\ UNCHANGED <<receiver, handler>>

\* trudpChannelSendData, from the event loop or in a callback.  An id comes
\* round again only when nothing with it is left: 2^32 packets later.
SendData ==
    /\ handler.step \in {"idle", "GOT_ACK", "PROCESS_SEND", "flush"}
    /\ sendId \notin pending
    /\ SendPacket([id |-> sendId, content |-> "data"])
    /\ sendId' = GetNextSeqId(sendId)
    /\ pending' = pending \cup {sendId}
    /\ UNCHANGED <<receiver, handler>>

-----------------------------------------------------------------------------
\* case TRU_ACK of trudpChannelProcessReceivedPacket

\* A packet of the send queue is acknowledged: GOT_ACK
ReceiveAck(id) ==
    /\ handler = Idle
    /\ SendQ!Found(id)
    /\ handler' = At("GOT_ACK", SendQ!FindById(id))
    /\ UNCHANGED <<heap, sender, receiver, writeQueue, sendId, pending>>

\* After the callback it leaves the send queue.
DeleteAcked ==
    /\ handler.step = "GOT_ACK"
    /\ pending' = pending \ {heap[handler.kept].id}
    /\ SendQ!Delete(handler.kept)
    /\ handler' = IF writeQueue = <<>> THEN Idle ELSE At("refill", Head(writeQueue))
    /\ UNCHANGED <<receiver, writeQueue, sendId>>

\* The first packet of the write queue is sent, or queued once more.
Refill ==
    /\ handler.step = "refill"
    /\ SendPacket(heap[heap[handler.kept].packet_ptr])
    /\ handler' = At(IF SendNow THEN "PROCESS_SEND" ELSE "queued", handler.kept)
    /\ UNCHANGED <<receiver, sendId, pending>>

\* trudpWriteQueueDeleteFirst; freed: what else is freed with the element
DeleteFirst(freed) ==
    /\ heap' = Restrict(heap, DOMAIN heap \ ({Head(writeQueue)} \cup freed))
    /\ writeQueue' = Tail(writeQueue)

\* mutant of FinishRefill: the copy is not freed
FinishRefillKeepsCopy ==
    /\ handler.step \in {"PROCESS_SEND", "queued"}
    /\ DeleteFirst({})
    /\ handler' = Idle
    /\ UNCHANGED <<sender, receiver, sendId, pending>>

\* Then its copy is freed, and the first element of the write queue.
FinishRefill ==
    /\ handler.step \in {"PROCESS_SEND", "queued"}
    /\ DeleteFirst({heap[handler.kept].packet_ptr})
    /\ handler' = Idle
    /\ UNCHANGED <<sender, receiver, sendId, pending>>

-----------------------------------------------------------------------------
\* trudpChannelWriteQueueProcess sends the first packet of the write queue,
Flush ==
    /\ handler = Idle
    /\ writeQueue # <<>>
    /\ handler' = At("flush", Head(writeQueue))
    /\ UNCHANGED <<heap, sender, receiver, writeQueue, sendId, pending>>

\* and deletes its element, but not the copy it points to.
FinishFlush ==
    /\ handler.step = "flush"
    /\ pending' = pending \ {heap[heap[handler.kept].packet_ptr].id}
    /\ DeleteFirst({})
    /\ handler' = At("length", handler.kept)
    /\ UNCHANGED <<sender, receiver, sendId>>

\* The length it returns is read from the element after that.  What the read may
\* give, and what the caller makes of it, is in TrudpInstance (StopAt).
ReadLength ==
    /\ handler.step = "length"
    /\ handler' = Idle
    /\ UNCHANGED <<heap, sender, receiver, writeQueue, sendId, pending>>

\* mutant of Reset: the write queue is left as it is
ResetKeepsWriteQueue ==
    /\ handler = Idle
    /\ heap' = Restrict(heap, DOMAIN heap \ ToSet(sendQueue \o receiveQueue))
    /\ sendQueue' = <<>> /\ sendIdx' = <<>>
    /\ receiveQueue' = <<>> /\ receiveIdx' = <<>>
    /\ sendId' = 0
    /\ pending' = {}
    /\ UNCHANGED <<handler, writeQueue>>

\* _trudpChannelFree, at a reset.  trudpWriteQueueFree frees the elements, and
\* not the copies they point to.
Reset ==
    /\ handler = Idle
    /\ heap' = Restrict(heap, DOMAIN heap \ ToSet(sendQueue \o receiveQueue \o writeQueue))
    /\ sendQueue' = <<>> /\ sendIdx' = <<>>
    /\ receiveQueue' = <<>> /\ receiveIdx' = <<>>
    /\ writeQueue' = <<>>
    /\ sendId' = 0
    /\ pending' = {}
    /\ UNCHANGED handler

\* Outrunning packets enter the receive queue and leave it.
UseReceiveQueue ==
    /\ handler = Idle
    /\ ReceiveQ!Next
    /\ UNCHANGED <<sender, writeQueue, sendId, handler, pending>>

Next ==
    \/ SendData \/ \E id \in PacketIds : ReceiveAck(id)
    \/ DeleteAcked \/ Refill \/ FinishRefill
    \/ Flush \/ FinishFlush \/ ReadLength \/ Reset \/ UseReceiveQueue

Spec == Init /\ [][Next]_vars

-----------------------------------------------------------------------------
\* Each queue of packets behaves like a sequence of packets with different
\* ids, in memory that all queues and copies share.
IndexesMatchLists == SendQ!IndexMatchesList /\ ReceiveQ!IndexMatchesList
ImplementSequences == SendQ!ImplementsSequence /\ ReceiveQ!ImplementsSequence

Copies == {heap[e].packet_ptr : e \in ToSet(writeQueue)}

\* The element a handler is about to use has been freed.
Dangles == handler # Idle /\ handler.kept \notin DOMAIN heap

\* The queues never point to freed memory: each element of the write queue has a
\* copy of its own that nothing else uses.  The pointer a handler keeps over a
\* callback is still the element it is going to delete, whatever the application
\* has sent in the meantime.  One handler does use freed memory, and it is the
\* only one: trudpChannelWriteQueueProcess reads wqd->packet_length after
\* trudpWriteQueueDeleteFirst, before anything else can be allocated there.
OnlyFlushDangles ==
    /\ IsInjective(writeQueue)
    /\ Cardinality(Copies) = Len(writeQueue)
    /\ Copies \cup ToSet(writeQueue) \subseteq DOMAIN heap
    /\ LET lists == <<ToSet(sendQueue), ToSet(receiveQueue), ToSet(writeQueue), Copies>>
       IN  \A i, j \in DOMAIN lists : i # j => lists[i] \cap lists[j] = {}
    /\ handler.step = "GOT_ACK" => handler.kept \in ToSet(sendQueue)
    /\ handler.step \in {"refill", "PROCESS_SEND", "queued", "flush"} =>
          writeQueue # <<>> /\ Head(writeQueue) = handler.kept
    /\ Dangles <=> handler.step = "length"

\* The ids in the send queue, and those of the write queue that no handler has
\* sent already.
Sending == [i \in DOMAIN sendQueue |-> heap[sendQueue[i]].id]
Waiting ==
    LET rest == IF handler.step \in {"PROCESS_SEND", "queued"}
                THEN Tail(writeQueue) ELSE writeQueue
    IN  [i \in DOMAIN rest |-> heap[heap[rest[i]].packet_ptr].id]

\* A packet that is sent or queued and neither acknowledged, flushed nor reset
\* is in the send queue or in the write queue, and once: also while a handler
\* has moved it from one to the other and a callback sends more.
PendingKeptOnce ==
    /\ IsInjective(Sending \o Waiting)
    /\ ToSet(Sending \o Waiting) = pending

\* The packet an ACK makes room for is sent: it never goes to the end of the
\* write queue again, not even when the callback of the ACK has sent packets.
RefillIsSent == handler.step # "queued"

\* What is allocated and no longer reached from the queues
Unreachable ==
    DOMAIN heap \ (ToSet(sendQueue \o receiveQueue \o writeQueue) \cup Copies)

\* Memory is lost only where a flush or a reset leaves copies of packets behind.
OnlyFlushAndResetLeak ==
    [][FinishFlush \/ Reset \/ Unreachable' \subseteq Unreachable]_vars
=============================================================================
