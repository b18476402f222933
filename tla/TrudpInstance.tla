---------------------------- MODULE TrudpInstance ----------------------------
(***************************************************************************)
(* One trudpData (trudp.c): the map of its channels, the CONNECTED and     *)
(* DISCONNECTED events by which the application learns of them, and        *)
(* trudpProcessWriteQueue, which serves the write queues of all channels   *)
(* in turn and remembers in writeQueueIdx where it stopped, with the loop  *)
(* around it that hosts without libev run once per turn.                   *)
(*                                                                         *)
(* A send or write queue is here the number of its packets.  Every call    *)
(* runs to its end before the next one starts; the callback of the         *)
(* application only takes notice of the event, or destroys the channel     *)
(* when it gets DISCONNECTED.                                              *)
(***************************************************************************)
EXTENDS Integers, Sequences, SequencesExt

CONSTANTS
    Peers,          \* addresses a channel may be made for
    NormalSSize,    \* NORMAL_S_SIZE
    MaxWaiting      \* bound: packets in a write queue

ASSUME InstanceAssumption ==
    /\ IsFiniteSet(Peers)
    /\ NormalSSize \in Nat \ {0}
    /\ MaxWaiting \in Nat

VARIABLES
    map,            \* td->map, in the order in which its iterator lists it
    connected,      \* channels with connected_f
    sending,        \* sending[p]: number of packets in the send queue
    waiting,        \* waiting[p]: number of packets in the write queue
    sendStat,       \* td->stat.sendQueue.size_current
    writeQueueIdx,  \* td->writeQueueIdx
    looping,        \* a host is in while(trudpProcessWriteQueue(td))
    view,           \* history: what the events told the application about p
    missed,         \* history: calls of trudpProcessWriteQueue that passed over
                    \* the waiting packets of p since the map last changed
    fruitless,      \* history: calls of it in a row that sent nothing, at most 2
    owed            \* history: channels the loop has still to serve

queueVars == <<sending, waiting, sendStat>>
historyVars == <<missed, fruitless>>
loopVars == <<looping, owed>>
vars == <<map, connected, queueVars, writeQueueIdx, view, historyVars, loopVars>>

Members == ToSet(map)

Init ==
    /\ map = <<>>
    /\ connected = {}
    /\ sending = [p \in Peers |-> 0]
    /\ waiting = [p \in Peers |-> 0]
    /\ sendStat = 0
    /\ writeQueueIdx = 0
    /\ view = [p \in Peers |-> "down"]
    /\ missed = [p \in Peers |-> 0]
    /\ fruitless = 0
    /\ looping = FALSE
    /\ owed = {}

\* The history after a call other than trudpProcessWriteQueue, which no host
\* makes within the loop.
OtherCall ==
    /\ ~looping
    /\ UNCHANGED loopVars
    /\ missed' = IF map' = map
                 THEN [p \in Peers |-> IF waiting'[p] > 0 THEN missed[p] ELSE 0]
                 ELSE [p \in Peers |-> 0]
    /\ fruitless' = 0

-----------------------------------------------------------------------------
\* What an application that trusts the events thinks of a channel.
Hear(v, event) ==
    CASE event = "CONNECTED"    -> IF v = "down" THEN "up" ELSE "confused"
      [] event = "DISCONNECTED" -> "down"
      [] event = "GOT"          -> IF v = "up" THEN "up" ELSE "confused"

\* teoMapAdd and teoMapDelete: the map lists its elements in any order.
Listings(members) == SetToSeqs(members)

\* trudpGetChannelAddr, and _trudpChannelAddToMap for a channel not found
AddToMap(p) ==
    IF p \in Members THEN UNCHANGED map ELSE map' \in Listings(Members \cup {p})

\* trudpChannelNew, called by the application
New(p) ==
    /\ p \notin Members
    /\ AddToMap(p)
    /\ UNCHANGED <<connected, queueVars, writeQueueIdx, view>>
    /\ OtherCall

\* mutant of GetChannelCreate: CONNECTED only for a channel that is new
GetChannelCreateNewOnly(p) ==
    /\ AddToMap(p)
    /\ connected' = connected \cup {p}
    /\ view' = [view EXCEPT ![p] =
                  Hear(IF p \in Members THEN @ ELSE Hear(@, "CONNECTED"), "GOT")]

\* trudpGetChannelCreate: the first datagram of a peer connects it, whether
\* the application made the channel or this call does.  Its CONNECTED comes
\* before every event of the packet.
GetChannelCreate(p) ==
    /\ AddToMap(p)
    /\ connected' = connected \cup {p}
    /\ view' = [view EXCEPT ![p] =
                  Hear(IF p \in connected THEN @ ELSE Hear(@, "CONNECTED"), "GOT")]

-----------------------------------------------------------------------------
\* sendNowFlag: the single packet of a queue may be the one with id 0
SendNowFlags(count) ==
    {flag \in BOOLEAN :
        /\ count >= NormalSSize => ~flag
        /\ count # 1 /\ count < NormalSSize => flag}

\* trudpChannelSendData for each of the channels of to
Send(to) ==
    /\ \A p \in to : waiting[p] < MaxWaiting
    /\ \E now \in SUBSET to :
        /\ \A p \in to : (p \in now) \in SendNowFlags(sending[p])
        /\ sending' = [p \in Peers |-> sending[p] + IF p \in now THEN 1 ELSE 0]
        /\ waiting' = [p \in Peers |-> waiting[p] + IF p \in to \ now THEN 1 ELSE 0]
        /\ sendStat' = sendStat + Cardinality(now)
    /\ UNCHANGED <<map, connected, writeQueueIdx, view>>
    /\ OtherCall

SendData(p) == p \in Members /\ Send({p})

\* trudpSendDataToAll
SendDataToAll == connected # {} /\ Send(connected)

\* trudpSendResetAll: every channel sends a RESET, which no queue keeps.
SendResetAll ==
    /\ map # <<>>
    /\ UNCHANGED <<map, connected, queueVars, writeQueueIdx, view>>
    /\ OtherCall

-----------------------------------------------------------------------------
\* trudpProcessReceived.  It ignores the PING of a peer without a channel;
\* any other datagram makes one.

\* The queues after an acknowledgement: of no packet of the send queue, or of
\* one, in whose place the first of the write queue is sent or queued again.
AfterAck(s, w) ==
    LET same == [sending |-> s, waiting |-> w]
        freed == [sending |-> s - 1, waiting |-> w]
        refilled == [sending |-> s, waiting |-> w - 1]
    IN  {same} \cup
        (IF s = 0 THEN {}
         ELSE IF w = 0 THEN {freed}
         ELSE {IF flag THEN refilled ELSE freed : flag \in SendNowFlags(s - 1)})

ReceiveAck(p) ==
    /\ GetChannelCreate(p)
    /\ \E r \in AfterAck(sending[p], waiting[p]) :
        /\ sending' = [sending EXCEPT ![p] = r.sending]
        /\ waiting' = [waiting EXCEPT ![p] = r.waiting]
        /\ sendStat' = sendStat - sending[p] + r.sending
    /\ UNCHANGED writeQueueIdx
    /\ OtherCall

\* mutant of FreeQueues: the statistic is not corrected
FreeQueuesUncounted(p) ==
    /\ sending' = [sending EXCEPT ![p] = 0]
    /\ waiting' = [waiting EXCEPT ![p] = 0]
    /\ UNCHANGED sendStat

\* _trudpChannelFree
FreeQueues(p) ==
    /\ sending' = [sending EXCEPT ![p] = 0]
    /\ waiting' = [waiting EXCEPT ![p] = 0]
    /\ sendStat' = sendStat - sending[p]

\* RESET and its ACK
ReceiveReset(p) ==
    /\ GetChannelCreate(p)
    /\ FreeQueues(p)
    /\ UNCHANGED writeQueueIdx
    /\ OtherCall

\* DATA, the ACK of a PING, and a datagram that is no valid packet
ReceiveOther(p) ==
    /\ GetChannelCreate(p)
    /\ UNCHANGED queueVars
    /\ UNCHANGED writeQueueIdx
    /\ OtherCall

ReceivePing(p) == p \in Members /\ ReceiveOther(p)

-----------------------------------------------------------------------------
\* trudpChannelDestroy, called by the application whenever it likes or, after
\* a first DISCONNECTED from trudpChannelCheckDisconnected, in its callback.
Destroy(p) ==
    /\ p \in Members
    /\ map' \in Listings(Members \ {p})
    /\ connected' = connected \ {p}
    /\ view' = [view EXCEPT ![p] = Hear(@, "DISCONNECTED")]
    /\ FreeQueues(p)
    /\ UNCHANGED writeQueueIdx
    /\ OtherCall

\* trudpChannelDestroyAll
DestroyAll ==
    /\ map # <<>>
    /\ map' = <<>>
    /\ connected' = {}
    /\ view' = [p \in Peers |-> IF p \in Members THEN Hear(view[p], "DISCONNECTED")
                                ELSE view[p]]
    /\ sending' = [p \in Peers |-> 0]
    /\ waiting' = [p \in Peers |-> 0]
    /\ sendStat' = 0
    /\ UNCHANGED writeQueueIdx
    /\ OtherCall

-----------------------------------------------------------------------------
\* trudpProcessWriteQueue

\* The channels behind the place where it stopped that have something to send
Found == {i \in DOMAIN map : i > writeQueueIdx /\ waiting[map[i]] > 0}

\* One call sends the first packet of each of these channels, and counts for
\* the others as a call that passed over them.
SendFirst(served) ==
    LET owners == {map[i] : i \in served}
    IN  /\ waiting' = [p \in Peers |-> waiting[p] - IF p \in owners THEN 1 ELSE 0]
        /\ missed' = [p \in Peers |-> IF p \in owners \/ waiting[p] = 0 THEN 0
                                      ELSE missed[p] + 1]
        /\ owed' = owed \ owners

\* mutant of StopAt: the next call starts with the first channel again
StopAtFirst(i) ==
    /\ i \in Found
    /\ SendFirst({j \in Found : j <= i})
    /\ writeQueueIdx' = 0
    /\ fruitless' = 0
    /\ UNCHANGED looping

\* It sends the packet of the i-th channel and returns its length.  It reads
\* the length in the deleted queue element; where the allocator clears freed
\* memory the length of an earlier channel has been read as 0, and the call
\* has sent that packet and gone on.
StopAt(i) ==
    /\ i \in Found
    /\ SendFirst({j \in Found : j <= i})
    /\ writeQueueIdx' = i
    /\ fruitless' = 0
    /\ UNCHANGED looping

\* The calls in a row that sent nothing, when the next one sends to served
FruitlessAfter(served) ==
    IF served # {} THEN 0 ELSE IF fruitless = 2 THEN 2 ELSE fruitless + 1

\* mutant of ReachEnd: the next call starts behind the last channel again
ReachEndStays ==
    /\ SendFirst(Found)
    /\ fruitless' = FruitlessAfter(Found)
    /\ looping' = FALSE
    /\ UNCHANGED writeQueueIdx

\* It comes to the end of the map with the length 0, normally because nothing
\* was found, and the next call starts with the first channel.
ReachEnd ==
    /\ SendFirst(Found)
    /\ writeQueueIdx' = 0
    /\ fruitless' = FruitlessAfter(Found)
    /\ looping' = FALSE

ProcessWriteQueue ==
    /\ ReachEnd \/ \E i \in DOMAIN map : StopAt(i)
    /\ UNCHANGED <<map, connected, sending, sendStat, view>>

\* network_loop and network_select_loop come to the loop, which goes on until a
\* call returns 0; the latter only when it has found something waiting.
BeginWriteLoop ==
    /\ ~looping
    /\ looping' = TRUE
    /\ owed' = {map[i] : i \in Found}
    /\ UNCHANGED <<map, connected, queueVars, writeQueueIdx, view, historyVars>>

-----------------------------------------------------------------------------
Next ==
    \/ SendDataToAll \/ SendResetAll \/ DestroyAll
    \/ ProcessWriteQueue \/ BeginWriteLoop
    \/ \E p \in Peers :
        \/ New(p) \/ SendData(p) \/ Destroy(p)
        \/ ReceiveAck(p) \/ ReceiveReset(p) \/ ReceiveOther(p) \/ ReceivePing(p)

Spec == Init /\ [][Next]_vars

-----------------------------------------------------------------------------
\* The application that pairs CONNECTED with DISCONNECTED knows at any time
\* which channels are connected, and never gets an event of a channel it does
\* not know to be connected: whoever made the channel, in whatever order it
\* was destroyed and came back through a late datagram.
ApplicationKnows ==
    \A p \in Peers : view[p] = IF p \in connected THEN "up" ELSE "down"

\* While the map stays as it is, a waiting packet is passed over by at most as
\* many calls of trudpProcessWriteQueue as there are channels, however fast
\* the other queues fill, and wherever channels that came or went left
\* writeQueueIdx.
NoWriteQueueStarves ==
    \A i \in DOMAIN map : missed[map[i]] <= Len(map)

\* trudpGetWriteQueueSize
WriteQueueSize == MapThenSumSet(LAMBDA p : waiting[p], Members)

\* One call that sends nothing says little: it may have started behind the last
\* channel.  Two in a row mean that no channel has a waiting packet.
TwoFruitlessCallsMeanEmpty == fruitless = 2 => WriteQueueSize = 0

\* The loop over trudpProcessWriteQueue sends one packet of every channel that
\* was waiting behind writeQueueIdx, and of no other channel, and ends: it
\* ends with packets still waiting, and does not stay with a long queue.
WriteLoopServesEachOnce ==
    [][looping => /\ \A p \in Peers : waiting'[p] < waiting[p] => p \in owed
                  /\ ~looping' => owed' = {}]_vars

\* The statistic of the send queues is the number of packets in them, through
\* acknowledgements, resets and destruction; an unsigned counter that is
\* decremented once too often would wrap.
SendStatisticExact == sendStat = MapThenSumSet(LAMBDA p : sending[p], Members)
=============================================================================
