--------------------------- MODULE TrudpSendTimer ---------------------------
(***************************************************************************)
(* The retransmission timer a trudpData shares among its channels:         *)
(* td->expected_max_time and td->channel_key, kept up to date by the       *)
(* handlers of trudp_channel.c as packets enter and leave the send queues, *)
(* and read by the event loop through trudpGetSendQueueTimeout.            *)
(*                                                                         *)
(* A packet of a send queue is here its expected_time, a packet of a write *)
(* queue only counts; what they carry is the subject of TrudpChannel.      *)
(* trudpProcessSendQueue reads the clock once and then visits the channels *)
(* one by one: each visit is an action, and the clock may advance between. *)
(***************************************************************************)
EXTENDS Integers, Sequences, SequencesExt

CONSTANTS
    Channels,       \* addresses the map of a trudpData may have a channel for
    NoChannel,      \* NULL in td->channel_key
    Dangling,       \* td->channel_key points to the key of a freed channel
    NormalSSize,    \* NORMAL_S_SIZE
    Delays,         \* retransmission delays: triptimeMiddle + RTT, at most MAX_RTT
    MaxTime,        \* bound: the last moment of a behaviour
    MaxWaiting      \* bound: packets in a write queue

ASSUME TimerAssumption ==
    /\ NoChannel \notin Channels /\ Dangling \notin Channels /\ NoChannel # Dangling
    /\ NormalSSize \in Nat \ {0}
    /\ Delays \subseteq Nat \ {0} /\ Delays # {}
    /\ MaxTime \in Nat /\ MaxWaiting \in Nat

VARIABLES
    now,        \* teoGetTimestampFull()
    open,       \* channels in td->map
    expected,   \* expected[c]: the expected_time of each packet in the send queue
    waiting,    \* waiting[c]: number of packets in the write queue
    timer,      \* [time, channel]: td->expected_max_time and td->channel_key
    visit,      \* channels trudpProcessSendQueue has still to visit
    current,    \* the channel it is visiting
    ts          \* the time at which it started

queueVars == <<expected, waiting>>
passVars == <<visit, current, ts>>
vars == <<now, open, queueVars, timer, passVars>>

Never == -1     \* UINT64_MAX in td->expected_max_time, UINT32_MAX as a timeout

Before(s, t) == s # Never /\ (t = Never \/ s < t)

NoTimer == [time |-> Never, channel |-> NoChannel]

Init ==
    /\ now = 0
    /\ open = {}
    /\ expected = [c \in Channels |-> <<>>]
    /\ waiting = [c \in Channels |-> 0]
    /\ timer = NoTimer
    /\ visit = {}
    /\ current = NoChannel
    /\ ts = 0

-----------------------------------------------------------------------------
\* trudpSendQueueGetExpectedTime
ExpectedTime(queue) == IF queue = <<>> THEN Never ELSE Head(queue)

\* if(td->expected_max_time > t) _updateMainExpectedTimeAndChannel
Noticed(tm, c, t) ==
    IF Before(t, tm.time) THEN [time |-> t, channel |-> c] ELSE tm

\* trudpRecalculateExpectedSendTime: the first overdue channel the map lists
\* ends the search, otherwise the channel with the earliest time is taken; the
\* order of the map is not specified.
Recalculated(queues) ==
    LET time(c) == ExpectedTime(queues[c])
        pending == {c \in open : queues[c] # <<>>}
        overdue == {c \in pending : time(c) <= now}
    IN  IF overdue # {} THEN {[time |-> now, channel |-> c] : c \in overdue}
        ELSE IF pending = {} THEN {NoTimer}
        ELSE {[time |-> time(c), channel |-> c] :
                c \in {d \in pending : \A e \in pending : time(d) <= time(e)}}

\* sendNowFlag: the single packet of a queue may be the one with id 0
SendNowFlags(queue) ==
    {flag \in BOOLEAN :
        /\ Len(queue) >= NormalSSize => ~flag
        /\ Len(queue) # 1 /\ Len(queue) < NormalSSize => flag}

\* _trudpChannelSendPacket with save_to_send_queue
SendPacket(c, queue, count, tm, flag, delay) ==
    IF flag
    THEN [expected |-> Append(queue, now + delay), waiting |-> count,
          timer |-> Noticed(tm, c, now + delay)]
    ELSE [expected |-> queue, waiting |-> count + 1, timer |-> tm]

-----------------------------------------------------------------------------
Tick ==
    /\ now < MaxTime
    /\ now' = now + 1
    /\ UNCHANGED <<open, queueVars, timer, passVars>>

\* No call of trudpProcessSendQueue is under way: one thread serves a trudpData.
Idle == visit = {} /\ current = NoChannel

\* trudpChannelNew.  The key of the new channel may be allocated where the key
\* of a freed one was.
Create(c) ==
    /\ Idle
    /\ c \notin open
    /\ open' = open \cup {c}
    /\ timer' \in {timer, [timer EXCEPT !.channel = IF @ = Dangling THEN c ELSE @]}
    /\ UNCHANGED <<now, queueVars, passVars>>

\* trudpChannelSendData
SendData(c) ==
    /\ Idle
    /\ c \in open
    /\ waiting[c] < MaxWaiting
    /\ \E flag \in SendNowFlags(expected[c]), delay \in Delays :
        LET r == SendPacket(c, expected[c], waiting[c], timer, flag, delay)
        IN  /\ expected' = [expected EXCEPT ![c] = r.expected]
            /\ waiting' = [waiting EXCEPT ![c] = r.waiting]
            /\ timer' = r.timer
    /\ UNCHANGED <<now, open, passVars>>

\* mutant of TimersAfterDelete: only the channel of the timer is looked at
TimersAfterDeleteOwn(c, queues) ==
    IF timer.channel = c THEN Recalculated(queues) ELSE {timer}

\* mutant of TimersAfterDelete: the timer of the deleted packet is kept
TimersAfterDeleteKeeps(c, queues) ==
    {Noticed(timer, c, ExpectedTime(queues[c]))}

\* the timer after a packet of channel c was acknowledged and deleted
TimersAfterDelete(c, queues) ==
    IF timer.channel = c THEN Recalculated(queues)
    ELSE {Noticed(timer, c, ExpectedTime(queues[c]))}

\* trudpChannelProcessReceivedPacket, case TRU_ACK, for a packet of the queue
ReceiveAck(c) ==
    /\ Idle
    /\ c \in open
    /\ \E i \in DOMAIN expected[c] :
        LET rest == RemoveAt(expected[c], i)
        IN  \E tm \in TimersAfterDelete(c, [expected EXCEPT ![c] = rest]) :
            IF waiting[c] = 0
            THEN /\ expected' = [expected EXCEPT ![c] = rest]
                 /\ timer' = tm
                 /\ UNCHANGED waiting
            ELSE \E flag \in SendNowFlags(rest), delay \in Delays :
                 LET r == SendPacket(c, rest, waiting[c], tm, flag, delay)
                 IN  /\ expected' = [expected EXCEPT ![c] = r.expected]
                     /\ waiting' = [waiting EXCEPT ![c] = r.waiting - 1]
                     /\ timer' = r.timer
    /\ UNCHANGED <<now, open, passVars>>

\* The queues of channel c are emptied; the timer is left as it is.
ClearQueues(c) ==
    /\ expected' = [expected EXCEPT ![c] = <<>>]
    /\ waiting' = [waiting EXCEPT ![c] = 0]

\* cases TRU_RESET and TRU_ACK | TRU_RESET
Reset(c) ==
    /\ Idle
    /\ c \in open
    /\ ClearQueues(c)
    /\ UNCHANGED <<now, open, timer, passVars>>

-----------------------------------------------------------------------------
\* trudpChannelDestroy: td->channel_key is left pointing to the freed key
Destroy(c) ==
    /\ open' = open \ {c}
    /\ ClearQueues(c)
    /\ timer' = [timer EXCEPT !.channel = IF @ = c THEN Dangling ELSE @]

\* trudpChannelDestroyChannel
DestroyChannel(c) ==
    /\ open' = open \ {c}
    /\ ClearQueues(c)
    /\ IF timer.channel = c
       THEN timer' \in Recalculated([expected EXCEPT ![c] = <<>>])
       ELSE UNCHANGED timer

\* The application may call either of the two.
DestroyOpen(c) == DestroyChannel(c) \/ Destroy(c)

\* The application destroys a channel.
ApplicationDestroys(c) ==
    /\ Idle
    /\ c \in open
    /\ DestroyOpen(c)
    /\ UNCHANGED <<now, passVars>>

\* trudpChannelDestroyAll
DestroyAll ==
    /\ Idle
    /\ open # {}
    /\ open' = {}
    /\ expected' = [c \in Channels |-> <<>>]
    /\ waiting' = [c \in Channels |-> 0]
    /\ timer' = NoTimer
    /\ UNCHANGED <<now, passVars>>

-----------------------------------------------------------------------------
\* trudpProcessSendQueue
BeginPass ==
    /\ Idle
    /\ visit' = open
    /\ ts' = now
    /\ UNCHANGED <<now, open, queueVars, timer, current>>

\* the timer after the first packet of channel c was sent again
TimersAfterResend(c, queues) ==
    IF Before(Head(queues[c]), timer.time)
    THEN {Noticed(timer, c, Head(queues[c]))}
    ELSE IF timer.channel = c THEN Recalculated(queues) ELSE {timer}

\* trudpChannelSendQueueProcess up to the check for silence: the first packet
\* is sent again when its time has come
Visit(c) ==
    /\ c \in visit
    /\ IF expected[c] # <<>> /\ ExpectedTime(expected[c]) <= ts
       THEN \E delay \in Delays :
            LET queues == [expected EXCEPT ![c] = <<ts + delay>> \o Tail(@)]
            IN  expected' = queues /\ timer' \in TimersAfterResend(c, queues)
       ELSE UNCHANGED <<expected, timer>>
    /\ visit' = visit \ {c}
    /\ current' = c
    /\ UNCHANGED <<now, open, waiting, ts>>

\* trudpChannelCheckDisconnected: the visited channel has been silent too long.
\* The application destroys it when it gets DISCONNECTED, and the loop over
\* the channels starts again.
DisconnectSilent ==
    /\ current # NoChannel
    /\ DestroyOpen(current)
    /\ visit' = open \ {current}
    /\ current' = NoChannel
    /\ UNCHANGED <<now, ts>>

EndPass ==
    /\ visit = {} /\ current # NoChannel
    /\ current' = NoChannel
    /\ UNCHANGED <<now, open, queueVars, timer, visit, ts>>

-----------------------------------------------------------------------------
Next ==
    \/ Tick \/ DestroyAll \/ BeginPass \/ DisconnectSilent \/ EndPass
    \/ \E c \in Channels :
        \/ Create(c) \/ SendData(c) \/ ReceiveAck(c) \/ Reset(c)
        \/ ApplicationDestroys(c) \/ Visit(c)

Spec == Init /\ [][Next]_vars

-----------------------------------------------------------------------------
TypeOK ==
    /\ now \in Nat /\ ts \in Nat
    /\ open \subseteq Channels
    /\ expected \in [Channels -> Seq(Nat)]
    /\ waiting \in [Channels -> Nat]
    /\ timer \in [time : Nat \cup {Never}, channel : Channels \cup {NoChannel, Dangling}]
    /\ visit \subseteq open
    /\ current \in open \cup {NoChannel}

\* trudpGetSendQueueTimeout
Timeout ==
    IF timer.time = Never THEN Never
    ELSE IF timer.time > now THEN timer.time - now ELSE 0

\* The event loop that sleeps for the timeout wakes up in time for the first
\* packet of every send queue, whatever happened to the channels before:
\* a lost packet never waits for an unrelated event to be sent again.
NeverLate ==
    \A c \in open : expected[c] # <<>> =>
        /\ Timeout # Never
        /\ Timeout = 0 \/ now + Timeout <= ExpectedTime(expected[c])

\* the packet the timer is set for is still waiting and due by then
TimerHasPacket ==
    timer.time # Never =>
        /\ timer.channel \in open
        /\ \E i \in DOMAIN expected[timer.channel] :
              expected[timer.channel][i] <= timer.time

\* The timer follows the packets: it outlives the packet it was set for only
\* through a reset or a direct trudpChannelDestroy, never because a packet is
\* acknowledged, sent again, or its channel destroyed by address.
TimerFollowsPackets ==
    [][TimerHasPacket =>
        TimerHasPacket' \/ \E c \in open : Reset(c) \/ Destroy(c)]_vars
=============================================================================
