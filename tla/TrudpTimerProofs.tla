------------------------- MODULE TrudpTimerProofs --------------------------
(***************************************************************************)
(* The shared retransmission timer is never late, for any channels, window *)
(* and delays, with resets and with channels destroyed in any way; it is   *)
(* set for a packet that waits; and the libev host implements the loop     *)
(* TrudpSendTimer allows, so its ev_timer runs whenever a packet awaits    *)
(* its ACK.                                                                *)
(***************************************************************************)
EXTENDS TrudpEv, SequenceTheorems, TLAPS

Timers == [time : Nat \cup {Never}, channel : Channels \cup {NoChannel, Dangling}]
Queues == [Channels -> Seq(Nat)]

\* the timer tm goes off in time for the first packet of queue
Covers(tm, queue) ==
    queue # <<>> => tm.time # Never /\ (tm.time <= Head(queue) \/ tm.time <= now)

\* Only channels in the map have packets, and the timer covers them all.  This
\* is inductive: the earliest time is never needed exactly, only a bound that
\* each handler keeps below the queue it has changed.
TimerInv ==
    /\ TypeOK
    /\ \A c \in Channels : expected[c] # <<>> => c \in open
    /\ \A c \in Channels : Covers(timer, expected[c])

-----------------------------------------------------------------------------
\* The time of the first packet is one of the packets' times.
LEMMA HeadTime ==
    ASSUME NEW queue \in Seq(Nat), queue # <<>>
    PROVE  Head(queue) \in Nat /\ Len(queue) \in Nat \ {0}
BY HeadTailProperties, LenProperties, EmptySeq

\* Removing a packet from a queue leaves a queue.
LEMMA RemovedQueue ==
    ASSUME NEW queue \in Seq(Nat), NEW i \in DOMAIN queue
    PROVE  RemoveAt(queue, i) \in Seq(Nat)
<1>1. i \in 1 .. Len(queue)
  BY LenProperties
<1>2. SubSeq(queue, 1, i - 1) \in Seq(Nat) /\ SubSeq(queue, i + 1, Len(queue)) \in Seq(Nat)
  BY <1>1, SubSeqProperties
<1> QED BY <1>2, ConcatProperties DEF RemoveAt

\* Noticing a time never moves the timer later, and covers that time.
LEMMA NoticedSound ==
    ASSUME NEW tm \in Timers, NEW c \in Channels, NEW t \in Nat
    PROVE  /\ Noticed(tm, c, t) \in Timers
           /\ Noticed(tm, c, t).time # Never /\ Noticed(tm, c, t).time <= t
           /\ tm.time # Never => Noticed(tm, c, t).time <= tm.time
BY DEF Noticed, Before, Timers, Never

\* What covers a queue still covers it when the timer notices another time.
LEMMA NoticedCovers ==
    ASSUME now \in Nat, NEW tm \in Timers, NEW c \in Channels, NEW t \in Nat,
           NEW queue \in Seq(Nat), Covers(tm, queue)
    PROVE  Covers(Noticed(tm, c, t), queue)
<1>1. CASE queue = <<>>
  BY <1>1 DEF Covers
<1>2. CASE queue # <<>>
  <2>1. Head(queue) \in Nat
    BY <1>2, HeadTime
  <2> QED BY <1>2, <2>1 DEF Covers, Noticed, Before, Timers, Never
<1> QED BY <1>1, <1>2

\* A recalculated timer covers the queue of every channel in the map.
LEMMA RecalculatedSound ==
    ASSUME TypeOK, NEW queues \in Queues, NEW tm \in Recalculated(queues)
    PROVE  /\ tm \in Timers
           /\ \A c \in open : Covers(tm, queues[c])
<1> DEFINE time(c) == ExpectedTime(queues[c])
           pending == {c \in open : queues[c] # <<>>}
           overdue == {c \in pending : time(c) <= now}
<1>0. now \in Nat /\ open \subseteq Channels
  BY DEF TypeOK
<1>1. \A c \in pending : time(c) = Head(queues[c]) /\ time(c) \in Nat /\ c \in Channels
  BY <1>0, HeadTime DEF ExpectedTime, Queues
<1>2. CASE overdue # {}
  <2>1. PICK c \in overdue : tm = [time |-> now, channel |-> c]
    BY <1>2 DEF Recalculated
  <2> QED BY <1>0, <1>1, <2>1 DEF Timers, Covers, Never
<1>3. CASE overdue = {} /\ pending = {}
  <2>1. tm = NoTimer
    BY <1>3 DEF Recalculated
  <2> QED BY <1>3, <2>1 DEF Timers, Covers, NoTimer
<1>4. CASE overdue = {} /\ pending # {}
  <2>1. PICK c \in pending : /\ \A e \in pending : time(c) <= time(e)
                             /\ tm = [time |-> time(c), channel |-> c]
    BY <1>4 DEF Recalculated
  <2> HIDE DEF time
  <2> QED BY <1>1, <2>1 DEF Timers, Covers, Never
<1> QED BY <1>2, <1>3, <1>4

\* Sending a packet keeps every queue covered that was, and covers its own.
LEMMA SendPacketSound ==
    ASSUME now \in Nat, NEW c \in Channels, NEW queue \in Seq(Nat), NEW count \in Nat,
           NEW tm \in Timers, Covers(tm, queue),
           NEW flag \in BOOLEAN, NEW delay \in Delays
    PROVE  LET r == SendPacket(c, queue, count, tm, flag, delay)
           IN  /\ r.expected \in Seq(Nat) /\ r.timer \in Timers
               /\ r.waiting \in {count, count + 1}
               /\ Covers(r.timer, r.expected)
               /\ \A other \in Seq(Nat) : Covers(tm, other) => Covers(r.timer, other)
<1>1. now + delay \in Nat
  BY TimerAssumption
<1>2. /\ Append(queue, now + delay) \in Seq(Nat)
      /\ Append(queue, now + delay) # <<>>
      /\ Head(Append(queue, now + delay)) =
            IF queue = <<>> THEN now + delay ELSE Head(queue)
  BY <1>1
<1>3. Noticed(tm, c, now + delay) \in Timers
  BY <1>1, NoticedSound
<1>4. \A other \in Seq(Nat) : Covers(tm, other) => Covers(Noticed(tm, c, now + delay), other)
  BY <1>1, NoticedCovers
<1>5. Covers(Noticed(tm, c, now + delay), Append(queue, now + delay))
  <2>1. CASE queue = <<>>
    BY <1>1, <1>2, <2>1, NoticedSound DEF Covers
  <2>2. CASE queue # <<>>
    BY <1>2, <1>4, <2>2 DEF Covers
  <2> QED BY <2>1, <2>2
<1> QED BY <1>2, <1>3, <1>4, <1>5 DEF SendPacket

-----------------------------------------------------------------------------
\* Each action keeps the invariant.

LEMMA TimerInit == Init => TimerInv
BY DEF Init, TimerInv, TypeOK, Covers, NoTimer, Queues

LEMMA TimerSendData ==
    ASSUME TimerInv, NEW c \in Channels, SendData(c)
    PROVE  TimerInv'
<1>1. PICK flag \in BOOLEAN, delay \in Delays :
        LET r == SendPacket(c, expected[c], waiting[c], timer, flag, delay)
        IN  /\ expected' = [expected EXCEPT ![c] = r.expected]
            /\ waiting' = [waiting EXCEPT ![c] = r.waiting]
            /\ timer' = r.timer
  BY DEF SendData, SendNowFlags
<1> DEFINE r == SendPacket(c, expected[c], waiting[c], timer, flag, delay)
<1>2. /\ r.expected \in Seq(Nat) /\ r.timer \in Timers /\ r.waiting \in Nat
      /\ Covers(r.timer, r.expected)
      /\ \A d \in Channels : Covers(r.timer, expected[d])
  <2>1. /\ now \in Nat /\ waiting[c] \in Nat /\ timer \in Timers
        /\ \A d \in Channels : expected[d] \in Seq(Nat) /\ Covers(timer, expected[d])
    BY DEF TimerInv, TypeOK, Timers
  <2>2. /\ r.expected \in Seq(Nat) /\ r.timer \in Timers
        /\ r.waiting \in {waiting[c], waiting[c] + 1}
        /\ Covers(r.timer, r.expected)
        /\ \A other \in Seq(Nat) : Covers(timer, other) => Covers(r.timer, other)
    BY <2>1, SendPacketSound
  <2> QED BY <2>1, <2>2
<1>3. /\ expected' = [expected EXCEPT ![c] = r.expected]
      /\ waiting' = [waiting EXCEPT ![c] = r.waiting]
      /\ timer' = r.timer
      /\ UNCHANGED <<now, open, visit, current, ts>> /\ c \in open
  BY <1>1 DEF SendData, passVars
<1> HIDE DEF r
<1> QED BY <1>2, <1>3 DEF TimerInv, TypeOK, Timers, Covers

\* the timer after a deletion covers what is left
LEMMA AfterDeleteCovers ==
    ASSUME TimerInv, NEW c \in open, NEW rest \in Seq(Nat),
           NEW tm \in TimersAfterDelete(c, [expected EXCEPT ![c] = rest])
    PROVE  /\ tm \in Timers
           /\ Covers(tm, rest)
           /\ \A d \in Channels \ {c} : Covers(tm, expected[d])
<1> DEFINE queues == [expected EXCEPT ![c] = rest]
<1>0. /\ c \in Channels /\ queues \in Queues /\ queues[c] = rest
      /\ \A d \in Channels \ {c} : queues[d] = expected[d]
      /\ timer \in Timers /\ now \in Nat
      /\ \A d \in Channels : expected[d] \in Seq(Nat)
  BY DEF TimerInv, TypeOK, Queues, Timers
<1> HIDE DEF queues
<1>1. CASE tm \in Recalculated(queues)
  <2>1. tm \in Timers /\ \A d \in open : Covers(tm, queues[d])
    BY <1>0, <1>1, RecalculatedSound DEF TimerInv
  <2>2. \A d \in Channels \ open : expected[d] = <<>>
    BY DEF TimerInv
  <2> QED BY <1>0, <2>1, <2>2 DEF Covers
<1>2. CASE tm = Noticed(timer, c, ExpectedTime(queues[c]))
  <2>1. CASE rest = <<>>
    <3>1. tm = timer
      BY <1>0, <1>2, <2>1 DEF Noticed, ExpectedTime, Before, Never
    <3> QED BY <1>0, <2>1, <3>1 DEF Covers, TimerInv
  <2>2. CASE rest # <<>>
    <3>1. Head(rest) \in Nat /\ ExpectedTime(queues[c]) = Head(rest)
      BY <1>0, <2>2, HeadTime DEF ExpectedTime
    <3>2. tm \in Timers /\ tm.time # Never /\ tm.time <= Head(rest)
      BY <1>0, <1>2, <3>1, NoticedSound
    <3>3. \A d \in Channels \ {c} : Covers(tm, expected[d])
      BY <1>0, <1>2, <3>1, NoticedCovers DEF TimerInv
    <3> QED BY <3>2, <3>3 DEF Covers
  <2> QED BY <2>1, <2>2
<1>3. tm \in TimersAfterDelete(c, queues)
  BY DEF queues
<1> QED BY <1>1, <1>2, <1>3 DEF TimersAfterDelete

LEMMA TimerReceiveAck ==
    ASSUME TimerInv, NEW c \in Channels, ReceiveAck(c)
    PROVE  TimerInv'
<1>1. PICK i \in DOMAIN expected[c] :
        LET rest == RemoveAt(expected[c], i)
        IN  \E tm \in TimersAfterDelete(c, [expected EXCEPT ![c] = rest]) :
            IF waiting[c] = 0
            THEN /\ expected' = [expected EXCEPT ![c] = rest]
                 /\ timer' = tm
                 /\ UNCHANGED waiting
            ELSE \E flag \in SendNowFlags(rest), delay \in Delays :
                 LET r == SendPacket(c, rest, waiting[c], tm, flag, delay)
                 IN  /\ expected' = [expected EXCEPT ![c] = r.expected]
                     /\ waiting' = [waiting EXCEPT ![c] = r.waiting - 1]
                     /\ timer' = r.timer
  BY DEF ReceiveAck
<1> DEFINE rest == RemoveAt(expected[c], i)
<1>2. rest \in Seq(Nat) /\ c \in open /\ now \in Nat /\ waiting[c] \in Nat
  BY RemovedQueue DEF TimerInv, TypeOK, ReceiveAck
<1> HIDE DEF rest
<1>3. PICK tm \in TimersAfterDelete(c, [expected EXCEPT ![c] = rest]) :
        IF waiting[c] = 0
        THEN /\ expected' = [expected EXCEPT ![c] = rest]
             /\ timer' = tm
             /\ UNCHANGED waiting
        ELSE \E flag \in SendNowFlags(rest), delay \in Delays :
             LET r == SendPacket(c, rest, waiting[c], tm, flag, delay)
             IN  /\ expected' = [expected EXCEPT ![c] = r.expected]
                 /\ waiting' = [waiting EXCEPT ![c] = r.waiting - 1]
                 /\ timer' = r.timer
  BY <1>1 DEF rest
<1>4. /\ tm \in Timers /\ Covers(tm, rest)
      /\ \A d \in Channels \ {c} : Covers(tm, expected[d])
  BY <1>2, AfterDeleteCovers
<1>5. UNCHANGED <<now, open, visit, current, ts>>
  BY DEF ReceiveAck, passVars
<1>6. CASE waiting[c] = 0
  BY <1>2, <1>3, <1>4, <1>5, <1>6 DEF TimerInv, TypeOK, Timers, Covers
<1>7. CASE waiting[c] # 0
  <2>1. PICK flag \in BOOLEAN, delay \in Delays :
           LET r == SendPacket(c, rest, waiting[c], tm, flag, delay)
           IN  /\ expected' = [expected EXCEPT ![c] = r.expected]
               /\ waiting' = [waiting EXCEPT ![c] = r.waiting - 1]
               /\ timer' = r.timer
    BY <1>3, <1>7 DEF SendNowFlags
  <2> DEFINE r == SendPacket(c, rest, waiting[c], tm, flag, delay)
  <2>2. /\ r.expected \in Seq(Nat) /\ r.timer \in Timers /\ r.waiting - 1 \in Nat
        /\ Covers(r.timer, r.expected)
        /\ \A d \in Channels \ {c} : Covers(r.timer, expected[d])
    <3>1. /\ r.expected \in Seq(Nat) /\ r.timer \in Timers
          /\ r.waiting \in {waiting[c], waiting[c] + 1}
          /\ Covers(r.timer, r.expected)
          /\ \A other \in Seq(Nat) : Covers(tm, other) => Covers(r.timer, other)
      BY <1>2, <1>4, SendPacketSound
    <3>2. \A d \in Channels : expected[d] \in Seq(Nat)
      BY DEF TimerInv, TypeOK
    <3> HIDE DEF r
    <3> QED BY <1>2, <1>4, <1>7, <3>1, <3>2
  <2>3. /\ expected' = [expected EXCEPT ![c] = r.expected]
        /\ waiting' = [waiting EXCEPT ![c] = r.waiting - 1]
        /\ timer' = r.timer
    BY <2>1
  <2> HIDE DEF r
  <2> QED BY <1>2, <1>5, <2>2, <2>3 DEF TimerInv, TypeOK, Timers, Covers
<1> QED BY <1>6, <1>7

LEMMA TimerCreateReset ==
    ASSUME TimerInv, NEW c \in Channels, Create(c) \/ Reset(c)
    PROVE  TimerInv'
<1>1. CASE Create(c)
  <2>1. timer' \in Timers /\ timer'.time = timer.time
    BY <1>1 DEF Create, TimerInv, TypeOK, Timers
  <2> QED BY <1>1, <2>1
          DEF Create, Idle, TimerInv, TypeOK, Timers, Covers, queueVars, passVars
<1>2. CASE Reset(c)
  BY <1>2 DEF Reset, ClearQueues, TimerInv, TypeOK, Covers, passVars
<1> QED BY <1>1, <1>2

\* However a channel is destroyed, the queues that are left stay covered.
LEMMA DestroyOpenSound ==
    ASSUME TimerInv, NEW c \in open, DestroyOpen(c)
    PROVE  /\ open' = open \ {c}
           /\ expected' \in Queues /\ waiting' \in [Channels -> Nat] /\ timer' \in Timers
           /\ \A d \in Channels : expected'[d] # <<>> => d \in open'
           /\ \A d \in Channels : Covers(timer', expected'[d])
<1>0. /\ c \in Channels /\ open' = open \ {c}
      /\ expected' = [expected EXCEPT ![c] = <<>>]
      /\ waiting' = [waiting EXCEPT ![c] = 0]
  BY DEF DestroyOpen, Destroy, DestroyChannel, ClearQueues, TimerInv, TypeOK
<1>1. /\ expected' \in Queues /\ waiting' \in [Channels -> Nat]
      /\ \A d \in Channels : expected'[d] # <<>> => d \in open'
  BY <1>0 DEF TimerInv, TypeOK, Queues
<1>2. CASE timer' \in Recalculated([expected EXCEPT ![c] = <<>>])
  <2>1. timer' \in Timers /\ \A d \in open : Covers(timer', expected'[d])
    BY <1>0, <1>1, <1>2, RecalculatedSound DEF TimerInv
  <2> QED BY <1>0, <1>1, <2>1 DEF Covers
<1>3. CASE timer' = timer \/ timer' = [timer EXCEPT !.channel = IF @ = c THEN Dangling ELSE @]
  <2>1. timer' \in Timers /\ timer'.time = timer.time
    BY <1>0, <1>3 DEF TimerInv, TypeOK, Timers
  <2> QED BY <1>0, <1>1, <2>1 DEF TimerInv, Covers, TypeOK
<1> QED BY <1>0, <1>2, <1>3 DEF DestroyOpen, Destroy, DestroyChannel

LEMMA TimerDestroy ==
    ASSUME TimerInv,
           \/ \E c \in Channels : ApplicationDestroys(c)
           \/ DestroyAll \/ DisconnectSilent
    PROVE  TimerInv'
<1>1. ASSUME NEW c \in Channels, ApplicationDestroys(c)
      PROVE  TimerInv'
  <2>1. /\ c \in open /\ DestroyOpen(c) /\ UNCHANGED <<now, visit, current, ts>>
        /\ visit = {} /\ current = NoChannel
    BY <1>1 DEF ApplicationDestroys, passVars, Idle
  <2> QED BY <2>1, DestroyOpenSound DEF TimerInv, TypeOK, Timers, Queues, Covers
<1>2. CASE DestroyAll
  BY <1>2 DEF DestroyAll, Idle, NoTimer, TimerInv, TypeOK, Covers, passVars
<1>3. CASE DisconnectSilent
  <2>1. /\ current \in open /\ DestroyOpen(current)
        /\ visit' = open \ {current} /\ current' = NoChannel /\ UNCHANGED <<now, ts>>
    BY <1>3 DEF DisconnectSilent, TimerInv, TypeOK
  <2> QED BY <2>1, DestroyOpenSound DEF TimerInv, TypeOK, Timers, Queues, Covers
<1> QED BY <1>1, <1>2, <1>3

LEMMA TimerVisit ==
    ASSUME TimerInv, NEW c \in Channels, Visit(c)
    PROVE  TimerInv'
<1>0. /\ c \in open /\ visit' \subseteq open /\ current' = c
      /\ UNCHANGED <<now, open, waiting, ts>> /\ now \in Nat /\ ts \in Nat
  BY DEF Visit, TimerInv, TypeOK
<1>1. CASE UNCHANGED <<expected, timer>>
  BY <1>0, <1>1 DEF TimerInv, TypeOK, Covers
<1>2. CASE ~UNCHANGED <<expected, timer>>
  <2>1. expected[c] # <<>>
    BY <1>2 DEF Visit
  <2>2. PICK delay \in Delays :
          LET queues == [expected EXCEPT ![c] = <<ts + delay>> \o Tail(expected[c])]
          IN  expected' = queues /\ timer' \in TimersAfterResend(c, queues)
    BY <1>2 DEF Visit
  <2> DEFINE again == <<ts + delay>> \o Tail(expected[c])
             queues == [expected EXCEPT ![c] = again]
  <2>3. ts + delay \in Nat
    BY <1>0, TimerAssumption
  <2>4. again \in Seq(Nat) /\ again # <<>> /\ Head(again) = ts + delay
    <3>1. Tail(expected[c]) \in Seq(Nat)
      BY <2>1, HeadTailProperties DEF TimerInv, TypeOK
    <3> QED BY <2>3, <3>1
  <2> HIDE DEF again
  <2>5. /\ queues \in Queues /\ queues[c] = again
        /\ \A d \in Channels \ {c} : queues[d] = expected[d]
    BY <2>4 DEF TimerInv, TypeOK, Queues
  <2>6. expected' = queues /\ timer' \in TimersAfterResend(c, queues)
    BY <2>2 DEF again
  <2> HIDE DEF queues
  <2>7. timer \in Timers /\ \A d \in Channels : expected[d] \in Seq(Nat)
    BY DEF TimerInv, TypeOK, Timers
  <2>8. timer' \in Timers /\ \A d \in Channels : Covers(timer', queues[d])
    <3>1. CASE timer' = Noticed(timer, c, ts + delay)
      <4>1. timer' \in Timers /\ timer'.time # Never /\ timer'.time <= ts + delay
        BY <2>3, <2>7, <3>1, NoticedSound
      <4>2. \A d \in Channels \ {c} : Covers(timer', expected[d])
        BY <1>0, <2>3, <2>7, <3>1, NoticedCovers DEF TimerInv
      <4> QED BY <2>4, <2>5, <4>1, <4>2 DEF Covers
    <3>2. CASE timer' \in Recalculated(queues)
      <4>1. timer' \in Timers /\ \A d \in open : Covers(timer', queues[d])
        BY <2>5, <3>2, RecalculatedSound DEF TimerInv
      <4>2. \A d \in Channels \ open : queues[d] = <<>>
        BY <1>0, <2>5 DEF TimerInv
      <4> QED BY <4>1, <4>2 DEF Covers
    <3>3. CASE timer' = timer /\ ~Before(ts + delay, timer.time)
      <4>1. timer.time # Never /\ timer.time <= ts + delay
        BY <2>3, <2>7, <3>3 DEF Before, Timers, Never
      <4> QED BY <2>4, <2>5, <2>7, <3>3, <4>1 DEF Covers, TimerInv
    <3> QED BY <2>4, <2>5, <2>6, <3>1, <3>2, <3>3 DEF TimersAfterResend
  <2>9. \A d \in Channels : queues[d] # <<>> => d \in open
    BY <1>0, <2>5 DEF TimerInv
  <2> QED BY <1>0, <2>5, <2>6, <2>8, <2>9
          DEF TimerInv, TypeOK, Timers, Queues, Covers
<1> QED BY <1>1, <1>2

LEMMA TimerTick ==
    ASSUME TimerInv, Tick \/ BeginPass \/ EndPass
    PROVE  TimerInv'
<1>1. CASE Tick
  <2>1. /\ now' = now + 1 /\ now \in Nat /\ timer.time \in Nat \cup {Never}
        /\ UNCHANGED <<open, expected, waiting, timer, visit, current, ts>>
    BY <1>1 DEF Tick, queueVars, passVars, TimerInv, TypeOK
  <2>2. \A c \in Channels : Covers(timer, expected[c])'
    BY <2>1 DEF TimerInv, Covers, Never
  <2> QED BY <2>1, <2>2 DEF TimerInv, TypeOK
<1>2. CASE BeginPass \/ EndPass
  BY <1>2 DEF BeginPass, EndPass, Idle, TimerInv, TypeOK, Covers, queueVars
<1> QED BY <1>1, <1>2

LEMMA TimerStep == TimerInv /\ [Next]_vars => TimerInv'
<1> SUFFICES ASSUME TimerInv, [Next]_vars PROVE TimerInv'
  OBVIOUS
<1>1. CASE Next
  BY <1>1, TimerSendData, TimerReceiveAck, TimerCreateReset, TimerDestroy, TimerVisit,
     TimerTick
  DEF Next
<1>2. CASE UNCHANGED vars
  BY <1>2 DEF vars, queueVars, passVars, TimerInv, TypeOK, Covers
<1> QED BY <1>1, <1>2

LEMMA CoveredIsNeverLate == TimerInv => TypeOK /\ NeverLate
<1> SUFFICES ASSUME TimerInv, NEW c \in open, expected[c] # <<>>
             PROVE  Timeout # Never /\ (Timeout = 0 \/ now + Timeout <= ExpectedTime(expected[c]))
  BY DEF TimerInv, NeverLate
<1>1. c \in Channels /\ now \in Nat /\ expected[c] \in Seq(Nat) /\ timer.time \in Nat \cup {Never}
  BY DEF TimerInv, TypeOK
<1>2. /\ Head(expected[c]) \in Nat /\ timer.time # Never
      /\ timer.time <= Head(expected[c]) \/ timer.time <= now
  BY <1>1, HeadTime DEF TimerInv, Covers
<1> QED BY <1>1, <1>2 DEF Timeout, ExpectedTime, Never

\* In every behaviour of any set of channels, with resets and with channels
\* destroyed by the application, while or between passes over the queues, the
\* event loop wakes up in time for the first packet of each send queue.
THEOREM NeverLateCorrect == Spec => [](TypeOK /\ NeverLate)
BY TimerInit, TimerStep, CoveredIsNeverLate, PTL DEF Spec

-----------------------------------------------------------------------------
\* The timer follows the packets.  A timer tm that is set names a channel of
\* the map, one of whose packets in queues is due by then.
HasPacket(tm, queues) ==
    tm.time # Never =>
        /\ tm.channel \in open
        /\ \E i \in DOMAIN queues[tm.channel] : queues[tm.channel][i] <= tm.time

LEMMA RecalculatedHasPacket ==
    ASSUME TypeOK, NEW queues \in Queues, NEW tm \in Recalculated(queues)
    PROVE  /\ HasPacket(tm, queues)
           /\ tm.time # Never => queues[tm.channel] # <<>>
<1> DEFINE time(c) == ExpectedTime(queues[c])
           pending == {c \in open : queues[c] # <<>>}
           overdue == {c \in pending : time(c) <= now}
<1>0. now \in Nat /\ open \subseteq Channels
  BY DEF TypeOK
<1>1. \A c \in pending : /\ c \in open /\ queues[c] # <<>>
                         /\ time(c) = queues[c][1] /\ 1 \in DOMAIN queues[c]
                         /\ time(c) \in Nat
  <2> SUFFICES ASSUME NEW c \in pending
               PROVE  /\ time(c) = queues[c][1] /\ 1 \in DOMAIN queues[c]
                      /\ time(c) \in Nat
    OBVIOUS
  <2>1. queues[c] \in Seq(Nat) /\ queues[c] # <<>>
    BY <1>0 DEF Queues
  <2>2. Head(queues[c]) \in Nat /\ Len(queues[c]) \in Nat \ {0}
    BY <2>1, HeadTime
  <2>3. DOMAIN queues[c] = 1 .. Len(queues[c])
    BY <2>1, LenProperties
  <2>4. Head(queues[c]) = queues[c][1]
    BY <2>1
  <2> QED BY <2>1, <2>2, <2>3, <2>4 DEF ExpectedTime
<1>2. CASE overdue # {}
  <2>1. PICK c \in overdue : tm = [time |-> now, channel |-> c]
    BY <1>2 DEF Recalculated
  <2> HIDE DEF time
  <2> QED BY <1>0, <1>1, <2>1 DEF HasPacket
<1>3. CASE overdue = {} /\ pending = {}
  <2>1. tm = NoTimer
    BY <1>3 DEF Recalculated
  <2> QED BY <2>1 DEF NoTimer, HasPacket
<1>4. CASE overdue = {} /\ pending # {}
  <2>1. PICK c \in pending : tm = [time |-> time(c), channel |-> c]
    BY <1>4 DEF Recalculated
  <2> HIDE DEF time
  <2> QED BY <1>1, <2>1 DEF HasPacket
<1> QED BY <1>2, <1>3, <1>4

LEMMA NoticedHasPacket ==
    ASSUME NEW c \in open, NEW t \in Nat, NEW queues, NEW i \in DOMAIN queues[c],
           queues[c][i] = t, NEW tm, HasPacket(tm, queues)
    PROVE  HasPacket(Noticed(tm, c, t), queues)
BY DEF HasPacket, Noticed

\* What a queue gains at its end takes no packet away from a timer.
LEMMA AppendKeepsPacket ==
    ASSUME NEW queues \in Queues, NEW c \in Channels, NEW t \in Nat,
           open \subseteq Channels, NEW tm, HasPacket(tm, queues)
    PROVE  LET longer == [queues EXCEPT ![c] = Append(queues[c], t)]
           IN  /\ HasPacket(tm, longer)
               /\ c \in open => HasPacket(Noticed(tm, c, t), longer)
<1> DEFINE longer == [queues EXCEPT ![c] = Append(queues[c], t)]
<1>1. queues[c] \in Seq(Nat) /\ Len(queues[c]) \in Nat
  BY DEF Queues
<1>2. /\ DOMAIN Append(queues[c], t) = 1 .. Len(queues[c]) + 1
      /\ Append(queues[c], t)[Len(queues[c]) + 1] = t
      /\ \A i \in 1 .. Len(queues[c]) : Append(queues[c], t)[i] = queues[c][i]
      /\ DOMAIN queues[c] = 1 .. Len(queues[c])
  BY <1>1
<1>3. /\ longer[c] = Append(queues[c], t)
      /\ \A d \in Channels \ {c} : longer[d] = queues[d]
  BY DEF Queues
<1> HIDE DEF longer
<1>4. HasPacket(tm, longer)
  <2>1. CASE tm.channel = c
    <3>1. SUFFICES ASSUME tm.time # Never
                   PROVE  /\ c \in open
                          /\ \E i \in DOMAIN longer[c] : longer[c][i] <= tm.time
      BY <2>1 DEF HasPacket
    <3>2. PICK i \in DOMAIN queues[c] : c \in open /\ queues[c][i] <= tm.time
      BY <2>1, <3>1 DEF HasPacket
    <3>3. i \in DOMAIN Append(queues[c], t) /\ Append(queues[c], t)[i] = queues[c][i]
      BY <1>1, <1>2
    <3> QED BY <1>3, <3>2, <3>3
  <2>2. CASE tm.channel # c
    BY <1>3, <2>2 DEF HasPacket
  <2> QED BY <2>1, <2>2
<1>5. ASSUME c \in open
      PROVE  HasPacket(Noticed(tm, c, t), longer)
  <2>1. Len(queues[c]) + 1 \in DOMAIN longer[c] /\ longer[c][Len(queues[c]) + 1] = t
    BY <1>1, <1>2, <1>3
  <2> QED BY <1>4, <1>5, <2>1, NoticedHasPacket
<1> QED BY <1>4, <1>5 DEF longer

\* Sending a packet takes none away from the timer.
LEMMA SendPacketHasPacket ==
    ASSUME TypeOK, NEW c \in open, NEW queues \in Queues, NEW count \in Nat,
           NEW tm, HasPacket(tm, queues), NEW flag \in BOOLEAN, NEW delay \in Delays
    PROVE  LET r == SendPacket(c, queues[c], count, tm, flag, delay)
           IN  HasPacket(r.timer, [queues EXCEPT ![c] = r.expected])
<1>1. now + delay \in Nat /\ c \in Channels /\ open \subseteq Channels
  BY TimerAssumption DEF TypeOK
<1>2. CASE flag
  BY <1>1, <1>2, AppendKeepsPacket DEF SendPacket
<1>3. CASE ~flag
  <2>1. [queues EXCEPT ![c] = queues[c]] = queues
    BY DEF Queues
  <2> QED BY <1>3, <2>1 DEF SendPacket
<1> QED BY <1>2, <1>3

\* The timer after an ACK was handled has a packet.
LEMMA AfterDeleteHasPacket ==
    ASSUME TypeOK, HasPacket(timer, expected), NEW c \in open, NEW rest \in Seq(Nat),
           NEW tm \in TimersAfterDelete(c, [expected EXCEPT ![c] = rest])
    PROVE  HasPacket(tm, [expected EXCEPT ![c] = rest])
<1> DEFINE queues == [expected EXCEPT ![c] = rest]
<1>1. /\ c \in Channels /\ open \subseteq Channels
      /\ queues \in Queues /\ queues[c] = rest
      /\ \A d \in Channels \ {c} : queues[d] = expected[d]
  BY DEF TypeOK, Queues
<1>2. tm \in TimersAfterDelete(c, queues)
  OBVIOUS
<1> SUFFICES HasPacket(tm, queues)
  OBVIOUS
<1> HIDE DEF queues
<1>3. CASE timer.channel = c
  BY <1>1, <1>2, <1>3, RecalculatedHasPacket DEF TimersAfterDelete
<1>4. CASE timer.channel # c
  <2>1. tm = Noticed(timer, c, ExpectedTime(rest))
    BY <1>1, <1>2, <1>4 DEF TimersAfterDelete
  <2>2. HasPacket(timer, queues)
    BY <1>1, <1>4 DEF HasPacket
  <2>3. CASE rest = <<>>
    <3>1. tm = timer
      BY <2>1, <2>3 DEF Noticed, ExpectedTime, Before
    <3> QED BY <2>2, <3>1
  <2>4. CASE rest # <<>>
    <3>1. Head(rest) \in Nat /\ Len(rest) \in Nat \ {0}
      BY <2>4, HeadTime
    <3>2. 1 \in DOMAIN rest /\ rest[1] = Head(rest)
      <4>1. DOMAIN rest = 1 .. Len(rest)
        BY LenProperties
      <4> QED BY <3>1, <4>1
    <3>3. tm = Noticed(timer, c, Head(rest))
      BY <2>1, <2>4 DEF ExpectedTime
    <3> QED BY <1>1, <2>2, <3>1, <3>2, <3>3, NoticedHasPacket
  <2> QED BY <2>3, <2>4
<1> QED BY <1>3, <1>4

LEMMA ReceiveAckHasPacket ==
    ASSUME TypeOK, HasPacket(timer, expected), NEW c \in Channels, ReceiveAck(c)
    PROVE  HasPacket(timer', expected')
<1>1. PICK i \in DOMAIN expected[c] :
        LET rest == RemoveAt(expected[c], i)
        IN  \E tm \in TimersAfterDelete(c, [expected EXCEPT ![c] = rest]) :
            IF waiting[c] = 0
            THEN /\ expected' = [expected EXCEPT ![c] = rest]
                 /\ timer' = tm
                 /\ UNCHANGED waiting
            ELSE \E flag \in SendNowFlags(rest), delay \in Delays :
                 LET r == SendPacket(c, rest, waiting[c], tm, flag, delay)
                 IN  /\ expected' = [expected EXCEPT ![c] = r.expected]
                     /\ waiting' = [waiting EXCEPT ![c] = r.waiting - 1]
                     /\ timer' = r.timer
  BY DEF ReceiveAck
<1> DEFINE rest == RemoveAt(expected[c], i)
           left == [expected EXCEPT ![c] = rest]
<1>2. rest \in Seq(Nat) /\ c \in open /\ waiting[c] \in Nat
  BY RemovedQueue DEF TypeOK, ReceiveAck
<1> HIDE DEF rest
<1>3. PICK tm \in TimersAfterDelete(c, left) :
        IF waiting[c] = 0
        THEN /\ expected' = left
             /\ timer' = tm
             /\ UNCHANGED waiting
        ELSE \E flag \in SendNowFlags(rest), delay \in Delays :
             LET r == SendPacket(c, rest, waiting[c], tm, flag, delay)
             IN  /\ expected' = [expected EXCEPT ![c] = r.expected]
                 /\ waiting' = [waiting EXCEPT ![c] = r.waiting - 1]
                 /\ timer' = r.timer
  BY <1>1 DEF rest
<1>4. HasPacket(tm, left) /\ left \in Queues /\ left[c] = rest
  BY <1>2, AfterDeleteHasPacket DEF TypeOK, Queues
<1>5. CASE waiting[c] = 0
  BY <1>3, <1>4, <1>5
<1>6. CASE waiting[c] # 0
  <2>1. PICK flag \in BOOLEAN, delay \in Delays :
           LET r == SendPacket(c, rest, waiting[c], tm, flag, delay)
           IN  /\ expected' = [expected EXCEPT ![c] = r.expected]
               /\ timer' = r.timer
    BY <1>3, <1>6 DEF SendNowFlags
  <2> DEFINE r == SendPacket(c, left[c], waiting[c], tm, flag, delay)
  <2>2. HasPacket(r.timer, [left EXCEPT ![c] = r.expected])
    <3> HIDE DEF left
    <3> QED BY <1>2, <1>4, SendPacketHasPacket
  <2>3. expected' = [expected EXCEPT ![c] = r.expected] /\ timer' = r.timer
    BY <1>4, <2>1
  <2> HIDE DEF r
  <2>4. [left EXCEPT ![c] = r.expected] = [expected EXCEPT ![c] = r.expected]
    BY DEF TypeOK
  <2> QED BY <2>2, <2>3, <2>4
<1> QED BY <1>5, <1>6

LEMMA VisitHasPacket ==
    ASSUME TypeOK, HasPacket(timer, expected), NEW c \in Channels, Visit(c)
    PROVE  HasPacket(timer', expected')
<1>0. c \in open /\ now \in Nat /\ ts \in Nat /\ open \subseteq Channels
  BY DEF Visit, TypeOK
<1>1. CASE UNCHANGED <<expected, timer>>
  BY <1>1
<1>2. CASE ~UNCHANGED <<expected, timer>>
  <2>1. expected[c] # <<>>
    BY <1>2 DEF Visit
  <2>2. PICK delay \in Delays :
          LET queues == [expected EXCEPT ![c] = <<ts + delay>> \o Tail(expected[c])]
          IN  expected' = queues /\ timer' \in TimersAfterResend(c, queues)
    BY <1>2 DEF Visit
  <2> DEFINE again == <<ts + delay>> \o Tail(expected[c])
             queues == [expected EXCEPT ![c] = again]
  <2>3. ts + delay \in Nat
    BY <1>0, TimerAssumption
  <2>4. /\ again \in Seq(Nat) /\ Head(again) = ts + delay
        /\ 1 \in DOMAIN again /\ again[1] = ts + delay
    <3>1. Tail(expected[c]) \in Seq(Nat)
      BY <2>1, HeadTailProperties DEF TypeOK
    <3> QED BY <2>3, <3>1
  <2> HIDE DEF again
  <2>5. /\ queues \in Queues /\ queues[c] = again
        /\ \A d \in Channels \ {c} : queues[d] = expected[d]
    BY <2>4 DEF TypeOK, Queues
  <2>6. expected' = queues /\ timer' \in TimersAfterResend(c, queues)
    BY <2>2 DEF again
  <2> HIDE DEF queues
  <2>7. CASE timer' \in Recalculated(queues)
    BY <2>5, <2>6, <2>7, RecalculatedHasPacket
  <2>8. CASE timer' = timer /\ timer.channel # c
    BY <1>0, <2>5, <2>6, <2>8 DEF HasPacket
  <2>9. CASE timer' = Noticed(timer, c, ts + delay) /\ Before(ts + delay, timer.time)
    <3>1. timer' = [time |-> ts + delay, channel |-> c]
      BY <2>9 DEF Noticed
    <3>2. queues[c][1] <= ts + delay /\ 1 \in DOMAIN queues[c]
      BY <2>3, <2>4, <2>5
    <3> QED BY <1>0, <2>6, <3>1, <3>2 DEF HasPacket
  <2> QED BY <2>4, <2>5, <2>6, <2>7, <2>8, <2>9 DEF TimersAfterResend
<1> QED BY <1>1, <1>2

\* A channel destroyed by its address leaves the timer with a packet.
LEMMA DestroyChannelHasPacket ==
    ASSUME TypeOK, HasPacket(timer, expected), NEW c \in open, DestroyChannel(c)
    PROVE  TimerHasPacket'
<1> DEFINE queues == [expected EXCEPT ![c] = <<>>]
<1>1. /\ open' = open \ {c} /\ expected' = queues
      /\ c \in Channels /\ open \subseteq Channels
  BY DEF DestroyChannel, ClearQueues, TypeOK
<1>2. /\ queues \in Queues /\ queues[c] = <<>>
      /\ \A d \in Channels \ {c} : queues[d] = expected[d]
  BY <1>1 DEF TypeOK, Queues
<1>3. IF timer.channel = c THEN timer' \in Recalculated(queues) ELSE timer' = timer
  BY DEF DestroyChannel
<1> HIDE DEF queues
<1>4. HasPacket(timer', queues) /\ (timer'.time # Never => timer'.channel # c)
  <2>1. CASE timer.channel = c
    BY <1>2, <1>3, <2>1, RecalculatedHasPacket
  <2>2. CASE timer.channel # c
    BY <1>1, <1>2, <1>3, <2>2 DEF HasPacket
  <2> QED BY <2>1, <2>2
<1> QED BY <1>1, <1>4 DEF HasPacket, TimerHasPacket

LEMMA TimerKeepsPacket ==
    ASSUME TypeOK, TimerHasPacket, Next
    PROVE  TimerHasPacket' \/ \E c \in open : Reset(c) \/ Destroy(c)
<1> USE DEF TypeOK
<1>0. HasPacket(timer, expected)
  BY DEF HasPacket, TimerHasPacket
<1>1. CASE Tick \/ BeginPass \/ EndPass
  <2>1. UNCHANGED <<open, expected, timer>>
    BY <1>1 DEF Tick, BeginPass, EndPass, queueVars, passVars
  <2> QED BY <2>1 DEF TimerHasPacket
<1>2. CASE DestroyAll
  BY <1>2 DEF DestroyAll, NoTimer, TimerHasPacket
<1>3. ASSUME NEW c \in open, DestroyOpen(c)
      PROVE  TimerHasPacket' \/ \E d \in open : Reset(d) \/ Destroy(d)
  BY <1>0, <1>3, DestroyChannelHasPacket DEF DestroyOpen
<1>4. CASE DisconnectSilent
  <2>1. current \in open /\ DestroyOpen(current)
    BY <1>4 DEF DisconnectSilent
  <2> QED BY <1>3, <2>1
<1>5. ASSUME NEW c \in Channels, ApplicationDestroys(c)
      PROVE  TimerHasPacket' \/ \E d \in open : Reset(d) \/ Destroy(d)
  <2>1. c \in open /\ DestroyOpen(c)
    BY <1>5 DEF ApplicationDestroys
  <2> QED BY <1>3, <2>1
<1>6. ASSUME NEW c \in Channels, Create(c)
      PROVE  TimerHasPacket'
  <2>1. /\ open' = open \cup {c} /\ expected' = expected
        /\ timer' \in {timer, [timer EXCEPT !.channel = IF @ = Dangling THEN c ELSE @]}
    BY <1>6 DEF Create, queueVars
  <2>2. timer.channel \in open => timer.channel # Dangling
    BY TimerAssumption
  <2>3. timer'.time = timer.time /\ (timer.channel \in open => timer'.channel = timer.channel)
    BY <2>1, <2>2
  <2> QED BY <2>1, <2>3 DEF TimerHasPacket
<1>7. ASSUME NEW c \in Channels, SendData(c)
      PROVE  TimerHasPacket'
  <2>1. PICK flag \in BOOLEAN, delay \in Delays :
          LET r == SendPacket(c, expected[c], waiting[c], timer, flag, delay)
          IN  /\ expected' = [expected EXCEPT ![c] = r.expected]
              /\ timer' = r.timer
    BY <1>7 DEF SendData, SendNowFlags
  <2>2. c \in open /\ open' = open /\ expected \in Queues /\ waiting[c] \in Nat
    BY <1>7 DEF SendData, Queues
  <2>3. HasPacket(timer', expected')
    BY <1>0, <2>1, <2>2, SendPacketHasPacket
  <2> QED BY <2>2, <2>3 DEF HasPacket, TimerHasPacket
<1>8. ASSUME NEW c \in Channels, ReceiveAck(c) \/ Visit(c)
      PROVE  TimerHasPacket'
  <2>1. HasPacket(timer', expected') /\ open' = open
    BY <1>0, <1>8, ReceiveAckHasPacket, VisitHasPacket DEF ReceiveAck, Visit
  <2> QED BY <2>1 DEF HasPacket, TimerHasPacket
<1>9. ASSUME NEW c \in Channels, Reset(c)
      PROVE  \E d \in open : Reset(d) \/ Destroy(d)
  BY <1>9 DEF Reset
<1> QED BY <1>1, <1>2, <1>4, <1>5, <1>6, <1>7, <1>8, <1>9 DEF Next

\* A timer that is set for a waiting packet stays so whatever is acknowledged,
\* sent again or destroyed by address, in any order, while or between passes;
\* only a reset or a direct trudpChannelDestroy takes the packet away from it.
THEOREM TimerFollows == Spec => TimerFollowsPackets
<1>1. TypeOK /\ [Next]_vars =>
        [TimerHasPacket => TimerHasPacket' \/ \E c \in open : Reset(c) \/ Destroy(c)]_vars
  BY TimerKeepsPacket
<1> QED BY <1>1, NeverLateCorrect, PTL DEF Spec, TimerFollowsPackets

-----------------------------------------------------------------------------
(***************************************************************************)
(* The libev host (trudp_ev.c)                                             *)
(***************************************************************************)

\* no time of the queue lies further ahead than the longest delay
Near(queue) == \A i \in DOMAIN queue : queue[i] <= now + MaxDelay

\* Everything the ev_timer can be set for is near: that is what the queues,
\* the shared timer and the least time of a pass hold.  The timer runs, or its
\* callback does and has seen a time of every queue it has visited.
EvInv ==
    /\ TimerInv
    /\ started \in BOOLEAN /\ callback \in BOOLEAN
    /\ at \in Nat /\ least \in Nat \cup {Never}
    /\ ts <= now
    /\ \A c \in Channels : Near(expected[c])
    /\ timer.time <= now + MaxDelay
    /\ least <= now + MaxDelay
    /\ at <= now + MaxDelay
    /\ \A c \in Channels : expected[c] # <<>> => started
    /\ callback =>
        /\ started
        /\ \A c \in Channels \ visit : expected[c] # <<>> => least # Never

\* the part of EvInv that Next alone keeps
NearInv ==
    /\ ts <= now
    /\ \A c \in Channels : Near(expected[c])
    /\ timer.time <= now + MaxDelay

-----------------------------------------------------------------------------
LEMMA MaxDelayBounds == MaxDelay \in Nat /\ \A d \in Delays : d \in Nat /\ d <= MaxDelay
<1>1. MaxDelay \in Delays /\ \A d \in Delays : d <= MaxDelay
  BY EvAssumption DEF MaxDelay
<1> QED BY <1>1, TimerAssumption

LEMMA NearAppend ==
    ASSUME now \in Nat, NEW queue \in Seq(Nat), Near(queue), NEW delay \in Delays
    PROVE  Near(Append(queue, now + delay))
<1>1. now + delay \in Nat /\ now + delay <= now + MaxDelay
  BY MaxDelayBounds
<1> QED BY <1>1 DEF Near

LEMMA NearRemoved ==
    ASSUME now \in Nat, NEW queue \in Seq(Nat), Near(queue), NEW i \in DOMAIN queue
    PROVE  Near(RemoveAt(queue, i))
<1> DEFINE before == SubSeq(queue, 1, i - 1)
           after  == SubSeq(queue, i + 1, Len(queue))
<1>1. i \in 1 .. Len(queue) /\ Len(queue) \in Nat
  BY LenProperties
<1>a. /\ before \in Seq(Nat) /\ Len(before) = i - 1
      /\ \A j \in 1 .. i - 1 : before[j] = queue[j]
  BY <1>1, SubSeqProperties
<1>b. /\ after \in Seq(Nat) /\ Len(after) = Len(queue) - i
      /\ \A j \in 1 .. Len(queue) - i : after[j] = queue[j + i]
  BY <1>1, SubSeqProperties, SMTT(30)
<1> HIDE DEF before, after
<1>c. RemoveAt(queue, i) = before \o after
  BY DEF RemoveAt, before, after
<1>2. /\ Len(before \o after) = Len(before) + Len(after)
      /\ \A j \in 1 .. Len(before) + Len(after) : (before \o after)[j] =
              IF j <= Len(before) THEN before[j] ELSE after[j - Len(before)]
      /\ before \o after \in Seq(Nat)
  BY <1>a, <1>b, ConcatProperties
<1>3. DOMAIN (before \o after) = 1 .. Len(queue) - 1
  BY <1>1, <1>a, <1>b, <1>2, LenProperties, SMTT(30)
<1>4. ASSUME NEW j \in 1 .. Len(queue) - 1
      PROVE  (before \o after)[j] <= now + MaxDelay
  <2>1. CASE j <= i - 1
    <3>1. j \in 1 .. i - 1 /\ j \in DOMAIN queue /\ j \in 1 .. Len(before) + Len(after)
      BY <1>1, <1>a, <1>b, <2>1, LenProperties, SMTT(30)
    <3>2. (before \o after)[j] = before[j]
      BY <1>a, <1>2, <2>1, <3>1
    <3>3. before[j] = queue[j]
      BY <1>a, <3>1
    <3> QED BY <3>1, <3>2, <3>3 DEF Near
  <2>2. CASE ~(j <= i - 1)
    <3>1. j - (i - 1) \in 1 .. Len(queue) - i /\ j + 1 \in DOMAIN queue
      BY <1>1, <2>2, LenProperties
    <3>2. (before \o after)[j] = queue[j + 1]
      <4>1. (before \o after)[j] = after[j - (i - 1)]
        <5>1. j \in 1 .. Len(before) + Len(after) /\ ~(j <= Len(before))
          BY <1>1, <1>a, <1>b, <2>2
        <5> QED BY <1>a, <1>2, <5>1
      <4>2. after[j - (i - 1)] = queue[(j - (i - 1)) + i]
        BY <1>b, <3>1
      <4>3. (j - (i - 1)) + i = j + 1
        BY <1>1
      <4> QED BY <4>1, <4>2, <4>3
    <3> QED BY <3>1, <3>2 DEF Near
  <2> QED BY <2>1, <2>2
<1> QED BY <1>c, <1>3, <1>4 DEF Near

LEMMA NearAgain ==
    ASSUME now \in Nat, NEW queue \in Seq(Nat), queue # <<>>, Near(queue),
           NEW t \in Nat, t <= now + MaxDelay
    PROVE  Near(<<t>> \o Tail(queue))
<1>1. /\ Tail(queue) \in Seq(Nat) /\ Len(Tail(queue)) = Len(queue) - 1
      /\ \A j \in 1 .. Len(queue) - 1 : Tail(queue)[j] = queue[j + 1]
  BY HeadTailProperties
<1> QED BY <1>1 DEF Near

LEMMA NearHead ==
    ASSUME NEW queue \in Seq(Nat), queue # <<>>, Near(queue)
    PROVE  Head(queue) <= now + MaxDelay
BY HeadTailProperties, LenProperties, EmptySeq DEF Near

LEMMA NoticedNear ==
    ASSUME NEW tm, NEW c, NEW t, now \in Nat,
           tm.time <= now + MaxDelay, t <= now + MaxDelay
    PROVE  Noticed(tm, c, t).time <= now + MaxDelay
BY DEF Noticed

LEMMA RecalculatedNear ==
    ASSUME TypeOK, NEW queues \in Queues, \A c \in Channels : Near(queues[c]),
           NEW tm \in Recalculated(queues)
    PROVE  tm.time <= now + MaxDelay
<1> DEFINE time(c) == ExpectedTime(queues[c])
           pending == {c \in open : queues[c] # <<>>}
           overdue == {c \in pending : time(c) <= now}
<1>1. now \in Nat /\ MaxDelay \in Nat
  BY MaxDelayBounds DEF TypeOK
<1>2. \A c \in pending : time(c) <= now + MaxDelay
  BY NearHead DEF ExpectedTime, Queues, TypeOK
<1>3. CASE overdue # {}
  <2>1. PICK c \in overdue : tm = [time |-> now, channel |-> c]
    BY <1>3 DEF Recalculated
  <2> QED BY <1>1, <2>1
<1>4. CASE overdue = {} /\ pending = {}
  BY <1>1, <1>4 DEF Recalculated, NoTimer, Never
<1>5. CASE overdue = {} /\ pending # {}
  <2>1. PICK c \in pending : tm = [time |-> time(c), channel |-> c]
    BY <1>5 DEF Recalculated
  <2> QED BY <1>2, <2>1
<1> QED BY <1>3, <1>4, <1>5

LEMMA SendPacketNear ==
    ASSUME now \in Nat, NEW c, NEW queue \in Seq(Nat), Near(queue),
           NEW count, NEW tm, tm.time <= now + MaxDelay,
           NEW flag \in BOOLEAN, NEW delay \in Delays
    PROVE  LET r == SendPacket(c, queue, count, tm, flag, delay)
           IN  Near(r.expected) /\ r.timer.time <= now + MaxDelay
<1>1. now + delay <= now + MaxDelay
  BY MaxDelayBounds
<1> QED BY <1>1, NearAppend, NoticedNear DEF SendPacket

-----------------------------------------------------------------------------
\* Each action of TrudpSendTimer keeps the times near.

LEMMA NearReceiveAck ==
    ASSUME TimerInv, NearInv, NEW c \in Channels, ReceiveAck(c)
    PROVE  NearInv'
<1>1. PICK i \in DOMAIN expected[c] :
        LET rest == RemoveAt(expected[c], i)
        IN  \E tm \in TimersAfterDelete(c, [expected EXCEPT ![c] = rest]) :
            IF waiting[c] = 0
            THEN /\ expected' = [expected EXCEPT ![c] = rest]
                 /\ timer' = tm
                 /\ UNCHANGED waiting
            ELSE \E flag \in SendNowFlags(rest), delay \in Delays :
                 LET r == SendPacket(c, rest, waiting[c], tm, flag, delay)
                 IN  /\ expected' = [expected EXCEPT ![c] = r.expected]
                     /\ waiting' = [waiting EXCEPT ![c] = r.waiting - 1]
                     /\ timer' = r.timer
  BY DEF ReceiveAck
<1> DEFINE rest == RemoveAt(expected[c], i)
<1>2. /\ rest \in Seq(Nat) /\ Near(rest) /\ now \in Nat
      /\ \A d \in Channels : expected[d] \in Seq(Nat)
      /\ expected \in Queues
  BY RemovedQueue, NearRemoved DEF TimerInv, TypeOK, NearInv, Queues
<1> HIDE DEF rest
<1>3. PICK tm \in TimersAfterDelete(c, [expected EXCEPT ![c] = rest]) :
        IF waiting[c] = 0
        THEN /\ expected' = [expected EXCEPT ![c] = rest]
             /\ timer' = tm
             /\ UNCHANGED waiting
        ELSE \E flag \in SendNowFlags(rest), delay \in Delays :
             LET r == SendPacket(c, rest, waiting[c], tm, flag, delay)
             IN  /\ expected' = [expected EXCEPT ![c] = r.expected]
                 /\ waiting' = [waiting EXCEPT ![c] = r.waiting - 1]
                 /\ timer' = r.timer
  BY <1>1 DEF rest
<1> DEFINE queues == [expected EXCEPT ![c] = rest]
<1>4. queues \in Queues /\ queues[c] = rest /\ \A d \in Channels : Near(queues[d])
  BY <1>2 DEF Queues, NearInv
<1>5. tm.time <= now + MaxDelay
  <2> HIDE DEF queues
  <2>1. CASE tm \in Recalculated(queues)
    BY <1>4, <2>1, RecalculatedNear DEF TimerInv
  <2>2. CASE tm = Noticed(timer, c, ExpectedTime(queues[c]))
    <3>1. ExpectedTime(queues[c]) <= now + MaxDelay
      BY <1>2, <1>4, NearHead, MaxDelayBounds DEF ExpectedTime, Never
    <3> QED BY <1>2, <2>2, <3>1, NoticedNear DEF NearInv
  <2>3. tm \in TimersAfterDelete(c, queues)
    BY DEF queues
  <2> QED BY <2>1, <2>2, <2>3 DEF TimersAfterDelete
<1>6. UNCHANGED <<now, ts>>
  BY DEF ReceiveAck, passVars
<1>7. CASE waiting[c] = 0
  BY <1>2, <1>3, <1>5, <1>6, <1>7 DEF NearInv, Near, Queues
<1>8. CASE waiting[c] # 0
  <2>1. PICK flag \in BOOLEAN, delay \in Delays :
           LET r == SendPacket(c, rest, waiting[c], tm, flag, delay)
           IN  expected' = [expected EXCEPT ![c] = r.expected] /\ timer' = r.timer
    BY <1>3, <1>8 DEF SendNowFlags
  <2> DEFINE r == SendPacket(c, rest, waiting[c], tm, flag, delay)
  <2>2. Near(r.expected) /\ r.timer.time <= now + MaxDelay
    BY <1>2, <1>5, SendPacketNear
  <2>3. expected' = [expected EXCEPT ![c] = r.expected] /\ timer' = r.timer
    BY <2>1
  <2> HIDE DEF r
  <2> QED BY <1>2, <1>6, <2>2, <2>3 DEF NearInv, Near, Queues
<1> QED BY <1>7, <1>8

LEMMA NearSendData ==
    ASSUME TimerInv, NearInv, NEW c \in Channels, SendData(c)
    PROVE  NearInv'
<1>1. PICK flag \in BOOLEAN, delay \in Delays :
        LET r == SendPacket(c, expected[c], waiting[c], timer, flag, delay)
        IN  expected' = [expected EXCEPT ![c] = r.expected] /\ timer' = r.timer
  BY DEF SendData, SendNowFlags
<1> DEFINE r == SendPacket(c, expected[c], waiting[c], timer, flag, delay)
<1>2. Near(r.expected) /\ r.timer.time <= now + MaxDelay
  BY SendPacketNear DEF NearInv, TimerInv, TypeOK
<1>3. expected' = [expected EXCEPT ![c] = r.expected] /\ timer' = r.timer
  BY <1>1
<1> HIDE DEF r
<1> QED BY <1>2, <1>3 DEF NearInv, Near, SendData, passVars, TimerInv, TypeOK

LEMMA NearVisit ==
    ASSUME TimerInv, NearInv, NEW c \in Channels, Visit(c)
    PROVE  NearInv'
<1>0. UNCHANGED <<now, open, ts>> /\ now \in Nat /\ ts \in Nat /\ ts <= now
  BY DEF Visit, TimerInv, TypeOK, NearInv
<1>1. CASE UNCHANGED <<expected, timer>>
  BY <1>0, <1>1 DEF NearInv, Near
<1>2. CASE ~UNCHANGED <<expected, timer>>
  <2>1. expected[c] # <<>>
    BY <1>2 DEF Visit
  <2>2. PICK delay \in Delays :
          LET queues == [expected EXCEPT ![c] = <<ts + delay>> \o Tail(expected[c])]
          IN  expected' = queues /\ timer' \in TimersAfterResend(c, queues)
    BY <1>2 DEF Visit
  <2> DEFINE again == <<ts + delay>> \o Tail(expected[c])
             queues == [expected EXCEPT ![c] = again]
  <2>3. ts + delay \in Nat /\ ts + delay <= now + MaxDelay
    BY <1>0, MaxDelayBounds
  <2>4. /\ again \in Seq(Nat) /\ Near(again) /\ again # <<>> /\ Head(again) = ts + delay
    <3>1. Tail(expected[c]) \in Seq(Nat)
      BY <2>1, HeadTailProperties DEF TimerInv, TypeOK
    <3>2. Near(again)
      BY <1>0, <2>1, <2>3, NearAgain DEF TimerInv, TypeOK, NearInv
    <3> QED BY <2>3, <3>1, <3>2
  <2> HIDE DEF again
  <2>5. queues \in Queues /\ queues[c] = again /\ \A d \in Channels : Near(queues[d])
    BY <2>4 DEF TimerInv, TypeOK, Queues, NearInv
  <2>6. expected' = queues /\ timer' \in TimersAfterResend(c, queues)
    BY <2>2 DEF again
  <2> HIDE DEF queues
  <2>7. timer'.time <= now + MaxDelay
    <3>1. CASE timer' = Noticed(timer, c, ts + delay)
      BY <1>0, <2>3, <3>1, NoticedNear DEF NearInv
    <3>2. CASE timer' \in Recalculated(queues)
      BY <2>5, <3>2, RecalculatedNear DEF TimerInv
    <3>3. CASE timer' = timer
      BY <3>3 DEF NearInv
    <3> QED BY <2>4, <2>5, <2>6, <3>1, <3>2, <3>3 DEF TimersAfterResend
  <2> QED BY <1>0, <2>5, <2>6, <2>7 DEF NearInv, Near
<1> QED BY <1>1, <1>2

LEMMA NearDestroyOpen ==
    ASSUME TimerInv, NearInv, NEW c \in open, DestroyOpen(c), UNCHANGED <<now, ts>>
    PROVE  NearInv'
<1>1. /\ c \in Channels /\ expected' = [expected EXCEPT ![c] = <<>>]
      /\ expected' \in Queues
  BY DestroyOpenSound
  DEF DestroyOpen, Destroy, DestroyChannel, ClearQueues, TimerInv, TypeOK
<1>2. \A d \in Channels : Near(expected'[d])
  BY <1>1 DEF NearInv, Near, TimerInv, TypeOK
<1>3. timer'.time <= now + MaxDelay
  <2>1. CASE timer' \in Recalculated(expected')
    BY <1>1, <1>2, <2>1, RecalculatedNear DEF TimerInv
  <2>2. CASE timer' = timer \/ timer' = [timer EXCEPT !.channel = IF @ = c THEN Dangling ELSE @]
    BY <2>2 DEF NearInv, TimerInv, TypeOK
  <2> QED BY <1>1, <2>1, <2>2 DEF DestroyOpen, Destroy, DestroyChannel
<1> QED BY <1>2, <1>3 DEF NearInv, Near

LEMMA NearStep ==
    ASSUME TimerInv, NearInv, [Next]_vars
    PROVE  NearInv'
<1>0. now \in Nat /\ ts \in Nat /\ MaxDelay \in Nat /\ timer.time \in Nat \cup {Never}
      /\ \A c \in Channels : expected[c] \in Seq(Nat)
  BY MaxDelayBounds DEF TimerInv, TypeOK
<1>1. CASE Tick
  <2>1. now' = now + 1 /\ UNCHANGED <<expected, timer, ts>>
    BY <1>1 DEF Tick, queueVars, passVars
  <2>2. \A c \in Channels : Near(expected[c])'
    BY <1>0, <2>1, LenProperties DEF NearInv, Near
  <2> QED BY <1>0, <2>1, <2>2 DEF NearInv, Never
<1>2. ASSUME NEW c \in Channels, Create(c) PROVE NearInv'
  BY <1>0, <1>2 DEF Create, NearInv, Near, queueVars, passVars, TimerInv, TypeOK
<1>3. ASSUME NEW c \in Channels, Reset(c) PROVE NearInv'
  BY <1>0, <1>3 DEF Reset, ClearQueues, NearInv, Near, passVars, TimerInv, TypeOK
<1>4. ASSUME NEW c \in Channels, ApplicationDestroys(c) PROVE NearInv'
  BY <1>4, NearDestroyOpen DEF ApplicationDestroys, passVars
<1>5. CASE DisconnectSilent
  BY <1>5, NearDestroyOpen DEF DisconnectSilent, TimerInv, TypeOK
<1>6. CASE DestroyAll
  BY <1>0, <1>6 DEF DestroyAll, NoTimer, Never, NearInv, Near, passVars
<1>7. CASE BeginPass \/ EndPass \/ UNCHANGED vars
  BY <1>0, <1>7 DEF BeginPass, EndPass, vars, queueVars, passVars, NearInv, Near
<1> QED BY <1>1, <1>2, <1>3, <1>4, <1>5, <1>6, <1>7,
           NearReceiveAck, NearSendData, NearVisit
        DEF Next

-----------------------------------------------------------------------------
\* Every action of the libev host is one of the loop's, or leaves it alone.
LEMMA EvStepIsStep == [EvNext]_allVars => [Next]_vars
<1>1. CASE EvCallbackEnd
  <2>1. CASE current = NoChannel
    BY <1>1, <2>1 DEF EvCallbackEnd, vars, passVars
  <2>2. CASE current # NoChannel
    BY <1>1, <2>2 DEF EvCallbackEnd, EndPass, Next
  <2> QED BY <2>1, <2>2
<1>2. CASE EvTick \/ EvSendOther \/ EvQuiet \/ EvFires \/ EvHostProcesses
           \/ EvDisconnect \/ EvHostEnd
  BY <1>2 DEF EvTick, EvSendOther, EvQuiet, EvFires, EvHostProcesses,
              EvDisconnect, EvHostEnd, Next
<1>3. ASSUME NEW c \in Channels, EvSendData(c) \/ EvReceiveAck(c) \/ EvVisit(c)
      PROVE  Next
  BY <1>3 DEF EvSendData, EvReceiveAck, EvVisit, Next
<1>4. CASE UNCHANGED allVars
  BY <1>4 DEF allVars, vars
<1> QED BY <1>1, <1>2, <1>3, <1>4 DEF EvNext

\* What a start does to a timer: a running one is kept, and one that is started
\* is set for a near time.
LEMMA CbStartSound ==
    ASSUME now \in Nat, NEW next \in Nat \cup {Never}, NEW tm \in Timers,
           NEW running \in BOOLEAN, at \in Nat, at <= now + MaxDelay,
           next <= now + MaxDelay, tm.time <= now + MaxDelay,
           CbStart(next, tm, running)
    PROVE  /\ started' \in BOOLEAN /\ at' \in Nat /\ at' <= now + MaxDelay
           /\ running => started'
           /\ next # Never \/ tm.time # Never => started'
<1> DEFINE tt == CbTimeout(next, tm)
<1>1. /\ tt = Never \/ (tt \in Nat /\ now + tt \in Nat /\ now + tt <= now + MaxDelay)
      /\ next # Never \/ tm.time # Never => tt # Never
  BY MaxDelayBounds DEF CbTimeout, Never, Timers
<1> HIDE DEF tt
<1>2. CASE tt = Never \/ running
  <2>1. started' = running /\ at' = IF running THEN at ELSE 0
    BY <1>2 DEF CbStart, tt
  <2>2. at' \in Nat /\ at' <= now + MaxDelay
    BY <2>1, MaxDelayBounds
  <2> QED BY <1>1, <1>2, <2>1, <2>2
<1>3. CASE ~(tt = Never \/ running)
  <2>1. started' = TRUE /\ at' = now + tt
    BY <1>3 DEF CbStart, tt
  <2> QED BY <1>1, <1>3, <2>1
<1> QED BY <1>2, <1>3

LEMMA EvInit0 == EvInit => EvInv
<1> SUFFICES ASSUME EvInit PROVE EvInv
  OBVIOUS
<1>1. TimerInv
  BY TimerInit DEF EvInit
<1>2. /\ now = 0 /\ ts = 0 /\ at = 0 /\ least = Never /\ timer.time = Never
      /\ \A c \in Channels : expected[c] = <<>>
      /\ started = FALSE /\ callback = FALSE
  BY DEF EvInit, Init, NoTimer
<1>3. /\ at \in Nat /\ least \in Nat \cup {Never} /\ ts <= now
      /\ timer.time <= now + MaxDelay /\ least <= now + MaxDelay /\ at <= now + MaxDelay
      /\ \A c \in Channels : Near(expected[c])
  BY <1>2, MaxDelayBounds DEF Never, Near
<1> QED BY <1>1, <1>2, <1>3 DEF EvInv

LEMMA EvSends ==
    ASSUME EvInv, TimerInv', NearInv', NEW c \in Channels, now' = now, ~callback,
           UNCHANGED <<callback, least>>,
           \A d \in Channels \ {c} : expected'[d] = expected[d],
           \/ Sent(timer')
           \/ UNCHANGED <<started, at>> /\ (expected'[c] = <<>> \/ expected[c] # <<>>)
    PROVE  EvInv'
<1>1. /\ now \in Nat /\ timer' \in Timers /\ MaxDelay \in Nat
      /\ timer'.time <= now + MaxDelay
  BY MaxDelayBounds DEF EvInv, TimerInv, TypeOK, Timers, NearInv
<1>2. CASE UNCHANGED <<started, at>> /\ (expected'[c] = <<>> \/ expected[c] # <<>>)
  BY <1>1, <1>2 DEF EvInv, NearInv, Near
<1>3. CASE Sent(timer')
  <2>1. Never \in Nat \cup {Never} /\ Never <= now + MaxDelay
    BY <1>1 DEF Never
  <2>2. /\ started' \in BOOLEAN /\ at' \in Nat /\ at' <= now + MaxDelay
        /\ started => started'
        /\ timer'.time # Never => started'
    BY <1>1, <1>3, <2>1, CbStartSound DEF Sent, EvInv
  <2>3. \A d \in Channels : expected'[d] # <<>> => started'
    BY <2>2 DEF TimerInv, Covers
  <2> QED BY <1>1, <2>2, <2>3 DEF EvInv, NearInv, Near
<1> QED BY <1>2, <1>3

LEMMA EvVisits ==
    ASSUME EvInv, TimerInv', NearInv', NEW c \in Channels, EvVisit(c)
    PROVE  EvInv'
<1>0. /\ UNCHANGED <<now, open, callback>> /\ visit' = visit \ {c}
      /\ \A d \in Channels \ {c} : expected'[d] = expected[d]
      /\ expected[c] = <<>> => expected' = expected
  BY DEF EvVisit, Visit, EvInv, TimerInv, TypeOK
<1>1. /\ now \in Nat /\ timer' \in Timers /\ MaxDelay \in Nat
      /\ timer'.time <= now + MaxDelay /\ Never <= now + MaxDelay
  BY <1>0, MaxDelayBounds DEF EvInv, TimerInv, TypeOK, Timers, NearInv, Never
<1>2. /\ started' \in BOOLEAN /\ at' \in Nat /\ at' <= now + MaxDelay
      /\ started => started'
      /\ expected'[c] # expected[c] => (timer'.time # Never => started')
  <2>1. CASE Sent(timer')
    BY <1>1, <2>1, CbStartSound DEF Sent, EvInv
  <2>2. CASE UNCHANGED <<started, at>> /\ expected'[c] = expected[c]
    BY <2>2 DEF EvInv
  <2> QED BY <2>1, <2>2 DEF EvVisit
<1>3. \A d \in Channels : expected'[d] # <<>> => started'
  BY <1>0, <1>2 DEF EvInv
<1>4. /\ least' \in Nat \cup {Never} /\ least' <= now + MaxDelay
      /\ expected'[c] # <<>> => least' # Never
      /\ least # Never => least' # Never
  <2>1. CASE expected'[c] = <<>>
    BY <2>1 DEF EvVisit, EvInv
  <2>2. CASE expected'[c] # <<>>
    <3>1. expected'[c] \in Seq(Nat) /\ Near(expected'[c])
      BY <1>0 DEF TimerInv, TypeOK, NearInv, Near
    <3>2. Head(expected'[c]) \in Nat /\ Head(expected'[c]) <= now + MaxDelay
      BY <2>2, <3>1, HeadTime, NearHead
    <3> QED BY <2>2, <3>2 DEF EvVisit, EvInv, Before, Never
  <2> QED BY <2>1, <2>2
<1>5. callback' => started' /\ \A d \in Channels \ visit' : expected'[d] # <<>> => least' # Never
  BY <1>0, <1>2, <1>4 DEF EvInv
<1> QED BY <1>0, <1>1, <1>2, <1>3, <1>4, <1>5 DEF EvInv, NearInv, Near

LEMMA EvPasses ==
    ASSUME EvInv, TimerInv', NearInv',
           \/ ~callback /\ (EvFires \/ EvHostProcesses)
           \/ EvDisconnect \/ EvHostEnd \/ EvCallbackEnd
    PROVE  EvInv'
<1>0. MaxDelay \in Nat /\ now \in Nat /\ Never <= now + MaxDelay
  BY MaxDelayBounds DEF EvInv, TimerInv, TypeOK, Never
<1>1. CASE ~callback /\ (EvFires \/ EvHostProcesses)
  <2>1. /\ UNCHANGED <<now, expected, started, at>> /\ least' = Never /\ visit' = open
        /\ callback' \in BOOLEAN /\ (callback' => started)
    <3>1. CASE EvFires
      BY <3>1 DEF EvFires, BeginPass, queueVars
    <3>2. CASE ~callback /\ EvHostProcesses
      <4>1. callback \in BOOLEAN
        BY DEF EvInv
      <4> QED BY <3>2, <4>1 DEF EvHostProcesses, BeginPass, queueVars
    <3> QED BY <1>1, <3>1, <3>2
  <2>2. \A c \in Channels \ visit' : expected'[c] = <<>>
    BY <2>1 DEF EvInv, TimerInv
  <2> QED BY <1>0, <2>1, <2>2 DEF EvInv, NearInv, Near
<1>2. CASE EvDisconnect
  <2>1. /\ UNCHANGED <<now, started, at, callback>> /\ least' = Never
        /\ visit' = open \ {current} /\ current \in open /\ DestroyOpen(current)
    BY <1>2 DEF EvDisconnect, DisconnectSilent, EvInv, TimerInv, TypeOK
  <2>2. expected' = [expected EXCEPT ![current] = <<>>] /\ open' = open \ {current}
    BY <2>1 DEF DestroyOpen, Destroy, DestroyChannel, ClearQueues
  <2>3. \A c \in Channels : expected'[c] = <<>> \/ expected'[c] = expected[c]
    BY <2>2 DEF EvInv, TimerInv, TypeOK
  <2>4. \A c \in Channels \ visit' : expected'[c] = <<>>
    BY <2>1, <2>2 DEF TimerInv
  <2> QED BY <1>0, <2>1, <2>3, <2>4 DEF EvInv, NearInv, Near
<1>3. CASE EvHostEnd
  BY <1>0, <1>3 DEF EvHostEnd, EndPass, queueVars, EvInv, NearInv, Near
<1>4. CASE EvCallbackEnd
  <2>1. /\ callback /\ visit = {} /\ AfterPass /\ callback' = FALSE /\ least' = Never
        /\ UNCHANGED <<now, expected, timer>>
    BY <1>4 DEF EvCallbackEnd, queueVars
  <2>2. CASE least = Never
    <3>1. \A c \in Channels : expected[c] = <<>>
      BY <2>1, <2>2 DEF EvInv
    <3>2. started' = FALSE /\ at' = 0
      BY <2>1, <2>2 DEF AfterPass
    <3>3. at' \in Nat /\ at' <= now + MaxDelay
      BY <1>0, <3>2
    <3> QED BY <1>0, <2>1, <3>1, <3>2, <3>3 DEF EvInv, NearInv, Near
  <2>3. CASE least # Never
    <3>1. CbStart(least, timer, FALSE) /\ timer \in Timers
      BY <2>1, <2>3 DEF AfterPass, EvInv, TimerInv, TypeOK, Timers
    <3>2. started' \in BOOLEAN /\ at' \in Nat /\ at' <= now + MaxDelay /\ started'
      BY <1>0, <2>3, <3>1, CbStartSound DEF EvInv
    <3> QED BY <1>0, <2>1, <3>2 DEF EvInv, NearInv, Near
  <2> QED BY <2>2, <2>3
<1> QED BY <1>1, <1>2, <1>3, <1>4

LEMMA EvQuiets ==
    ASSUME EvInv, TimerInv', NearInv', EvTick \/ (~callback /\ EvQuiet) \/ UNCHANGED allVars
    PROVE  EvInv'
<1>0. MaxDelay \in Nat /\ now \in Nat /\ now' \in Nat /\ now <= now'
      /\ UNCHANGED evVars
  <2>1. now' = now + 1 \/ now' = now
    BY DEF EvTick, Tick, EvQuiet, DestroyAll, Create, Reset, ApplicationDestroys,
           allVars, vars
  <2> QED BY <2>1, MaxDelayBounds
          DEF EvInv, TimerInv, TypeOK, EvTick, EvQuiet, allVars
<1>1. \A c \in Channels : expected'[c] = <<>> \/ expected'[c] = expected[c]
  <2>1. CASE EvTick \/ UNCHANGED allVars
    BY <2>1 DEF EvTick, Tick, queueVars, allVars, vars
  <2>2. CASE EvQuiet
    BY <2>2 DEF EvQuiet, DestroyAll, Create, Reset, ApplicationDestroys, DestroyOpen,
                Destroy, DestroyChannel, ClearQueues, queueVars, EvInv, TimerInv, TypeOK
  <2> QED BY <2>1, <2>2
<1>2. callback' => \A c \in Channels \ visit' : expected'[c] # <<>> => least' # Never
  <2>1. CASE EvTick \/ UNCHANGED allVars
    <3>1. UNCHANGED <<visit, expected, callback, least>>
      BY <2>1 DEF EvTick, Tick, queueVars, passVars, evVars, allVars, vars
    <3> QED BY <3>1 DEF EvInv
  <2>2. CASE ~callback
    BY <1>0, <2>2 DEF evVars
  <2> QED BY <2>1, <2>2
<1>3. /\ started' \in BOOLEAN /\ callback' \in BOOLEAN
      /\ callback' => started'
      /\ \A c \in Channels : expected'[c] # <<>> => started'
  BY <1>0, <1>1 DEF EvInv, evVars
<1>4. /\ at' \in Nat /\ at' <= now' + MaxDelay
      /\ least' \in Nat \cup {Never} /\ least' <= now' + MaxDelay
  <2>1. at' = at /\ least' = least
    BY <1>0 DEF evVars
  <2>2. /\ at \in Nat /\ at <= now + MaxDelay
        /\ least \in Nat \cup {Never} /\ least <= now + MaxDelay
    BY DEF EvInv
  <2>3. now + MaxDelay \in Nat /\ now' + MaxDelay \in Nat /\ now + MaxDelay <= now' + MaxDelay
    <3>1. ASSUME NEW m \in Nat, NEW n \in Nat, NEW d \in Nat, m <= n
          PROVE  m + d \in Nat /\ n + d \in Nat /\ m + d <= n + d
      BY <3>1
    <3> QED BY <1>0, <3>1
  <2>4. ASSUME NEW m \in Int, NEW n \in Int, NEW t \in Int, t <= m, m <= n
        PROVE  t <= n
    BY <2>4
  <2>5. at <= now' + MaxDelay /\ least <= now' + MaxDelay /\ least \in Int
    BY <2>2, <2>3, <2>4 DEF Never
  <2> QED BY <2>1, <2>2, <2>5
<1> QED BY <1>2, <1>3, <1>4 DEF EvInv, NearInv, Near

LEMMA EvStep == EvInv /\ [EvNext]_allVars => EvInv'
<1> SUFFICES ASSUME EvInv, [EvNext]_allVars PROVE EvInv'
  OBVIOUS
<1>1. TimerInv' /\ NearInv'
  BY EvStepIsStep, TimerStep, NearStep DEF EvInv, NearInv
<1>2. ASSUME NEW c \in Channels, EvSendData(c), ~callback PROVE EvInv'
  <2>1. /\ now' = now /\ UNCHANGED <<callback, least>>
        /\ \A d \in Channels \ {c} : expected'[d] = expected[d]
        /\ Sent(timer') \/ (UNCHANGED <<started, at>> /\ expected'[c] = expected[c])
    <3>1. /\ now' = now /\ \A d \in Channels \ {c} : expected'[d] = expected[d]
      BY <1>2 DEF EvSendData, SendData, EvInv, TimerInv, TypeOK
    <3>2. UNCHANGED <<callback, least>>
      BY <1>2 DEF EvSendData
    <3>3. Sent(timer') \/ (UNCHANGED <<started, at>> /\ expected'[c] = expected[c])
      BY <1>2, Zenon DEF EvSendData
    <3> QED BY <3>1, <3>2, <3>3
  <2> QED BY <1>1, <1>2, <2>1, EvSends
<1>3. ASSUME NEW c \in Channels, EvReceiveAck(c), ~callback PROVE EvInv'
  <2>1. expected[c] # <<>>
    BY <1>3 DEF EvReceiveAck, ReceiveAck
  <2>2. /\ now' = now /\ UNCHANGED <<callback, least>>
        /\ \A d \in Channels \ {c} : expected'[d] = expected[d]
        /\ Sent(timer') \/ UNCHANGED <<started, at>>
    BY <1>3 DEF EvReceiveAck, ReceiveAck, EvInv, TimerInv, TypeOK
  <2> QED BY <1>1, <1>3, <2>1, <2>2, EvSends
<1>4. ASSUME EvSendOther, ~callback PROVE EvInv'
  <2>1. /\ UNCHANGED <<vars, callback, least>> /\ Sent(timer') /\ now' = now
        /\ expected' = expected /\ visit' = visit
    BY <1>4 DEF EvSendOther, vars, queueVars, passVars
  <2>2. CASE Channels = {}
    <3>1. started' \in BOOLEAN /\ at' \in Nat /\ at' <= now + MaxDelay
      BY <1>1, <2>1, CbStartSound, MaxDelayBounds
      DEF Sent, EvInv, TimerInv, TypeOK, Timers, NearInv, Never
    <3> QED BY <1>1, <1>4, <2>1, <2>2, <3>1 DEF EvInv, NearInv
  <2>3. CASE Channels # {}
    BY <1>1, <1>4, <2>1, <2>3, EvSends
  <2> QED BY <2>2, <2>3
<1> QED BY <1>1, <1>2, <1>3, <1>4, EvVisits, EvPasses, EvQuiets DEF EvNext

LEMMA EvInvIsEnough == EvInv => NeverLate /\ NoPacketWithoutTimer
BY CoveredIsNeverLate DEF EvInv, NoPacketWithoutTimer, TimerInv, TypeOK

\* The libev host, with its callbacks, implements the loop of TrudpSendTimer.
THEOREM EvImplementsLoop == EvSpec => Spec
<1>1. EvInit => Init
  BY DEF EvInit
<1> QED BY <1>1, EvStepIsStep, PTL DEF EvSpec, Spec

\* For any channels, delays and window, whatever the application does between
\* and during the callbacks: while a packet awaits its ACK the ev_timer runs
\* and calls back within the longest retransmission delay.
THEOREM PacketsHaveATimer == EvSpec => [](NeverLate /\ NoPacketWithoutTimer)
BY EvInit0, EvStep, EvInvIsEnough, PTL DEF EvSpec
=============================================================================
