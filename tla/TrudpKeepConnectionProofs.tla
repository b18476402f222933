--------------------- MODULE TrudpKeepConnectionProofs ---------------------
(***************************************************************************)
(* Keep-alive, for every delay, option, latency and number of losses: the  *)
(* channel of two living ends lasts as long as the timeout has the patience *)
(* for the losses, a dead peer is noticed in time, and DISCONNECTED tells  *)
(* of a silence that has lasted.                                           *)
(***************************************************************************)
EXTENDS TrudpKeepConnection, TLAPS

-----------------------------------------------------------------------------
\* The clock values of a behaviour, the call and the channel of every end.
KeepTypes ==
    /\ now \in Start .. MaxTime
    /\ up \subseteq Nodes /\ connected \subseteq Nodes
    /\ lastReceived \in [Nodes -> Nat]
    /\ lastSentPing \in [Nodes -> Nat]
    /\ polled \in [Nodes -> Nat]
    /\ ts \in [Nodes -> Nat \cup {NoCall}]
    /\ \A d \in inFlight : d.to \in Nodes /\ d.due \in Nat
    /\ lost \in 0 .. MaxLost
    /\ silence \in [Nodes -> Int]

\* Nothing is later than the clock; a call under way has read it at most one
\* unit ago, and no PING has been sent since.
TimesKept(n) ==
    /\ Start <= lastReceived[n] /\ lastReceived[n] <= now
    /\ lastSentPing[n] <= now
    /\ polled[n] <= now
    /\ ~Idle(n) => ts[n] <= now /\ now <= ts[n] + 1 /\ lastSentPing[n] <= ts[n]
    /\ Alive(n) => now <= polled[n] + PollPeriod

FlightKept == \A d \in inFlight : now <= d.due /\ d.due <= now + Latency

KeepInv == KeepTypes /\ FlightKept /\ \A n \in Nodes : TimesKept(n)

\* The loop that polled the channel last had not heard of it for at most the
\* timeout, counted from the clock value it had read.
NoticeInv ==
    \A n \in Nodes : Alive(n) => polled[n] <= lastReceived[n] + DisconnectDelay + 1

\* Nothing arrives during a call, and an application that does not connect
\* again leaves the timestamps alone.
SilenceInv ==
    \A n \in Nodes :
        /\ ~Idle(n) => lastReceived[n] <= ts[n]
        /\ silence[n] # NoEvent => silence[n] > DisconnectDelay

-----------------------------------------------------------------------------
\* The options yield a delay in microseconds.
LEMMA Delays ==
    FirstPingDelay \in Nat /\ NextPingDelay \in Nat /\ DisconnectDelay \in Nat
<1>1. \A o \in Nat : o * Millisecond \in Nat
  BY KeepAssumption
<1>2. /\ FirstPingOption \in Nat /\ NextPingOption \in Nat /\ DisconnectOption \in Nat
      /\ FirstPingDefault \in Nat /\ NextPingDefault \in Nat /\ DisconnectDefault \in Nat
  BY KeepAssumption
<1>3. \A o, default \in Nat : Delay(o, default) \in Nat
  BY <1>1 DEF Delay
<1> QED BY <1>2, <1>3 DEF FirstPingDelay, NextPingDelay, DisconnectDelay

LEMMA Constants ==
    /\ Start \in Nat /\ Start > 0 /\ Start <= MaxTime
    /\ PollPeriod \in Nat /\ PollPeriod > 0 /\ Latency \in Nat
    /\ MaxTime \in Nat /\ MaxLost \in Nat /\ TimeModulus \in Nat
    /\ \A n \in Nodes : Peer[n] \in Nodes /\ Peer[n] # n /\ Peer[Peer[n]] = n
BY Delays, KeepAssumption, TimeAssumption DEF Start

\* Two moments of a behaviour in their order are not a cycle of the clock apart.
LEMMA ElapsedInOrder ==
    ASSUME NEW t \in Nat, NEW s \in Nat, s <= t, t <= MaxTime
    PROVE  Elapsed(t, s) = t - s
<1>1. TimeModulus \in Nat /\ t - s \in Nat /\ t - s < TimeModulus
  BY TimeAssumption, Constants, Delays
<1>2. \A a, m \in Nat : a < m => a % m = a
  OBVIOUS
<1> QED BY <1>1, <1>2 DEF Elapsed

\* What is on its way after a datagram has been sent.
LEMMA DatagramSound ==
    ASSUME NEW n \in Nodes, NEW type, NEW d \in Datagram(n, type)
    PROVE  d.to = n /\ d.type = type /\ d.due = now + Latency
BY DEF Datagram

-----------------------------------------------------------------------------
LEMMA KeepInit == Init => KeepInv
<1> SUFFICES ASSUME Init PROVE KeepInv
  OBVIOUS
<1> USE Constants DEF Init
<1>1. KeepTypes
  BY DEF KeepTypes, NoCall, NoEvent
<1>2. FlightKept
  BY DEF FlightKept
<1>3. ASSUME NEW n \in Nodes PROVE TimesKept(n)
  BY DEF TimesKept, Idle, Alive
<1> QED BY <1>1, <1>2, <1>3 DEF KeepInv

\* What DISCONNECTED leaves: no channel, or one made anew.
LEMMA DisconnectKeeps ==
    ASSUME KeepInv, NEW n \in Nodes, Alive(n), ~Idle(n), Disconnect(n),
           polled' = polled \/ polled' = [polled EXCEPT ![n] = now],
           UNCHANGED <<now, up, sent, lost>>
    PROVE  KeepInv'
<1> USE Constants
<1>1. KeepTypes'
  BY DEF KeepInv, KeepTypes, Disconnect, channelVars, NoCall
<1>2. FlightKept'
  BY DEF KeepInv, FlightKept, Disconnect
<1>3. ASSUME NEW m \in Nodes PROVE TimesKept(m)'
  <2>1. TimesKept(m) /\ KeepTypes
    BY DEF KeepInv
  <2>2. CASE m = n
    BY <2>1, <2>2 DEF TimesKept, KeepTypes, Disconnect, channelVars, Idle, Alive, NoCall
  <2>3. CASE m # n
    BY <2>1, <2>3 DEF TimesKept, KeepTypes, Disconnect, channelVars, Idle, Alive
  <2> QED BY <2>2, <2>3
<1> QED BY <1>1, <1>2, <1>3 DEF KeepInv

LEMMA KeepStep == KeepInv /\ [Next]_vars => KeepInv'
<1> SUFFICES ASSUME KeepInv, [Next]_vars PROVE KeepInv'
  OBVIOUS
<1> USE Constants
<1>k. KeepTypes /\ FlightKept /\ \A n \in Nodes : TimesKept(n)
  BY DEF KeepInv
<1>1. CASE UNCHANGED vars
  <2>1. KeepTypes' /\ FlightKept'
    BY <1>k, <1>1 DEF vars, channelVars, KeepTypes, FlightKept
  <2>2. \A n \in Nodes : TimesKept(n)'
    BY <1>k, <1>1 DEF vars, channelVars, TimesKept, Idle, Alive
  <2> QED BY <2>1, <2>2 DEF KeepInv
<1>2. CASE Tick
  <2>1. KeepTypes' /\ FlightKept'
    BY <1>k, <1>2 DEF Tick, channelVars, KeepTypes, FlightKept
  <2>2. \A n \in Nodes : TimesKept(n)'
    BY <1>k, <1>2 DEF Tick, channelVars, TimesKept, Idle, Alive, KeepTypes
  <2> QED BY <2>1, <2>2 DEF KeepInv
<1>3. CASE Lose
  <2>1. KeepTypes' /\ FlightKept'
    BY <1>k, <1>3 DEF Lose, channelVars, KeepTypes, FlightKept
  <2>2. \A n \in Nodes : TimesKept(n)'
    BY <1>k, <1>3 DEF Lose, channelVars, TimesKept, Idle, Alive
  <2> QED BY <2>1, <2>2 DEF KeepInv
<1>4. ASSUME NEW n \in Nodes, CallKeepConnection(n) PROVE KeepInv'
  <2>1. KeepTypes' /\ FlightKept'
    BY <1>k, <1>4 DEF CallKeepConnection, channelVars, KeepTypes, FlightKept
  <2>2. \A m \in Nodes : TimesKept(m)'
    BY <1>k, <1>4 DEF CallKeepConnection, channelVars, TimesKept, Idle, Alive, KeepTypes, NoCall
  <2> QED BY <2>1, <2>2 DEF KeepInv
<1>5. ASSUME NEW n \in Nodes, KeepConnection(n) PROVE KeepInv'
  <2>1. CASE Disconnect(n)
    BY <1>5, <2>1, DisconnectKeeps DEF KeepConnection
  <2>2. CASE ~Disconnect(n)
    <3>1. /\ ts' = [ts EXCEPT ![n] = NoCall]
          /\ \/ UNCHANGED <<inFlight, lastSentPing>>
             \/ SendPing(n)
          /\ polled' = [polled EXCEPT ![n] = now]
          /\ UNCHANGED <<connected, lastReceived, silence, now, up, sent, lost>>
      BY <1>5, <2>2 DEF KeepConnection, channelVars
    <3>2. KeepTypes'
      BY <1>k, <3>1, DatagramSound DEF KeepTypes, SendPing
    <3>3. FlightKept'
      BY <1>k, <3>1, DatagramSound DEF FlightKept, KeepTypes, SendPing
    <3>4. \A m \in Nodes : TimesKept(m)'
      BY <1>k, <3>1 DEF TimesKept, KeepTypes, SendPing, Idle, Alive
    <3> QED BY <3>2, <3>3, <3>4 DEF KeepInv
  <2> QED BY <2>1, <2>2
<1>6. ASSUME NEW n \in Nodes, CheckSendQueue(n) PROVE KeepInv'
  <2>1. CASE Disconnect(n)
    BY <1>6, <2>1, DisconnectKeeps DEF CheckSendQueue
  <2>2. CASE ~Disconnect(n)
    <3>1. /\ ts' = [ts EXCEPT ![n] = NoCall]
          /\ UNCHANGED <<connected, lastReceived, lastSentPing, inFlight, silence,
                         now, up, polled, sent, lost>>
      BY <1>6, <2>2 DEF CheckSendQueue, channelVars
    <3>2. KeepTypes' /\ FlightKept'
      BY <1>k, <3>1 DEF KeepTypes, FlightKept
    <3>3. \A m \in Nodes : TimesKept(m)'
      BY <1>k, <3>1 DEF TimesKept, KeepTypes, Idle, Alive
    <3> QED BY <3>2, <3>3 DEF KeepInv
  <2> QED BY <2>1, <2>2
<1>7. ASSUME NEW n \in Nodes, Send(n) PROVE KeepInv'
  <2>1. KeepTypes' /\ FlightKept'
    BY <1>k, <1>7, DatagramSound DEF Send, channelVars, KeepTypes, FlightKept
  <2>2. \A m \in Nodes : TimesKept(m)'
    BY <1>k, <1>7 DEF Send, channelVars, TimesKept, Idle, Alive
  <2> QED BY <2>1, <2>2 DEF KeepInv
<1>8. ASSUME NEW n \in Nodes, Receive(n) PROVE KeepInv'
  <2>1. PICK d \in inFlight :
          /\ d.to = n
          /\ \/ /\ inFlight' = inFlight \ {d}
                /\ UNCHANGED <<connected, lastReceived, lastSentPing, polled>>
             \/ /\ Answer(n, d)
                /\ connected' = connected \cup {n}
                /\ polled' = [polled EXCEPT ![n] = IF n \in connected THEN @ ELSE now]
                /\ lastSentPing' = [lastSentPing EXCEPT ![n] =
                      IF n \notin connected \/ d.type \in {"RESET", "ACK_RESET"} THEN 0 ELSE @]
    BY <1>8 DEF Receive, channelVars
  <2>2. UNCHANGED <<now, up, ts, sent, lost, silence>> /\ Idle(n)
    BY <1>8 DEF Receive
  <2>3. \A e \in inFlight' : e \in inFlight \/ (e.to = Peer[n] /\ e.due = now + Latency)
    BY <2>1, DatagramSound DEF Answer
  <2>4. KeepTypes'
    BY <1>k, <2>1, <2>2, <2>3 DEF KeepTypes, Answer
  <2>5. FlightKept'
    BY <1>k, <2>2, <2>3 DEF KeepTypes, FlightKept
  <2>6. ASSUME NEW m \in Nodes PROVE TimesKept(m)'
    <3>1. CASE m = n
      BY <1>k, <2>1, <2>2, <3>1 DEF TimesKept, KeepTypes, Answer, Idle, Alive
    <3>2. CASE m # n
      BY <1>k, <2>1, <2>2, <3>2 DEF TimesKept, KeepTypes, Answer, Idle, Alive
    <3> QED BY <3>1, <3>2
  <2> QED BY <2>4, <2>5, <2>6 DEF KeepInv
<1>9. ASSUME NEW n \in Nodes, Die(n) PROVE KeepInv'
  <2>1. KeepTypes' /\ FlightKept'
    BY <1>k, <1>9 DEF Die, channelVars, KeepTypes, FlightKept
  <2>2. \A m \in Nodes : TimesKept(m)'
    BY <1>k, <1>9 DEF Die, channelVars, KeepTypes, TimesKept, Idle, Alive
  <2> QED BY <2>1, <2>2 DEF KeepInv
<1> QED BY <1>1, <1>2, <1>3, <1>4, <1>5, <1>6, <1>7, <1>8, <1>9 DEF Next

\* The invariant of every theorem below.
THEOREM KeepTimes == Spec => []KeepInv
BY KeepInit, KeepStep, PTL DEF Spec

-----------------------------------------------------------------------------
(***************************************************************************)
(* A dead peer is noticed: what a call that leaves the channel alone knows *)
(* is that the peer was heard of within the timeout of its clock value.    *)
(***************************************************************************)
LEMMA NoticeStep ==
    FirstPingDelay <= DisconnectDelay =>
        (KeepInv /\ NoticeInv /\ [Next]_vars => NoticeInv')
<1> SUFFICES ASSUME FirstPingDelay <= DisconnectDelay, KeepInv, NoticeInv, [Next]_vars,
                    NEW m \in Nodes, Alive(m)'
             PROVE  (polled[m] <= lastReceived[m] + DisconnectDelay + 1)'
  BY DEF NoticeInv
<1> USE Constants, Delays
<1>k. KeepTypes /\ TimesKept(m) /\ lastReceived[m] \in Nat /\ polled[m] \in Nat /\ now \in Nat
  BY DEF KeepInv, KeepTypes
<1>i. Alive(m) => polled[m] <= lastReceived[m] + DisconnectDelay + 1
  BY DEF NoticeInv
<1>1. CASE \/ Tick \/ Lose \/ UNCHANGED vars
           \/ \E n \in Nodes : CallKeepConnection(n) \/ Send(n) \/ Die(n)
  BY <1>k, <1>i, <1>1 DEF Tick, Lose, CallKeepConnection, Send, Die, Alive, vars, channelVars
<1>2. ASSUME NEW n \in Nodes, KeepConnection(n) \/ CheckSendQueue(n), n # m
      PROVE  (polled[m] <= lastReceived[m] + DisconnectDelay + 1)'
  BY <1>k, <1>i, <1>2 DEF KeepConnection, CheckSendQueue, Disconnect, SendPing, Alive,
                         channelVars, KeepTypes
<1>3. CASE Disconnect(m) /\ UNCHANGED <<now, up>> /\ (polled' = polled \/ polled' = [polled EXCEPT ![m] = now])
  BY <1>k, <1>3 DEF Disconnect, Alive, channelVars, KeepTypes, TimesKept
<1>4. CASE CheckSendQueue(m) /\ ~Disconnect(m)
  BY <1>k, <1>i, <1>4 DEF CheckSendQueue, Alive, channelVars
<1>5. CASE KeepConnection(m) /\ ~Disconnect(m)
  <2>1. /\ Alive(m) /\ ~Idle(m)
        /\ polled'[m] = now /\ lastReceived' = lastReceived
        /\ \/ Elapsed(ts[m], lastReceived[m]) <= FirstPingDelay
           \/ ~Silent(m, ts[m])
    BY <1>k, <1>5 DEF KeepConnection, channelVars, KeepTypes, SendPing
  <2>2. ts[m] \in Nat /\ ts[m] <= now /\ now <= ts[m] + 1 /\ now <= MaxTime /\ lastReceived[m] # 0
    BY <1>k, <2>1 DEF KeepTypes, TimesKept, Idle
  <2>3. CASE ts[m] < lastReceived[m]
    BY <1>k, <2>1, <2>2, <2>3
  <2>4. CASE lastReceived[m] <= ts[m]
    <3>1. Elapsed(ts[m], lastReceived[m]) = ts[m] - lastReceived[m]
      BY <1>k, <2>2, <2>4, ElapsedInOrder
    <3> QED BY <1>k, <2>1, <2>2, <3>1 DEF Silent
  <2> QED BY <1>k, <2>2, <2>3, <2>4
<1>6. ASSUME NEW n \in Nodes, Receive(n)
      PROVE  (polled[m] <= lastReceived[m] + DisconnectDelay + 1)'
  BY <1>k, <1>i, <1>6 DEF Receive, Answer, Alive, channelVars, KeepTypes, TimesKept
<1>7. (KeepConnection(m) \/ CheckSendQueue(m)) /\ Disconnect(m) =>
        UNCHANGED <<now, up>> /\ (polled' = polled \/ polled' = [polled EXCEPT ![m] = now])
  BY DEF KeepConnection, CheckSendQueue
<1> QED BY <1>1, <1>2, <1>3, <1>4, <1>5, <1>6, <1>7 DEF Next

\* A dead peer is noticed: with a first PING that is not later than the
\* timeout, an end that lives has heard of its peer within the timeout, the
\* poll period and the unit a call may take (trudpProcessKeepConnection).
THEOREM DeadPeersAreNoticed ==
    FirstPingDelay <= DisconnectDelay => (Spec => []DeadPeerIsNoticed)
<1> SUFFICES ASSUME FirstPingDelay <= DisconnectDelay
             PROVE  Spec => []DeadPeerIsNoticed
  OBVIOUS
<1>1. Init => NoticeInv
  BY Constants, Delays DEF Init, NoticeInv
<1>2. KeepInv /\ NoticeInv => DeadPeerIsNoticed
  BY Constants, Delays DEF KeepInv, KeepTypes, TimesKept, NoticeInv, DeadPeerIsNoticed
<1>3. KeepInv /\ NoticeInv /\ [Next]_vars => NoticeInv'
  BY NoticeStep
<1> QED BY <1>1, <1>2, <1>3, KeepTimes, PTL DEF Spec

-----------------------------------------------------------------------------
(***************************************************************************)
(* DISCONNECTED tells of a silence: the clock value of a call is not older *)
(* than what has arrived, until the application makes the channel anew     *)
(* inside the call.                                                        *)
(***************************************************************************)
LEMMA SilenceStep ==
    ~Reconnects => (KeepInv /\ SilenceInv /\ [Next]_vars => SilenceInv')
<1> SUFFICES ASSUME ~Reconnects, KeepInv, SilenceInv, [Next]_vars, NEW m \in Nodes
             PROVE  (/\ ~Idle(m) => lastReceived[m] <= ts[m]
                     /\ silence[m] # NoEvent => silence[m] > DisconnectDelay)'
  BY DEF SilenceInv
<1> USE Constants, Delays
<1>k. KeepTypes /\ TimesKept(m)
  BY DEF KeepInv
<1>i. /\ ~Idle(m) => lastReceived[m] <= ts[m]
      /\ silence[m] # NoEvent => silence[m] > DisconnectDelay
  BY DEF SilenceInv
<1>1. CASE \/ Tick \/ Lose \/ UNCHANGED vars
           \/ \E n \in Nodes : CallKeepConnection(n) \/ Send(n) \/ Die(n)
  BY <1>k, <1>i, <1>1 DEF Tick, Lose, CallKeepConnection, Send, Die, Idle, vars, channelVars,
                          KeepTypes, TimesKept
<1>2. ASSUME NEW n \in Nodes, Receive(n)
      PROVE  (/\ ~Idle(m) => lastReceived[m] <= ts[m]
              /\ silence[m] # NoEvent => silence[m] > DisconnectDelay)'
  BY <1>k, <1>i, <1>2 DEF Receive, Answer, Idle, channelVars, KeepTypes
<1>3. ASSUME NEW n \in Nodes, KeepConnection(n) \/ CheckSendQueue(n)
      PROVE  (/\ ~Idle(m) => lastReceived[m] <= ts[m]
              /\ silence[m] # NoEvent => silence[m] > DisconnectDelay)'
  <2>1. CASE n # m
    BY <1>k, <1>i, <1>3, <2>1 DEF KeepConnection, CheckSendQueue, Disconnect, SendPing, Idle,
                                 channelVars, KeepTypes
  <2>2. CASE n = m /\ ~Disconnect(m)
    <3>1. ts'[m] = NoCall /\ silence' = silence
      BY <1>k, <1>3, <2>2 DEF KeepConnection, CheckSendQueue, channelVars, KeepTypes
    <3> QED BY <1>i, <3>1 DEF Idle
  <2>3. CASE n = m /\ Disconnect(m)
    <3>1. CASE ~Silent(m, ts[m])
      <4>1. ts'[m] = NoCall /\ silence' = silence
        BY <1>k, <1>3, <2>3, <3>1 DEF KeepConnection, CheckSendQueue, channelVars, KeepTypes
      <4> QED BY <1>i, <4>1 DEF Idle
    <3>2. CASE Silent(m, ts[m])
      <4>1. ~Idle(m) /\ ts[m] \in Nat /\ lastReceived[m] \in Nat /\ now \in Nat
        BY <1>k, <1>3, <2>3 DEF KeepConnection, CheckSendQueue, KeepTypes, Idle
      <4>2. ts[m] <= now /\ now <= MaxTime /\ lastReceived[m] <= ts[m]
        BY <1>k, <1>i, <4>1 DEF KeepTypes, TimesKept
      <4>3. ts[m] - lastReceived[m] > DisconnectDelay
        BY <3>2, <4>1, <4>2, ElapsedInOrder DEF Silent
      <4>4. ts'[m] = NoCall /\ silence'[m] = now - lastReceived[m]
        BY <1>k, <2>3 DEF Disconnect, KeepTypes
      <4> QED BY <4>1, <4>2, <4>3, <4>4 DEF Idle
    <3> QED BY <3>1, <3>2
  <2> QED BY <2>1, <2>2, <2>3
<1> QED BY <1>1, <1>2, <1>3 DEF Next

\* The DISCONNECTED event tells of a channel on which nothing has arrived for
\* the timeout (trudp_channel.c:306), as long as the application does not
\* connect again inside the event.
THEOREM DisconnectsAfterSilence ==
    ~Reconnects => (Spec => []DisconnectedAfterSilence)
<1> SUFFICES ASSUME ~Reconnects
             PROVE  Spec => []DisconnectedAfterSilence
  OBVIOUS
<1>1. Init => SilenceInv
  BY DEF Init, SilenceInv, Idle
<1>2. SilenceInv => DisconnectedAfterSilence
  BY DEF SilenceInv, DisconnectedAfterSilence
<1>3. KeepInv /\ SilenceInv /\ [Next]_vars => SilenceInv'
  BY SilenceStep
<1> QED BY <1>1, <1>2, <1>3, KeepTimes, PTL DEF Spec

-----------------------------------------------------------------------------
(***************************************************************************)
(* Two living ends stay connected.  For each end something vouches that it *)
(* will hear of its peer while the timeout is patient: a datagram on its   *)
(* way to it, a PING of its own on its way to the peer, or the next PING,  *)
(* which is due early enough.  A loss takes one of these away, and what is *)
(* left is the next PING with the patience for one more loss.              *)
(***************************************************************************)
\* the longest an end waits for a PING after a sign of life
PingDelay == IF FirstPingDelay >= NextPingDelay THEN FirstPingDelay ELSE NextPingDelay

\* The longest way to a PING that follows a lost one.  Where a round trip fits
\* between two PINGs the answer has come when the next is due, and the lost
\* PING is the last one sent.
RetryDelay ==
    NextPingDelay + PollPeriod + 1 +
        (IF 2 * Latency <= NextPingDelay THEN 0 ELSE 2 * Latency)

\* the latest PING, and the latest sign of life, after l losses
PingBy(l) == PingDelay + PollPeriod + 1 + l * RetryDelay
Patience(l) == PingBy(l) + 2 * Latency

\* the clock value after which the next call of the event loop sends a PING
PingTime(n) ==
    IF lastSentPing[n] + NextPingDelay >= lastReceived[n] + FirstPingDelay
    THEN lastSentPing[n] + NextPingDelay
    ELSE lastReceived[n] + FirstPingDelay

NextPing(n) == PingTime(n) + PollPeriod + 1 <= lastReceived[n] + PingBy(lost)

\* A datagram that reaches an end by t vouches for it.
Vouches(n, d, t) ==
    \/ d.to = n /\ d.due <= t
    \/ d.to = Peer[n] /\ d.type = "PING" /\ d.due + Latency <= t

OnItsWay(n) ==
    /\ \E d \in inFlight :
        /\ Vouches(n, d, lastReceived[n] + Patience(lost))
        /\ 2 * Latency <= NextPingDelay => Vouches(n, d, lastSentPing[n] + 2 * Latency)
    /\ lastSentPing[n] + NextPingDelay + PollPeriod + 1
          <= lastReceived[n] + PingBy(lost) + RetryDelay

LiveInv(n) ==
    /\ ~Idle(n) => lastReceived[n] <= ts[n]
    /\ polled[n] <= PingTime(n) + 1
    /\ NextPing(n) \/ OnItsWay(n)

KeptAlive == up = Nodes => connected = Nodes /\ \A n \in Nodes : LiveInv(n)

\* One more loss costs one more retry.
LEMMA PatienceSteps ==
    /\ RetryDelay \in Nat /\ PingDelay \in Nat
    /\ \A l \in Nat : PingBy(l) \in Nat /\ Patience(l) \in Nat
    /\ \A l \in Nat : PingBy(l + 1) = PingBy(l) + RetryDelay
    /\ \A l \in Nat : PingDelay + PollPeriod + 1 <= PingBy(l)
    /\ \A l \in 0 .. MaxLost : Patience(l) <= Patience(MaxLost)
<1> USE Constants, Delays
<1>1. RetryDelay \in Nat /\ PingDelay \in Nat
  BY DEF RetryDelay, PingDelay
<1>2. \A r, l, m \in Nat : /\ l * r \in Nat /\ (l + 1) * r = l * r + r
                           /\ l <= m => l * r <= m * r
  <2>1. ASSUME NEW r \in Nat, NEW l \in Nat, NEW m \in Nat, l <= m PROVE l * r <= m * r
    <3>1. PICK k \in Nat : m = l + k
      <4>1. m - l \in Nat /\ m = l + (m - l)
        BY <2>1
      <4> QED BY <4>1
    <3>2. m * r = l * r + k * r /\ k * r \in Nat /\ l * r \in Nat
      BY <3>1
    <3> QED BY <3>2
  <2> QED BY <2>1
<1>3. \A l \in Nat : l * RetryDelay \in Nat /\ (l + 1) * RetryDelay = l * RetryDelay + RetryDelay
  BY <1>1, <1>2
<1>4. \A l \in 0 .. MaxLost : l * RetryDelay <= MaxLost * RetryDelay
  BY <1>1, <1>2
<1>5. \A l \in Nat : PingBy(l) \in Nat /\ Patience(l) \in Nat
  BY <1>1, <1>3 DEF PingBy, Patience
<1>6. \A l \in Nat : PingBy(l + 1) = PingBy(l) + RetryDelay
  BY <1>1, <1>3 DEF PingBy
<1>7. \A l \in Nat : PingDelay + PollPeriod + 1 <= PingBy(l)
  BY <1>1, <1>3 DEF PingBy
<1>8. \A l \in 0 .. MaxLost : Patience(l) <= Patience(MaxLost)
  BY <1>1, <1>3, <1>4 DEF PingBy, Patience
<1> QED BY <1>1, <1>5, <1>6, <1>7, <1>8

\* Whoever vouches for a living end does so until a moment still to come.
LEMMA InPatience ==
    ASSUME KeepInv, NEW n \in Nodes, Alive(n), LiveInv(n)
    PROVE  now <= lastReceived[n] + Patience(lost)
<1> USE Constants, Delays, PatienceSteps
<1>1. /\ now \in Nat /\ lastReceived[n] \in Nat /\ polled[n] \in Nat /\ lost \in Nat
      /\ lastSentPing[n] \in Nat /\ now <= polled[n] + PollPeriod
      /\ \A d \in inFlight : d.due \in Nat /\ now <= d.due
  BY DEF KeepInv, KeepTypes, TimesKept, FlightKept
<1>2. PingBy(lost) \in Nat /\ Patience(lost) \in Nat /\ Patience(lost) = PingBy(lost) + 2 * Latency
  BY <1>1 DEF Patience
<1>3. CASE NextPing(n)
  BY <1>1, <1>2, <1>3, SMTT(30) DEF LiveInv, NextPing, PingTime
<1>4. CASE OnItsWay(n)
  BY <1>1, <1>2, <1>4 DEF OnItsWay, Vouches
<1> QED BY <1>3, <1>4 DEF LiveInv

\* so no call finds its channel silent.
LEMMA NeverSilent ==
    ASSUME KeepInv, NEW n \in Nodes, Alive(n), LiveInv(n), ~Idle(n),
           Patience(MaxLost) <= DisconnectDelay
    PROVE  /\ ~Silent(n, ts[n])
           /\ Elapsed(ts[n], lastReceived[n]) = ts[n] - lastReceived[n]
           /\ Elapsed(ts[n], lastSentPing[n]) = ts[n] - lastSentPing[n]
<1> USE Constants, Delays
<1>1. /\ now \in Nat /\ now <= MaxTime /\ lastReceived[n] \in Nat /\ lastSentPing[n] \in Nat
      /\ ts[n] \in Nat /\ ts[n] <= now /\ lastSentPing[n] <= ts[n] /\ lost \in 0 .. MaxLost
  BY DEF KeepInv, KeepTypes, TimesKept, Idle
<1>2. lastReceived[n] <= ts[n]
  BY DEF LiveInv
<1>3. /\ Elapsed(ts[n], lastReceived[n]) = ts[n] - lastReceived[n]
      /\ Elapsed(ts[n], lastSentPing[n]) = ts[n] - lastSentPing[n]
  BY <1>1, <1>2, ElapsedInOrder
<1>4. Patience(lost) <= Patience(MaxLost) /\ Patience(lost) \in Nat /\ Patience(MaxLost) \in Nat
  BY <1>1, PatienceSteps
<1>5. now <= lastReceived[n] + Patience(lost)
  BY InPatience
<1> QED BY <1>1, <1>3, <1>4, <1>5 DEF Silent

\* An end whose timestamps stay keeps whoever vouches for it, while no
\* datagram is taken away.
LEMMA StillVouched ==
    ASSUME NEW n \in Nodes, LiveInv(n), inFlight \subseteq inFlight', lost' = lost,
           lastReceived'[n] = lastReceived[n], lastSentPing'[n] = lastSentPing[n],
           polled'[n] = polled[n], ts'[n] = ts[n] \/ ts'[n] = NoCall
    PROVE  LiveInv(n)'
<1>1. PingTime(n)' = PingTime(n) /\ PingBy(lost)' = PingBy(lost) /\ Patience(lost)' = Patience(lost)
  BY DEF PingTime, PingBy, Patience, PingDelay, RetryDelay
<1>2. NextPing(n) => NextPing(n)'
  BY <1>1 DEF NextPing
<1>3. OnItsWay(n) => OnItsWay(n)'
  BY <1>1 DEF OnItsWay, Vouches
<1>4. (~Idle(n) => lastReceived[n] <= ts[n])' /\ (polled[n] <= PingTime(n) + 1)'
  BY <1>1 DEF LiveInv, Idle
<1> QED BY <1>2, <1>3, <1>4 DEF LiveInv

\* After a loss the next PING comes in the time of one more retry.
LEMMA LossVouched ==
    ASSUME KeepInv, NEW n \in Nodes, LiveInv(n), Lose
    PROVE  LiveInv(n)'
<1> USE Constants, Delays, PatienceSteps
<1>1. /\ lastReceived[n] \in Nat /\ lastSentPing[n] \in Nat /\ lost \in Nat /\ lost' = lost + 1
      /\ UNCHANGED <<lastReceived, lastSentPing, polled, ts>>
  BY DEF KeepInv, KeepTypes, Lose, channelVars
<1>2. PingTime(n)' = PingTime(n) /\ PingTime(n) \in Nat
  BY <1>1 DEF PingTime
<1>3. PingBy(lost') = PingBy(lost) + RetryDelay /\ PingBy(lost) \in Nat
  BY <1>1
<1>4. PingBy(lost)' = PingBy(lost')
  BY DEF PingBy, PingDelay, RetryDelay
<1>5. PingTime(n) + PollPeriod + 1 <= lastReceived[n] + PingBy(lost) + RetryDelay
  <2>1. CASE NextPing(n)
    BY <1>1, <1>2, <1>3, <2>1 DEF NextPing
  <2>2. CASE OnItsWay(n)
    <3>1. PingDelay + PollPeriod + 1 <= PingBy(lost) /\ FirstPingDelay <= PingDelay
      BY <1>1 DEF PingDelay
    <3>2. lastSentPing[n] + NextPingDelay + PollPeriod + 1
            <= lastReceived[n] + PingBy(lost) + RetryDelay
      BY <2>2 DEF OnItsWay
    <3> QED BY <1>1, <1>3, <3>1, <3>2 DEF PingTime
  <2> QED BY <2>1, <2>2 DEF LiveInv
<1>6. NextPing(n)'
  BY <1>1, <1>2, <1>3, <1>4, <1>5 DEF NextPing
<1>7. (~Idle(n) => lastReceived[n] <= ts[n])' /\ (polled[n] <= PingTime(n) + 1)'
  BY <1>1, <1>2 DEF LiveInv, Idle
<1> QED BY <1>6, <1>7 DEF LiveInv

\* After a sign of life the next PING is the first of a new count.
LEMMA HeardVouched ==
    ASSUME KeepInv, NEW n \in Nodes, LiveInv(n), Idle(n), lost' = lost, ts' = ts,
           lastReceived'[n] = now, lastSentPing'[n] \in {0, lastSentPing[n]},
           polled'[n] = polled[n]
    PROVE  LiveInv(n)'
<1> USE Constants, Delays, PatienceSteps
<1>1. /\ now \in Nat /\ lastReceived[n] \in Nat /\ lastSentPing[n] \in Nat /\ lost \in Nat
      /\ polled[n] \in Nat /\ polled[n] <= now /\ lastSentPing[n] <= now
  BY DEF KeepInv, KeepTypes, TimesKept
<1>2. PingTime(n)' <= now + PingDelay /\ now <= PingTime(n)' /\ PingTime(n)' \in Nat
  <2>1. PICK s \in Nat : s <= now /\ lastSentPing'[n] = s
    BY <1>1
  <2>2. PingTime(n)' = IF s + NextPingDelay >= now + FirstPingDelay
                      THEN s + NextPingDelay ELSE now + FirstPingDelay
    BY <2>1 DEF PingTime
  <2>3. PingDelay >= FirstPingDelay /\ PingDelay >= NextPingDelay
    BY DEF PingDelay
  <2> QED BY <1>1, <2>1, <2>2, <2>3
<1>3. PingBy(lost)' = PingBy(lost) /\ PingBy(lost) \in Nat /\ PingDelay + PollPeriod + 1 <= PingBy(lost)
  BY <1>1 DEF PingBy, PingDelay, RetryDelay
<1>4. NextPing(n)'
  BY <1>1, <1>2, <1>3 DEF NextPing
<1>5. (~Idle(n) => lastReceived[n] <= ts[n])' /\ (polled[n] <= PingTime(n) + 1)'
  BY <1>1, <1>2 DEF Idle
<1> QED BY <1>4, <1>5 DEF LiveInv

\* A PING of its own vouches for an end: the one that was due, or one more
\* behind a datagram that takes longer than the time between two PINGs.
LEMMA PingVouched ==
    ASSUME KeepInv, up = Nodes, NEW n \in Nodes, Alive(n), LiveInv(n), ~Idle(n), SendPing(n),
           ts[n] - lastSentPing[n] > NextPingDelay,
           lost' = lost, lastReceived' = lastReceived,
           polled' = [polled EXCEPT ![n] = now], ts' = [ts EXCEPT ![n] = NoCall]
    PROVE  LiveInv(n)'
<1> USE Constants, Delays, PatienceSteps
<1>1. /\ now \in Nat /\ lastReceived[n] \in Nat /\ lastSentPing[n] \in Nat /\ lost \in Nat
      /\ polled[n] \in Nat /\ now <= polled[n] + PollPeriod
      /\ ts[n] \in Nat /\ ts[n] <= now
      /\ \A d \in inFlight : d.due \in Nat /\ now <= d.due
  BY SMTT(30) DEF KeepInv, KeepTypes, TimesKept, FlightKept, Idle
<1>2. lastSentPing'[n] = now /\ polled'[n] = now /\ ts'[n] = NoCall /\ lastReceived'[n] = lastReceived[n]
  BY DEF KeepInv, KeepTypes, SendPing
<1>3. /\ PingBy(lost)' = PingBy(lost) /\ PingBy(lost) \in Nat
      /\ Patience(lost)' = Patience(lost) /\ Patience(lost) = PingBy(lost) + 2 * Latency
  BY <1>1 DEF PingBy, Patience, PingDelay, RetryDelay
<1>4. PICK d \in inFlight' : d.to = Peer[n] /\ d.type = "PING" /\ d.due = now + Latency
  <2> DEFINE p == [to |-> Peer[n], type |-> "PING", due |-> now + Latency]
  <2>1. Peer[n] \in up
    OBVIOUS
  <2>2. p \in inFlight'
    BY <2>1 DEF SendPing, Datagram
  <2>3. p.to = Peer[n] /\ p.type = "PING" /\ p.due = now + Latency
    OBVIOUS
  <2> QED BY <2>2, <2>3
<1>o. ASSUME NEW e \in inFlight',
             Vouches(n, e, lastReceived[n] + Patience(lost)),
             2 * Latency <= NextPingDelay => Vouches(n, e, now + 2 * Latency),
             now <= lastReceived[n] + PingBy(lost) \/
                 (2 * Latency > NextPingDelay /\
                  now <= lastReceived[n] + PingBy(lost) + 2 * Latency)
      PROVE  OnItsWay(n)'
  <2>1. now + NextPingDelay + PollPeriod + 1 <= lastReceived[n] + PingBy(lost) + RetryDelay
    BY <1>1, <1>3, <1>o DEF RetryDelay
  <2>2. RetryDelay' = RetryDelay
    BY DEF RetryDelay
  <2>3. lastSentPing'[n] + NextPingDelay + PollPeriod + 1
          <= lastReceived'[n] + PingBy(lost)' + RetryDelay
    BY <1>2, <1>3, <2>1
  <2>4. \E d1 \in inFlight' :
            /\ Vouches(n, d1, lastReceived'[n] + Patience(lost)')
            /\ 2 * Latency <= NextPingDelay => Vouches(n, d1, lastSentPing'[n] + 2 * Latency)
    BY <1>2, <1>3, <1>o
  <2> QED BY <2>2, <2>3, <2>4 DEF OnItsWay, Vouches
<1>5. ASSUME NextPing(n) PROVE OnItsWay(n)'
  <2>1. now <= lastReceived[n] + PingBy(lost)
    BY <1>1, <1>3, <1>5, SMTT(30) DEF NextPing, LiveInv, PingTime
  <2>2. Vouches(n, d, lastReceived[n] + Patience(lost))
    BY <1>1, <1>3, <1>4, <2>1 DEF Vouches
  <2>3. Vouches(n, d, now + 2 * Latency)
    BY <1>1, <1>4 DEF Vouches
  <2> QED BY <1>o, <2>1, <2>2, <2>3
<1>6. ASSUME OnItsWay(n) PROVE OnItsWay(n)'
  <2>1. PICK e \in inFlight :
          /\ Vouches(n, e, lastReceived[n] + Patience(lost))
          /\ 2 * Latency <= NextPingDelay => Vouches(n, e, lastSentPing[n] + 2 * Latency)
    BY <1>6 DEF OnItsWay
  <2>2. e \in inFlight' /\ e.due \in Nat /\ now <= e.due
    BY <1>1, <2>1 DEF SendPing
  <2>3. 2 * Latency > NextPingDelay
    BY <1>1, <2>1, <2>2 DEF Vouches
  <2>4. now <= lastReceived[n] + PingBy(lost) + 2 * Latency
    BY <1>1, <1>3, <2>1, <2>2, SMTT(30) DEF Vouches
  <2> QED BY <1>o, <2>1, <2>2, <2>3, <2>4
<1>7. (~Idle(n) => lastReceived[n] <= ts[n])' /\ (polled[n] <= PingTime(n) + 1)'
  <2>1. PingTime(n)' = IF now + NextPingDelay >= lastReceived[n] + FirstPingDelay
                      THEN now + NextPingDelay ELSE lastReceived[n] + FirstPingDelay
    BY <1>2 DEF PingTime
  <2>2. PingTime(n)' >= now /\ PingTime(n)' \in Nat
    BY <1>1, <2>1, SMTT(30)
  <2> QED BY <1>1, <1>2, <2>2 DEF Idle
<1> QED BY <1>5, <1>6, <1>7 DEF LiveInv

\* A call that sends no PING is not later than the next PING.
LEMMA CallVouched ==
    ASSUME KeepInv, NEW n \in Nodes, LiveInv(n), ~Idle(n),
           \/ ts[n] - lastReceived[n] <= FirstPingDelay
           \/ ts[n] - lastSentPing[n] <= NextPingDelay,
           UNCHANGED <<lastReceived, lastSentPing, inFlight, lost>>,
           polled' = [polled EXCEPT ![n] = now], ts' = [ts EXCEPT ![n] = NoCall]
    PROVE  LiveInv(n)'
<1> USE Constants, Delays
<1>1. /\ now \in Nat /\ lastReceived[n] \in Nat /\ lastSentPing[n] \in Nat
      /\ ts[n] \in Nat /\ now <= ts[n] + 1
      /\ polled'[n] = now /\ ts'[n] = NoCall
  BY DEF KeepInv, KeepTypes, TimesKept, Idle
<1>2. now <= PingTime(n) + 1
  BY <1>1 DEF PingTime
<1>3. PingTime(n)' = PingTime(n) /\ PingBy(lost)' = PingBy(lost) /\ Patience(lost)' = Patience(lost)
  BY DEF PingTime, PingBy, Patience, PingDelay, RetryDelay
<1>4. NextPing(n) => NextPing(n)'
  BY <1>3 DEF NextPing
<1>5. OnItsWay(n) => OnItsWay(n)'
  BY <1>3 DEF OnItsWay, Vouches
<1> QED BY <1>1, <1>2, <1>3, <1>4, <1>5 DEF LiveInv, Idle

\* A datagram that arrives at the peer takes away no more than a PING, and the
\* ACK_PING vouches in its place.
LEMMA AnswerVouched ==
    ASSUME KeepInv, up = Nodes, NEW n \in Nodes, LiveInv(n),
           NEW d \in inFlight, d.to = Peer[n], Answer(Peer[n], d),
           lastSentPing'[n] = lastSentPing[n], polled'[n] = polled[n],
           UNCHANGED <<up, now, ts, lost>>
    PROVE  LiveInv(n)'
<1> USE Constants, Delays
<1>1. /\ now \in Nat /\ \A e \in inFlight : e.due \in Nat /\ now <= e.due
      /\ lastReceived'[n] = lastReceived[n]
  BY DEF KeepInv, KeepTypes, FlightKept, Answer
<1>2. PingTime(n)' = PingTime(n) /\ PingBy(lost)' = PingBy(lost) /\ Patience(lost)' = Patience(lost)
  BY <1>1 DEF PingTime, PingBy, Patience, PingDelay, RetryDelay
<1>3. NextPing(n) => NextPing(n)'
  BY <1>1, <1>2 DEF NextPing
<1>4. ASSUME OnItsWay(n) PROVE OnItsWay(n)'
  <2> DEFINE Good(e) ==
        /\ Vouches(n, e, lastReceived[n] + Patience(lost))
        /\ 2 * Latency <= NextPingDelay => Vouches(n, e, lastSentPing[n] + 2 * Latency)
  <2>1. PICK e \in inFlight : Good(e)
    BY <1>4 DEF OnItsWay
  <2>2. \E f \in inFlight' : Good(f)
    <3>1. CASE e # d
      BY <2>1, <3>1 DEF Answer
    <3>2. CASE e = d
      <4>1. d.type = "PING" /\ d.due + Latency <= lastReceived[n] + Patience(lost)
            /\ (2 * Latency <= NextPingDelay => d.due + Latency <= lastSentPing[n] + 2 * Latency)
        BY <2>1, <3>2 DEF Vouches
      <4>2. PICK f \in inFlight' : f.to = n /\ f.due = now + Latency
        <5> DEFINE a == [to |-> n, type |-> "ACK_PING", due |-> now + Latency]
        <5>1. Answers(d.type) = {{"ACK_PING"}}
          BY <4>1 DEF Answers
        <5>2. Datagram(Peer[Peer[n]], "ACK_PING") = {a}
          BY DEF Datagram
        <5>3. a \in inFlight'
          BY <5>1, <5>2 DEF Answer
        <5>4. a.to = n /\ a.due = now + Latency
          OBVIOUS
        <5> QED BY <5>3, <5>4
      <4>3. Good(f)
        <5>1. /\ now <= d.due /\ d.due \in Nat /\ lost \in Nat /\ Patience(lost) \in Nat
              /\ lastReceived[n] \in Nat /\ lastSentPing[n] \in Nat
          BY <1>1, PatienceSteps DEF KeepInv, KeepTypes
        <5>2. f.due = now + Latency /\ now + Latency <= d.due + Latency /\ f.due \in Nat
          BY <1>1, <4>2, <5>1
        <5>3. f.due <= lastReceived[n] + Patience(lost)
          BY <4>1, <5>1, <5>2
        <5>4. 2 * Latency <= NextPingDelay => f.due <= lastSentPing[n] + 2 * Latency
          BY <4>1, <5>1, <5>2
        <5> QED BY <4>2, <5>3, <5>4 DEF Vouches
      <4> QED BY <4>2, <4>3
    <3> QED BY <3>1, <3>2
  <2> QED BY <1>1, <1>2, <1>4, <2>2 DEF OnItsWay, Vouches
<1> QED BY <1>1, <1>2, <1>3, <1>4 DEF LiveInv, Idle

\* A datagram to somebody else vouches for nobody here.
LEMMA OtherVouched ==
    ASSUME NEW n \in Nodes, NEW m \in Nodes, m # n, n # Peer[m], LiveInv(m),
           NEW d \in inFlight, d.to = n, Answer(n, d), UNCHANGED <<ts, lost>>,
           lastReceived'[m] = lastReceived[m], lastSentPing'[m] = lastSentPing[m],
           polled'[m] = polled[m]
    PROVE  LiveInv(m)'
<1>1. PingTime(m)' = PingTime(m) /\ PingBy(lost)' = PingBy(lost) /\ Patience(lost)' = Patience(lost)
  BY DEF PingTime, PingBy, Patience, PingDelay, RetryDelay
<1>2. NextPing(m) => NextPing(m)'
  BY <1>1 DEF NextPing
<1>3. \A e \in inFlight : e.to \in {m, Peer[m]} => e \in inFlight'
  BY DEF Answer
<1>4. OnItsWay(m) => OnItsWay(m)'
  BY <1>1, <1>3 DEF OnItsWay, Vouches
<1> QED BY <1>1, <1>2, <1>4 DEF LiveInv, Idle

LEMMA LiveStep ==
    Patience(MaxLost) <= DisconnectDelay =>
        (KeepInv /\ KeptAlive /\ [Next]_vars => KeptAlive')
<1> SUFFICES ASSUME Patience(MaxLost) <= DisconnectDelay, KeepInv, KeptAlive, [Next]_vars,
                    up' = Nodes
             PROVE  connected' = Nodes /\ \A m \in Nodes : LiveInv(m)'
  BY DEF KeptAlive
<1> USE Constants
<1>k. KeepTypes /\ \A n \in Nodes : TimesKept(n)
  BY DEF KeepInv
<1>u. up = Nodes /\ ~\E n \in Nodes : Die(n)
  BY <1>k DEF Next, Tick, Lose, CallKeepConnection, KeepConnection, CheckSendQueue, Send, Receive,
              Die, KeepTypes, vars
<1>l. connected = Nodes /\ \A n \in Nodes : LiveInv(n) /\ Alive(n)
  BY <1>u DEF KeptAlive, Alive
<1>1. CASE Tick \/ UNCHANGED vars \/ \E n \in Nodes : Send(n)
  <2>1. /\ inFlight \subseteq inFlight'
        /\ UNCHANGED <<connected, lost, lastReceived, lastSentPing, polled, ts>>
    BY <1>1 DEF Tick, Send, vars, channelVars
  <2> QED BY <1>l, <2>1, StillVouched
<1>2. CASE Lose
  BY <1>l, <1>2, LossVouched DEF Lose
<1>3. ASSUME NEW n \in Nodes, CallKeepConnection(n)
      PROVE  connected' = Nodes /\ \A m \in Nodes : LiveInv(m)'
  <2>1. UNCHANGED <<connected, lost, lastReceived, lastSentPing, polled, inFlight>>
    BY <1>3 DEF CallKeepConnection, channelVars
  <2>2. ASSUME NEW m \in Nodes, m # n PROVE LiveInv(m)'
    BY <1>3, <1>l, <1>k, <2>1, <2>2, StillVouched DEF CallKeepConnection, KeepTypes
  <2>3. LiveInv(n)'
    <3>1. /\ PingTime(n)' = PingTime(n) /\ PingBy(lost)' = PingBy(lost)
          /\ Patience(lost)' = Patience(lost)
      BY <2>1 DEF PingTime, PingBy, Patience, PingDelay, RetryDelay
    <3>2. NextPing(n) => NextPing(n)'
      BY <2>1, <3>1 DEF NextPing
    <3>3. OnItsWay(n) => OnItsWay(n)'
      BY <2>1, <3>1 DEF OnItsWay, Vouches
    <3>4. ts'[n] = now /\ lastReceived'[n] <= now
      BY <1>3, <1>k, <2>1 DEF CallKeepConnection, KeepTypes, TimesKept
    <3> QED BY <1>l, <2>1, <3>1, <3>2, <3>3, <3>4 DEF LiveInv
  <2> QED BY <1>l, <2>1, <2>2, <2>3
<1>4. ASSUME NEW n \in Nodes, CheckSendQueue(n)
      PROVE  connected' = Nodes /\ \A m \in Nodes : LiveInv(m)'
  <2>1. ~Silent(n, ts[n])
    BY <1>4, <1>l, NeverSilent DEF CheckSendQueue
  <2>2. /\ UNCHANGED <<connected, lost, lastReceived, lastSentPing, polled, inFlight>>
        /\ ts' = [ts EXCEPT ![n] = NoCall]
    BY <1>4, <2>1 DEF CheckSendQueue, channelVars
  <2>3. \A m \in Nodes : ts'[m] = ts[m] \/ ts'[m] = NoCall
    BY <1>k, <2>2 DEF KeepTypes
  <2> QED BY <1>l, <2>2, <2>3, StillVouched
<1>5. ASSUME NEW n \in Nodes, KeepConnection(n)
      PROVE  connected' = Nodes /\ \A m \in Nodes : LiveInv(m)'
  <2>1. /\ ~Silent(n, ts[n]) /\ ~Idle(n)
        /\ Elapsed(ts[n], lastReceived[n]) = ts[n] - lastReceived[n]
        /\ Elapsed(ts[n], lastSentPing[n]) = ts[n] - lastSentPing[n]
    BY <1>5, <1>l, NeverSilent DEF KeepConnection
  <2>2. /\ UNCHANGED <<connected, lost, lastReceived>>
        /\ ts' = [ts EXCEPT ![n] = NoCall] /\ polled' = [polled EXCEPT ![n] = now]
        /\ \/ /\ UNCHANGED <<inFlight, lastSentPing>>
              /\ \/ ts[n] - lastReceived[n] <= FirstPingDelay
                 \/ ~(ts[n] - lastSentPing[n] > NextPingDelay)
           \/ SendPing(n) /\ ts[n] - lastSentPing[n] > NextPingDelay
    BY <1>5, <2>1 DEF KeepConnection, channelVars
  <2>3. inFlight \subseteq inFlight'
    BY <2>2 DEF SendPing
  <2>4. ASSUME NEW m \in Nodes, m # n PROVE LiveInv(m)'
    <3>1. /\ lastReceived'[m] = lastReceived[m] /\ lastSentPing'[m] = lastSentPing[m]
          /\ polled'[m] = polled[m] /\ ts'[m] = ts[m]
      BY <1>k, <2>2, <2>4 DEF KeepTypes, SendPing
    <3> QED BY <1>l, <2>2, <2>3, <3>1, StillVouched
  <2>5. LiveInv(n)'
    <3>1. CASE SendPing(n) /\ ts[n] - lastSentPing[n] > NextPingDelay
      BY <1>l, <1>u, <2>1, <2>2, <3>1, PingVouched
    <3>2. CASE /\ UNCHANGED <<inFlight, lastSentPing>>
               /\ \/ ts[n] - lastReceived[n] <= FirstPingDelay
                  \/ ~(ts[n] - lastSentPing[n] > NextPingDelay)
      <4>1. ts[n] \in Nat /\ lastSentPing[n] \in Nat
        BY <1>k, <2>1 DEF KeepTypes, Idle
      <4>2. \/ ts[n] - lastReceived[n] <= FirstPingDelay
            \/ ts[n] - lastSentPing[n] <= NextPingDelay
        BY <3>2, <4>1, Delays
      <4> QED BY <1>l, <2>1, <2>2, <3>2, <4>2, CallVouched
    <3> QED BY <2>2, <3>1, <3>2
  <2> QED BY <1>l, <2>2, <2>4, <2>5
<1>6. ASSUME NEW n \in Nodes, Receive(n)
      PROVE  connected' = Nodes /\ \A m \in Nodes : LiveInv(m)'
  <2>1. PICK d \in inFlight :
          /\ d.to = n /\ Answer(n, d)
          /\ connected' = connected \cup {n}
          /\ polled' = [polled EXCEPT ![n] = IF n \in connected THEN @ ELSE now]
          /\ lastSentPing' = [lastSentPing EXCEPT ![n] =
                IF n \notin connected \/ d.type \in {"RESET", "ACK_RESET"} THEN 0 ELSE @]
    BY <1>6, <1>l DEF Receive
  <2>2. UNCHANGED <<now, up, ts, lost>> /\ Idle(n)
    BY <1>6 DEF Receive
  <2>3. LiveInv(n)'
    <3>1. /\ lastReceived'[n] = now /\ lastSentPing'[n] \in {0, lastSentPing[n]}
          /\ polled'[n] = polled[n]
      BY <1>k, <1>l, <2>1 DEF Answer, KeepTypes
    <3> QED BY <1>l, <2>2, <3>1, HeardVouched
  <2>4. ASSUME NEW m \in Nodes, m # n, n # Peer[m] PROVE LiveInv(m)'
    <3>1. /\ lastReceived'[m] = lastReceived[m] /\ lastSentPing'[m] = lastSentPing[m]
          /\ polled'[m] = polled[m]
      BY <1>k, <2>1, <2>4 DEF Answer, KeepTypes
    <3> QED BY <1>l, <2>1, <2>2, <2>4, <3>1, OtherVouched
  <2>5. ASSUME NEW m \in Nodes, m # n, n = Peer[m] PROVE LiveInv(m)'
    <3>1. lastSentPing'[m] = lastSentPing[m] /\ polled'[m] = polled[m]
      BY <1>k, <2>1, <2>5 DEF KeepTypes
    <3> QED BY <1>l, <1>u, <2>1, <2>2, <2>5, <3>1, AnswerVouched
  <2> QED BY <1>l, <2>1, <2>3, <2>4, <2>5
<1> QED BY <1>1, <1>2, <1>3, <1>4, <1>5, <1>6, <1>u DEF Next

\* Live peers stay connected: where the timeout is as long as the first PING,
\* a retry for every datagram that may be lost and one round trip, neither end
\* gives up a channel whose peer runs (trudpProcessKeepConnection,
\* trudpChannelCheckDisconnected).
THEOREM PatientPeersStayConnected ==
    Patience(MaxLost) <= DisconnectDelay => (Spec => []LivePeersStayConnected)
<1> SUFFICES ASSUME Patience(MaxLost) <= DisconnectDelay
             PROVE  Spec => []LivePeersStayConnected
  OBVIOUS
<1>1. Init => KeptAlive
  <2> SUFFICES ASSUME Init, NEW n \in Nodes PROVE LiveInv(n)
    BY DEF Init, KeptAlive
  <2> USE Constants, Delays, PatienceSteps
  <2>1. ts[n] = NoCall /\ lastSentPing[n] = 0 /\ lastReceived[n] = Start /\ polled[n] = Start /\ lost = 0
    BY DEF Init
  <2>2. Start <= PingTime(n) /\ PingTime(n) <= Start + PingDelay /\ PingTime(n) \in Nat
    BY <2>1 DEF PingTime, PingDelay, Start
  <2>3. PingDelay + PollPeriod + 1 <= PingBy(lost) /\ PingBy(lost) \in Nat
    BY <2>1
  <2>4. NextPing(n)
    BY <2>1, <2>2, <2>3 DEF NextPing
  <2> QED BY <2>1, <2>2, <2>4 DEF LiveInv, Idle
<1>2. KeptAlive => LivePeersStayConnected
  BY DEF KeptAlive, LivePeersStayConnected
<1>3. KeepInv /\ KeptAlive /\ [Next]_vars => KeptAlive'
  BY LiveStep
<1> QED BY <1>1, <1>2, <1>3, KeepTimes, PTL DEF Spec
=============================================================================
