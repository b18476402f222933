------------------------ MODULE TrudpKeepConnection ------------------------
(***************************************************************************)
(* Supervision of a channel: the PINGs of trudpProcessKeepConnection       *)
(* (trudp.c), the answers to them and to other packets, and                *)
(* trudpChannelCheckDisconnected, which both trudpProcessKeepConnection    *)
(* and trudpProcessSendQueue call with a clock value they read once before *)
(* they look at the channels.                                              *)
(*                                                                         *)
(* Time is discrete: now, with a path that delivers or loses a datagram    *)
(* within Latency and an event loop that calls trudpProcessKeepConnection  *)
(* at least every PollPeriod.  A timestamp has 64 bits in the code; here   *)
(* the difference of two is taken modulo TimeModulus.                      *)
(***************************************************************************)
EXTENDS Integers, FiniteSets

CONSTANTS
    Nodes,              \* the two ends of the channel
    Peer,               \* Peer[n]: the other end
    FirstPingDefault,   \* keepaliveFirstPingDefault_us
    NextPingDefault,    \* keepaliveNextPingDefault_us
    DisconnectDefault,  \* disconnectTimeoutDefault_us
    FirstPingOption,    \* what the application asks for in ms, or 0
    NextPingOption,
    DisconnectOption,
    Millisecond,        \* 1000 us
    PollPeriod,         \* the timer of the application
    Latency,            \* the longest way of a datagram
    MaxSent,            \* bound: packets the applications send in a behaviour
    MaxLost,            \* bound: datagrams lost in a behaviour
    MaxDead,            \* bound: ends that stop in a behaviour
    MaxTime,            \* bound: the last moment of a behaviour
    TimeModulus,        \* 2^64
    Reconnects          \* the application connects again in the callback that
                        \* tells it DISCONNECTED

ASSUME KeepAssumption ==
    /\ Peer \in [Nodes -> Nodes]
    /\ \A n \in Nodes : Peer[n] # n /\ Peer[Peer[n]] = n
    /\ {FirstPingDefault, NextPingDefault, DisconnectDefault} \subseteq Nat \ {0}
    /\ {FirstPingOption, NextPingOption, DisconnectOption} \subseteq Nat
    /\ {Millisecond, PollPeriod} \subseteq Nat \ {0}
    /\ {Latency, MaxSent, MaxLost, MaxDead} \subseteq Nat
    /\ MaxTime \in Nat /\ Reconnects \in BOOLEAN

\* trudp_options.c: the setters abort when the option is negative
Delay(option, default) == IF option = 0 THEN default ELSE option * Millisecond

\* trudpSetOption_CORE_keepaliveFirstPingDelayMs
FirstPingDelay == Delay(FirstPingOption, FirstPingDefault)

\* trudpSetOption_CORE_keepaliveNextPingDelayMs
NextPingDelay == Delay(NextPingOption, NextPingDefault)

\* trudpSetOption_CORE_disconnectTimeoutDelayMs
DisconnectDelay == Delay(DisconnectOption, DisconnectDefault)

ASSUME TimeAssumption ==
    /\ MaxTime > NextPingDelay
    /\ TimeModulus \in Nat /\ TimeModulus > MaxTime + DisconnectDelay

VARIABLES
    now,            \* teoGetTimestampFull()
    up,             \* ends whose process runs
    connected,      \* ends with the channel in their map, connected_f set
    lastReceived,
    lastSentPing,
    polled,         \* the last call of trudpProcessKeepConnection
    ts,             \* the clock value the call under way has read, or NoCall
    inFlight,       \* datagrams: [to, type, due]
    sent,           \* packets the applications have sent so far
    lost,           \* datagrams lost so far
    silence         \* how long nothing had arrived at the last DISCONNECTED

channelVars == <<lastReceived, lastSentPing>>
vars == <<now, up, connected, channelVars, polled, ts, inFlight, sent, lost, silence>>

NoCall == -1
NoEvent == -1

\* uint64_t subtraction
Elapsed(t, since) == (t - since) % TimeModulus

Start == NextPingDelay + 1

Init ==
    /\ now = Start
    /\ up = Nodes
    /\ connected = Nodes
    /\ lastReceived = [n \in Nodes |-> Start]
    /\ lastSentPing = [n \in Nodes |-> 0]
    /\ polled = [n \in Nodes |-> Start]
    /\ ts = [n \in Nodes |-> NoCall]
    /\ inFlight = {}
    /\ sent = 0
    /\ lost = 0
    /\ silence = [n \in Nodes |-> NoEvent]

-----------------------------------------------------------------------------
\* the datagram on its way to n; nobody receives it at a stopped end
Datagram(n, type) ==
    IF n \in up THEN {[to |-> n, type |-> type, due |-> now + Latency]} ELSE {}

Alive(n) == n \in up /\ n \in connected

\* No call is under way at n: the callbacks and calls of one process follow
\* one another in its event loop.
Idle(n) == ts[n] = NoCall

\* mutants of Silent: silence is measured from the last PING, or not measured
\* long enough
SilentSincePing(n, t) == Elapsed(t, lastSentPing[n]) > DisconnectDelay
SilentSinceFirst(n, t) == Elapsed(t, lastReceived[n]) > FirstPingDelay

\* trudpChannelCheckDisconnected
Silent(n, t) ==
    /\ lastReceived[n] # 0
    /\ Elapsed(t, lastReceived[n]) > DisconnectDelay

\* The DISCONNECTED event, with the application's answer: the channel is
\* destroyed, and the calling loop starts again with the clock value it has;
\* or the application has made a new, connected channel in its place.
Disconnect(n) ==
    /\ silence' = [silence EXCEPT ![n] = now - lastReceived[n]]
    /\ IF Reconnects
       THEN /\ lastReceived' = [lastReceived EXCEPT ![n] = now]
            /\ lastSentPing' = [lastSentPing EXCEPT ![n] = 0]
            /\ UNCHANGED <<connected, ts>>
       ELSE /\ connected' = connected \ {n}
            /\ ts' = [ts EXCEPT ![n] = NoCall]
            /\ UNCHANGED channelVars
    /\ UNCHANGED inFlight

\* trudpProcessKeepConnection, or trudpProcessSendQueue, reads the clock.
CallKeepConnection(n) ==
    /\ Alive(n) /\ Idle(n)
    /\ ts' = [ts EXCEPT ![n] = now]
    /\ UNCHANGED <<now, up, connected, channelVars, polled, inFlight, sent, lost, silence>>

\* trudpChannelSendPING
SendPing(n) ==
    /\ inFlight' = inFlight \cup Datagram(Peer[n], "PING")
    /\ lastSentPing' = [lastSentPing EXCEPT ![n] = now]

\* trudpProcessKeepConnection looks at the channel.
KeepConnection(n) ==
    /\ Alive(n) /\ ~Idle(n)
    /\ polled' = [polled EXCEPT ![n] = now]
    /\ IF Elapsed(ts[n], lastReceived[n]) <= FirstPingDelay
       THEN /\ ts' = [ts EXCEPT ![n] = NoCall]
            /\ UNCHANGED <<connected, channelVars, inFlight, silence>>
       ELSE IF Silent(n, ts[n])
       THEN Disconnect(n)
       ELSE /\ ts' = [ts EXCEPT ![n] = NoCall]
            /\ IF Elapsed(ts[n], lastSentPing[n]) > NextPingDelay
               THEN SendPing(n)
               ELSE UNCHANGED <<inFlight, lastSentPing>>
            /\ UNCHANGED <<connected, lastReceived, silence>>
    /\ UNCHANGED <<now, up, sent, lost>>

\* trudpProcessSendQueue looks at the channel, its send queue empty.
CheckSendQueue(n) ==
    /\ Alive(n) /\ ~Idle(n)
    /\ IF Silent(n, ts[n])
       THEN Disconnect(n)
       ELSE /\ ts' = [ts EXCEPT ![n] = NoCall]
            /\ UNCHANGED <<connected, channelVars, inFlight, silence>>
    /\ UNCHANGED <<now, up, polled, sent, lost>>

-----------------------------------------------------------------------------
\* trudpChannelSendData and trudpChannelSendRESET, called by the application
Send(n) ==
    /\ Alive(n) /\ Idle(n)
    /\ sent < MaxSent /\ sent' = sent + 1
    /\ \E type \in {"DATA", "RESET"} : inFlight' = inFlight \cup Datagram(Peer[n], type)
    /\ UNCHANGED <<now, up, connected, channelVars, polled, ts, lost, silence>>

\* what trudpChannelProcessReceivedPacket sends back: DATA that does not fit
\* is acknowledged and makes the receiver send a RESET
Answers(type) ==
    CASE type = "PING"  -> {{"ACK_PING"}}
      [] type = "DATA"  -> {{"ACK"}, {"ACK", "RESET"}}
      [] type = "RESET" -> {{"ACK_RESET"}}
      [] OTHER          -> {{}}

\* mutant of Answer: only data and its ACKs count as a sign of life
AnswerToData(n, d) ==
    /\ \E types \in Answers(d.type) :
          inFlight' = (inFlight \ {d}) \cup UNION {Datagram(Peer[n], t) : t \in types}
    /\ lastReceived' = [lastReceived EXCEPT ![n] = IF d.type \in {"DATA", "ACK"} THEN now ELSE @]

\* Every packet counts as a sign of life when it is answered or processed.
Answer(n, d) ==
    /\ \E types \in Answers(d.type) :
          inFlight' = (inFlight \ {d}) \cup UNION {Datagram(Peer[n], t) : t \in types}
    /\ lastReceived' = [lastReceived EXCEPT ![n] = now]

\* trudpProcessReceived: without the channel a PING is dropped, and any other
\* packet makes one.  A channel that is new or reset has sent no PING.
Receive(n) ==
    /\ n \in up /\ Idle(n)
    /\ \E d \in inFlight :
        /\ d.to = n
        /\ IF n \notin connected /\ d.type = "PING"
           THEN inFlight' = inFlight \ {d} /\ UNCHANGED <<connected, channelVars, polled>>
           ELSE /\ Answer(n, d)
                /\ connected' = connected \cup {n}
                /\ polled' = [polled EXCEPT ![n] = IF n \in connected THEN @ ELSE now]
                /\ lastSentPing' = [lastSentPing EXCEPT ![n] =
                      IF n \notin connected \/ d.type \in {"RESET", "ACK_RESET"} THEN 0 ELSE @]
    /\ UNCHANGED <<now, up, ts, sent, lost, silence>>

Lose ==
    /\ lost < MaxLost
    /\ \E d \in inFlight : inFlight' = inFlight \ {d}
    /\ lost' = lost + 1
    /\ UNCHANGED <<now, up, connected, channelVars, polled, ts, sent, silence>>

Die(n) ==
    /\ n \in up
    /\ Cardinality(Nodes \ up) < MaxDead
    /\ up' = up \ {n}
    /\ inFlight' = {d \in inFlight : d.to # n}
    /\ ts' = [ts EXCEPT ![n] = NoCall]
    /\ UNCHANGED <<now, connected, channelVars, polled, sent, lost, silence>>

\* Time passes: not beyond the latest arrival of a datagram, the next call of
\* the event loop, or one unit while a call is under way.
Tick ==
    /\ now < MaxTime
    /\ \A d \in inFlight : now < d.due
    /\ \A n \in Nodes : Alive(n) => now < polled[n] + PollPeriod
    /\ \A n \in Nodes : ~Idle(n) => now = ts[n]
    /\ now' = now + 1
    /\ UNCHANGED <<up, connected, channelVars, polled, ts, inFlight, sent, lost, silence>>

Next ==
    \/ Tick \/ Lose
    \/ \E n \in Nodes :
        \/ CallKeepConnection(n) \/ KeepConnection(n) \/ CheckSendQueue(n)
        \/ Send(n) \/ Receive(n) \/ Die(n)

Spec == Init /\ [][Next]_vars

-----------------------------------------------------------------------------
\* While both ends run and few datagrams are lost, PINGs that are sent early
\* enough and repeated soon enough keep the channel on both ends.
LivePeersStayConnected == up = Nodes => connected = Nodes

\* An end that has heard nothing for the timeout gives the channel up at the
\* next call of its event loop.
DeadPeerIsNoticed ==
    \A n \in Nodes : Alive(n) =>
        now - lastReceived[n] <= DisconnectDelay + PollPeriod + 1

\* "Disconnect channel at long last receive" (trudp_channel.c:306): the event
\* tells of a channel on which nothing has arrived for the timeout.
DisconnectedAfterSilence ==
    \A n \in Nodes : silence[n] # NoEvent => silence[n] > DisconnectDelay
=============================================================================
