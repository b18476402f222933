------------------------------- MODULE TrudpEv -------------------------------
(***************************************************************************)
(* The libev host of trudp_ev.c: one ev_timer runs trudpProcessSendQueue.  *)
(* The application calls trudpSendQueueCbStart whenever a datagram leaves  *)
(* (PROCESS_SEND in eventCb of the examples), also from inside the timer's *)
(* own callback; a timer that is started is left alone, whatever it is set *)
(* for.                                                                    *)
(*                                                                         *)
(* The channels, their queues and the shared retransmission timer are those*)
(* of TrudpSendTimer; every action here is an action there together with   *)
(* what it does to the ev_timer.                                           *)
(***************************************************************************)
EXTENDS TrudpSendTimer

VARIABLES
    started,    \* psd->started
    at,         \* when libev calls the callback of a started timer
    callback,   \* _trudpSendQueueCbProcess is running
    least       \* min_expected_time of the trudpProcessSendQueue under way

evVars == <<started, at, callback, least>>
allVars == <<vars, evVars>>

EvInit ==
    /\ Init
    /\ started = FALSE /\ at = 0
    /\ callback = FALSE
    /\ least = Never

\* the timeout trudpSendQueueCbStart sets: until the time it is given, or until
\* the shared timer's.  Shorter than a tick is now (0.0001 s in the code).
CbTimeout(next, tm) ==
    IF next # Never THEN (IF next > now THEN next - now ELSE 0)
    ELSE IF tm.time = Never THEN Never
    ELSE IF tm.time > now THEN tm.time - now ELSE 0

\* trudpSendQueueCbStart of a timer whose started flag is running
CbStart(next, tm, running) ==
    LET tt == CbTimeout(next, tm)
    IN  IF tt = Never \/ running
        THEN started' = running /\ at' = IF running THEN at ELSE 0
        ELSE started' = TRUE /\ at' = now + tt

\* PROCESS_SEND: the datagram leaves and the timer is started
Sent(tm) == CbStart(Never, tm, started)

-----------------------------------------------------------------------------
\* Between two passes
EvTick == Tick /\ UNCHANGED evVars

EvSendData(c) ==
    /\ SendData(c)
    /\ IF expected'[c] # expected[c] THEN Sent(timer') ELSE UNCHANGED <<started, at>>
    /\ UNCHANGED <<callback, least>>

\* An ACK that moves a packet from the write queue to the send queue sends it.
EvReceiveAck(c) ==
    /\ ReceiveAck(c)
    /\ IF Len(expected'[c]) = Len(expected[c])
       THEN Sent(timer') ELSE UNCHANGED <<started, at>>
    /\ UNCHANGED <<callback, least>>

\* ACK, PING, RESET and flushed packets pass through PROCESS_SEND as well.
EvSendOther ==
    /\ Idle
    /\ Sent(timer)
    /\ UNCHANGED <<vars, callback, least>>

\* the operations that send nothing or whose datagram is EvSendOther
EvQuiet ==
    /\ \/ DestroyAll
       \/ \E c \in Channels : Create(c) \/ Reset(c) \/ ApplicationDestroys(c)
    /\ UNCHANGED evVars

-----------------------------------------------------------------------------
\* _trudpSendQueueCbProcess, called by libev; a timer without repeat is no
\* longer active then, its started flag stays set until the end
EvFires ==
    /\ started /\ at <= now
    /\ BeginPass
    /\ callback' = TRUE
    /\ least' = Never
    /\ UNCHANGED <<started, at>>

\* A select loop beside libev, or the application, may process the queues too.
EvHostProcesses ==
    /\ BeginPass
    /\ least' = Never
    /\ UNCHANGED <<started, at, callback>>

EvVisit(c) ==
    /\ Visit(c)
    /\ IF expected'[c] # expected[c] THEN Sent(timer') ELSE UNCHANGED <<started, at>>
    /\ least' = IF expected'[c] # <<>> /\ Before(Head(expected'[c]), least)
                THEN Head(expected'[c]) ELSE least
    /\ UNCHANGED callback

\* The loop starts again and forgets the times it has seen.
EvDisconnect ==
    /\ DisconnectSilent
    /\ least' = Never
    /\ UNCHANGED <<started, at, callback>>

\* the end of a pass the application asked for
EvHostEnd ==
    /\ ~callback
    /\ EndPass
    /\ least' = Never
    /\ UNCHANGED <<started, at, callback>>

\* mutant of AfterPass: the callback starts the timer before it clears the flag
AfterPassLateClear ==
    /\ started' = FALSE
    /\ at' = 0

\* psd->started = 0, and a new start when a packet waits
AfterPass ==
    IF least = Never THEN started' = FALSE /\ at' = 0
    ELSE CbStart(least, timer, FALSE)

\* the end of the callback; with no channel there was nothing to visit
EvCallbackEnd ==
    /\ callback
    /\ visit = {}
    /\ current' = NoChannel
    /\ UNCHANGED <<now, open, queueVars, timer, visit, ts>>
    /\ AfterPass
    /\ callback' = FALSE
    /\ least' = Never

EvNext ==
    \/ EvTick
    \/ ~callback /\ (EvSendOther \/ EvQuiet \/ EvFires \/ EvHostProcesses)
    \/ EvDisconnect \/ EvHostEnd \/ EvCallbackEnd
    \/ \E c \in Channels :
        \/ ~callback /\ (EvSendData(c) \/ EvReceiveAck(c))
        \/ EvVisit(c)

EvSpec == EvInit /\ [][EvNext]_allVars

-----------------------------------------------------------------------------
ASSUME EvAssumption == \E d \in Delays : \A e \in Delays : e <= d

MaxDelay == CHOOSE d \in Delays : \A e \in Delays : e <= d

\* While a packet awaits its ACK the ev_timer runs and calls back within the
\* longest retransmission delay, whatever the timer was started for and
\* wherever the callback or the application is: trudpSendQueueCbStart never
\* leaves a packet to some later, unrelated datagram, although it brings no
\* started timer forward.
NoPacketWithoutTimer ==
    \A c \in open : expected[c] # <<>> => started /\ at <= now + MaxDelay
=============================================================================
