------------------------------- MODULE TrudpCat -------------------------------
(***************************************************************************)
(* The client of the sample applications trudpcat_ev.c and                 *)
(* trudpcat_ev_wq.c over one trudpData: how it connects to its server,     *)
(* receives, sends messages, shows and reads keys, in the callbacks of     *)
(* libev or, built without USE_LIBEV, in a loop of its own.  What one turn *)
(* of that loop does in a fixed order is here done in any order, and what  *)
(* it does when a time has passed, at any time.                            *)
(*                                                                         *)
(* Channels and queues are those of TrudpInstance.  connected_flag is one  *)
(* for all channels: any DISCONNECTED clears it, and connectToPeer makes a *)
(* new channel whether there is one or not.  Which channels are found      *)
(* silent, and which datagrams come, is up to the environment.             *)
(***************************************************************************)
EXTENDS TrudpInstance

CONSTANTS
    Server,         \* the peer of remote_address
    SendLimit,      \* 1000: packets in the send queues that stop the loop's messages
    MaxRemakes,     \* bound: channels made anew over one that is in the map
    MaxFlushed      \* bound: packets that the loop takes from write queues

ASSUME CatAssumption ==
    /\ Server \in Peers
    /\ {SendLimit, MaxRemakes, MaxFlushed} \subseteq Nat

VARIABLES
    useLibev,       \* the program is built with USE_LIBEV
    gated,          \* it is trudpcat_ev_wq.c: no message while packets wait
    connectedFlag,  \* connected_flag
    tick,           \* the static i of connect_cb, modulo 4
    dontSend,       \* o.dont_send_data
    watching,       \* the watchers of the display that are active
    writeStat,      \* td->stat.writeQueue.size_current
    leaked,         \* history: packets in the queues of replaced channels
    flushed,        \* history: packets sent by trudpProcessWriteQueue
    remakes         \* history: number of replaced channels

displayVars == <<dontSend, watching>>
countVars == <<leaked, flushed, remakes>>
programVars == <<useLibev, gated>>
appVars == <<programVars, connectedFlag, tick, displayVars, countVars>>
allVars == <<vars, writeStat, appVars>>

\* main, up to ev_run or the loop
CatInit ==
    /\ Init
    /\ useLibev \in BOOLEAN
    /\ gated \in BOOLEAN
    /\ connectedFlag = FALSE
    /\ tick = 0
    /\ dontSend \in BOOLEAN
    /\ watching = IF useLibev THEN {"timer"} ELSE {}
    /\ flushed = 0
    /\ writeStat = 0
    /\ leaked = [sending |-> 0, waiting |-> 0]
    /\ remakes = 0

TotalOf(queues, owners) == MapThenSumSet(LAMBDA p : queues[p], owners)

-----------------------------------------------------------------------------
\* mutant of FlagAfter: DISCONNECTED leaves the flag as it is
FlagAfterKept(gone) == connectedFlag

\* case DISCONNECTED of eventCb
FlagAfter(gone) == connectedFlag /\ gone = {}

\* trudpChannelCheckDisconnected finds the channels of gone silent, one after
\* the other, and eventCb destroys them.
Disconnect(gone) ==
    /\ map' \in IF gone = {} THEN {map} ELSE Listings(Members \ gone)
    /\ connected' = connected \ gone
    /\ view' = [p \in Peers |-> IF p \in gone THEN Hear(view[p], "DISCONNECTED")
                                ELSE view[p]]
    /\ sending' = [p \in Peers |-> IF p \in gone THEN 0 ELSE sending[p]]
    /\ waiting' = [p \in Peers |-> IF p \in gone THEN 0 ELSE waiting[p]]
    /\ sendStat' = sendStat - TotalOf(sending, gone)
    /\ writeStat' = writeStat - TotalOf(waiting, gone)
    /\ connectedFlag' = FlagAfter(gone)
    /\ UNCHANGED <<programVars, writeQueueIdx, countVars>>
    /\ OtherCall

\* mutant of Greeting: a channel is made and nothing sent on it
GreetingForgotten == 0

\* "Connect with TR-UDP!": the packets a new channel to the server starts with
Greeting == 1

\* connectToPeer: trudpChannelNew puts a channel with empty queues into the
\* map.  One that was there is replaced without being freed: its packets are
\* gone and the statistics of td keep them.  The first packet is sent at once.
ConnectToPeer ==
    /\ AddToMap(Server)
    /\ connected' = connected \ {Server}
    /\ sending' = [sending EXCEPT ![Server] = Greeting]
    /\ waiting' = [waiting EXCEPT ![Server] = 0]
    /\ sendStat' = sendStat + Greeting
    /\ leaked' = [sending |-> leaked.sending + sending[Server],
                  waiting |-> leaked.waiting + waiting[Server]]
    /\ remakes' = IF Server \in Members THEN remakes + 1 ELSE remakes
    /\ connectedFlag' = TRUE
    /\ UNCHANGED <<programVars, writeStat, writeQueueIdx, view, flushed>>
    /\ OtherCall

\* mutant of NextTick: calls that do not connect are not counted
NextTickStays == IF connectedFlag \/ tick = 0 THEN (tick + 1) % 4 ELSE tick

NextTick == (tick + 1) % 4

\* connect_cb, every 3 seconds: a client that is not connected connects at
\* every fourth call, otherwise trudpProcessKeepConnection looks for connected
\* channels that have been silent.
ConnectTimer ==
    /\ useLibev
    /\ tick' = NextTick
    /\ \/ ~connectedFlag /\ tick = 0 /\ ConnectToPeer
       \/ /\ ~connectedFlag /\ tick # 0
          /\ UNCHANGED <<vars, writeStat, programVars, connectedFlag, countVars>>
       \/ connectedFlag /\ \E gone \in SUBSET connected : Disconnect(gone)
    /\ UNCHANGED displayVars

\* The loop connects whenever the flag is clear, and nothing in it calls
\* trudpProcessKeepConnection.
LoopConnects ==
    /\ ~useLibev /\ ~connectedFlag
    /\ ConnectToPeer
    /\ UNCHANGED <<tick, displayVars>>

\* trudpProcessSendQueue looks at every channel, connected or not.  It runs by
\* its libev timer or by a timeout of select while packets await an ACK, and in
\* each turn of network_loop.
SendQueueTimer ==
    /\ \E gone \in SUBSET Members \ {{}} : Disconnect(gone)
    /\ UNCHANGED <<tick, displayVars>>

-----------------------------------------------------------------------------
\* The condition on the queues under which a message is sent: that of
\* send_message_cb, or of the loop
Gate == IF useLibev THEN gated => writeStat = 0 ELSE sendStat < SendLimit

\* send_message_cb, or the loop: trudpSendDataToAll
MessageTimer ==
    /\ ~dontSend
    /\ Gate
    /\ Send(connected)
    /\ writeStat' = writeStat + Cardinality({p \in connected : sending'[p] = sending[p]})
    /\ UNCHANGED appVars

\* host_cb: trudpProcessReceived.  The loop makes a channel for any datagram,
\* a PING included.

\* mutant of CatReceiveAck: the packet that leaves the write queue stays counted
CatReceiveAckUncounted(p) ==
    /\ ReceiveAck(p)
    /\ UNCHANGED <<writeStat, appVars>>

CatReceiveAck(p) ==
    /\ ReceiveAck(p)
    /\ writeStat' = IF waiting'[p] < waiting[p] THEN writeStat - 1 ELSE writeStat
    /\ UNCHANGED appVars

CatReceiveReset(p) ==
    /\ ReceiveReset(p)
    /\ writeStat' = writeStat - waiting[p]
    /\ UNCHANGED appVars

CatReceiveOther(p) ==
    /\ ReceiveOther(p) \/ ReceivePing(p)
    /\ UNCHANGED <<writeStat, appVars>>

CatReceive(p) == CatReceiveAck(p) \/ CatReceiveReset(p) \/ CatReceiveOther(p)

-----------------------------------------------------------------------------
\* network_loop and network_select_loop, up to the end of the write loop.  What
\* it sends stays in the statistic of the write queues.
WriteLoop ==
    /\ ~useLibev
    /\ BeginWriteLoop \/ (looping /\ ProcessWriteQueue)
    /\ flushed' = flushed + TotalOf(waiting, Members) - TotalOf(waiting', Members)
    /\ UNCHANGED <<writeStat, programVars, connectedFlag, tick, displayVars, leaked, remakes>>

-----------------------------------------------------------------------------
\* The display.  Its timer is started for one time only.

\* showStatistic looks for a key, of which 'x' matters here.
ShowStatistic ==
    /\ dontSend' \in BOOLEAN
    /\ UNCHANGED <<vars, writeStat, programVars, connectedFlag, tick, countVars>>

\* start_show_stat_cb
StartShowTimer(others) == watching' = others \cup {"timer"}

\* show_stat_cb shows when the last time is more than 3 seconds ago, otherwise
\* it leaves that to the idle watcher.
ShowTimer ==
    /\ "timer" \in watching
    /\ \/ ShowStatistic /\ StartShowTimer(watching \ {"timer"})
       \/ /\ watching' = (watching \ {"timer"}) \cup {"idle"}
          /\ UNCHANGED <<vars, writeStat, programVars, connectedFlag, tick, dontSend, countVars>>

\* mutant of ShowIdle: the timer is not started again
ShowIdleOnce ==
    /\ "idle" \in watching
    /\ ShowStatistic
    /\ watching' = watching \ {"idle"}

\* idle_show_stat_cb
ShowIdle ==
    /\ "idle" \in watching
    /\ ShowStatistic
    /\ StartShowTimer(watching \ {"idle"})

\* The loop calls showStatistic itself.
LoopShows ==
    /\ ~useLibev /\ ~looping
    /\ ShowStatistic
    /\ UNCHANGED watching

-----------------------------------------------------------------------------
\* The bound on replaced channels: after the last one the environment lets no
\* situation arise in which connectToPeer would replace one.  The bound on
\* flushed packets: no more are queued than the loop may still take.
Bounded ==
    /\ remakes = MaxRemakes => connectedFlag' \/ Server \notin Members'
    /\ ~useLibev => flushed' + TotalOf(waiting', Members') <= MaxFlushed

CatNext ==
    /\ \/ ConnectTimer \/ LoopConnects \/ SendQueueTimer \/ MessageTimer \/ WriteLoop
       \/ ShowTimer \/ ShowIdle \/ LoopShows
       \/ \E p \in Peers : CatReceive(p)
    /\ Bounded

CatSpec == CatInit /\ [][CatNext]_allVars

\* p acknowledges a packet of its channel.
Acknowledges(p) ==
    /\ CatReceiveAck(p)
    /\ <<sending, waiting>>' # <<sending, waiting>>

-----------------------------------------------------------------------------
\* While the client thinks it is connected somebody watches the channel to the
\* server: trudpProcessKeepConnection when it is connected, the timer of the
\* send queue when it has only been asked for.  Whatever other channels came
\* and went, silence of the server is noticed, in a build without libev when
\* packets are sent.
WatchedWhileConnected ==
    connectedFlag => /\ Server \in Members
                     /\ Server \in connected \/ sending[Server] > 0

\* The statistics of td are the packets in the queues, those of the channels
\* that connectToPeer replaced, and those that trudpProcessWriteQueue has taken
\* from a write queue: they never leave the statistics.
StatisticsKeepLeaks ==
    /\ sendStat = TotalOf(sending, Members) + leaked.sending
    /\ writeStat = TotalOf(waiting, Members) + leaked.waiting + flushed

\* The display lives: whichever of its watchers shows, and however often, the
\* timer is started again, so that keys go on being read.
DisplayGoesOn == []<>(useLibev => "timer" \in watching)
=============================================================================
