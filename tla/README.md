# TLA+ specifications of TR-UDP

TR-UDP is a C library that puts reliable, ordered channels on top of UDP
datagrams. This directory holds TLA+ modules that model it and the client of
its sample programs, TLC configurations that check them on small instances, and
proofs checked by TLAPS. All paths below are relative to the repository; the
library is in `src/`, the sample programs are in `examples/`.

## 1. The system

### 1.1 Components

| Component | Code | State | Operations |
|---|---|---|---|
| Channel | `src/trudp_channel.c`, `.h` | `sendId`, `receiveExpectedId`, send, write and receive queue, `triptime*`, `lastReceived`, `lastSentPing`, `connected_f`, `zero_tolerance_f` | `trudpChannelNew`, `SendData`, `SendRESET`, `SendPING`, `ProcessReceivedPacket`, `SendQueueProcess`, `WriteQueueProcess`, `CheckDisconnected`, `Destroy` |
| Packet ids | `trudp_channel.c:224-280`, `src/trudp_utils.c:167-177` | none | next id, signed distance, modular sum and difference |
| Packet queue | `src/packet_queue.c` | a list of packets, an index from id to element | add, find by id, get first, move to end, delete, free |
| Send, receive queue | `src/trudp_send_queue.c`, `src/trudp_receive_queue.c` | a packet queue each | wrappers of the packet queue, expected times |
| Write queue | `src/write_queue.c` | a list of pointers to copies of packets | add, get first, delete first, free |
| Instance (`trudpData`) | `src/trudp.c` | map of channels, `expected_max_time`, `channel_key`, `writeQueueIdx`, statistics of all queues | `trudpProcessReceived`, `ProcessSendQueue`, `ProcessKeepConnection`, `ProcessWriteQueue`, `SendDataToAll`, `SendResetAll`, creation and destruction of channels |
| libev timer | `src/trudp_ev.c` | `inited`, `started`, the `ev_timer` | start, callback |
| Packet header | `src/packet.c` | none | create, restamp, check |
| Statistics | `src/trudp_stat.c` | packet counters, rings of the last 10 packets | count, format |
| Options | `src/trudp_options.c` | delays, debug switches | setters |
| Sockets | `src/udp.c` | a descriptor | search for a port, addresses, `sendto`, `recvfrom` |
| Client | `examples/trudpcat_ev.c`, `examples/trudpcat_ev_wq.c` | `connected_flag`, options, watchers | connect, send, receive, show, in libev callbacks or a loop |

`teoccl` and `teobase` (map, list, queue, clock, sockets) are git submodules and
not in the tree. The models take them for what the code uses them as: a set, a
sequence, a clock, and a map that replaces the element when its key is added
again.

### 1.2 How they interact

One event loop thread serves a `trudpData`. It calls
`trudpProcessReceived` when a datagram arrives, `trudpProcessSendQueue` when the
timeout of `trudpGetSendQueueTimeout` has passed (in libev hosts by the timer of
`trudp_ev.c`), `trudpProcessKeepConnection` from a timer of its own and, in
several examples, `trudpProcessWriteQueue` when the socket is writable. The
library answers through one callback: `PROCESS_SEND` gives the application a
datagram to send, `GOT_DATA` a payload, and `CONNECTED`, `DISCONNECTED`,
`GOT_RESET`, `SEND_RESET`, ... tell about a channel. Handlers of one instance
therefore never overlap. What interleaves is the two ends, the datagrams between
them, the clock, and the callbacks inside the loops over the channels and inside
the handlers.

A packet goes this way: `trudpChannelSendData` gives it the next id, puts it
into the send queue and sends it, or into the write queue when the window
(`NORMAL_S_SIZE`) is full or when packet 0, which opens a session, is alone in
flight. The receiver acknowledges every DATA packet, hands the expected one and
those saved behind it to the application, saves one that outruns, and drops a
repeated one. The ACK removes the packet from the send queue and lets
one move up from the write queue. The head of the send queue is sent again when
its time has come. RESET and its ACK empty everything at the end that gets them.

### 1.3 What is hard

The list of hazards with their lines is in `PROJECT.json`. In short:

- reordered, duplicated and lost datagrams against id arithmetic that wraps and
  leaves out 0;
- packet 0, which is an ordinary packet and the sign of a new session at once;
- resets, restarts, and datagrams of an old session that survive them;
- two ways out of the write queue, of which one keeps no copy for retransmission;
- pointers kept over callbacks in which the application may send, and copies of
  packets that are freed by hand;
- one retransmission timer for all channels, kept by handlers that each see one
  channel, with a key that is compared as a pointer and may dangle, and a libev
  timer on top that is not brought forward once started;
- clocks of two hosts in 32 bits that a PING mixes;
- a clock value read before a loop whose callbacks change what it is compared
  with;
- counters kept by hand along several ways of a packet;
- queues without a limit;
- a client whose only notion of its connection is one flag for all channels.

### 1.4 What makes each component correct

- *Ids*: never 0 after an increment, no early reuse, distance is sending order.
- *Channel*: payloads in order and exactly once; a packet leaves the sender only
  when the receiver has it; no spontaneous reset; the write queue never gets
  stuck; everything is delivered in the end; resets leave two ends that
  understand each other.
- *Memory*: no pointer dangles, over a callback or after it; nothing is lost or
  sent twice between the queues; nothing leaks.
- *Timer*: the event loop never sleeps past a retransmission, and is not woken
  for nothing; under libev a timer runs while a packet awaits its ACK.
- *Header*: a packet that fits is accepted and a damaged one is not.
- *Measurement*: a trip time is that of the copy that was answered;
  retransmission is paced whatever the peer's clock shows.
- *Statistics*: what one end counts as sent the other counts as received, but
  for what is in flight or lost.
- *Keep-alive*: a dead peer is noticed in time, a live one is kept, DISCONNECTED
  always follows silence.
- *Packet queue*: list and index agree.
- *Client*: the search for a port is thorough; silence is noticed; the client
  comes back; the send gate and the display do not get stuck.

## 2. The modules

| Module | Models | Checked through |
|---|---|---|
| `TrudpSeqId` | id arithmetic | `MCTrudpChannel`, `MCTrudpStat` |
| `UdpWire` | a UDP path (external) | the same |
| `TrudpChannel` | two channels connected by two paths | `MCTrudpChannel` |
| `ReliableStream` | what the two applications are promised (abstract) | refined by `TrudpChannel` |
| `TrudpStat` | packet counters over `TrudpChannel`, with PINGs | `MCTrudpStat` |
| `TrudpSendTimer` | `expected_max_time` and `channel_key` of one instance | `TrudpEv` |
| `TrudpEv` | the libev timer over `TrudpSendTimer` | directly |
| `TrudpPacketQueue` | list and index in memory | `MCTrudpMemory` |
| `PacketSequence` | a sequence of packets with distinct ids (abstract) | refined by `TrudpPacketQueue` |
| `TrudpMemory` | the queues of a channel, their elements and copies, handlers split at their callbacks | `MCTrudpMemory` |
| `TrudpPacket` | the header: fields, checksum, creation, restamping, check | `MCTrudpMeasure` |
| `TrudpLast10` | the ring of the last packets received and the time its speed is taken over | `MCTrudpMeasure` |
| `TrudpMeasure` | two hosts with clocks: trip time, middle value, expected times | `MCTrudpMeasure` |
| `TrudpKeepConnection` | PING and disconnection of two ends, in time | `MCTrudpKeepConnection` |
| `TrudpInstance` | map of channels, events, and the turns of the write queues | directly |
| `TrudpUdpBind` | the search for a port, and the form of addresses | `TrudpCatStart` |
| `TrudpCat` | the client of the sample programs over `TrudpInstance` | `TrudpCatStart` |
| `TrudpCatStart` | `TrudpUdpBind`, then `TrudpCat` | directly |
| `TrudpFacts` | lemmas on ids, lists, places and sums | the proofs of section 4 |
| `TrudpChannelProofs` | theorems on `TrudpChannel` | |
| `TrudpStatProofs` | theorems on `TrudpStat` | |
| `TrudpTimerProofs` | theorems on `TrudpSendTimer`, `TrudpEv` | |
| `TrudpInstanceProofs` | theorems on `TrudpInstance`, `TrudpCat`, `TrudpUdpBind` | |
| `TrudpKeepConnectionProofs` | theorems on `TrudpKeepConnection` | |
| `TrudpMemoryProofs` | theorems on `TrudpPacketQueue`, `TrudpMemory` | |
| `TrudpMeasureProofs` | theorems on `TrudpPacket`, `TrudpMeasure` | |

Operators named `SendNowUngated`, `ResetKeepsSendQueue`, ... next to a definition
and marked "mutant of" are wrong versions of it. They are used by no
specification; each shows that one property would notice one bug.

### 2.1 `TrudpChannel`

| Variable | Code |
|---|---|
| `sendId`, `receiveExpectedId` | fields of `trudpChannelData` |
| `sendQueue` | `tcd->sendQueue`, as the sequence of its packets |
| `writeQueue` | `tcd->writeQueue` |
| `receiveQueue` | `tcd->receiveQueue`, as a set: it is only searched by id |
| `wire[n]` | datagrams on the way to `n`, its socket buffer included |
| `sent`, `delivered`, `faults` | history: calls of `trudpChannelSendData`, GOT_DATA events, resets and restarts |

Every handler is one action: `SendData`, `Resend` (`trudpChannelSendQueueProcess`
with an expired head), `FlushWriteQueue` (`trudpChannelWriteQueueProcess`),
`ReceiveAck` / `ReceiveUnknownAck`, the five cases of `ReceiveData` in the order
of the code, `ReceiveReset`, `ReceiveAckReset`, `SendReset` (the application's
call) and `Restart` (`trudpChannelDestroy` and a new channel, or a new process;
datagrams survive). `Lose` is the network. The loop over the saved packets
in `AcceptExpected` is the largest count of consecutive ids found in the receive
queue, given by `IdAfter`, the closed form of repeated `GetNextSeqId`:
`NextClosed` and `IdAfterStep` in `TrudpFacts` prove that it is.

`Session` is the specification without application resets and restarts, `Spec`
the one with them. Time is left out: unless `EarlyTimeouts` is FALSE a
retransmission may happen at any moment the send queue has a head, which is more
than the timer allows. PINGs change none of these variables.

### 2.2 `TrudpStat`

Each action is one of `TrudpChannel` with what `trudp_channel.c` counts in
`tcd->stat` along it, and PINGs, which are a number in flight. `Row` is the row
of the table that `ksnTRUDPstatShowStr` prints, as far as it counts packets.
Two oddities of the code are in the model and in the properties: a PING that is
received counts as an ACK as well, since its trip time is computed
(`CountPing`), and a flushed packet counts nowhere (`flushed`).

### 2.3 `TrudpSendTimer` and `TrudpEv`

A send queue is the sequence of its packets' `expected_time`, a write queue a
count. `timer` is `[time, channel]` for `td->expected_max_time` and
`td->channel_key`; `Dangling` stands for a pointer to a freed key, and a new
channel may get its memory. `trudpProcessSendQueue` is `BeginPass` (reads the
clock), one `Visit` per channel in any order, `DisconnectSilent` (the application
destroys the channel in the callback and the loop starts again with the same
`ts`) and `EndPass`; the clock may move in between. Delays are an arbitrary set:
`triptimeMiddle + RTT` is below `MAX_RTT` and changes with every ACK.

`TrudpEv` adds the `ev_timer`: `started` and `at`, the moment of its call, set
by `CbStart` whenever a datagram leaves, and `callback` with the
`min_expected_time` of the pass under way. Every action is an action of
`TrudpSendTimer` and what it does to the `ev_timer`; a host may also call
`trudpProcessSendQueue` itself (`EvHostProcesses`).

### 2.4 `TrudpPacketQueue` and `TrudpMemory`

In `TrudpPacketQueue` `memory` maps addresses to packets, `q` is the list of
addresses and `idx` the index. The refinement maps the list to the sequence of
packets that `TrudpChannel` works with, which is why that module may speak of
sequences. Adding an id that is already there is excluded by the callers: the
receive queue is searched first, and ids of a send queue are distinct
(`SendQueueDisciplined`).

`TrudpMemory` has one `heap` for two instances of it, the elements of the write
queue and the copies of packets they point to. `handler` is the step a handler
has come to and the pointer it keeps to use again: GOT_ACK before the packet
leaves the send queue, PROCESS_SEND in the refill and in the flush, and, with no
callback, the end of the flush, which reads the length it returns from the
element it has deleted (`ReadLength`). The application may send in each callback.
It does not reset or destroy the channel there, as no example does.

### 2.5 `TrudpPacket`, `TrudpLast10`, `TrudpMeasure`

A packet is a header, with the widths of its fields as constants (`Nibble` for
4 bits, `Word` for 32), and the length of the datagram. Payload bytes are left
out, as the checksum leaves them out. `TrudpMeasure` lets two hosts with clocks
that differ and wrap exchange them; `stamped` on a datagram and `measured` of a
host are history. The conversion of a `double` that does not fit to `uint32_t`,
which is undefined, is a choice between the results of x86-64 and ARM
(`ToUint32`). What DATA does to the receive queue is `TrudpChannel`'s: here it
is received, dropped or answered by a RESET.

`received` is the ring `last_receive_packets_ar` with its index. What
`trudpStatProcessLast10Receive` computes of it is `MinTs`, the timestamp from
which the speed counts.

### 2.6 `TrudpKeepConnection`

Two ends that start connected and idle. `ts[n]` is the clock value a running call
has read. `KeepConnection` is `trudpProcessKeepConnection`, `CheckSendQueue` the
check at the end of `trudpChannelSendQueueProcess`, `Send` a packet of the
application, which is acknowledged. `Tick` lets time pass no further than the
path's latency, the poll period of the application's timer and one unit inside a
call. Differences of time stamps are taken modulo `TimeModulus`, as unsigned
subtraction does. The delays are those of `trudp_options.c`: `Delay` is a setter
with its default of 0. Ends may die; an application either destroys the channel
in its DISCONNECTED callback, as the examples do, or makes a new one there
(`Reconnects`).

### 2.7 `TrudpInstance`

| Variable | Code |
|---|---|
| `map` | `td->map`, as the sequence its iterator gives; every change of the map may put it in another order |
| `connected` | channels with `connected_f` |
| `sending`, `waiting` | number of packets in the send and write queue of a channel |
| `sendStat` | `td->stat.sendQueue.size_current` |
| `writeQueueIdx` | `td->writeQueueIdx`; positions in `map` start with 1, so it is the last one visited |
| `looping`, `owed` | a host without libev is in `while(trudpProcessWriteQueue(td));`; history: channels it has still to serve |
| `view`, `missed`, `fruitless` | history: what the events told the application, calls that passed over a waiting channel, calls that sent nothing |

The actions are the calls of the application (`New`, `SendData`,
`SendDataToAll`, `SendResetAll`, `Destroy`, `DestroyAll`, `ProcessWriteQueue`,
`BeginWriteLoop`) and what `trudpProcessReceived` does with a datagram of a
peer: `ReceivePing` needs a channel, the others (`ReceiveAck`, `ReceiveReset`,
`ReceiveOther`) make one with `GetChannelCreate`. Queues are counts; whether a
queue of one holds packet 0, which flies alone, is left open (`SendNowFlags`).

`trudpChannelWriteQueueProcess` reads the length it returns from the queue
element it has just deleted (`OnlyFlushDangles` in `TrudpMemory`). `StopAt(i)` is a
call that reads a length other than 0 at the i-th channel; the calls that go on after reading 0 from cleared
memory are included, as `StopAt` of a later channel or `ReachEnd`.

### 2.8 `TrudpUdpBind`, `TrudpCat`, `TrudpCatStart`

`TrudpUdpBind` is the search of `trudpUdpBindRaw` and `trudpUdpBindRaw_cli`:
`GetAddrInfo`, `TryAddress` for each address of the list, `NextPort`, `Return`.
`search` holds their local variables and the resources they have taken. Whether
a socket or a port is free is up to the environment. `ownKey` is what the search
decides for later: whether the server's datagrams come with the address under
which `connectToPeer` makes its channel (`SameKey`). `fd` is the family of the
socket, which decides it together with the room the program has for an address.
`trudpProcessReceived`, which libev's callback calls, has a `sockaddr_storage`.
The loops without libev receive by themselves into a 16-byte `struct sockaddr_in`
(`trudpcat_ev.c:688-691`, `720-723`; `trudpcat_ev_wq.c:804-811`, `836-843`): it
holds half of an IPv6 address (`Cuts`), and `trudpUdpGetAddr` reads the other half
from what lies behind it. What it finds is left open, the right half included.

These loops are modelled as they are written. At this commit they call
`trudpUdpRecvfrom` with 5 arguments where it takes 7 (`udp.h`), so that they do not
compile; the makefile sets `USE_LIBEV` (`examples/Makefile.am:4`), and
`trudpcat_ev_wq.c:204` defines it again.

`TrudpCat` is the client, in both programs (`gated` for `trudpcat_ev_wq.c`) and
both builds (`useLibev`). It extends `TrudpInstance` by `connected_flag`, the
tick of `connect_cb`, the watchers of the display, `writeStat`
(`td->stat.writeQueue.size_current`) and history of what leaks into the
statistics. In builds without libev the loop does its steps in any order, which
contains what `network_loop` and `network_select_loop` do. `connectToPeer` puts
a new channel under a key that may be taken: `teoMapAdd` then replaces the
element and the old channel is never freed (`leaked`). Keys 'r' and 'q' change
no modelled state. The server's side of the programs makes no connection of its
own; it is a `TrudpInstance`.

## 3. The runs

### 3.1 Runs that pass

| Run | Instance | Question |
|---|---|---|
| `SessionAnyPath` | new channels with `zero_tolerance_f`; 4 and 2 payloads, window 2; a path that reorders, duplicates, loses | Nothing stranded, quiescence means delivered, refines `ReliableStream` |
| `Statistic` | an established session: 3 and 1 payloads, ids 14, 15, 1 of a limit of 16; ordered lossy paths, 2 and 1 retransmissions, a PING, the write queue flushed | Types and order across the wrap, also with flushes. Every copy and every answer is counted once at each end |
| `SessionFair` | new channels without `zero_tolerance_f`; 4 payloads one way, ordered lossy paths of capacity 3 that overflow, early timeouts; fairness | No reset: on paths that keep order new channels need no tolerance. Everything sent is delivered in the end |
| `ResetFifo` | 3 and 2 payloads, two resets or restarts and flushes at any moment, no loss | Queues stay well formed; idle ends can go on or reset again |
| `SendTimer` | 2 channels under `TrudpEv`, delays 1 and 3, time to 3; resets, both ways of destruction | The shared timer is never late and follows its packets; the libev timer runs while a packet waits |
| `KeepAlive` | delays 4, 2, 12, a poll every unit, latency 1, time to 22; one application packet, one lost datagram, one end may stop | Live peers stay connected, a stopped end is noticed, DISCONNECTED follows silence |
| `PacketQueue` | ids below 7, window 2, 3 ids in the receive queue, 6 cells, symmetric | Index and list agree and refine `PacketSequence`; no pointer dangles but the one the flush reads a length through, packets are kept once, only flush and reset leak |
| `Instance` | 3 peers, window 2, write queues up to 2; calls, datagrams, creation, destruction and write loops in any order | The application knows what is connected, write queues get their turn, the loop serves each once, the send statistic is exact |
| `Measure` | A sends data of two lengths, one too long, B sends PINGs; clocks that wrap and differ; loss and reordering, one RESET | The header check is exact, trip times are those of the copy, retransmission is paced |
| `Cat` | server and one other peer, window 2, both programs and both builds, a search over 3 ports; fairness | The search is thorough; the client notices silence and comes back; statistics, gate and display |

Distinct states and time on two workers: `SessionAnyPath` 0.26 million (22 s),
`Statistic` 0.66 million (31 s), `SessionFair` 3621 (4 s), `ResetFifo` 0.69
million (10 s), `SendTimer` 3.5 million (70 s), `KeepAlive` 7.6 million (83 s),
`PacketQueue` 0.19 million up to symmetry (41 s), `Instance` 0.84 million (50 s),
`Measure` 1.6 million (51 s), `Cat` 0.14 million (55 s).

Why the bounds are enough.

*Sessions.* A window of 2 already has a packet 0 alone, a full
window with packets waiting, a gap with a saved packet behind it and
acknowledgements in the wrong order; the window appears in the code only in one
comparison. Four payloads let the receive queue drain several packets at once. A
limit of 16 keeps `MaxData + 2` at half of it or below, the assumption any
finite id needs. The unordered path is a set of datagrams: any number of
duplicates needs no extra state. The wrap on unordered paths is not a run of its
own: order, no reset and `ReceiveQueueAhead` are proved for it, for all bounds
(section 4); `Statistic` passes it with loss, repetition and flushes.

*Resets.* Two faults are a reset or restart that meets another one on its way, at
either end, with data of the old session between them; 5 payloads and 2 faults take
7 ids, fewer than the half of 16. `WireCap` 19 is 3 datagrams for each payload and 2
for each fault, so that nothing overflows.

*Timers.* Two channels are enough for the timer to belong to another one, to
none, or to a freed one, and for a pass to have one channel behind it and one
before it.

*Memory.* Six cells hold a full window, a waiting packet with its copy and two
more, so that a callback of the refill can send into every queue; a seventh adds
nothing but length.

*Instance.* Three channels give `writeQueueIdx` a first, a middle and a last
place, and places that no longer exist; the bound of `NoWriteQueueStarves` is
reached there, so it cannot be lowered.

*Keep-alive.* The delays are smaller than those of `trudp_options.c` (10 s, 1 s,
14.39 s) and keep what matters: between the first PING and the disconnection
there must be time for a second PING and its answer after the first was lost. How
much that is, `PatientPeersStayConnected` says (section 4): with delays 4 and 2 and a
poll period and a latency of one unit the patience for one loss is 12, and TLC finds
the channel lost with a timeout of 11: `KeepAlive` has the smallest margin. With the
default delays (half seconds as units: 20, 2, 28) the patience is 28 for an
application that polls twice a second, which thus survives one lost datagram; one
that polls every 3 seconds, as `RECONNECT_AFTER` makes the sample programs do, does
not (`LivePeersStayConnected` is violated with `PollPeriod` 6). MaxTime covers the
first silence, the PINGs, the loss, and a whole further silence.

*Measure.* `Nibble = 6` and `Word = 1296` keep the four fields of the header and
the carry of the checksum; the clock of one host wraps six units after the start,
that of the other one unit after; the steps of 15 and 30 units lie on both sides of
the wrap, and trip times exceed and fall below the middle value. A payload of
`PayloadMod + 5` does not fit.

*Cat.* `MaxRemakes = 1`: one replaced channel already leaks up to `SendLimit`
packets and a write queue, which is what `GateOpens` is about; further ones only
add to the leak. `MaxFlushed` bounds what loops take from write queues, which
never leaves the statistic.

`CHECK_DEADLOCK FALSE` is given where a behaviour may stop: when everything is
sent and acknowledged, a bound on time is reached, or the search for a port has
failed. `Instance` and `PacketQueue` never stop, and there deadlock is checked.

### 3.2 Runs that find a violation

Each states what a comment or document says, and TLC finds a behaviour of the
code that disagrees.

| Run | Statement | What happens |
|---|---|---|
| `LostReset` | RESET "reset messages counter" (`packet.h:74`) | RESET takes a data id and is sent once. Lost, it leaves an id nobody sends; the receiver acknowledges and keeps everything behind it forever |
| `ReceiveSpeed` | "speed in bytes in sec in last 10 packet", "define minimum and maximum timestamp" (`trudp_stat.c:117`, `123`) | a timestamp that is a new maximum is never looked at as the minimum (`else if`). When the timestamps ascend from the first slot, `min_ts` keeps `UINT32_MAX` and the bytes are divided by the local clock plus one |

In `ReceiveSpeed` the two hosts share one clock, so that nothing else disturbs
the speed; on real hosts the difference also mixes the local clock with the
peer's stamps.

### 3.3 Disagreements without a run of their own

The first three were checked by changing one constant of a configuration, the
next two by leaving out a condition of a property:

- *Flush*: a packet sent by `trudpChannelWriteQueueProcess` has no copy in the
  send queue; lost once, it is lost ("protocol reliability features",
  `README.md:11`). `SessionAnyPath` with `FlushesWriteQueue = TRUE` violates
  `QuiescentMeansDelivered`.
- *Delayed packet 0*: a repeated packet 0 is skipped (`trudp_channel.c:767`) only
  while id 1 is expected; a copy that arrives later resets a healthy session.
  `SessionAnyPath` with `ZeroTolerance = FALSE` violates `NoSpontaneousReset`.
- *Reconnecting in DISCONNECTED*: a channel made in the callback is newer than
  the loop's `ts`; the unsigned difference wraps and it gets DISCONNECTED too
  (`trudp_channel.c:306`, "at long last receive"). `KeepAlive` with
  `Reconnects = TRUE` violates `DisconnectedAfterSilence`.
- *The client's address family*: `trudpcat_ev.c` always takes an IPv6 socket, so
  the answers of an IPv4 server come from `::ffff:a.b.c.d`, under another key
  than the channel the client has made; and a server given by its name
  (`trudpcat_ev localhost 8000 -S`, `examples/README.md`) may be looked up as
  either family. Without the conditions `gated` and `~byName` the property
  `ClientComesBack` is violated.
- *Half an address*: without libev an IPv6 socket shows every peer under a cut
  address (2.8), so the channel made for an IPv6 server gets no answer, and
  answers sent to a cut address get nowhere. Without the condition
  `WholeAddresses` TLC finds `ClientComesBack` and `GateOpens` violated, with
  `useLibev` FALSE and an IPv6 socket.

Others show in the code as it was read for the models:

- `MAX_OUTRUNNING` (`trudp_const.h:41`, "Maximum outrunning in receive queue to
  send reset") is read nowhere, so the receive queue has no limit.
- `trudpGetSendQueueTimeout` does not return "`UINT32_MAX` if send queue is
  empty" (`trudp.c:469`) after a reset or a direct `trudpChannelDestroy`, which
  leave the timer (the two exceptions of `TimerFollowsPackets`).
- Packet 0 of a restarted peer is saved as an outrunning packet, not answered
  with a RESET (`trudp_channel.c:753` against the comment at 766), once the
  expected id is in the upper half of the id space; and it is acknowledged and
  dropped while id 1 is expected. `Resynchronisable` leaves these cases out by its
  last disjunct.
- `trudpChannelWriteQueueProcess` reads `packet_length` of an element that
  `trudpWriteQueueDeleteFirst` has freed (`trudp_channel.c:910-911`), and returns
  it as the "Number of send packet or 0 if write queue is empty" (901).
  `OnlyFlushDangles` states it as the one use of freed memory.
- A packet of the write queue leaves with the timestamp of its making
  (`trudp_channel.c:636`), so its first trip time counts the wait; `packet.c:70`
  calls the field the time of sending.
- `packets_send` and `ack_receive` (`trudp_channel.h:88`, `92`) count PINGs too,
  `packets_send` does not count flushed packets, and a reset of the channel sets
  all its statistics to zero.
- `idx_snd` is never incremented: the ring of the last 10 packets sent has one
  slot.
- `trudpWriteQueueFree` and the flush do not free the copies of packets; the
  field `packet_length` of an element has 16 bits.
- `connectToPeer` of the samples makes a new channel over one that may be in the
  map, which leaks with its packets and leaves them in the statistics.
- `trudpUdpMakeAddr` can fail and `trudpChannelNew` does not look; the result of
  `getaddrinfo` for each port that is passed over is leaked; the documented
  "-1" of the map lookups is never returned to a caller; `IPV6_V6ONLY` is set
  after the bind.
- The pager of the samples' statistics: with an even remainder of channels its
  last page cannot be reached, and with an empty map the unsigned limit wraps.
- The select build of the samples never calls `trudpProcessKeepConnection`, and
  looks at the send queues only when `select` times out.

### 3.4 Fairness

`SessionFair`: `WF(Resend)`, because the event loop sleeps for
`trudpGetSendQueueTimeout` and then calls `trudpProcessSendQueue`; that the
timeout is never too long is `NeverLate`, and that libev calls back is
`NoPacketWithoutTimer`, both proved below. `SF` of receiving one packet of the
session: a datagram that is sent again and again is not lost every time. Nothing
is assumed about sending, losing or the order of datagrams, and
`trudpChannelSendData` need not be called. Without `SF` the path could lose
everything, without `WF` the sender could give up; the code gives up only by the
DISCONNECTED event, which a session leaves out.

`Cat` (`FairStart`): `WF` of `Start`, since the search for a port is one loop
without waiting; `WF` of `ConnectTimer` and `ShowTimer`, which libev calls when
their time has come, and of the loop over `trudpProcessWriteQueue`, which nothing
interrupts; `WF` of `ShowIdle`, which assumes that the loop gets idle in the
end; `SF` of `LoopConnects`, since each turn of a program without libev looks at
the flag and other steps may set and clear it in between; and `SF` of
`Acknowledges(p)`: a peer that is sent packets again and again acknowledges one
in the end. That is said only where addresses are whole (`WholeAddresses`): what
is sent to a cut address does not reach the peer. It is not assumed that a silent
channel is found (`Disconnect`), that the peer sends anything, or that keys are pressed.

## 4. The proofs

TLAPS checks every leaf; no fact is assumed but the named assumptions on
constants, which TLC evaluates in the runs. The theorems hold for every number of
payloads, window, id limit, path, and any number of channels and peers.

| Theorem | Says | Assumes |
|---|---|---|
| `TrudpChannelProofs!TypeCorrect` | `Spec => []TypeOK` | `ChannelAssumption` and those it extends |
| `TrudpChannelProofs!WriteQueueIsBacked` | `Spec => []WriteQueueBacked`, with all faults | the same |
| `TrudpChannelProofs!OpeningWaitsAlone` | the window is kept and packet 0 waits alone, with all faults | the same |
| `TrudpChannelProofs!SessionCorrect` | in order and exactly once, for `Session` | also `Orderly` |
| `TrudpChannelProofs!SessionNeverResets` | `NoSpontaneousReset` for `Session` | also `Orderly` |
| `TrudpChannelProofs!SessionSavesAhead` | `ReceiveQueueAhead` for `Session` | also `Orderly` |
| `TrudpChannelProofs!SessionImplementsStream` | `Session` implements `ReliableStream` | also `Orderly` |
| `TrudpChannelProofs!SessionQueueDisciplined` | `SendQueueDisciplined` for `Session` | also `Orderly` |
| `TrudpChannelProofs!SessionStrandsNothing` | `NothingStranded` for `Session` | also `Orderly`, no flush |
| `TrudpChannelProofs!SessionSettlesDelivered` | `QuiescentMeansDelivered` for `Session` | also `Orderly`, no flush |
| `TrudpChannelProofs!ResetsResynchronise` | `Spec => []Resynchronisable`, with resets, restarts and flushes | also `Lossless` |
| `TrudpChannelProofs!ResetQueueDisciplined` | `Spec => []SendQueueDisciplined`, with the same | also `Lossless` |
| `TrudpStatProofs!SendsCountedOnce` | `StatSpec => []SendColumnExact` | `StatAssumption` and those it extends |
| `TrudpStatProofs!CopiesCountedOnce` | `StatSpec => []EveryCopyCountedOnce` | also `Orderly` |
| `TrudpStatProofs!AnswersCountedOnce` | `StatSpec => []EveryAnswerCountedOnce` | also `Orderly` |
| `TrudpTimerProofs!NeverLateCorrect` | types and `NeverLate` for any channels | `TimerAssumption` |
| `TrudpTimerProofs!TimerFollows` | `Spec => TimerFollowsPackets` | the same |
| `TrudpTimerProofs!EvImplementsLoop` | the libev host is an event loop of `TrudpSendTimer` | the same |
| `TrudpTimerProofs!PacketsHaveATimer` | `NeverLate` and `NoPacketWithoutTimer` under libev | also `EvAssumption` |
| `TrudpInstanceProofs!ApplicationAlwaysKnows` | `Spec => []ApplicationKnows` | `InstanceAssumption` |
| `TrudpInstanceProofs!WriteQueuesNeverStarve` | `Spec => []NoWriteQueueStarves` | the same |
| `TrudpInstanceProofs!WriteLoopServes` | `Spec => WriteLoopServesEachOnce` | the same |
| `TrudpInstanceProofs!SendStatisticAlwaysExact` | `Spec => []SendStatisticExact` | the same |
| `TrudpInstanceProofs!FruitlessTwiceIsEmpty` | `Spec => []TwoFruitlessCallsMeanEmpty` | the same |
| `TrudpInstanceProofs!StartImplementsClient` | whatever the search for a port finds, the program is the client of `TrudpCat` | also `CatAssumption` |
| `TrudpInstanceProofs!ServerIsWatched` | `StartSpec => []WatchedWhileConnected` | the same |
| `TrudpInstanceProofs!LeaksStayInStatistics` | `StartSpec => []StatisticsKeepLeaks` | the same |
| `TrudpInstanceProofs!SearchIsAlwaysThorough` | `StartSpec => []SearchIsThorough` | also `BindAssumption` |
| `TrudpKeepConnectionProofs!DeadPeersAreNoticed` | `Spec => []DeadPeerIsNoticed` | `KeepAssumption`, `TimeAssumption`; the first PING is due before the timeout |
| `TrudpKeepConnectionProofs!DisconnectsAfterSilence` | `Spec => []DisconnectedAfterSilence` | the same assumptions; `~Reconnects` |
| `TrudpKeepConnectionProofs!PatientPeersStayConnected` | `Spec => []LivePeersStayConnected` | the same assumptions; `Patience(MaxLost) <= DisconnectDelay` |
| `TrudpMemoryProofs!IndexesStayTrue` | `Spec => []IndexesMatchLists` | `MemoryAssumption` and those it extends |
| `TrudpMemoryProofs!QueuesAreSequences` | both packet queues implement `PacketSequence` | the same |
| `TrudpMemoryProofs!OnlyFlushesDangle` | `Spec => []OnlyFlushDangles` | the same |
| `TrudpMemoryProofs!PendingIsKeptOnce` | `Spec => []PendingKeptOnce` | the same |
| `TrudpMemoryProofs!RefillsAreSent` | `Spec => []RefillIsSent` | the same |
| `TrudpMemoryProofs!OnlyFlushesAndResetsLeak` | `Spec => OnlyFlushAndResetLeak` | the same |
| `TrudpMeasureProofs!ChecksAreExact` | `Spec => []CheckIsExact` | `MeasureAssumption` and those it extends |
| `TrudpMeasureProofs!TripTimesAreTheCopys` | `Spec => []TripTimeOfTheCopy` | the same |
| `TrudpMeasureProofs!RetransmissionsStayPaced` | `Spec => []RetransmissionPaced` | the same |

*Types.* `TypeInv` adds to `TypeOK` that receive queues are finite, which the
drain loop needs to end. One lemma per action. The types of `TrudpSendTimer` and
`TrudpInstance` are part of the theorems and lemmas on them and are checked there only.

*Write queue.* `SendPacket` puts a packet into the write queue only when the send
queue is not empty, and an ACK that empties the send queue takes one from the
write queue. Inductive with the types.

*Sessions.* `InOrderExactlyOnce` is not inductive: it says nothing about packets
on the way. `SessionInv` says that every DATA packet anywhere, in a queue, on the
wire or saved, carries the payload whose number its id stands for (`Numbered`:
the id of payload k is `IdOf(k)`), that the sender's next id is that of payload
`sent + 1`, the receiver's expected id that of payload `Len(delivered) + 1`, and
that saved packets are later ones. Then
`IdAfterInjective` and `DistanceSign` (from `TrudpFacts`) turn the receiver's
comparisons of ids into comparisons of payload numbers; this is where the bound of
half an id cycle is used. `DrainIsPrefix` shows that the drain loop
extends `delivered` by consecutive numbers, with `SavedCount` for the bound on the
count. That no RESET is sent follows because `NotOpened` needs an expected id 0
and `IsNewSession` a packet 0, and an established session has neither.
`SavedAreAhead` reads `ReceiveQueueAhead` off the invariant.
The refinement uses the same invariant and the identity mapping:
accepting a packet is `Deliver`, `SendData` is `Send`, all else stutters.

`Orderly` is the condition of the theorems on sessions: the session is established
(`StartId # 0`), or its channels are new, nothing flushes the write queue, and either
`zero_tolerance_f` is set or the path keeps order. Without it the theorems are false,
see 3.3: a late copy of packet 0 resets the session, and a flushed packet may
overtake packet 0. Both sessions of the runs satisfy it. For new channels
`OpeningInv` tells how packet 0 opens the session: while it is in the send queue it
is alone there, the receiver has got it at most, and no later packet is on the way;
on an ordered path its copies precede every later packet, so that none of them
comes after the receiver has moved on.

*Delivery.* `DeliveryInv` adds what an ACK on its way means: its id is that of a
payload the other end has received (`AckInv`). So when an ACK removes a packet from
the send queue, that payload is delivered or saved, and `KeptInv`, which is
`NothingStranded` for one end, is kept. Ids on both sides of the wrap name one
payload by `IdAfterInjective`. At rest the queues are empty and every payload
has been received; were one not delivered, the next one due would be saved, and saved
packets are later ones. `QueueInv` gives the
discipline of the send queue in a session; that the window is kept and packet 0
waits alone holds with resets, restarts and flushes too (`WindowInv`), as packet 0
never gets into a write queue. That ids do not repeat in a send queue holds for
sessions, and with resets where the ids they take are bounded too (below).

*Resets.* With resets and restarts datagrams of an old session are on the way, with
ids the new one will use again. `Resynchronisable` speaks of ends at rest; what makes
it true is the order of what is on the path before. `ResetInv` says it for each
direction (`Directed`). Either whatever comes next finds a receiver that rejects all
but packet 0, and so answers with a RESET (`Closed`): it expects 0, or a RESET or its
acknowledgement is on the path. Or the session runs (`Running`), and four things
hold: every packet the receiver lacks is on the path behind the last packet 0, waits
in the write queue or is saved (`Covers`); packets behind the last reset have ids the
sender has passed (`Below`); the receiver has nothing the sender has not sent, unless
the sender will be reset or a packet 0 comes (`NotAhead`); and packet 1 still waits
or has gone ahead. `OnesFirst` says of the path that no packet from id 2 on comes
before packet 1 of its session, which is why the drain of the receive queue cannot
start from packets of an old session. `Steady` adds for each end that ids in its
queues differ, that what awaits an ACK is in flight or has its ACK in flight, and
two accounts: ids are paid for by payloads and faults (`IdsPaid`), and what is on
both paths, with the answers it will cause, is too (`Room`), so that no path overflows.

`Lossless` is the condition of these two theorems: ordered paths that lose nothing, no early
retransmission, new channels without `zero_tolerance_f`, at each end fewer payloads
(of both) and faults than half the ids, and a `WireCap` of 3 datagrams for each payload
(a copy, its ACK, a RESET it may cause) and 2 for each fault. The instance of
`ResetFifo` satisfies it. Where RESETs can be lost `Resynchronisable` is false: that is
the run `LostReset`. With early timeouts or reordering the theorems say nothing.

*Statistics.* `SendColumnExact` is inductive with the types (`ColumnInv`). The other two
count datagrams at two ends and between them, and need the deliveries: `BooksInv`
joins `SessionInv` and `DeliveryInv` to the books of each end. A book is what an end
and its path have counted (`Book`), and every action is one entry in the books of the
two ends; that each entry keeps the balance is arithmetic (`EntryBalances`), and that
each action makes it is one lemma per action. Two things must be known for that. What
waits in a write queue is neither received nor on the path, so that it is new when it
leaves; and each payload from 1 to `sent` waits, is received, is on the path or is
nowhere (`PayloadsCounted`), in which case a lost copy pays for it (`GonePaid`).
That makes an end drop only what was sent again. And each datagram finds room on the path
(`PathRoom`, from `LoadPaid` and `StatAssumption`), so that only `Lose` loses it.
The balance and the disjointness were checked by TLC on the instance of `Statistic`
before they were proved.

*Timer.* `NeverLate` speaks of the clock and of open channels. `TimerInv` says
that the timer covers the head of every queue and that closed channels have
none. It need not know that the timer is exact, nor who owns it: a handler that
changes a queue either lowers the timer to the new head or recomputes it over the
map, and where it leaves it alone (reset, direct destruction, dangling key) the
time only stays too early. `TimerFollows` needs the types alone: `HasPacket` goes
from one handler to the next, a recalculated timer names the head of a queue of the
map, and a timer that notices a time notices that of a packet just queued.

*libev.* Every action of `TrudpEv` contains one of `TrudpSendTimer`, which gives
the refinement and `TimerInv` at once. `EvInv` adds that all expected times, the
shared timer and the call of the `ev_timer` lie at most the longest delay ahead
(`NearInv`), that the timer is started while any channel has a packet, and, in
the callback, that `least` has been set by a channel that was visited and has
one: this is what makes the callback start the timer again after it has cleared the flag.

*Instance.* `ApplicationKnows` is inductive with the types. `NoWriteQueueStarves`
needs to know how far `writeQueueIdx` is from a channel: `Turns(i)` is the number
of calls that can pass before it is the turn of the i-th, and `TurnsInTime` says
that with the calls it has missed this is at most the number of channels. A call
that stops at another channel, or comes to the end of the map, brings the i-th
one turn nearer; a change of the map starts the count again, and `Turns` is at
most the number of channels wherever `writeQueueIdx` points. For
`WriteLoopServes`, `LoopInv` says that a channel stands in the map once and that
what the loop owes is what stands, waiting, behind `writeQueueIdx`. `QueuesInv` says
that the statistic is the sum of the send queues over all peers, that channels out
of the map have no packets, and that a call that sent nothing ended at the end of
the map, so that the next one looks at every channel.

*Client.* `WatchedWhileConnected` is inductive with a few types: whoever removes
the server's channel also clears the flag, and a channel that is connected
anew gets a greeting into its send queue, where it stays until an answer
connects the channel. The start with its search is a refinement by the identity.
`CatQueues` is `QueuesInv` with what has leaked. The search keeps, for its current
port, that the addresses it has gone past were refused (`Progress`).

*Keep-alive.* A call reads the clock once and may act up to one unit later, so
`KeepInv` bounds every time stamp by the clock and a call by one unit. A dead peer
is noticed because the loop that polled a channel last found it silent for no longer
than the timeout (`NoticeInv`). DISCONNECTED follows silence because
nothing is received between the clock and the check, which is where a channel made
in the callback breaks it (`SilenceInv`). For living peers each end has a voucher
(`LiveInv`): its own next PING is due early enough, or a PING or its ACK is on the
way and will renew `lastReceived` in time. A lost datagram takes a voucher, and the next
PING, one `RetryDelay` later, is the new one. So the timeout needs
`Patience(MaxLost)`: the longer of the two PING delays, a poll, one unit of the call,
a retry per loss, and one way to and fro. A retry is the second PING delay with its
poll and call, and a round trip more when an answer takes longer than that delay.

*Memory.* `MemoryInv` has five parts. `ListsInv`: index and list of each packet queue
agree (`Matches`), and the three lists share no cell. `CopiesInv`: every element of
the write queue has a copy of its own, which no list holds. `HandlerInv`: the pointer
a handler keeps over a callback is still the element it will free, the one a flush keeps
after that is freed, and the packet an ACK makes room for finds that room.
`PendingInv`: the ids that are owed are those of the send queue and of the write queue but for one that a handler is moving.
`WindowInv`: packet 0 is alone. The last is needed because the callback of an ACK
may send, and only the window and packet 0 decide whether the refill still goes out.
Each action is a change of the heap and of one list, and the lemmas of the packet
queue (`AddMatches`, `DeleteMatches`, `RotateMatches`) say what it leaves of the rest. The
refinement maps the list to the packets in its cells; addresses are reused, so it
rests on `Matches` and the disjointness of the lists.

*Measurement.* `MeasureInv` says of everything that is queued or on the wire that it
was made right: field widths, `payload_length` the low bits of the length, checksum
and the clock of one host at the moment recorded in the history. Restamping and
answering keep that. Then the check is exact since the sum of the other bytes is
that of the maker, and since a byte that is changed by less than 256 changes the sum
modulo 256 (`DivMod`, `ModShift`). A trip time is a difference of two readings of
one clock, whose offset cancels across the wrap (`ModDiff`). Pacing follows from the
range of the middle trip time alone, whatever was measured.

*Sums.* `MapThenSumSet` and the checksum are recursive. That the sum over a set of
channels changes with one of them is shown without induction: `SumOver(g, D)` is the
number of units of `g`, a cardinality, and if it were not there would be a smallest
set of channels for which it is not (`MinimalSubset`), which one step of the
recursion refutes. That the function `ByteSum` exists and obeys its recursion is
shown in the same way, by the least number for which partial sums fail.

`SessionInv`, `EvInv`, `LoopInv` and `MemoryInv` were also checked by TLC before they
were proved.

*Ids.* `NextIsId`, `IdAfterStep`, `IdAfterInjective` and `DistanceSign` are the lemmas on
`GetNextSeqId` and `GetSeqIdDistance` for every limit: the next id is an id and not 0,
ids do not come back within a cycle, and the distance of two ids of a session is positive
exactly when the second was taken later, across the wrap.

Only model-checked: liveness, which is outside TLAPS (`ImplementsFairStream`,
`ClientComesBack`, `GateOpens`, `DisplayGoesOn`), though the safety it rests on is
proved. Every safety property of a passing run is stated by a theorem; where a theorem
needs a condition, the run satisfies it.

## 5. What is not modelled

- Contents and fragmentation of payloads, the channel number in a header (one
  channel per address), logging, and the texts the library prints.
- Of the statistics: megabytes, minimum, maximum and average trip times, the
  send speed (its code is commented out), and the layout of the tables.
- Sockets: waiting with `select` inside `udp.c` and buffer sizes. `sendto` errors
  are losses.
- `trudpDestroy`, which frees the instance at the end of a program, without its
  channels.
- Code under `RESERVED` and other code that nothing calls: the queue searches by
  time, `trudpGetReceiveQueueMax`, `trudp_SendQueueSize`, `isWritable`;
  `utils_r.h`, which is vendored.
- Of the examples: `trudpcat.c`, which no makefile builds, `snake.c`, a game, and
  `trudp2p` over `trudp_pth.c`, which is unfinished: `trudp_send` returns -1
  ("TODO: Need fix this test"), `trudp_free_recv_data` frees the memory of a
  channel that is still in the map, `trudp_recv` uses a channel that DISCONNECTED
  may have destroyed, and `trudp_connect` changes the map without the mutex. A
  model of it would stop at its first message.
- Applications that reset or destroy a channel inside PROCESS_SEND or GOT_DATA:
  the examples only send or print there.
- Stale ACKs after a reset are in `Spec` but no delivery property is stated for
  sessions that were reset: ids carry no session number and the code promises
  nothing about them. Likewise GOT_DATA may hand over packets of a session the
  peer has reset in the meantime.
- The resets of `TrudpChannel` do not touch the clocks of `TrudpKeepConnection`.

## 6. Plan

Done, in this order: ids, paths and channels with their proofs; timer,
keep-alive, packet queue; instance; libev timer; header, trip time and the
receive ring; packet statistics; memory of a channel with its callbacks; the
client of the samples from its search for a port on.

Proved: every safety property the passing runs check, and the refinements but for
their liveness.

Left:

1. Liveness, which stays with TLC.
2. Resets in `TrudpMeasure` and `TrudpKeepConnection` composed with those of
   `TrudpChannel`.
3. Resets on paths that reorder but do not lose, where `Lossless` says nothing.
