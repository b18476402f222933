----------------------------- MODULE TrudpCatStart -----------------------------
(***************************************************************************)
(* The clients of TrudpCat from their start: main looks for a port, and    *)
(* ends when it finds none, before the event loop runs.  The socket it     *)
(* gets decides whether the datagrams of the server find the channel that  *)
(* connectToPeer makes.                                                    *)
(***************************************************************************)
EXTENDS TrudpCat, TrudpUdpBind

\* trudpcat_ev.c does not look at the server's address before it binds.
StartInit == CatInit /\ BindInit /\ (byName => gated)

\* trudpcat_ev_wq.c takes trudpUdpBindRaw_cli for a client, trudpcat_ev.c
\* always trudpUdpBindRaw.
Hints == IF gated THEN ClientHints ELSE ServerHints

\* trudpProcessReceived, which libev's host_cb leads to, has room for every
\* address; network_loop and network_select_loop, the loops of builds without
\* libev, receive by themselves.
Room == IF useLibev THEN "sockaddr_storage" ELSE "sockaddr_in"

\* Until there is a socket nothing else happens, and die ends the program.
Start == BindRaw(Hints, Room) /\ UNCHANGED allVars

\* A step of the event loop.  Datagrams of a server that comes with an address
\* in another form go to a channel of their own, as those of any other peer.
Running ==
    /\ fd \in Families
    /\ Server \in connected' => ownKey
    /\ Bounded
    /\ UNCHANGED bindVars

StartNext == Start \/ (CatNext /\ Running)

StartSpec == StartInit /\ [][StartNext]_<<allVars, bindVars>>

\* Every peer is shown with its address, and what is sent there reaches it.
WholeAddresses == ~Cuts(fd, Room)

\* The search for a port goes on.  Then a peer that has packets of a channel to
\* acknowledge does so in the end, unless its channel has a cut address, and
\* libev calls the timers and, when the loop is idle in the end, the idle
\* watcher, or the loop goes round; silent channels need not be found.
FairStart ==
    /\ StartSpec
    /\ WF_<<allVars, bindVars>>(Start)
    /\ WF_<<allVars, bindVars>>(ConnectTimer /\ Running)
    /\ SF_<<allVars, bindVars>>(LoopConnects /\ Running)
    /\ WF_<<allVars, bindVars>>(looping /\ WriteLoop /\ Running)
    /\ WF_<<allVars, bindVars>>(ShowTimer /\ Running)
    /\ WF_<<allVars, bindVars>>(ShowIdle /\ Running)
    /\ \A p \in Peers : SF_<<allVars, bindVars>>(Acknowledges(p) /\ WholeAddresses /\ Running)

-----------------------------------------------------------------------------
SearchIsThorough == SearchIsThoroughFor(Hints)

\* A client of trudpcat_ev_wq.c that is given its server's address in numbers
\* comes back: it gets a socket of the family of that address, and then, if the
\* server answers, its channel is connected again and again, after silence, a
\* DISCONNECTED of another channel or a channel that a late datagram has made.
\* Built without libev it does so for an IPv4 server only.
ClientComesBack ==
    []<>(gated /\ ~byName /\ WholeAddresses => Server \in connected \/ fd = "error")

\* The gate of the messages opens again and again, when the peers acknowledge
\* and the server's answers find their channel, until replaced channels have
\* left packets in the statistic it reads: then it stays closed for good.  This
\* too is said of programs that see whole addresses.
GateOpens ==
    []<>(ownKey /\ WholeAddresses =>
            Gate \/ leaked.waiting > 0 \/ leaked.sending >= SendLimit)
==============================================================================
