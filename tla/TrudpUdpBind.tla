---------------------------- MODULE TrudpUdpBind ----------------------------
(***************************************************************************)
(* How a host gets its UDP socket: trudpUdpBindRaw and                     *)
(* trudpUdpBindRaw_cli of udp.c look for a port that is free, one address  *)
(* of the host after the other, one port after the other.                  *)
(*                                                                         *)
(* The family of the socket decides in which form the address of a peer    *)
(* comes with its datagrams, and that form is part of the key of a         *)
(* channel: an IPv6 socket shows an IPv4 peer under a mapped address, and  *)
(* a program that keeps no room for IPv6 addresses shows them cut.         *)
(*                                                                         *)
(* Which ports are free is up to the environment: a try may be refused or  *)
(* not.  Ports end far below 65535.                                        *)
(***************************************************************************)
EXTENDS Integers, Sequences, FiniteSets, SequencesExt

CONSTANTS
    LocalPort,      \* o.local_port: the first port that is tried
    TryPorts        \* NUMBER_OF_TRY_PORTS, 1000: how often the port is incremented

ASSUME BindAssumption == LocalPort \in Nat /\ TryPorts \in Nat

VARIABLES
    byName,         \* o.remote_address is a name, not the numbers of an address
    search,         \* the local variables of the search while it goes on
    fd,             \* what the search returned: the family of a socket, or "error"
    ownKey          \* datagrams of the server come with the address in its key

bindVars == <<byName, search, fd, ownKey>>

Families == {"IPv4", "IPv6"}

\* trudpUdpMakeAddr: the family of the server's address, which its numbers have
\* or of which getaddrinfo finds one first for its name
MakeAddr == Families

\* remote is the family of the server's address, rp are the addresses of the
\* host still to be tried for the current port, lists the results of
\* getaddrinfo that are not freed.
Search(remote) ==
    [remote |-> remote, step |-> "ask", port |-> LocalPort, i |-> 0, rp |-> <<>>,
     bound |-> {}, open |-> 0, lists |-> 0, refused |-> {}]

NoSearch == [step |-> "over"]

BindInit ==
    /\ byName \in BOOLEAN
    /\ search \in {Search(remote) : remote \in MakeAddr}
    /\ fd = "none"
    /\ ownKey = FALSE

-----------------------------------------------------------------------------
\* trudpUdpBindRaw, of servers and of trudpcat_ev.c: one IPv6 socket for all
ServerHints == {"IPv6"}

\* mutant of ClientHints: hints.ai_family stays AF_UNSPEC
ClientHintsAny == Families

\* trudpUdpBindRaw_cli: the family of the server's address, or any when it is
\* given by its name
ClientHints == IF byName THEN Families ELSE {search.remote}

\* getaddrinfo: a list of the host's addresses, in any order, or an error
GetAddrInfo(hints) ==
    /\ search.step = "ask"
    /\ \/ search' = [search EXCEPT !.step = "failed"]
       \/ \E res \in SetToSeqs(hints) :
            search' = [search EXCEPT !.step = "try", !.rp = res, !.lists = @ + 1]
    /\ UNCHANGED <<byName, fd, ownKey>>

\* mutant of Refuse: teosockClose is forgotten
RefuseUnclosed ==
    \E opened \in {0, 1} :
        search' = [search EXCEPT !.rp = Tail(@), !.open = @ + opened,
                   !.refused = @ \cup {<<Head(search.rp), search.port>>}]

\* There is no socket for the family, or the address is in use and the socket
\* is closed again.
Refuse ==
    search' = [search EXCEPT !.rp = Tail(@),
               !.refused = @ \cup {<<Head(search.rp), search.port>>}]

\* success_bind
Bind ==
    search' = [search EXCEPT !.step = "bound", !.bound = {<<Head(search.rp), search.port>>},
               !.open = @ + 1, !.lists = @ - 1]

\* _trudpUdpSocket and _trudpUdpBind for the next address of the list
TryAddress ==
    /\ search.step = "try" /\ search.rp # <<>>
    /\ Refuse \/ Bind
    /\ UNCHANGED <<byName, fd, ownKey>>

\* The list of the port that is passed over is not freed, only the last one is.
\* Every caller sets allow_port_increment_f.
NextPort ==
    /\ search.step = "try" /\ search.rp = <<>>
    /\ search' = IF search.i < TryPorts
                 THEN [search EXCEPT !.port = @ + 1, !.i = @ + 1, !.step = "ask"]
                 ELSE [search EXCEPT !.port = @ + 1, !.step = "failed", !.lists = @ - 1]
    /\ UNCHANGED <<byName, fd, ownKey>>

\* sendto: an IPv4 socket sends nothing to an IPv6 address
Reaches(socket, remote) == socket = "IPv4" => remote = "IPv4"

\* trudpUdpRecvfrom: a host that takes the addresses of datagrams into a struct
\* sockaddr_in has no room for half of an IPv6 address.
Cuts(socket, room) == socket = "IPv6" /\ room = "sockaddr_in"

\* trudpUdpGetAddr: in which form the address of a datagram may be shown.  It
\* reads the length recvfrom has returned, so the half that was cut is what lies
\* behind the struct: anything, the missing half included.
GetAddr(socket, room, remote) ==
    LET form == IF socket = "IPv6" /\ remote = "IPv4" THEN "mapped" ELSE remote
    IN  IF Cuts(socket, room) THEN {form, "cut"} ELSE {form}

\* trudpMakeKey: whether the address that the server's datagrams show is the one
\* for which connectToPeer makes a channel, which no socket has changed
SameKey(socket, room, remote) == {shown = remote : shown \in GetAddr(socket, room, remote)}

\* The search returns a socket or an error.  room is the struct that takes the
\* addresses of datagrams in this program.
Return(room) ==
    /\ search.step \in {"bound", "failed"}
    /\ \/ /\ search.bound = {}
          /\ fd' = "error"
          /\ ownKey' = FALSE
       \/ \E a \in search.bound :
            /\ fd' = a[1]
            /\ ownKey' \in IF Reaches(a[1], search.remote)
                          THEN SameKey(a[1], room, search.remote) ELSE {FALSE}
    /\ search' = NoSearch
    /\ UNCHANGED byName

BindRaw(hints, room) == GetAddrInfo(hints) \/ TryAddress \/ NextPort \/ Return(room)

-----------------------------------------------------------------------------
\* The search passes over a port only when every address of the host was
\* refused for it, gives up before all TryPorts + 1 ports were tried only when
\* getaddrinfo fails, and keeps no socket open but the one it returns.  Each
\* port it passes over costs one result of getaddrinfo.  (trudpUdpBindRaw and
\* trudpUdpBindRaw_cli)
SearchIsThoroughFor(hints) ==
    search.step # "over" =>
        /\ \A p \in LocalPort .. search.port - 1 : hints \X {p} \subseteq search.refused
        /\ \A a \in search.bound : a[2] = search.port
        /\ search.open = Cardinality(search.bound)
        /\ search.port > LocalPort + search.i =>
                search.step = "failed" /\ search.i = TryPorts
        /\ search.lists = IF search.step = "try" THEN search.i + 1 ELSE search.i
=============================================================================
