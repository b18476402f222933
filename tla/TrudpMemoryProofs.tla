-------------------------- MODULE TrudpMemoryProofs --------------------------
(***************************************************************************)
(* The memory of the queues of a channel, for any window, id limit and     *)
(* number of cells: no pointer dangles, each queue is the sequence of      *)
(* packets the channel works with, every packet that is sent or queued is  *)
(* kept once, and only a flush and a reset lose memory.                    *)
(***************************************************************************)
EXTENDS TrudpMemory, TrudpFacts, FiniteSetTheorems

-----------------------------------------------------------------------------
(***************************************************************************)
(* One packet queue, in a memory h: s is its list, x its index.            *)
(***************************************************************************)

\* IndexMatchesList of TrudpPacketQueue
Matches(h, s, x) ==
    /\ IsInjective(s)
    /\ ToSet(s) \subseteq DOMAIN h
    /\ \A id \in DOMAIN x : x[id] \in ToSet(s) /\ h[x[id]].id = id
    /\ \A a \in ToSet(s) : h[a].id \in DOMAIN x /\ x[h[a].id] = a

\* the packets of the list
ListOf(h, s) == [i \in DOMAIN s |-> h[s[i]]]
Stored(h, s) == {h[a] : a \in ToSet(s)}

LEMMA ListOfSeq ==
    ASSUME NEW h, NEW s \in Seq(Cells)
    PROVE  /\ ListOf(h, s) \in Seq(Stored(h, s))
           /\ Len(ListOf(h, s)) = Len(s) /\ DOMAIN ListOf(h, s) = DOMAIN s
           /\ DOMAIN s = 1 .. Len(s) /\ Len(s) \in Nat
           /\ \A i \in 1 .. Len(s) : ListOf(h, s)[i] = h[s[i]]
<1>1. Len(s) \in Nat /\ DOMAIN s = 1 .. Len(s) /\ \A i \in 1 .. Len(s) : s[i] \in ToSet(s)
  BY LenProperties DEF ToSet
<1>2. ListOf(h, s) = [i \in 1 .. Len(s) |-> h[s[i]]]
  BY <1>1 DEF ListOf
<1>3. \A i \in 1 .. Len(s) : h[s[i]] \in Stored(h, s)
  BY <1>1 DEF Stored
<1>4. ListOf(h, s) \in Seq(Stored(h, s))
  BY <1>1, <1>2, <1>3
<1>5. DOMAIN ListOf(h, s) = 1 .. Len(s)
  BY <1>2
<1>6. Len(ListOf(h, s)) = Len(s)
  BY <1>1, <1>4, <1>5, LenProperties
<1> QED BY <1>1, <1>2, <1>4, <1>5, <1>6

LEMMA EmptyMatches ==
    ASSUME NEW h PROVE Matches(h, <<>>, <<>>) /\ ListOf(h, <<>>) = <<>>
BY DEF Matches, ListOf, ToSet, IsInjective

\* A queue does not notice what becomes of the rest of the memory.
LEMMA ElsewhereMatches ==
    ASSUME NEW s, NEW h, NEW g, \A a \in ToSet(s) : g[a] = h[a]
    PROVE  /\ ListOf(g, s) = ListOf(h, s)
           /\ \A x : ToSet(s) \subseteq DOMAIN g /\ Matches(h, s, x) => Matches(g, s, x)
<1>1. \A i \in DOMAIN s : s[i] \in ToSet(s)
  BY DEF ToSet
<1>2. ListOf(g, s) = ListOf(h, s)
  BY <1>1 DEF ListOf
<1> QED BY <1>2 DEF Matches

\* one more place of a function
With(f, k, v) == [b \in DOMAIN f \cup {k} |-> IF b = k THEN v ELSE f[b]]

\* trudpPacketQueueAdd
LEMMA AddMatches ==
    ASSUME NEW h, NEW s \in Seq(Cells), NEW x, Matches(h, s, x),
           NEW p, p.id \notin DOMAIN x, NEW a \in Cells, a \notin DOMAIN h
    PROVE  /\ Matches(With(h, a, p), Append(s, a), With(x, p.id, a))
           /\ ListOf(With(h, a, p), Append(s, a)) = Append(ListOf(h, s), p)
           /\ a \notin ToSet(s)
<1> DEFINE g == With(h, a, p)
           y == With(x, p.id, a)
<1>10. g = [b \in DOMAIN h \cup {a} |-> IF b = a THEN p ELSE h[b]]
  BY DEF With
<1>11. y = [id \in DOMAIN x \cup {p.id} |-> IF id = p.id THEN a ELSE x[id]]
  BY DEF With
<1> HIDE DEF g, y
<1>1. a \notin ToSet(s)
  BY DEF Matches
<1>2. IsInjective(Append(s, a)) /\ ToSet(Append(s, a)) = ToSet(s) \cup {a}
  BY <1>1, InjectiveAppend, AppendElements DEF Matches
<1>3. /\ \A b \in ToSet(s) : g[b] = h[b] /\ b \in DOMAIN g
      /\ g[a] = p /\ a \in DOMAIN g
  BY <1>10, <1>1 DEF Matches
<1>4. Matches(g, Append(s, a), y)
  BY <1>11, <1>1, <1>2, <1>3 DEF Matches
<1>5. ListOf(g, Append(s, a)) = Append(ListOf(h, s), p)
  <2>1. /\ DOMAIN s = 1 .. Len(s) /\ DOMAIN Append(s, a) = 1 .. Len(s) + 1 /\ Len(s) \in Nat
        /\ \A i \in 1 .. Len(s) : Append(s, a)[i] = s[i] /\ s[i] \in ToSet(s)
        /\ Append(s, a)[Len(s) + 1] = a
    BY AppendProperties, LenProperties DEF ToSet
  <2>2. PICK T : ListOf(h, s) \in Seq(T) /\ Len(ListOf(h, s)) = Len(s)
                /\ \A i \in 1 .. Len(s) : ListOf(h, s)[i] = h[s[i]]
    BY ListOfSeq
  <2>3. ListOf(h, s) \in Seq(T \cup {p}) /\ p \in T \cup {p}
    BY <2>2, SeqMonotonic
  <2>4. /\ DOMAIN Append(ListOf(h, s), p) = 1 .. Len(s) + 1
        /\ \A i \in 1 .. Len(s) : Append(ListOf(h, s), p)[i] = h[s[i]]
        /\ Append(ListOf(h, s), p)[Len(s) + 1] = p
        /\ Append(ListOf(h, s), p) \in Seq(T \cup {p})
    BY <2>1, <2>2, <2>3, AppendProperties, LenProperties
  <2>5. ListOf(g, Append(s, a)) = [i \in 1 .. Len(s) + 1 |-> g[Append(s, a)[i]]]
    BY <2>1 DEF ListOf
  <2>6. ASSUME NEW i \in 1 .. Len(s) + 1
        PROVE  g[Append(s, a)[i]] = Append(ListOf(h, s), p)[i]
    <3>1. CASE i \in 1 .. Len(s)
      BY <1>3, <2>1, <2>4, <3>1
    <3>2. CASE i = Len(s) + 1
      BY <1>3, <2>1, <2>4, <3>2
    <3>3. i \in 1 .. Len(s) \/ i = Len(s) + 1
      <4>1. \A L \in Nat : \A j \in 1 .. L + 1 : j \in 1 .. L \/ j = L + 1
        OBVIOUS
      <4> QED BY <2>1, <4>1
    <3> QED BY <3>1, <3>2, <3>3
  <2>7. Append(ListOf(h, s), p) = [i \in 1 .. Len(s) + 1 |-> Append(ListOf(h, s), p)[i]]
    BY <2>4, LenProperties
  <2> QED BY <2>5, <2>6, <2>7
<1> QED BY <1>1, <1>4, <1>5 DEF g, y

\* trudpPacketQueueDelete
LEMMA DeleteMatches ==
    ASSUME NEW h, NEW s \in Seq(Cells), NEW x, Matches(h, s, x),
           NEW i \in DOMAIN s,
           NEW g, g = Restrict(h, DOMAIN h \ {s[i]}),
           NEW y, y = Restrict(x, DOMAIN x \ {h[s[i]].id})
    PROVE  /\ Matches(g, RemoveAt(s, i), y)
           /\ ListOf(g, RemoveAt(s, i)) = RemoveAt(ListOf(h, s), i)
           /\ ToSet(RemoveAt(s, i)) = ToSet(s) \ {s[i]}
<1>1. IsInjective(RemoveAt(s, i)) /\ s[i] \notin ToSet(RemoveAt(s, i))
  BY InjectiveRemoveAt DEF Matches
<1>2. ToSet(RemoveAt(s, i)) = ToSet(s) \ {s[i]}
  BY <1>1, RemoveAtElements
<1>3. s[i] \in ToSet(s)
  BY DEF ToSet
<1>4. \A b \in ToSet(s) \ {s[i]} : g[b] = h[b] /\ b \in DOMAIN g
  BY DEF Matches, Restrict
<1>5. \A b \in ToSet(s) \ {s[i]} : h[b].id # h[s[i]].id
  BY <1>3 DEF Matches
<1>6. Matches(g, RemoveAt(s, i), y)
  <2>1. ASSUME NEW id \in DOMAIN y
        PROVE  y[id] \in ToSet(s) \ {s[i]} /\ g[y[id]].id = id
    <3>1. id \in DOMAIN x /\ id # h[s[i]].id /\ y[id] = x[id]
      BY <2>1 DEF Restrict
    <3>2. x[id] \in ToSet(s) /\ h[x[id]].id = id
      BY <3>1 DEF Matches
    <3>3. x[id] # s[i]
      BY <3>1, <3>2
    <3> QED BY <1>4, <3>1, <3>2, <3>3
  <2>2. ASSUME NEW b \in ToSet(s) \ {s[i]}
        PROVE  g[b].id \in DOMAIN y /\ y[g[b].id] = b
    BY <1>4, <1>5 DEF Matches, Restrict
  <2> QED BY <1>1, <1>2, <1>4, <2>1, <2>2 DEF Matches
<1>7. ListOf(g, RemoveAt(s, i)) = RemoveAt(ListOf(h, s), i)
  <2>1. /\ DOMAIN s = 1 .. Len(s) /\ Len(s) \in Nat
        /\ DOMAIN RemoveAt(s, i) = 1 .. Len(s) - 1
        /\ \A k \in 1 .. Len(s) - 1 :
              RemoveAt(s, i)[k] = IF k < i THEN s[k] ELSE s[k + 1]
    BY LenProperties, RemoveAtPlaces
  <2>2. ListOf(h, s) = [k \in 1 .. Len(s) |-> h[s[k]]]
    BY <2>1 DEF ListOf
  <2>3. PICK T : ListOf(h, s) \in Seq(T) /\ Len(ListOf(h, s)) = Len(s) /\ i \in DOMAIN ListOf(h, s)
    BY ListOfSeq
  <2>4. /\ RemoveAt(ListOf(h, s), i) \in Seq(T)
        /\ DOMAIN RemoveAt(ListOf(h, s), i) = 1 .. Len(s) - 1
        /\ \A k \in 1 .. Len(s) - 1 :
              RemoveAt(ListOf(h, s), i)[k] = IF k < i THEN ListOf(h, s)[k] ELSE ListOf(h, s)[k + 1]
    BY <2>3, RemoveAtPlaces, RemoveAtElements
  <2>5. ASSUME NEW k \in 1 .. Len(s) - 1
        PROVE  g[RemoveAt(s, i)[k]] = RemoveAt(ListOf(h, s), i)[k]
    <3>1. RemoveAt(s, i)[k] \in ToSet(s) \ {s[i]}
      BY <1>2, <2>1 DEF ToSet
    <3>2. k \in 1 .. Len(s) /\ k + 1 \in 1 .. Len(s)
      BY <2>1
    <3>3. h[RemoveAt(s, i)[k]] = RemoveAt(ListOf(h, s), i)[k]
      BY <2>1, <2>2, <2>4, <3>2
    <3> QED BY <1>4, <3>1, <3>3
  <2>6. ListOf(g, RemoveAt(s, i)) = [k \in 1 .. Len(s) - 1 |-> g[RemoveAt(s, i)[k]]]
    BY <2>1 DEF ListOf
  <2>7. RemoveAt(ListOf(h, s), i) = [k \in 1 .. Len(s) - 1 |-> RemoveAt(ListOf(h, s), i)[k]]
    BY <2>4, LenProperties
  <2> QED BY <2>5, <2>6, <2>7
<1> QED BY <1>2, <1>6, <1>7

\* trudpPacketQueueMoveToEnd
LEMMA RotateMatches ==
    ASSUME NEW h, NEW s \in Seq(Cells), s # <<>>, NEW x, Matches(h, s, x),
           NEW t, t = Append(Tail(s), Head(s))
    PROVE  /\ Matches(h, t, x) /\ t \in Seq(Cells) /\ ToSet(t) = ToSet(s) /\ ListOf(h, s) # <<>>
           /\ ListOf(h, t) = Append(Tail(ListOf(h, s)), Head(ListOf(h, s)))
<1>1. /\ Tail(s) \in Seq(Cells) /\ Head(s) \in Cells
      /\ IsInjective(Tail(s)) /\ Head(s) \notin ToSet(Tail(s))
  BY HeadTailProperties, InjectiveTail DEF Matches
<1>2. ToSet(Tail(s)) \subseteq ToSet(s) /\ Head(s) \in ToSet(s)
      /\ ToSet(s) \subseteq ToSet(Tail(s)) \cup {Head(s)}
  BY TailElements, HeadElement, HeadAndTail
<1>3. t \in Seq(Cells) /\ IsInjective(t) /\ ToSet(t) = ToSet(s)
  <2>1. IsInjective(t)
    BY <1>1, InjectiveAppend
  <2>2. ToSet(t) = ToSet(Tail(s)) \cup {Head(s)}
    BY <1>1, AppendElements, ZenonT(30)
  <2> QED BY <1>1, <1>2, <2>1, <2>2, AppendProperties
<1>4. Matches(h, t, x)
  BY <1>3 DEF Matches
<1>5. /\ Len(s) \in Nat \ {0} /\ Len(Tail(s)) = Len(s) - 1 /\ Head(s) = s[1]
      /\ \A i \in 1 .. Len(s) - 1 : Tail(s)[i] = s[i + 1]
  BY HeadTailProperties, LenProperties, EmptySeq
<1>6. /\ Len(t) = Len(s) /\ DOMAIN t = 1 .. Len(s)
      /\ \A i \in 1 .. Len(s) - 1 : t[i] = s[i + 1]
      /\ t[Len(s)] = s[1]
  <2>1. /\ Len(t) = Len(s) - 1 + 1 /\ t \in Seq(Cells)
        /\ \A i \in 1 .. Len(s) - 1 : t[i] = Tail(s)[i]
        /\ t[Len(s) - 1 + 1] = Head(s)
    BY <1>1, <1>5, AppendProperties
  <2>2. Len(s) - 1 + 1 = Len(s)
    BY <1>5
  <2> QED BY <1>5, <2>1, <2>2, LenProperties
<1> DEFINE T == Stored(h, s)
           l == ListOf(h, s)
<1>7. l \in Seq(T) /\ Len(l) = Len(s) /\ \A i \in 1 .. Len(s) : l[i] = h[s[i]]
  BY ListOfSeq
<1> HIDE DEF T, l
<1>8. l # <<>>
  BY <1>5, <1>7
<1>9. /\ Tail(l) \in Seq(T) /\ Head(l) \in T /\ Head(l) = l[1] /\ Len(Tail(l)) = Len(s) - 1
      /\ \A i \in 1 .. Len(s) - 1 : Tail(l)[i] = l[i + 1]
  BY <1>7, <1>8, HeadTailProperties, LenProperties
<1>10. LET u == Append(Tail(l), Head(l))
       IN  /\ u \in Seq(T) /\ DOMAIN u = 1 .. Len(s)
           /\ \A i \in 1 .. Len(s) - 1 : u[i] = l[i + 1]
           /\ u[Len(s)] = l[1]
  <2> DEFINE u == Append(Tail(l), Head(l))
  <2>1. /\ u \in Seq(T) /\ Len(u) = Len(s) - 1 + 1
        /\ \A i \in 1 .. Len(s) - 1 : u[i] = Tail(l)[i]
        /\ u[Len(s) - 1 + 1] = Head(l)
    BY <1>9, AppendProperties
  <2>2. Len(s) - 1 + 1 = Len(s)
    BY <1>5
  <2> HIDE DEF u
  <2>3. u \in Seq(T) /\ DOMAIN u = 1 .. Len(s) /\ u[Len(s)] = l[1]
        /\ \A i \in 1 .. Len(s) - 1 : u[i] = l[i + 1]
    BY <1>9, <2>1, <2>2, LenProperties
  <2> QED BY <2>3 DEF u
<1>11. ListOf(h, t) = Append(Tail(l), Head(l))
  <2>1. ListOf(h, t) = [i \in 1 .. Len(s) |-> h[t[i]]]
    BY <1>6 DEF ListOf
  <2>2. Append(Tail(l), Head(l)) = [i \in 1 .. Len(s) |-> Append(Tail(l), Head(l))[i]]
    BY <1>10, LenProperties
  <2>3. ASSUME NEW i \in 1 .. Len(s) PROVE h[t[i]] = Append(Tail(l), Head(l))[i]
    <3>1. CASE i = Len(s)
      BY <1>5, <1>6, <1>7, <1>10, <3>1
    <3>2. CASE i # Len(s)
      <4>1. i \in 1 .. Len(s) - 1 /\ i + 1 \in 1 .. Len(s)
        <5>1. \A L \in Nat : \A j \in 1 .. L : j # L => j \in 1 .. L - 1 /\ j + 1 \in 1 .. L
          OBVIOUS
        <5>2. Len(s) \in Nat
          BY <1>5
        <5> HIDE <1>5
        <5> QED BY <3>2, <5>1, <5>2
      <4> QED BY <1>6, <1>7, <1>10, <4>1
    <3> QED BY <3>1, <3>2
  <2> QED BY <2>1, <2>2, <2>3
<1> QED BY <1>3, <1>4, <1>8, <1>11 DEF l

-----------------------------------------------------------------------------
(***************************************************************************)
(* The queues of a channel                                                 *)
(***************************************************************************)
S == ToSet(sendQueue)
R == ToSet(receiveQueue)
W == ToSet(writeQueue)

SentPackets == [id : PacketIds, content : {"data"}]
ReceivedPackets == [id : ReceivedIds, content : Contents]

\* the packet an element of the write queue stands for
Copy(e) == heap[e].packet_ptr
CopyId(e) == heap[Copy(e)].id

Holding(step) == handler.step = step

\* Every list has its own cells, and every element of the write queue a copy
\* of its own, with an id of its own.
ListsInv ==
    /\ DOMAIN heap \subseteq Cells
    /\ sendQueue \in Seq(Cells) /\ receiveQueue \in Seq(Cells) /\ writeQueue \in Seq(Cells)
    /\ Matches(heap, sendQueue, sendIdx) /\ Matches(heap, receiveQueue, receiveIdx)
    /\ IsInjective(writeQueue)
    /\ S \cap R = {} /\ S \cap W = {} /\ R \cap W = {}
    /\ \A a \in S : heap[a] \in SentPackets
    /\ \A a \in R : heap[a] \in ReceivedPackets

CopiesInv ==
    \A e \in W :
        /\ e \in DOMAIN heap /\ Copy(e) \in DOMAIN heap
        /\ Copy(e) \notin S \cup R \cup W
        /\ heap[Copy(e)] \in SentPackets /\ CopyId(e) # 0
        /\ \A f \in W : CopyId(e) = CopyId(f) => e = f

\* The element kept over a callback is there, and freed after a flush; there is room in the send queue for
\* the packet an ACK makes room for, and in PROCESS_SEND this is in the send queue.
HandlerInv ==
    /\ handler \in {Idle} \cup [step : {"GOT_ACK", "refill", "PROCESS_SEND", "flush", "length"},
                              kept : Cells]
    /\ Holding("length") => handler.kept \notin DOMAIN heap
    /\ Holding("GOT_ACK") => handler.kept \in S
    /\ handler.step \in {"refill", "PROCESS_SEND", "flush"} =>
          writeQueue # <<>> /\ Head(writeQueue) = handler.kept
    /\ Holding("refill") => Len(sendQueue) < NormalSSize /\ \A a \in S : heap[a].id # 0
    /\ Holding("PROCESS_SEND") => \E a \in S : heap[a].id = CopyId(handler.kept)

\* the elements whose packet no handler has sent already
Unsent == IF Holding("PROCESS_SEND") THEN W \ {handler.kept} ELSE W

PendingInv ==
    /\ pending = {heap[a].id : a \in S} \cup {CopyId(e) : e \in Unsent}
    /\ \A a \in S : \A e \in Unsent : heap[a].id # CopyId(e)

\* Packet 0 awaits its ACK alone.
WindowInv ==
    /\ sendId \in PacketIds
    /\ Len(sendQueue) <= NormalSSize
    /\ \A a \in S : heap[a].id = 0 => Len(sendQueue) = 1
    /\ sendId = 0 => sendQueue = <<>> /\ writeQueue = <<>>

MemoryInv == ListsInv /\ CopiesInv /\ HandlerInv /\ PendingInv /\ WindowInv

\* The instances of TrudpPacketQueue have the same library.
LEMMA SameOperators ==
    /\ \A s : SendQ!ToSet(s) = ToSet(s) /\ ReceiveQ!ToSet(s) = ToSet(s)
    /\ \A s : /\ SendQ!IsInjective(s) <=> IsInjective(s)
              /\ ReceiveQ!IsInjective(s) <=> IsInjective(s)
    /\ \A s, i : SendQ!RemoveAt(s, i) = RemoveAt(s, i) /\ ReceiveQ!RemoveAt(s, i) = RemoveAt(s, i)
    /\ \A f, D : SendQ!Restrict(f, D) = Restrict(f, D) /\ ReceiveQ!Restrict(f, D) = Restrict(f, D)
<1>1. \A s : SendQ!ToSet(s) = ToSet(s) /\ ReceiveQ!ToSet(s) = ToSet(s)
  BY DEF SendQ!ToSet, ReceiveQ!ToSet, ToSet
<1>2. \A s : /\ SendQ!IsInjective(s) <=> IsInjective(s)
             /\ ReceiveQ!IsInjective(s) <=> IsInjective(s)
  BY DEF SendQ!IsInjective, ReceiveQ!IsInjective, IsInjective
<1>3. \A s, i : SendQ!RemoveAt(s, i) = RemoveAt(s, i) /\ ReceiveQ!RemoveAt(s, i) = RemoveAt(s, i)
  BY DEF SendQ!RemoveAt, ReceiveQ!RemoveAt, RemoveAt
<1>4. \A f, D : SendQ!Restrict(f, D) = Restrict(f, D) /\ ReceiveQ!Restrict(f, D) = Restrict(f, D)
  BY DEF SendQ!Restrict, ReceiveQ!Restrict, Restrict
<1> QED BY <1>1, <1>2, <1>3, <1>4

LEMMA MatchesHere ==
    /\ SendQ!IndexMatchesList <=> Matches(heap, sendQueue, sendIdx)
    /\ ReceiveQ!IndexMatchesList <=> Matches(heap, receiveQueue, receiveIdx)
BY SameOperators DEF SendQ!IndexMatchesList, ReceiveQ!IndexMatchesList, Matches

LEMMA MemoryInit == Init => MemoryInv
<1> SUFFICES ASSUME Init PROVE MemoryInv
  OBVIOUS
<1>1. /\ heap = <<>> /\ sendQueue = <<>> /\ sendIdx = <<>> /\ receiveQueue = <<>> /\ receiveIdx = <<>>
      /\ writeQueue = <<>> /\ sendId = 0 /\ handler = Idle /\ pending = {}
  BY DEF Init, SendQ!Init, ReceiveQ!Init
<1>2. S = {} /\ R = {} /\ W = {}
  BY <1>1 DEF S, R, W, ToSet
<1>3. ListsInv /\ CopiesInv
  BY <1>1, <1>2, EmptyMatches DEF ListsInv, CopiesInv, IsInjective
<1>4. HandlerInv
  BY <1>1, <1>2 DEF HandlerInv, Holding, Idle
<1>5. PendingInv
  BY <1>1, <1>2 DEF PendingInv, Unsent, Holding, Idle
<1>6. WindowInv
  BY <1>1, <1>2, MemoryAssumption, PacketIdLimitAssumption DEF WindowInv, PacketIds
<1> QED BY <1>3, <1>4, <1>5, <1>6 DEF MemoryInv

-----------------------------------------------------------------------------
(***************************************************************************)
(* What the operations of the queues do to the memory                      *)
(***************************************************************************)

\* All that was allocated is still there.
Kept(g) == \A b \in DOMAIN heap : b \in DOMAIN g /\ g[b] = heap[b]

\* Unreachable
Lost == DOMAIN heap \ (S \cup R \cup W \cup {Copy(e) : e \in W})

\* [Next]_packets of PacketSequence, from l to m, for packets in P
QueueStep(l, m, P) ==
    \/ \E p \in P : (\A i \in DOMAIN l : l[i].id # p.id) /\ m = Append(l, p)
    \/ \E i \in DOMAIN l : m = RemoveAt(l, i)
    \/ l # <<>> /\ m = Append(Tail(l), Head(l))
    \/ m = <<>>
    \/ m = l

\* No queue notices.
ListsStay ==
    /\ ListOf(heap', sendQueue') = ListOf(heap, sendQueue)
    /\ ListOf(heap', receiveQueue') = ListOf(heap, receiveQueue)

\* trudpSendQueueAdd takes a cell that nothing uses.
LEMMA SendQueueAdds ==
    ASSUME ListsInv, CopiesInv, NEW p \in SentPackets, SendQ!Add(p),
           UNCHANGED <<receiver, writeQueue>>
    PROVE  /\ ListsInv' /\ CopiesInv' /\ Kept(heap') /\ Lost' \subseteq Lost
           /\ Len(sendQueue') = Len(sendQueue) + 1
           /\ QueueStep(ListOf(heap, sendQueue), ListOf(heap', sendQueue'), SentPackets)
           /\ ListOf(heap', receiveQueue') = ListOf(heap, receiveQueue)
           /\ W' = W /\ \A e \in W : CopyId(e)' = CopyId(e)
           /\ \E a \in Cells \ DOMAIN heap : S' = S \cup {a} /\ heap'[a] = p
<1>1. PICK a \in Cells \ DOMAIN heap :
        /\ p.id \notin DOMAIN sendIdx
        /\ heap' = [x \in DOMAIN heap \cup {a} |-> IF x = a THEN p ELSE heap[x]]
        /\ sendQueue' = Append(sendQueue, a)
        /\ sendIdx' = [id \in DOMAIN sendIdx \cup {p.id} |-> IF id = p.id THEN a ELSE sendIdx[id]]
  BY DEF SendQ!Add, SendQ!Found
<1>2. receiveQueue' = receiveQueue /\ receiveIdx' = receiveIdx /\ writeQueue' = writeQueue
  BY DEF receiver
<1>3. Kept(heap') /\ heap'[a] = p /\ DOMAIN heap' = DOMAIN heap \cup {a}
  BY <1>1 DEF Kept
<1>4. /\ Matches(heap', sendQueue', sendIdx')
      /\ ListOf(heap', sendQueue') = Append(ListOf(heap, sendQueue), p)
  <2>1. heap' = With(heap, a, p) /\ sendIdx' = With(sendIdx, p.id, a)
    BY <1>1 DEF With
  <2>2. sendQueue \in Seq(Cells) /\ Matches(heap, sendQueue, sendIdx)
    BY DEF ListsInv
  <2>3. p.id \notin DOMAIN sendIdx /\ a \in Cells /\ a \notin DOMAIN heap
    BY <1>1
  <2>4. /\ Matches(With(heap, a, p), Append(sendQueue, a), With(sendIdx, p.id, a))
        /\ ListOf(With(heap, a, p), Append(sendQueue, a)) = Append(ListOf(heap, sendQueue), p)
    BY <2>2, <2>3, AddMatches
  <2> QED BY <1>1, <2>1, <2>4
<1>5. /\ sendQueue' \in Seq(Cells) /\ Len(sendQueue') = Len(sendQueue) + 1
      /\ ToSet(sendQueue') = ToSet(sendQueue) \cup {a}
  BY <1>1, AppendProperties, AppendElements DEF ListsInv
<1>6. S' = S \cup {a} /\ R' = R /\ W' = W
  BY <1>2, <1>5 DEF S, R, W
<1>7. S \subseteq DOMAIN heap /\ R \subseteq DOMAIN heap /\ W \subseteq DOMAIN heap
  BY DEF ListsInv, CopiesInv, Matches, S, R, W
<1>8. /\ Matches(heap', receiveQueue', receiveIdx')
      /\ ListOf(heap', receiveQueue') = ListOf(heap, receiveQueue)
  <2>1. ToSet(receiveQueue) \subseteq DOMAIN heap' /\ \A b \in ToSet(receiveQueue) : heap'[b] = heap[b]
    BY <1>3, <1>7 DEF R, Kept
  <2> QED BY <1>2, <2>1, ElsewhereMatches DEF ListsInv
<1>9. ListsInv'
  BY <1>1, <1>2, <1>3, <1>4, <1>5, <1>6, <1>7, <1>8 DEF ListsInv, Kept
<1>10. CopiesInv'
  BY <1>1, <1>3, <1>6, <1>7 DEF CopiesInv, Copy, CopyId, Kept
<1>11. \A e \in W : Copy(e)' = Copy(e) /\ CopyId(e)' = CopyId(e)
  BY <1>3, <1>7 DEF CopiesInv, Copy, CopyId, Kept
<1>12. Lost' \subseteq Lost
  BY <1>3, <1>6, <1>11 DEF Lost
<1>13. QueueStep(ListOf(heap, sendQueue), ListOf(heap', sendQueue'), SentPackets)
  <2>1. \A i \in DOMAIN ListOf(heap, sendQueue) : ListOf(heap, sendQueue)[i].id # p.id
    <3>1. \A b \in ToSet(sendQueue) : heap[b].id # p.id
      BY <1>1 DEF ListsInv, Matches
    <3> QED BY <3>1 DEF ListOf, ToSet
  <2> QED BY <1>4, <2>1 DEF QueueStep
<1> QED BY <1>1, <1>3, <1>5, <1>6, <1>8, <1>9, <1>10, <1>11, <1>12, <1>13

\* trudpWriteQueueAdd takes two.
LEMMA WriteQueueAdds ==
    ASSUME ListsInv, CopiesInv, NEW p \in SentPackets, p.id # 0,
           \A e \in W : CopyId(e) # p.id, WriteQueueAdd(p), UNCHANGED <<sender, receiver>>
    PROVE  /\ ListsInv' /\ CopiesInv' /\ Kept(heap') /\ Lost' \subseteq Lost /\ ListsStay
           /\ S' = S /\ \A f \in W : CopyId(f)' = CopyId(f)
           /\ \E e \in Cells \ DOMAIN heap :
                 /\ W' = W \cup {e} /\ CopyId(e)' = p.id
                 /\ writeQueue' = Append(writeQueue, e)
<1>1. PICK c \in Cells \ DOMAIN heap, e \in Cells \ DOMAIN heap :
        /\ c # e
        /\ heap' = [x \in DOMAIN heap \cup {c, e} |->
                      CASE x = c -> p [] x = e -> [packet_ptr |-> c] [] OTHER -> heap[x]]
        /\ writeQueue' = Append(writeQueue, e)
  BY DEF WriteQueueAdd
<1>2. /\ sendQueue' = sendQueue /\ sendIdx' = sendIdx
      /\ receiveQueue' = receiveQueue /\ receiveIdx' = receiveIdx
  BY DEF sender, receiver
<1>3. DOMAIN heap' = DOMAIN heap \cup {c, e}
  BY <1>1
<1>4. heap'[c] = p
  BY <1>1
<1>5. heap'[e] = [packet_ptr |-> c]
  BY <1>1
<1>6. Kept(heap')
  <2> SUFFICES ASSUME NEW b \in DOMAIN heap PROVE heap'[b] = heap[b]
    BY <1>3 DEF Kept
  <2>1. b # c /\ b # e /\ b \in DOMAIN heap \cup {c, e}
    BY <1>1
  <2> QED BY <1>1, <2>1
<1>7. W \subseteq DOMAIN heap /\ S \subseteq DOMAIN heap /\ R \subseteq DOMAIN heap
  BY DEF ListsInv, CopiesInv, Matches, S, R, W
<1>8. /\ IsInjective(writeQueue') /\ writeQueue' \in Seq(Cells)
      /\ ToSet(writeQueue') = ToSet(writeQueue) \cup {e}
  <2>1. e \notin ToSet(writeQueue)
    BY <1>1, <1>7 DEF W
  <2> QED BY <1>1, <2>1, InjectiveAppend, AppendProperties, AppendElements DEF ListsInv
<1>9. S' = S /\ R' = R /\ W' = W \cup {e}
  BY <1>2, <1>8 DEF S, R, W
<1>10. /\ Matches(heap', sendQueue', sendIdx')
       /\ ListOf(heap', sendQueue') = ListOf(heap, sendQueue)
  <2>1. ToSet(sendQueue) \subseteq DOMAIN heap' /\ \A b \in ToSet(sendQueue) : heap'[b] = heap[b]
    BY <1>6, <1>7 DEF S, Kept
  <2> QED BY <1>2, <2>1, ElsewhereMatches DEF ListsInv
<1>11. /\ Matches(heap', receiveQueue', receiveIdx')
       /\ ListOf(heap', receiveQueue') = ListOf(heap, receiveQueue)
  <2>1. ToSet(receiveQueue) \subseteq DOMAIN heap' /\ \A b \in ToSet(receiveQueue) : heap'[b] = heap[b]
    BY <1>6, <1>7 DEF R, Kept
  <2> QED BY <1>2, <2>1, ElsewhereMatches DEF ListsInv
<1>12. ListsInv'
  BY <1>1, <1>2, <1>3, <1>6, <1>7, <1>8, <1>9, <1>10, <1>11 DEF ListsInv, Kept
<1>13. Copy(e)' = c /\ CopyId(e)' = p.id
  BY <1>4, <1>5 DEF Copy, CopyId
<1>14. \A f \in W : Copy(f)' = Copy(f) /\ CopyId(f)' = CopyId(f)
  BY <1>6, <1>7 DEF CopiesInv, Copy, CopyId, Kept
<1>15. CopiesInv'
  <2> SUFFICES ASSUME NEW f \in W'
               PROVE  /\ f \in DOMAIN heap' /\ Copy(f)' \in DOMAIN heap'
                      /\ Copy(f)' \notin S' \cup R' \cup W'
                      /\ heap'[Copy(f)'] \in SentPackets /\ CopyId(f)' # 0
                      /\ \A d \in W' : CopyId(f)' = CopyId(d)' => f = d
    BY DEF CopiesInv, SentPackets
  <2>1. CASE f = e
    BY <1>1, <1>3, <1>4, <1>7, <1>9, <1>13, <1>14, <2>1
  <2>2. CASE f \in W
    BY <1>1, <1>3, <1>6, <1>7, <1>9, <1>13, <1>14, <2>2 DEF CopiesInv, Kept
  <2> QED BY <1>9, <2>1, <2>2
<1>16. Lost' \subseteq Lost
  BY <1>3, <1>9, <1>13, <1>14 DEF Lost
<1> QED BY <1>1, <1>6, <1>9, <1>10, <1>11, <1>12, <1>13, <1>14, <1>15, <1>16 DEF ListsStay

-----------------------------------------------------------------------------
(***************************************************************************)
(* The handlers.  A step keeps the invariant, is one of a packet sequence  *)
(* for both queues, and loses no memory.                                   *)
(***************************************************************************)
StepsQueues ==
    /\ QueueStep(ListOf(heap, sendQueue), ListOf(heap', sendQueue'), SentPackets)
    /\ QueueStep(ListOf(heap, receiveQueue), ListOf(heap', receiveQueue'), ReceivedPackets)

LEMMA StaysSteps == ListsStay => StepsQueues
BY DEF ListsStay, StepsQueues, QueueStep

\* A packet is sent now only when packet 0 does not await its ACK.
LEMMA SendNowExcludesFirst ==
    ASSUME ListsInv, WindowInv, SendNow
    PROVE  Len(sendQueue) < NormalSSize /\ \A a \in S : heap[a].id # 0
<1>1. ASSUME NEW a \in S, heap[a].id = 0 PROVE FALSE
  <2>1. Len(sendQueue) = 1
    BY <1>1 DEF WindowInv
  <2>2. a = Head(sendQueue)
    BY <1>1, <2>1, HeadTailProperties, LenProperties DEF S, ToSet, ListsInv
  <2> QED BY <1>1, <2>1, <2>2 DEF SendNow
<1> QED BY <1>1 DEF SendNow

LEMMA SendDataStep ==
    ASSUME MemoryInv, SendData
    PROVE  MemoryInv' /\ StepsQueues /\ Lost' \subseteq Lost
<1> DEFINE p == [id |-> sendId, content |-> "data"]
<1>1. p \in SentPackets /\ p.id = sendId
  BY DEF MemoryInv, WindowInv, SentPackets
<1>2. /\ SendPacket(p) /\ sendId \notin pending /\ pending' = pending \cup {sendId}
      /\ handler.step \in {"idle", "GOT_ACK", "PROCESS_SEND", "flush"}
      /\ handler' = handler /\ UNCHANGED receiver
  BY DEF SendData
<1>3. sendId' \in PacketIds \ {0}
  BY NextIsId DEF SendData, MemoryInv, WindowInv
<1> HIDE DEF p
<1>4. /\ ListsInv /\ CopiesInv /\ HandlerInv /\ PendingInv /\ WindowInv
  BY DEF MemoryInv
<1>5. Len(sendQueue) \in Nat /\ NormalSSize \in Nat \ {0}
  BY LenProperties, MemoryAssumption DEF MemoryInv, ListsInv
<1>6. CASE SendNow /\ SendQ!Add(p) /\ UNCHANGED writeQueue
  <2>1. /\ ListsInv' /\ CopiesInv' /\ Kept(heap') /\ Lost' \subseteq Lost
        /\ Len(sendQueue') = Len(sendQueue) + 1
        /\ QueueStep(ListOf(heap, sendQueue), ListOf(heap', sendQueue'), SentPackets)
        /\ ListOf(heap', receiveQueue') = ListOf(heap, receiveQueue)
        /\ W' = W /\ \A e \in W : CopyId(e)' = CopyId(e)
        /\ \E a \in Cells \ DOMAIN heap : S' = S \cup {a} /\ heap'[a] = p
    BY <1>1, <1>2, <1>4, <1>6, SendQueueAdds
  <2>2. PICK a \in Cells \ DOMAIN heap : S' = S \cup {a} /\ heap'[a] = p
    BY <2>1
  <2>3. \A b \in S : heap'[b] = heap[b]
    BY <1>4, <2>1 DEF Kept, ListsInv, Matches, S
  <2>4. HandlerInv'
    <3>1. Holding("PROCESS_SEND") => handler.kept \in W
      BY <1>4, HeadElement DEF HandlerInv, Holding, ListsInv, W
    <3>2. Holding("PROCESS_SEND")' => \E b \in S' : heap'[b].id = CopyId(handler.kept)'
      BY <1>2, <1>4, <2>1, <2>2, <2>3, <3>1 DEF HandlerInv, Holding
    <3> QED BY <1>2, <1>4, <1>6, <2>2, <3>2 DEF HandlerInv, Holding
  <2>5. PendingInv'
    <3>1. Unsent' = Unsent /\ Unsent \subseteq W
      BY <1>2, <2>1 DEF Unsent, Holding
    <3> QED BY <1>1, <1>2, <1>4, <2>1, <2>2, <2>3, <3>1 DEF PendingInv
  <2>6. WindowInv'
    <3>1. Len(sendQueue) < NormalSSize /\ \A b \in S : heap[b].id # 0
      BY <1>4, <1>6, SendNowExcludesFirst
    <3>2. sendId = 0 => Len(sendQueue) = 0
      BY <1>4, EmptySeq DEF WindowInv
    <3>3. Len(sendQueue') <= NormalSSize
      BY <1>5, <2>1, <3>1
    <3>4. ASSUME NEW b \in S', heap'[b].id = 0 PROVE Len(sendQueue') = 1
      BY <1>1, <2>1, <2>2, <2>3, <3>1, <3>2, <3>4
    <3> QED BY <1>3, <3>3, <3>4 DEF WindowInv
  <2>7. StepsQueues
    BY <2>1 DEF StepsQueues, QueueStep
  <2> QED BY <2>1, <2>4, <2>5, <2>6, <2>7 DEF MemoryInv
<1>7. CASE ~SendNow /\ WriteQueueAdd(p) /\ UNCHANGED sender
  <2>1. sendId # 0
    BY <1>4, <1>5, <1>7, EmptySeq DEF WindowInv, SendNow
  <2>2. \A e \in W : CopyId(e) # sendId
    BY <1>2, <1>4 DEF PendingInv, Unsent, HandlerInv
  <2>3. /\ ListsInv' /\ CopiesInv' /\ Kept(heap') /\ Lost' \subseteq Lost /\ ListsStay
        /\ S' = S /\ \A f \in W : CopyId(f)' = CopyId(f)
        /\ \E e \in Cells \ DOMAIN heap :
              W' = W \cup {e} /\ CopyId(e)' = sendId /\ writeQueue' = Append(writeQueue, e)
    BY <1>1, <1>2, <1>4, <1>7, <2>1, <2>2, WriteQueueAdds
  <2>4. PICK e \in Cells \ DOMAIN heap :
          W' = W \cup {e} /\ CopyId(e)' = sendId /\ writeQueue' = Append(writeQueue, e)
    BY <2>3
  <2>5. sendQueue' = sendQueue
    BY <1>7 DEF sender
  <2>6. (\A b \in S : heap'[b] = heap[b]) /\ e \notin W
    BY <1>4, <2>3 DEF Kept, ListsInv, CopiesInv, Matches, S
  <2>7. writeQueue # <<>> => writeQueue' # <<>> /\ Head(writeQueue') = Head(writeQueue)
                             /\ Head(writeQueue) \in W
    BY <1>4, <2>4, HeadElement, AppendProperties, HeadTailProperties, LenProperties, EmptySeq
       DEF ListsInv, W
  <2>8. HandlerInv'
    <3>1. Holding("PROCESS_SEND")' => \E a \in S' : heap'[a].id = CopyId(handler.kept)'
      BY <1>2, <1>4, <2>3, <2>6, <2>7 DEF HandlerInv, Holding
    <3> QED BY <1>2, <1>4, <2>3, <2>7, <3>1 DEF HandlerInv, Holding
  <2>9. PendingInv'
    <3>1. Unsent' = Unsent \cup {e} /\ Unsent \subseteq W
      BY <1>2, <1>4, <2>4, <2>6, <2>7 DEF Unsent, Holding, HandlerInv
    <3> QED BY <1>2, <1>4, <2>3, <2>4, <2>6, <3>1 DEF PendingInv
  <2>10. WindowInv'
    BY <1>3, <1>4, <2>3, <2>5, <2>6 DEF WindowInv
  <2>11. StepsQueues
    BY <2>3, StaysSteps
  <2> QED BY <2>3, <2>8, <2>9, <2>10, <2>11 DEF MemoryInv
<1> QED BY <1>2, <1>6, <1>7 DEF SendPacket

LEMMA ReceiveAckStep ==
    ASSUME MemoryInv, NEW id \in PacketIds, ReceiveAck(id)
    PROVE  MemoryInv' /\ StepsQueues /\ Lost' \subseteq Lost
<1>1. /\ handler = Idle /\ id \in DOMAIN sendIdx /\ handler' = At("GOT_ACK", sendIdx[id])
      /\ heap' = heap /\ sendQueue' = sendQueue /\ sendIdx' = sendIdx
      /\ receiveQueue' = receiveQueue /\ receiveIdx' = receiveIdx
      /\ writeQueue' = writeQueue /\ sendId' = sendId /\ pending' = pending
  BY DEF ReceiveAck, SendQ!Found, SendQ!FindById, sender, receiver
<1>2. sendIdx[id] \in S /\ S \subseteq Cells
  BY <1>1 DEF MemoryInv, ListsInv, Matches, S
<1>3. HandlerInv'
  BY <1>1, <1>2 DEF HandlerInv, Holding, At, S
<1>4. ListsInv' /\ WindowInv' /\ Lost' = Lost /\ ListsStay
  BY <1>1 DEF MemoryInv, ListsInv, WindowInv, ListsStay, Lost, S, R, W, Copy
<1>5. CopiesInv'
  BY <1>1 DEF MemoryInv, CopiesInv, S, R, W, Copy, CopyId
<1>6. PendingInv'
  <2>1. Unsent' = Unsent
    BY <1>1 DEF Unsent, Holding, Idle, At, W
  <2> QED BY <1>1, <2>1 DEF MemoryInv, PendingInv, S, Copy, CopyId
<1> QED BY <1>3, <1>4, <1>5, <1>6, StaysSteps DEF MemoryInv

LEMMA FlushStep ==
    ASSUME MemoryInv, Flush
    PROVE  MemoryInv' /\ StepsQueues /\ Lost' \subseteq Lost
<1>1. /\ handler = Idle /\ writeQueue # <<>> /\ handler' = At("flush", Head(writeQueue))
      /\ heap' = heap /\ sendQueue' = sendQueue /\ sendIdx' = sendIdx
      /\ receiveQueue' = receiveQueue /\ receiveIdx' = receiveIdx
      /\ writeQueue' = writeQueue /\ sendId' = sendId /\ pending' = pending
  BY DEF Flush, sender, receiver
<1>2. Head(writeQueue) \in Cells
  BY <1>1, HeadTailProperties DEF MemoryInv, ListsInv
<1>3. HandlerInv'
  BY <1>1, <1>2 DEF HandlerInv, Holding, At
<1>4. ListsInv' /\ WindowInv' /\ Lost' = Lost /\ ListsStay
  BY <1>1 DEF MemoryInv, ListsInv, WindowInv, ListsStay, Lost, S, R, W, Copy
<1>5. CopiesInv'
  BY <1>1 DEF MemoryInv, CopiesInv, S, R, W, Copy, CopyId
<1>6. PendingInv'
  <2>1. Unsent' = Unsent
    BY <1>1 DEF Unsent, Holding, Idle, At, W
  <2> QED BY <1>1, <2>1 DEF MemoryInv, PendingInv, S, Copy, CopyId
<1> QED BY <1>3, <1>4, <1>5, <1>6, StaysSteps DEF MemoryInv

\* The packet that leaves the write queue is the copy of the kept element.
LEMMA RefillStep ==
    ASSUME MemoryInv, Refill
    PROVE  MemoryInv' /\ StepsQueues /\ Lost' \subseteq Lost
<1>1. ListsInv /\ CopiesInv /\ HandlerInv /\ PendingInv /\ WindowInv
  BY DEF MemoryInv
<1> DEFINE a == handler.kept
           p == heap[Copy(a)]
<1>2. /\ Holding("refill") /\ SendPacket(p) /\ UNCHANGED receiver
      /\ handler' = At(IF SendNow THEN "PROCESS_SEND" ELSE "queued", a)
      /\ sendId' = sendId /\ pending' = pending
  BY DEF Refill, Holding, Copy
<1>3. writeQueue # <<>> /\ Head(writeQueue) = a /\ a \in W /\ a \in Cells
  BY <1>1, <1>2, HeadElement, HeadTailProperties DEF HandlerInv, Holding, ListsInv, W
<1>4. p \in SentPackets /\ p.id = CopyId(a) /\ p.id # 0
  BY <1>1, <1>3 DEF CopiesInv, CopyId
<1>5. SendNow
  <2>1. Len(sendQueue) = 1 => Head(sendQueue) \in S
    BY <1>1, HeadElement, EmptySeq DEF ListsInv, S
  <2> QED BY <1>1, <1>2, <2>1 DEF SendNow, HandlerInv
<1>6. handler' = At("PROCESS_SEND", a)
  BY <1>2, <1>5
<1>7. SendQ!Add(p) /\ writeQueue' = writeQueue
  BY <1>2, <1>5 DEF SendPacket
<1> HIDE DEF p
<1>8. /\ ListsInv' /\ CopiesInv' /\ Kept(heap') /\ Lost' \subseteq Lost
      /\ Len(sendQueue') = Len(sendQueue) + 1
      /\ QueueStep(ListOf(heap, sendQueue), ListOf(heap', sendQueue'), SentPackets)
      /\ ListOf(heap', receiveQueue') = ListOf(heap, receiveQueue)
      /\ W' = W /\ \A e \in W : CopyId(e)' = CopyId(e)
      /\ \E b \in Cells \ DOMAIN heap : S' = S \cup {b} /\ heap'[b] = p
  BY <1>1, <1>2, <1>4, <1>7, SendQueueAdds
<1>9. PICK b \in Cells \ DOMAIN heap : S' = S \cup {b} /\ heap'[b] = p
  BY <1>8
<1>10. \A c \in S : heap'[c] = heap[c]
  BY <1>1, <1>8 DEF Kept, ListsInv, Matches, S
<1>11. HandlerInv'
  <2>1. heap'[b].id = CopyId(a)' /\ b \in S' /\ handler'.kept = a
    BY <1>3, <1>4, <1>6, <1>8, <1>9 DEF At
  <2>2. Holding("PROCESS_SEND")' => \E c \in S' : heap'[c].id = CopyId(handler.kept)'
    BY <2>1
  <2> QED BY <1>3, <1>6, <1>7, <2>2 DEF HandlerInv, Holding, At
<1>12. PendingInv'
  <2>1. Unsent = W /\ Unsent' = W \ {a}
    BY <1>2, <1>6, <1>8 DEF Unsent, Holding, At
  <2>2. \A e \in W \ {a} : CopyId(e) # CopyId(a)
    BY <1>1, <1>3 DEF CopiesInv
  <2> QED BY <1>1, <1>2, <1>3, <1>4, <1>8, <1>9, <1>10, <2>1, <2>2 DEF PendingInv
<1>13. WindowInv'
  <2>1. Len(sendQueue) \in Nat /\ NormalSSize \in Nat
    BY <1>1, LenProperties, MemoryAssumption DEF ListsInv
  <2>2. Len(sendQueue) < NormalSSize /\ \A c \in S : heap[c].id # 0
    BY <1>1, <1>2 DEF HandlerInv
  <2>3. \A c \in S' : heap'[c].id # 0
    BY <1>4, <1>9, <1>10, <2>2
  <2> QED BY <1>1, <1>2, <1>3, <1>8, <2>1, <2>2, <2>3 DEF WindowInv
<1> QED BY <1>8, <1>11, <1>12, <1>13 DEF MemoryInv, StepsQueues, QueueStep

\* What is left when the cells F are freed
LEMMA Freed ==
    ASSUME NEW F, heap' = Restrict(heap, DOMAIN heap \ F)
    PROVE  /\ DOMAIN heap' = DOMAIN heap \ F
           /\ \A b \in DOMAIN heap \ F : heap'[b] = heap[b]
BY DEF Restrict

\* Only one of two packets has an id, and packet 0 was alone.
LEMMA DeleteAckedStep ==
    ASSUME MemoryInv, DeleteAcked
    PROVE  MemoryInv' /\ StepsQueues /\ Lost' \subseteq Lost
<1>1. ListsInv /\ CopiesInv /\ HandlerInv /\ PendingInv /\ WindowInv
  BY DEF MemoryInv
<1> DEFINE a == handler.kept
<1>2. /\ Holding("GOT_ACK") /\ a \in S /\ pending' = pending \ {heap[a].id}
      /\ handler' = IF writeQueue = <<>> THEN Idle ELSE At("refill", Head(writeQueue))
      /\ receiveQueue' = receiveQueue /\ receiveIdx' = receiveIdx
      /\ writeQueue' = writeQueue /\ sendId' = sendId
  BY <1>1 DEF DeleteAcked, Holding, HandlerInv, receiver
<1>3. /\ sendIdx' = Restrict(sendIdx, DOMAIN sendIdx \ {heap[a].id})
      /\ \E i \in DOMAIN sendQueue : sendQueue[i] = a /\ sendQueue' = RemoveAt(sendQueue, i)
      /\ heap' = Restrict(heap, DOMAIN heap \ {a})
  BY SameOperators DEF DeleteAcked, SendQ!Delete
<1>4. PICK i \in DOMAIN sendQueue : sendQueue[i] = a /\ sendQueue' = RemoveAt(sendQueue, i)
  BY <1>3
<1> HIDE DEF a
<1>5. /\ Matches(heap', sendQueue', sendIdx')
      /\ ListOf(heap', sendQueue') = RemoveAt(ListOf(heap, sendQueue), i)
      /\ ToSet(sendQueue') = ToSet(sendQueue) \ {a}
  <2>1. sendQueue \in Seq(Cells) /\ Matches(heap, sendQueue, sendIdx)
    BY <1>1 DEF ListsInv
  <2> QED BY <1>3, <1>4, <2>1, DeleteMatches
<1>6. /\ sendQueue' \in Seq(Cells) /\ Len(sendQueue') = Len(sendQueue) - 1
      /\ Len(sendQueue) \in Nat /\ NormalSSize \in Nat
  BY <1>1, <1>4, RemoveAtElements, LenProperties, MemoryAssumption DEF ListsInv
<1>7. S' = S \ {a} /\ R' = R /\ W' = W
  BY <1>2, <1>5 DEF S, R, W
<1>8. /\ DOMAIN heap' = DOMAIN heap \ {a}
      /\ \A b \in DOMAIN heap \ {a} : heap'[b] = heap[b]
  BY <1>3, Freed
<1>9. S \subseteq DOMAIN heap /\ R \subseteq DOMAIN heap \ {a} /\ W \subseteq DOMAIN heap \ {a}
  <2>1. S \subseteq DOMAIN heap /\ R \subseteq DOMAIN heap /\ W \subseteq DOMAIN heap
    BY <1>1 DEF ListsInv, CopiesInv, Matches, S, R, W
  <2>2. a \notin R /\ a \notin W
    BY <1>1, <1>2 DEF ListsInv
  <2> QED BY <2>1, <2>2
<1>10. /\ Matches(heap', receiveQueue', receiveIdx')
       /\ ListOf(heap', receiveQueue') = ListOf(heap, receiveQueue)
  <2>1. ToSet(receiveQueue) \subseteq DOMAIN heap' /\ \A b \in ToSet(receiveQueue) : heap'[b] = heap[b]
    BY <1>8, <1>9 DEF R
  <2> QED BY <1>1, <1>2, <2>1, ElsewhereMatches DEF ListsInv
<1>11. ListsInv'
  BY <1>1, <1>2, <1>5, <1>6, <1>7, <1>8, <1>9, <1>10 DEF ListsInv
<1>12. \A e \in W : Copy(e)' = Copy(e) /\ CopyId(e)' = CopyId(e) /\ Copy(e) \in DOMAIN heap \ {a}
  BY <1>1, <1>2, <1>8, <1>9 DEF CopiesInv, Copy, CopyId
<1>13. CopiesInv'
  BY <1>1, <1>7, <1>8, <1>9, <1>12 DEF CopiesInv
<1>14. Lost' \subseteq Lost
  BY <1>7, <1>8, <1>12 DEF Lost
<1>15. \A b \in S' : heap'[b] = heap[b] /\ heap[b].id # heap[a].id /\ heap[b].id # 0
  <2> SUFFICES ASSUME NEW b \in S' PROVE heap[b].id # heap[a].id /\ heap[b].id # 0
    BY <1>7, <1>8, <1>9
  <2>1. heap[b].id # heap[a].id
    BY <1>1, <1>2, <1>7 DEF ListsInv, Matches, S
  <2>2. ASSUME heap[b].id = 0 PROVE FALSE
    <3>1. Len(sendQueue) = 1
      BY <1>1, <1>7, <2>2 DEF WindowInv
    <3>2. sendQueue' = <<>>
      BY <1>6, <3>1, EmptySeq
    <3> QED BY <3>2 DEF S, ToSet
  <2> QED BY <2>1, <2>2
<1>16. HandlerInv'
  <2>1. CASE writeQueue = <<>>
    BY <1>2, <2>1 DEF HandlerInv, Holding, Idle
  <2>2. CASE writeQueue # <<>>
    <3>1. Head(writeQueue) \in Cells
      BY <1>1, <2>2, HeadTailProperties DEF ListsInv
    <3>2. Len(sendQueue') < NormalSSize
      BY <1>1, <1>6 DEF WindowInv
    <3> QED BY <1>2, <1>15, <2>2, <3>1, <3>2 DEF HandlerInv, Holding, At
  <2> QED BY <2>1, <2>2
<1>17. PendingInv'
  <2>1. Unsent = W /\ Unsent' = W
    BY <1>2, <1>7 DEF Unsent, Holding, Idle, At
  <2> QED BY <1>1, <1>2, <1>7, <1>12, <1>15, <2>1 DEF PendingInv
<1>18. WindowInv'
  <2>1. sendQueue # <<>>
    BY <1>2 DEF S, ToSet
  <2> QED BY <1>1, <1>2, <1>6, <1>15, <2>1 DEF WindowInv
<1>19. StepsQueues
  <2>1. i \in DOMAIN ListOf(heap, sendQueue)
    BY DEF ListOf
  <2> QED BY <1>5, <1>10, <2>1 DEF StepsQueues, QueueStep
<1> QED BY <1>11, <1>13, <1>14, <1>16, <1>17, <1>18, <1>19 DEF MemoryInv

\* trudpWriteQueueDeleteFirst, in a handler that knows which packet it is done
\* with: F is the copy of this packet, or nothing.
LEMMA FirstDeleted ==
    ASSUME MemoryInv, handler.step \in {"PROCESS_SEND", "flush"},
           NEW F, F \subseteq {Copy(handler.kept)}, DeleteFirst(F),
           handler' \in {Idle, At("length", handler.kept)},
           UNCHANGED <<sender, receiver, sendId>>,
           pending' = IF Holding("flush") THEN pending \ {CopyId(handler.kept)} ELSE pending
    PROVE  /\ MemoryInv' /\ StepsQueues
           /\ F = {Copy(handler.kept)} => Lost' \subseteq Lost
<1>1. ListsInv /\ CopiesInv /\ HandlerInv /\ PendingInv /\ WindowInv
  BY DEF MemoryInv
<1> DEFINE a == handler.kept
           G == {a} \cup F
<1>2. writeQueue # <<>> /\ Head(writeQueue) = a /\ a \in W
  BY <1>1, HeadElement DEF HandlerInv, ListsInv, W
<1>3. /\ heap' = Restrict(heap, DOMAIN heap \ G) /\ writeQueue' = Tail(writeQueue)
      /\ sendQueue' = sendQueue /\ sendIdx' = sendIdx
      /\ receiveQueue' = receiveQueue /\ receiveIdx' = receiveIdx /\ sendId' = sendId
  BY <1>2 DEF DeleteFirst, sender, receiver
<1>4. G \subseteq {a, Copy(a)}
  OBVIOUS
<1> HIDE DEF G, a
<1>5. /\ DOMAIN heap' = DOMAIN heap \ G
      /\ \A b \in DOMAIN heap \ G : heap'[b] = heap[b]
  BY <1>3, Freed
<1>6. /\ IsInjective(writeQueue') /\ writeQueue' \in Seq(Cells)
      /\ ToSet(writeQueue') = ToSet(writeQueue) \ {a}
  <2>1. ToSet(Tail(writeQueue)) \subseteq ToSet(writeQueue)
        /\ ToSet(writeQueue) \subseteq ToSet(Tail(writeQueue)) \cup {a}
    BY <1>1, <1>2, TailElements, HeadAndTail DEF ListsInv
  <2>2. IsInjective(Tail(writeQueue)) /\ a \notin ToSet(Tail(writeQueue))
        /\ Tail(writeQueue) \in Seq(Cells)
    BY <1>1, <1>2, InjectiveTail, HeadTailProperties DEF ListsInv
  <2> QED BY <1>3, <2>1, <2>2
<1>7. S' = S /\ R' = R /\ W' = W \ {a}
  BY <1>3, <1>6 DEF S, R, W
<1>8. S \subseteq DOMAIN heap \ G /\ R \subseteq DOMAIN heap \ G /\ W \ {a} \subseteq DOMAIN heap \ G
  <2>1. S \subseteq DOMAIN heap /\ R \subseteq DOMAIN heap /\ W \subseteq DOMAIN heap
    BY <1>1 DEF ListsInv, CopiesInv, Matches, S, R, W
  <2>2. a \notin S /\ a \notin R
    BY <1>1, <1>2 DEF ListsInv
  <2>3. Copy(a) \notin S \cup R \cup W
    BY <1>1, <1>2 DEF CopiesInv
  <2> QED BY <1>4, <2>1, <2>2, <2>3
<1>9. \A b \in S \cup R \cup (W \ {a}) : heap'[b] = heap[b]
  BY <1>5, <1>8
<1>10. Matches(heap', sendQueue', sendIdx') /\ ListOf(heap', sendQueue') = ListOf(heap, sendQueue)
  <2>1. ToSet(sendQueue) \subseteq DOMAIN heap' /\ \A b \in ToSet(sendQueue) : heap'[b] = heap[b]
    BY <1>5, <1>8 DEF S
  <2> QED BY <1>1, <1>3, <2>1, ElsewhereMatches DEF ListsInv
<1>11. /\ Matches(heap', receiveQueue', receiveIdx')
       /\ ListOf(heap', receiveQueue') = ListOf(heap, receiveQueue)
  <2>1. ToSet(receiveQueue) \subseteq DOMAIN heap' /\ \A b \in ToSet(receiveQueue) : heap'[b] = heap[b]
    BY <1>5, <1>8 DEF R
  <2> QED BY <1>1, <1>3, <2>1, ElsewhereMatches DEF ListsInv
<1>12. ListsInv'
  BY <1>1, <1>3, <1>5, <1>6, <1>7, <1>9, <1>10, <1>11 DEF ListsInv
<1>13. \A e \in W \ {a} : /\ Copy(e)' = Copy(e) /\ CopyId(e)' = CopyId(e)
                          /\ Copy(e) \in DOMAIN heap \ G /\ CopyId(e) # CopyId(a)
  <2> SUFFICES ASSUME NEW e \in W \ {a}
               PROVE  /\ Copy(e)' = Copy(e) /\ CopyId(e)' = CopyId(e)
                      /\ Copy(e) \in DOMAIN heap \ G /\ CopyId(e) # CopyId(a)
    OBVIOUS
  <2>1. CopyId(e) # CopyId(a) /\ Copy(e) \in DOMAIN heap /\ Copy(e) \notin W
    BY <1>1, <1>2 DEF CopiesInv
  <2>2. Copy(e) # a /\ Copy(e) # Copy(a)
    BY <1>2, <2>1 DEF CopyId
  <2>3. Copy(e)' = Copy(e)
    BY <1>9 DEF Copy
  <2>4. Copy(e) \in DOMAIN heap \ G
    BY <1>4, <2>1, <2>2
  <2> QED BY <1>5, <2>1, <2>3, <2>4 DEF CopyId
<1>14. CopiesInv'
  BY <1>1, <1>5, <1>7, <1>8, <1>13 DEF CopiesInv
<1>15. HandlerInv'
  <2>1. CASE handler' = Idle
    BY <2>1 DEF HandlerInv, Holding, Idle
  <2>2. CASE handler' = At("length", a)
    <3>1. a \in Cells /\ a \notin DOMAIN heap'
      BY <1>1, <1>2, <1>5 DEF HandlerInv, ListsInv, CopiesInv, G
    <3> QED BY <2>2, <3>1 DEF HandlerInv, Holding, At
  <2> QED BY <2>1, <2>2 DEF a
<1>16. PendingInv'
  <2>1. Unsent' = W \ {a}
    BY <1>7 DEF Unsent, Holding, Idle, At
  <2>2. {heap'[b].id : b \in S'} = {heap[b].id : b \in S}
    BY <1>7, <1>9
  <2>3. {CopyId(e)' : e \in W \ {a}} = {CopyId(e) : e \in W \ {a}}
    BY <1>13
  <2>4. pending' = {heap[b].id : b \in S} \cup {CopyId(e) : e \in W \ {a}}
    <3>1. CASE Holding("flush")
      <4>1. Unsent = W /\ pending' = pending \ {CopyId(a)}
        BY <3>1 DEF Unsent, Holding, a
      <4>2. CopyId(a) \notin {heap[b].id : b \in S} \cup {CopyId(e) : e \in W \ {a}}
        BY <1>1, <1>2, <1>13, <4>1 DEF PendingInv
      <4>3. {CopyId(e) : e \in W} = {CopyId(e) : e \in W \ {a}} \cup {CopyId(a)}
        BY <1>2
      <4> QED BY <1>1, <4>1, <4>2, <4>3 DEF PendingInv
    <3>2. CASE Holding("PROCESS_SEND")
      BY <1>1, <3>2 DEF PendingInv, Unsent, Holding, a
    <3> QED BY <3>1, <3>2 DEF Holding
  <2>5. \A b \in S : \A e \in W \ {a} : heap[b].id # CopyId(e)
    BY <1>1 DEF PendingInv, Unsent, a
  <2> QED BY <1>7, <1>9, <1>13, <2>1, <2>2, <2>3, <2>4, <2>5 DEF PendingInv
<1>17. WindowInv'
  <2>1. sendId # 0
    BY <1>1, <1>2 DEF WindowInv
  <2> QED BY <1>1, <1>3, <1>7, <1>9, <2>1 DEF WindowInv
<1>18. StepsQueues
  BY <1>10, <1>11, StaysSteps DEF ListsStay
<1>19. F = {Copy(handler.kept)} => Lost' \subseteq Lost
  <2> SUFFICES ASSUME F = {Copy(a)}, NEW b \in Lost' PROVE b \in Lost
    BY DEF a
  <2>1. G = {a, Copy(a)}
    BY DEF G
  <2>2. b \in DOMAIN heap \ G /\ b \notin S /\ b \notin R /\ b \notin W \ {a}
        /\ \A e \in W \ {a} : b # Copy(e)
    BY <1>5, <1>7, <1>13 DEF Lost
  <2> QED BY <2>1, <2>2 DEF Lost
<1> QED BY <1>12, <1>14, <1>15, <1>16, <1>17, <1>18, <1>19 DEF MemoryInv

LEMMA FinishRefillStep ==
    ASSUME MemoryInv, FinishRefill
    PROVE  MemoryInv' /\ StepsQueues /\ Lost' \subseteq Lost
<1>1. handler.step = "PROCESS_SEND"
  BY DEF MemoryInv, HandlerInv, FinishRefill, Idle
<1>2. DeleteFirst({Copy(handler.kept)})
  BY DEF FinishRefill, Copy
<1>3. pending' = IF Holding("flush") THEN pending \ {CopyId(handler.kept)} ELSE pending
  BY <1>1 DEF FinishRefill, Holding
<1> QED BY <1>1, <1>2, <1>3, FirstDeleted DEF FinishRefill

LEMMA FinishFlushStep ==
    ASSUME MemoryInv, FinishFlush
    PROVE  MemoryInv' /\ StepsQueues
<1>1. handler.step = "flush" /\ DeleteFirst({})
  BY DEF FinishFlush
<1>2. pending' = IF Holding("flush") THEN pending \ {CopyId(handler.kept)} ELSE pending
  BY <1>1 DEF FinishFlush, Holding, CopyId, Copy
<1> QED BY <1>1, <1>2, FirstDeleted DEF FinishFlush

LEMMA ReadLengthStep ==
    ASSUME MemoryInv, ReadLength
    PROVE  MemoryInv' /\ StepsQueues /\ Lost' \subseteq Lost
<1>1. /\ heap' = heap /\ sendQueue' = sendQueue /\ sendIdx' = sendIdx
      /\ receiveQueue' = receiveQueue /\ receiveIdx' = receiveIdx
      /\ writeQueue' = writeQueue /\ sendId' = sendId /\ pending' = pending
      /\ handler' = Idle /\ ~Holding("PROCESS_SEND")
  BY DEF ReadLength, sender, receiver, Holding
<1>2. ListsInv' /\ CopiesInv' /\ WindowInv' /\ Lost' = Lost /\ ListsStay
  BY <1>1 DEF MemoryInv, ListsInv, CopiesInv, WindowInv, ListsStay, Lost, S, R, W, Copy, CopyId
<1>3. HandlerInv'
  BY <1>1 DEF HandlerInv, Holding, Idle
<1>4. PendingInv'
  BY <1>1 DEF MemoryInv, PendingInv, Holding, Unsent, S, W, Copy, CopyId, Idle
<1> QED BY <1>2, <1>3, <1>4, StaysSteps DEF MemoryInv

LEMMA ResetStep ==
    ASSUME MemoryInv, Reset
    PROVE  MemoryInv' /\ StepsQueues
<1>1. /\ handler' = Idle /\ pending' = {} /\ sendId' = 0
      /\ sendQueue' = <<>> /\ sendIdx' = <<>> /\ receiveQueue' = <<>> /\ receiveIdx' = <<>>
      /\ writeQueue' = <<>>
  BY DEF Reset
<1>2. DOMAIN heap' \subseteq Cells
  BY Freed DEF Reset, MemoryInv, ListsInv
<1>3. S' = {} /\ R' = {} /\ W' = {}
  BY <1>1 DEF S, R, W, ToSet
<1>4. ListsInv' /\ CopiesInv'
  <2>1. Matches(heap', <<>>, <<>>) /\ IsInjective(<<>>)
    BY EmptyMatches DEF Matches
  <2> QED BY <1>1, <1>2, <1>3, <2>1 DEF ListsInv, CopiesInv
<1>5. HandlerInv'
  BY <1>1 DEF HandlerInv, Holding, Idle
<1>6. PendingInv'
  BY <1>1, <1>3 DEF PendingInv, Unsent, Holding, Idle
<1>7. WindowInv'
  BY <1>1, <1>3, MemoryAssumption, PacketIdLimitAssumption DEF WindowInv, PacketIds
<1>8. StepsQueues
  BY <1>1, EmptyMatches DEF StepsQueues, QueueStep
<1> QED BY <1>4, <1>5, <1>6, <1>7, <1>8 DEF MemoryInv

\* The receive queue frees cells of its own, F, and takes free cells, A.
Exchanges(F, A) ==
    /\ F \subseteq R /\ A \subseteq Cells \ DOMAIN heap
    /\ DOMAIN heap' = (DOMAIN heap \ F) \cup A
    /\ \A b \in DOMAIN heap \ F : heap'[b] = heap[b]
    /\ \A b \in A : heap'[b] \in ReceivedPackets
    /\ R' = (R \ F) \cup A

LEMMA ReceiveQueueChanges ==
    ASSUME MemoryInv, handler = Idle, UNCHANGED <<sender, writeQueue, sendId, handler, pending>>,
           NEW F, NEW A, Exchanges(F, A),
           receiveQueue' \in Seq(Cells), Matches(heap', receiveQueue', receiveIdx')
    PROVE  /\ MemoryInv' /\ Lost' \subseteq Lost
           /\ ListOf(heap', sendQueue') = ListOf(heap, sendQueue)
<1> USE DEF Exchanges
<1>1. ListsInv /\ CopiesInv /\ HandlerInv /\ PendingInv /\ WindowInv
  BY DEF MemoryInv
<1>2. /\ sendQueue' = sendQueue /\ sendIdx' = sendIdx /\ writeQueue' = writeQueue
      /\ sendId' = sendId /\ pending' = pending /\ handler' = Idle
  BY DEF sender
<1>3. S' = S /\ W' = W
  BY <1>2 DEF S, W
<1>4. S \subseteq DOMAIN heap \ F /\ R \subseteq DOMAIN heap /\ W \subseteq DOMAIN heap \ F
  <2>1. S \subseteq DOMAIN heap /\ R \subseteq DOMAIN heap /\ W \subseteq DOMAIN heap
    BY <1>1 DEF ListsInv, CopiesInv, Matches, S, R, W
  <2> QED BY <1>1, <2>1 DEF ListsInv
<1>5. \A e \in W : /\ Copy(e)' = Copy(e) /\ CopyId(e)' = CopyId(e)
                   /\ Copy(e) \in DOMAIN heap \ F /\ Copy(e) \notin S \cup R \cup W
  <2> SUFFICES ASSUME NEW e \in W
               PROVE  /\ Copy(e)' = Copy(e) /\ CopyId(e)' = CopyId(e)
                      /\ Copy(e) \in DOMAIN heap \ F /\ Copy(e) \notin S \cup R \cup W
    OBVIOUS
  <2>1. Copy(e) \in DOMAIN heap \ F /\ Copy(e) \notin S \cup R \cup W
    BY <1>1 DEF CopiesInv
  <2>2. Copy(e)' = Copy(e)
    BY <1>4 DEF Copy
  <2> QED BY <2>1, <2>2 DEF CopyId
<1>6. Matches(heap', sendQueue', sendIdx') /\ ListOf(heap', sendQueue') = ListOf(heap, sendQueue)
  <2>1. ToSet(sendQueue) \subseteq DOMAIN heap' /\ \A b \in ToSet(sendQueue) : heap'[b] = heap[b]
    BY <1>4 DEF S
  <2> QED BY <1>1, <1>2, <2>1, ElsewhereMatches DEF ListsInv
<1>7. ListsInv'
  <2>1. \A b \in R' : heap'[b] \in ReceivedPackets
    BY <1>1, <1>4 DEF ListsInv
  <2>2. \A b \in S' : heap'[b] \in SentPackets
    BY <1>1, <1>3, <1>4 DEF ListsInv
  <2>3. S' \cap R' = {} /\ S' \cap W' = {} /\ R' \cap W' = {} /\ DOMAIN heap' \subseteq Cells
    BY <1>1, <1>3, <1>4 DEF ListsInv
  <2>4. sendQueue' \in Seq(Cells) /\ writeQueue' \in Seq(Cells) /\ IsInjective(writeQueue')
    BY <1>1, <1>2 DEF ListsInv
  <2> QED BY <1>6, <2>1, <2>2, <2>3, <2>4 DEF ListsInv, SentPackets, ReceivedPackets
<1>8. CopiesInv'
  <2> SUFFICES ASSUME NEW e \in W
               PROVE  /\ e \in DOMAIN heap' /\ Copy(e)' \in DOMAIN heap'
                      /\ Copy(e)' \notin S' \cup R' \cup W'
                      /\ heap'[Copy(e)'] \in SentPackets /\ CopyId(e)' # 0
                      /\ \A f \in W : CopyId(e)' = CopyId(f)' => e = f
    BY <1>3 DEF CopiesInv, SentPackets
  <2>1. Copy(e) \notin A
    BY <1>5
  <2> QED BY <1>1, <1>3, <1>4, <1>5, <2>1 DEF CopiesInv
<1>9. HandlerInv'
  BY <1>2 DEF HandlerInv, Holding, Idle
<1>10. PendingInv'
  <2>1. Unsent = W /\ Unsent' = W
    BY <1>2, <1>3 DEF Unsent, Holding, Idle
  <2>2. \A b \in S : heap'[b] = heap[b]
    BY <1>4
  <2> QED BY <1>1, <1>2, <1>3, <1>5, <2>1, <2>2 DEF PendingInv
<1>11. WindowInv'
  BY <1>1, <1>2, <1>3, <1>4 DEF WindowInv
<1>12. Lost' \subseteq Lost
  <2> SUFFICES ASSUME NEW b \in Lost' PROVE b \in Lost
    OBVIOUS
  <2>1. /\ b \in (DOMAIN heap \ F) \cup A /\ b \notin S /\ b \notin R' /\ b \notin W
        /\ \A e \in W : b # Copy(e)
    BY <1>3, <1>5 DEF Lost
  <2> QED BY <2>1 DEF Lost
<1> QED BY <1>6, <1>7, <1>8, <1>9, <1>10, <1>11, <1>12 DEF MemoryInv

LEMMA UseReceiveQueueStep ==
    ASSUME MemoryInv, UseReceiveQueue
    PROVE  MemoryInv' /\ StepsQueues /\ Lost' \subseteq Lost
<1>1. /\ handler = Idle /\ UNCHANGED <<sender, writeQueue, sendId, handler, pending>>
      /\ ReceiveQ!Next
  BY DEF UseReceiveQueue
<1> DEFINE q == receiveQueue
           x == receiveIdx
<1>2. q \in Seq(Cells) /\ Matches(heap, q, x) /\ R = ToSet(q)
      /\ R \subseteq DOMAIN heap /\ DOMAIN heap \subseteq Cells /\ \A b \in R : heap[b] \in ReceivedPackets
  BY DEF MemoryInv, ListsInv, Matches, R
<1> SUFFICES /\ MemoryInv' /\ Lost' \subseteq Lost /\ ListOf(heap', sendQueue') = ListOf(heap, sendQueue)
             /\ QueueStep(ListOf(heap, q), ListOf(heap', q'), ReceivedPackets)
  BY DEF StepsQueues, QueueStep
<1> HIDE DEF q, x
<1>3. ASSUME NEW p \in ReceivedPackets, ReceiveQ!Add(p)
      PROVE  /\ MemoryInv' /\ Lost' \subseteq Lost /\ ListOf(heap', sendQueue') = ListOf(heap, sendQueue)
             /\ QueueStep(ListOf(heap, q), ListOf(heap', q'), ReceivedPackets)
  <2>1. PICK a \in Cells \ DOMAIN heap :
          /\ p.id \notin DOMAIN x
          /\ heap' = With(heap, a, p) /\ q' = Append(q, a) /\ x' = With(x, p.id, a)
    BY <1>3 DEF ReceiveQ!Add, ReceiveQ!Found, With, q, x
  <2>2. DOMAIN heap' = DOMAIN heap \cup {a} /\ heap'[a] = p /\ \A b \in DOMAIN heap : heap'[b] = heap[b]
    BY <2>1 DEF With
  <2>3. /\ Matches(heap', q', x')
        /\ ListOf(heap', q') = Append(ListOf(heap, q), p)
    <3>1. p.id \notin DOMAIN x /\ a \in Cells /\ a \notin DOMAIN heap
      BY <2>1
    <3>2. /\ Matches(With(heap, a, p), Append(q, a), With(x, p.id, a))
          /\ ListOf(With(heap, a, p), Append(q, a)) = Append(ListOf(heap, q), p)
      BY <1>2, <3>1, AddMatches
    <3> QED BY <2>1, <3>2
  <2>4. q' \in Seq(Cells) /\ ToSet(q') = ToSet(q) \cup {a}
    BY <1>2, <2>1, AppendProperties, AppendElements
  <2>5. R' = (R \ {}) \cup {a}
    BY <1>2, <2>4 DEF R, q
  <2>6. QueueStep(ListOf(heap, q), ListOf(heap', q'), ReceivedPackets)
    <3>1. \A b \in ToSet(q) : heap[b].id # p.id
      BY <1>2, <2>1 DEF Matches
    <3>2. \A i \in DOMAIN ListOf(heap, q) : ListOf(heap, q)[i].id # p.id
      BY <3>1 DEF ListOf, ToSet
    <3> QED BY <2>3, <3>2 DEF QueueStep
  <2>7. /\ {} \subseteq R /\ {a} \subseteq Cells \ DOMAIN heap
        /\ DOMAIN heap' = (DOMAIN heap \ {}) \cup {a}
        /\ \A b \in DOMAIN heap \ {} : heap'[b] = heap[b]
        /\ \A b \in {a} : heap'[b] \in ReceivedPackets
    BY <2>1, <2>2
  <2>8. receiveQueue' \in Seq(Cells) /\ Matches(heap', receiveQueue', receiveIdx')
    BY <2>3, <2>4 DEF q, x
  <2>9. Exchanges({}, {a})
    BY <2>5, <2>7 DEF Exchanges
  <2>10. MemoryInv' /\ Lost' \subseteq Lost /\ ListOf(heap', sendQueue') = ListOf(heap, sendQueue)
    BY <1>1, <2>8, <2>9, ReceiveQueueChanges
  <2> QED BY <2>6, <2>10
<1>4. ASSUME NEW id \in ReceivedIds, ReceiveQ!DeleteFound(id)
      PROVE  /\ MemoryInv' /\ Lost' \subseteq Lost /\ ListOf(heap', sendQueue') = ListOf(heap, sendQueue)
             /\ QueueStep(ListOf(heap, q), ListOf(heap', q'), ReceivedPackets)
  <2> DEFINE a == x[id]
  <2>1. /\ x' = Restrict(x, DOMAIN x \ {heap[a].id})
        /\ \E i \in DOMAIN q : q[i] = a /\ q' = RemoveAt(q, i)
        /\ heap' = Restrict(heap, DOMAIN heap \ {a})
    BY <1>4, SameOperators DEF ReceiveQ!DeleteFound, ReceiveQ!Delete, ReceiveQ!FindById, q, x
  <2>2. PICK i \in DOMAIN q : q[i] = a /\ q' = RemoveAt(q, i)
    BY <2>1
  <2> HIDE DEF a
  <2>3. /\ Matches(heap', q', x') /\ ListOf(heap', q') = RemoveAt(ListOf(heap, q), i)
        /\ ToSet(q') = ToSet(q) \ {a}
    BY <1>2, <2>1, <2>2, DeleteMatches
  <2>4. q' \in Seq(Cells) /\ a \in R
    BY <1>2, <2>2, RemoveAtElements DEF ToSet
  <2>5. DOMAIN heap' = (DOMAIN heap \ {a}) \cup {} /\ \A b \in DOMAIN heap \ {a} : heap'[b] = heap[b]
    BY <2>1, Freed
  <2>6. R' = (R \ {a}) \cup {}
    BY <1>2, <2>3 DEF R, q
  <2>7. receiveQueue' \in Seq(Cells) /\ Matches(heap', receiveQueue', receiveIdx')
    BY <2>3, <2>4 DEF q, x
  <2>8. {a} \subseteq R /\ {} \subseteq Cells \ DOMAIN heap /\ \A b \in {} : heap'[b] \in ReceivedPackets
    BY <2>4
  <2>9. Exchanges({a}, {})
    BY <2>5, <2>6, <2>8 DEF Exchanges
  <2>10. MemoryInv' /\ Lost' \subseteq Lost /\ ListOf(heap', sendQueue') = ListOf(heap, sendQueue)
    BY <1>1, <2>7, <2>9, ReceiveQueueChanges
  <2>11. i \in DOMAIN ListOf(heap, q)
    BY <2>2 DEF ListOf
  <2> QED BY <2>3, <2>10, <2>11 DEF QueueStep
<1>5. ASSUME ReceiveQ!MoveFirstToEnd
      PROVE  /\ MemoryInv' /\ Lost' \subseteq Lost /\ ListOf(heap', sendQueue') = ListOf(heap, sendQueue)
             /\ QueueStep(ListOf(heap, q), ListOf(heap', q'), ReceivedPackets)
  <2>1. q # <<>> /\ q' = Append(Tail(q), Head(q)) /\ heap' = heap /\ x' = x
    BY <1>5 DEF ReceiveQ!MoveFirstToEnd, ReceiveQ!GetFirst, q, x
  <2>2. /\ Matches(heap, q', x) /\ q' \in Seq(Cells) /\ ToSet(q') = ToSet(q)
        /\ ListOf(heap, q) # <<>>
        /\ ListOf(heap, q') = Append(Tail(ListOf(heap, q)), Head(ListOf(heap, q)))
    BY <1>2, <2>1, RotateMatches
  <2>3. R' = (R \ {}) \cup {}
    BY <1>2, <2>2 DEF R, q
  <2>4. receiveQueue' \in Seq(Cells) /\ Matches(heap', receiveQueue', receiveIdx')
    BY <2>1, <2>2 DEF q, x
  <2>5. /\ {} \subseteq R /\ {} \subseteq Cells \ DOMAIN heap
        /\ DOMAIN heap' = (DOMAIN heap \ {}) \cup {}
        /\ \A b \in DOMAIN heap \ {} : heap'[b] = heap[b]
        /\ \A b \in {} : heap'[b] \in ReceivedPackets
    BY <2>1
  <2>6. Exchanges({}, {})
    BY <2>3, <2>5 DEF Exchanges
  <2>7. MemoryInv' /\ Lost' \subseteq Lost /\ ListOf(heap', sendQueue') = ListOf(heap, sendQueue)
    BY <1>1, <2>4, <2>6, ReceiveQueueChanges
  <2> QED BY <2>1, <2>2, <2>7 DEF QueueStep
<1>6. ASSUME ReceiveQ!FreeAll
      PROVE  /\ MemoryInv' /\ Lost' \subseteq Lost /\ ListOf(heap', sendQueue') = ListOf(heap, sendQueue)
             /\ QueueStep(ListOf(heap, q), ListOf(heap', q'), ReceivedPackets)
  <2>1. heap' = Restrict(heap, DOMAIN heap \ R) /\ q' = <<>> /\ x' = <<>>
    BY <1>2, <1>6, SameOperators DEF ReceiveQ!FreeAll, q, x
  <2>2. DOMAIN heap' = (DOMAIN heap \ R) \cup {} /\ \A b \in DOMAIN heap \ R : heap'[b] = heap[b]
    BY <2>1, Freed
  <2>3. Matches(heap', q', x') /\ ListOf(heap', q') = <<>>
    BY <2>1, EmptyMatches
  <2>4. R' = (R \ R) \cup {}
    BY <2>1 DEF R, q, ToSet
  <2>5. receiveQueue' \in Seq(Cells) /\ Matches(heap', receiveQueue', receiveIdx')
    BY <2>1, <2>3 DEF q, x
  <2>6. R \subseteq R /\ {} \subseteq Cells \ DOMAIN heap /\ \A b \in {} : heap'[b] \in ReceivedPackets
    OBVIOUS
  <2>7. Exchanges(R, {})
    BY <2>2, <2>4, <2>6 DEF Exchanges
  <2>8. MemoryInv' /\ Lost' \subseteq Lost /\ ListOf(heap', sendQueue') = ListOf(heap, sendQueue)
    BY <1>1, <2>5, <2>7, ReceiveQueueChanges
  <2> QED BY <2>3, <2>8 DEF QueueStep
<1>7. \/ \E p \in ReceivedPackets : ReceiveQ!Add(p)
      \/ \E id \in ReceivedIds : ReceiveQ!DeleteFound(id)
      \/ ReceiveQ!MoveFirstToEnd
      \/ ReceiveQ!FreeAll
  BY <1>1 DEF ReceiveQ!Next, ReceiveQ!Packets, ReceivedPackets
<1> QED BY <1>3, <1>4, <1>5, <1>6, <1>7

LEMMA MemoryStep ==
    ASSUME MemoryInv, [Next]_vars
    PROVE  /\ MemoryInv' /\ StepsQueues
           /\ FinishFlush \/ Reset \/ Lost' \subseteq Lost
<1>1. CASE UNCHANGED vars
  <2>1. /\ heap' = heap /\ sendQueue' = sendQueue /\ sendIdx' = sendIdx
        /\ receiveQueue' = receiveQueue /\ receiveIdx' = receiveIdx
        /\ writeQueue' = writeQueue /\ sendId' = sendId /\ handler' = handler /\ pending' = pending
    BY <1>1 DEF vars, sender, receiver
  <2>2. ListsInv' /\ CopiesInv' /\ WindowInv' /\ Lost' = Lost /\ ListsStay
    BY <2>1 DEF MemoryInv, ListsInv, CopiesInv, WindowInv, ListsStay, Lost, S, R, W, Copy, CopyId
  <2>3. HandlerInv' /\ PendingInv'
    BY <2>1 DEF MemoryInv, HandlerInv, PendingInv, Holding, Unsent, S, W, Copy, CopyId
  <2> QED BY <2>2, <2>3, StaysSteps DEF MemoryInv
<1>2. CASE SendData
  BY <1>2, SendDataStep
<1>3. CASE \E id \in PacketIds : ReceiveAck(id)
  BY <1>3, ReceiveAckStep
<1>4. CASE DeleteAcked
  BY <1>4, DeleteAckedStep
<1>5. CASE Refill
  BY <1>5, RefillStep
<1>6. CASE FinishRefill
  BY <1>6, FinishRefillStep
<1>7. CASE Flush
  BY <1>7, FlushStep
<1>8. CASE FinishFlush
  BY <1>8, FinishFlushStep
<1>9. CASE Reset
  BY <1>9, ResetStep
<1>10. CASE UseReceiveQueue
  BY <1>10, UseReceiveQueueStep
<1>11. CASE ReadLength
  BY <1>11, ReadLengthStep
<1> QED BY <1>1, <1>2, <1>3, <1>4, <1>5, <1>6, <1>7, <1>8, <1>9, <1>10, <1>11 DEF Next

\* The invariant of the memory: it holds in every state.
LEMMA MemoryAlways == Spec => []MemoryInv
<1>1. Init => MemoryInv
  BY MemoryInit
<1>2. MemoryInv /\ [Next]_vars => MemoryInv'
  BY MemoryStep
<1> QED BY <1>1, <1>2, PTL DEF Spec

-----------------------------------------------------------------------------
(***************************************************************************)
(* The theorems                                                            *)
(***************************************************************************)

\* The index of each queue finds the elements of its list, and nothing else.
THEOREM IndexesStayTrue == Spec => []IndexesMatchLists
<1>1. MemoryInv => IndexesMatchLists
  BY MatchesHere DEF MemoryInv, ListsInv, IndexesMatchLists
<1> QED BY <1>1, MemoryAlways, PTL

\* The packet an ACK makes room for is sent at once: the send queue has room,
\* and is not waiting for the ACK of packet 0.
THEOREM RefillsAreSent == Spec => []RefillIsSent
<1>1. MemoryInv => RefillIsSent
  BY DEF MemoryInv, HandlerInv, Idle, RefillIsSent
<1> QED BY <1>1, MemoryAlways, PTL

LEMMA CopiesHere == MemoryInv => Copies = {Copy(e) : e \in W} /\ Unreachable = Lost
<1> SUFFICES ASSUME MemoryInv PROVE Copies = {Copy(e) : e \in W} /\ Unreachable = Lost
  OBVIOUS
<1>1. Copies = {Copy(e) : e \in W}
  BY DEF Copies, Copy, W
<1>2. ToSet(sendQueue \o receiveQueue \o writeQueue) = S \cup R \cup W
  <2>1. sendQueue \o receiveQueue \in Seq(Cells) /\ ToSet(sendQueue \o receiveQueue) = S \cup R
    BY ConcatGives DEF MemoryInv, ListsInv, S, R
  <2>2. writeQueue \in Seq(Cells)
    BY DEF MemoryInv, ListsInv
  <2> DEFINE l == sendQueue \o receiveQueue
  <2>3. l \in Seq(Cells)
    BY <2>1
  <2> HIDE DEF l
  <2>4. ToSet(l \o writeQueue) = ToSet(l) \cup W
    BY <2>2, <2>3, ConcatGives DEF W
  <2> QED BY <2>1, <2>4 DEF l
<1> QED BY <1>1, <1>2 DEF Unreachable, Lost

\* As many copies as elements of the write queue
LEMMA AsManyCopies == MemoryInv => Cardinality({Copy(e) : e \in W}) = Len(writeQueue)
<1> SUFFICES ASSUME MemoryInv PROVE Cardinality({Copy(e) : e \in W}) = Len(writeQueue)
  OBVIOUS
<1> DEFINE C == {Copy(e) : e \in W}
           f == [i \in 1 .. Len(writeQueue) |-> Copy(writeQueue[i])]
<1>1. /\ Len(writeQueue) \in Nat /\ DOMAIN writeQueue = 1 .. Len(writeQueue)
      /\ W = {writeQueue[i] : i \in 1 .. Len(writeQueue)}
      /\ IsInjective(writeQueue)
  BY LenProperties DEF MemoryInv, ListsInv, W, ToSet
<1>2. \A d, e \in W : Copy(d) = Copy(e) => d = e
  BY DEF MemoryInv, CopiesInv, CopyId
<1>3. f \in [1 .. Len(writeQueue) -> C] /\ \A c \in C : \E i \in 1 .. Len(writeQueue) : f[i] = c
  BY <1>1
<1>4. \A i, j \in 1 .. Len(writeQueue) : f[i] = f[j] => i = j
  BY <1>1, <1>2 DEF IsInjective
<1> HIDE DEF f, C
<1>5. f \in Bijection(1 .. Len(writeQueue), C)
  BY <1>3, <1>4 DEF Bijection, Injection, Surjection, IsInjective
<1>6. ExistsBijection(1 .. Len(writeQueue), C)
  BY <1>5 DEF ExistsBijection
<1>7. IsFiniteSet(1 .. Len(writeQueue)) /\ Cardinality(1 .. Len(writeQueue)) = Len(writeQueue)
  <2>1. \A n \in Nat : IsFiniteSet(1 .. n) /\ Cardinality(1 .. n) = n
    <3> SUFFICES ASSUME NEW n \in Nat PROVE IsFiniteSet(1 .. n) /\ Cardinality(1 .. n) = n
      OBVIOUS
    <3>1. IsFiniteSet(1 .. n) /\ Cardinality(1 .. n) = IF 1 > n THEN 0 ELSE n - 1 + 1
      BY FS_Interval
    <3> QED BY <3>1
  <2> QED BY <1>1, <2>1
<1>8. Cardinality(C) = Len(writeQueue)
  BY <1>6, <1>7, FS_Bijection
<1> QED BY <1>8 DEF C

\* No queue points to freed memory, and no handler uses it, whatever the
\* application sends in the callbacks, but for one read: that of the length after
\* the deletion in trudpChannelWriteQueueProcess, which always meets freed memory.
THEOREM OnlyFlushesDangle == Spec => []OnlyFlushDangles
<1>1. ASSUME MemoryInv PROVE OnlyFlushDangles
  <2>1. Copies = {Copy(e) : e \in W} /\ Cardinality(Copies) = Len(writeQueue)
    BY <1>1, CopiesHere, AsManyCopies
  <2>2. IsInjective(writeQueue) /\ Copies \cup W \subseteq DOMAIN heap
    BY <1>1, <2>1 DEF MemoryInv, ListsInv, CopiesInv
  <2>3. /\ S \cap R = {} /\ S \cap W = {} /\ R \cap W = {}
        /\ S \cap Copies = {} /\ R \cap Copies = {} /\ W \cap Copies = {}
    BY <1>1, <2>1 DEF MemoryInv, ListsInv, CopiesInv
  <2>4. LET lists == <<S, R, W, Copies>>
        IN  \A i, j \in DOMAIN lists : i # j => lists[i] \cap lists[j] = {}
    BY <2>3
  <2>5. /\ handler.step = "GOT_ACK" => handler.kept \in S
        /\ handler.step \in {"refill", "PROCESS_SEND", "queued", "flush"} =>
              writeQueue # <<>> /\ Head(writeQueue) = handler.kept
    BY <1>1 DEF MemoryInv, HandlerInv, Holding, Idle
  <2>6. handler = Idle \/ Holding("GOT_ACK") \/ Holding("length")
        \/ handler.step \in {"refill", "PROCESS_SEND", "flush"}
    BY <1>1 DEF MemoryInv, HandlerInv, Holding
  <2>7. Holding("length") => handler # Idle /\ handler.kept \notin DOMAIN heap
    BY <1>1 DEF MemoryInv, HandlerInv, Holding, Idle
  <2>8. handler # Idle /\ ~Holding("length") => handler.kept \in DOMAIN heap
    <3>1. S \subseteq DOMAIN heap /\ W \subseteq DOMAIN heap
      BY <1>1 DEF MemoryInv, ListsInv, CopiesInv, Matches, S, W
    <3>2. handler.step \in {"refill", "PROCESS_SEND", "flush"} => handler.kept \in W
      BY <1>1, <2>5, HeadElement DEF MemoryInv, ListsInv, W
    <3> QED BY <2>5, <2>6, <3>1, <3>2 DEF Holding
  <2>9. Dangles <=> handler.step = "length"
    BY <2>7, <2>8 DEF Dangles, Holding
  <2> QED BY <2>1, <2>2, <2>4, <2>5, <2>9 DEF OnlyFlushDangles, S, R, W
<1> QED BY <1>1, MemoryAlways, PTL

\* what a function makes of a list
Images(s, g) == [i \in DOMAIN s |-> g[s[i]]]

LEMMA ImagesOfList ==
    ASSUME NEW T, NEW s \in Seq(Cells), NEW g \in [ToSet(s) -> T]
    PROVE  /\ Images(s, g) \in Seq(T) /\ ToSet(Images(s, g)) = {g[a] : a \in ToSet(s)}
           /\ IsInjective(s) /\ (\A a, b \in ToSet(s) : g[a] = g[b] => a = b)
                 => IsInjective(Images(s, g))
<1> DEFINE m == Images(s, g)
<1>1. DOMAIN s = 1 .. Len(s) /\ Len(s) \in Nat /\ \A i \in DOMAIN s : s[i] \in ToSet(s)
  BY LenProperties DEF ToSet
<1>2. m = [i \in 1 .. Len(s) |-> g[s[i]]] /\ DOMAIN m = DOMAIN s
  BY <1>1 DEF Images
<1>3. \A i \in 1 .. Len(s) : g[s[i]] \in T
  BY <1>1
<1>4. m \in Seq(T)
  BY <1>1, <1>2, <1>3
<1>5. ToSet(m) = {g[a] : a \in ToSet(s)}
  BY <1>2 DEF ToSet
<1>6. IsInjective(s) /\ (\A a, b \in ToSet(s) : g[a] = g[b] => a = b) => IsInjective(m)
  BY <1>1, <1>2 DEF IsInjective
<1> QED BY <1>4, <1>5, <1>6

\* Every packet that is sent or queued, and not yet acknowledged, flushed or
\* reset, is kept, and once, while a handler moves it and callbacks send more.
THEOREM PendingIsKeptOnce == Spec => []PendingKeptOnce
<1>1. ASSUME MemoryInv PROVE PendingKeptOnce
  <2>1. ListsInv /\ CopiesInv /\ HandlerInv /\ PendingInv
    BY <1>1 DEF MemoryInv
  <2> DEFINE g == [a \in S |-> heap[a].id]
             rest == IF Holding("PROCESS_SEND") THEN Tail(writeQueue) ELSE writeQueue
             h == [e \in ToSet(rest) |-> CopyId(e)]
  <2>2. /\ Sending \in Seq(PacketIds) /\ ToSet(Sending) = {heap[a].id : a \in S}
        /\ IsInjective(Sending)
    <3>1. g \in [ToSet(sendQueue) -> PacketIds]
      BY <2>1 DEF ListsInv, S, SentPackets
    <3>2. IsInjective(sendQueue) /\ \A a, b \in ToSet(sendQueue) : g[a] = g[b] => a = b
      BY <2>1 DEF ListsInv, Matches, S
    <3>3. Sending = Images(sendQueue, g)
      BY DEF Sending, Images, S, ToSet
    <3>4. {g[a] : a \in ToSet(sendQueue)} = {heap[a].id : a \in S}
      BY DEF S
    <3> HIDE DEF g
    <3>5. sendQueue \in Seq(Cells)
      BY <2>1 DEF ListsInv
    <3>6. /\ Images(sendQueue, g) \in Seq(PacketIds)
          /\ ToSet(Images(sendQueue, g)) = {g[a] : a \in ToSet(sendQueue)}
      BY <3>1, <3>5, ImagesOfList
    <3>7. IsInjective(Images(sendQueue, g))
      BY <3>1, <3>2, <3>5, ImagesOfList
    <3> QED BY <3>3, <3>4, <3>6, <3>7
  <2>3. rest \in Seq(Cells) /\ IsInjective(rest) /\ ToSet(rest) = Unsent
    <3>1. CASE Holding("PROCESS_SEND")
      <4>1. writeQueue # <<>> /\ Head(writeQueue) = handler.kept
        BY <2>1, <3>1 DEF HandlerInv, Holding
      <4>2. /\ Tail(writeQueue) \in Seq(Cells) /\ IsInjective(Tail(writeQueue))
            /\ Head(writeQueue) \notin ToSet(Tail(writeQueue))
        BY <2>1, <4>1, HeadTailProperties, InjectiveTail DEF ListsInv
      <4>3. /\ ToSet(Tail(writeQueue)) \subseteq ToSet(writeQueue)
            /\ ToSet(writeQueue) \subseteq ToSet(Tail(writeQueue)) \cup {Head(writeQueue)}
        BY <2>1, <4>1, TailElements, HeadAndTail DEF ListsInv
      <4> QED BY <3>1, <4>1, <4>2, <4>3 DEF Unsent, W
    <3>2. CASE ~Holding("PROCESS_SEND")
      BY <2>1, <3>2 DEF ListsInv, Unsent, W
    <3> QED BY <3>1, <3>2
  <2>4. Unsent \subseteq W
    BY DEF Unsent
  <2>5. Waiting = [i \in DOMAIN rest |-> CopyId(rest[i])]
    <3>1. handler.step \in {"PROCESS_SEND", "queued"} <=> Holding("PROCESS_SEND")
      BY <2>1 DEF HandlerInv, Holding, Idle
    <3> QED BY <3>1 DEF Waiting, CopyId, Copy
  <2> HIDE DEF g, rest
  <2>6. /\ Waiting \in Seq(PacketIds) /\ ToSet(Waiting) = {CopyId(e) : e \in Unsent}
        /\ IsInjective(Waiting)
    <3>1. h \in [ToSet(rest) -> PacketIds]
      BY <2>1, <2>3, <2>4 DEF CopiesInv, CopyId, SentPackets
    <3>2. \A a, b \in ToSet(rest) : h[a] = h[b] => a = b
      BY <2>1, <2>3, <2>4 DEF CopiesInv
    <3>3. Waiting = Images(rest, h)
      BY <2>5 DEF ToSet, Images
    <3>4. {h[a] : a \in ToSet(rest)} = {CopyId(e) : e \in Unsent}
      BY <2>3
    <3> HIDE DEF h
    <3>5. /\ Images(rest, h) \in Seq(PacketIds)
          /\ ToSet(Images(rest, h)) = {h[a] : a \in ToSet(rest)}
      BY <2>3, <3>1, ImagesOfList
    <3>6. IsInjective(Images(rest, h))
      BY <2>3, <3>1, <3>2, ImagesOfList
    <3> QED BY <3>3, <3>4, <3>5, <3>6
  <2>7. ToSet(Sending) \cap ToSet(Waiting) = {}
    BY <2>1, <2>2, <2>6 DEF PendingInv
  <2>8. IsInjective(Sending \o Waiting)
    BY <2>2, <2>6, <2>7, InjectiveConcat
  <2>9. ToSet(Sending \o Waiting) = pending
    BY <2>1, <2>2, <2>6, ToSetConcat DEF PendingInv
  <2> QED BY <2>8, <2>9 DEF PendingKeptOnce
<1> QED BY <1>1, MemoryAlways, PTL

\* Only a flush and a reset leave memory behind.
THEOREM OnlyFlushesAndResetsLeak == Spec => OnlyFlushAndResetLeak
<1> DEFINE Same == Unreachable = Lost
<1>1. MemoryInv => Same
  BY CopiesHere
<1>2. MemoryInv /\ [Next]_vars /\ Same /\ Same' =>
        [FinishFlush \/ Reset \/ Unreachable' \subseteq Unreachable]_vars
  BY MemoryStep
<1> HIDE DEF Same
<1> QED BY <1>1, <1>2, MemoryAlways, PTL DEF Spec, OnlyFlushAndResetLeak

-----------------------------------------------------------------------------
(***************************************************************************)
(* The queues of packets are sequences of packets.                         *)
(***************************************************************************)

\* A step of the send is one of PacketSequence.
LEMMA SendQueueIsSequence ==
    /\ ListOf(heap, sendQueue) = <<>> => SendQ!Queue!Init
    /\ ListsInv /\ StepsQueues => [SendQ!Queue!Next]_(ListOf(heap, sendQueue))
<1> DEFINE l == ListOf(heap, sendQueue)
<1>1. \A i \in DOMAIN l : SendQ!Queue!RemoveAt(l, i) = RemoveAt(l, i)
  BY DEF SendQ!Queue!RemoveAt, RemoveAt
<1>2. \A p \in SentPackets :
         (\A i \in DOMAIN l : l[i].id # p.id) /\ l' = Append(l, p) => SendQ!Queue!Add(p.id, p.content)
  <2> SUFFICES ASSUME NEW p \in SentPackets, \A i \in DOMAIN l : l[i].id # p.id, l' = Append(l, p)
               PROVE  SendQ!Queue!Add(p.id, p.content)
    OBVIOUS
  <2>1. p = [id |-> p.id, content |-> p.content]
    BY DEF SentPackets
  <2>2. (\A i \in DOMAIN l : l[i].id # p.id) /\ l' = Append(l, [id |-> p.id, content |-> p.content])
    BY <2>1
  <2> QED BY <2>2 DEF SendQ!Queue!Add, ListOf
<1>3. \A id : \A i \in DOMAIN l :
         l[i].id = id /\ l' = SendQ!Queue!RemoveAt(l, i) => SendQ!Queue!Delete(id)
  BY DEF SendQ!Queue!Delete, ListOf
<1>4. l # <<>> /\ l' = Append(Tail(l), Head(l)) => SendQ!Queue!MoveFirstToEnd
  BY DEF SendQ!Queue!MoveFirstToEnd, ListOf
<1>5. l' = <<>> => SendQ!Queue!Clear
  BY DEF SendQ!Queue!Clear, ListOf
<1>6. l = <<>> => SendQ!Queue!Init
  BY DEF SendQ!Queue!Init, ListOf
<1>7. ListsInv => \A i \in DOMAIN l : l[i].id \in PacketIds
  BY DEF ListsInv, ListOf, S, ToSet, SentPackets
<1>8. StepsQueues => QueueStep(l, l', SentPackets)
  BY DEF StepsQueues
<1>9. \A p \in SentPackets : p.id \in PacketIds /\ p.content \in {"data"}
  BY DEF SentPackets
<1> HIDE DEF l
<1>10. ListsInv /\ StepsQueues => SendQ!Queue!Next \/ l' = l
  <2> SUFFICES ASSUME ListsInv, QueueStep(l, l', SentPackets) PROVE SendQ!Queue!Next \/ l' = l
    BY <1>8
  <2>1. ASSUME NEW p \in SentPackets, (\A i \in DOMAIN l : l[i].id # p.id), l' = Append(l, p)
        PROVE  SendQ!Queue!Next
    <3>1. SendQ!Queue!Add(p.id, p.content)
      BY <1>2, <2>1
    <3>2. p.id \in PacketIds /\ p.content \in {"data"}
      BY <1>9
    <3> QED BY <3>1, <3>2 DEF SendQ!Queue!Next
  <2>2. ASSUME NEW i \in DOMAIN l, l' = RemoveAt(l, i) PROVE SendQ!Queue!Next
    <3>1. PICK id \in PacketIds : l[i].id = id
      BY <1>7
    <3>2. SendQ!Queue!Delete(id)
      BY <1>1, <1>3, <2>2, <3>1
    <3> QED BY <3>2 DEF SendQ!Queue!Next
  <2>3. l' = <<>> \/ (l # <<>> /\ l' = Append(Tail(l), Head(l))) => SendQ!Queue!Next
    BY <1>4, <1>5 DEF SendQ!Queue!Next
  <2> QED BY <2>1, <2>2, <2>3 DEF QueueStep
<1> QED BY <1>6, <1>10 DEF l

\* A step of the receive is one of PacketSequence.
LEMMA ReceiveQueueIsSequence ==
    /\ ListOf(heap, receiveQueue) = <<>> => ReceiveQ!Queue!Init
    /\ ListsInv /\ StepsQueues => [ReceiveQ!Queue!Next]_(ListOf(heap, receiveQueue))
<1> DEFINE l == ListOf(heap, receiveQueue)
<1>1. \A i \in DOMAIN l : ReceiveQ!Queue!RemoveAt(l, i) = RemoveAt(l, i)
  BY DEF ReceiveQ!Queue!RemoveAt, RemoveAt
<1>2. \A p \in ReceivedPackets :
         (\A i \in DOMAIN l : l[i].id # p.id) /\ l' = Append(l, p) => ReceiveQ!Queue!Add(p.id, p.content)
  <2> SUFFICES ASSUME NEW p \in ReceivedPackets, \A i \in DOMAIN l : l[i].id # p.id, l' = Append(l, p)
               PROVE  ReceiveQ!Queue!Add(p.id, p.content)
    OBVIOUS
  <2>1. p = [id |-> p.id, content |-> p.content]
    BY DEF ReceivedPackets
  <2>2. (\A i \in DOMAIN l : l[i].id # p.id) /\ l' = Append(l, [id |-> p.id, content |-> p.content])
    BY <2>1
  <2> QED BY <2>2 DEF ReceiveQ!Queue!Add, ListOf
<1>3. \A id : \A i \in DOMAIN l :
         l[i].id = id /\ l' = ReceiveQ!Queue!RemoveAt(l, i) => ReceiveQ!Queue!Delete(id)
  BY DEF ReceiveQ!Queue!Delete, ListOf
<1>4. l # <<>> /\ l' = Append(Tail(l), Head(l)) => ReceiveQ!Queue!MoveFirstToEnd
  BY DEF ReceiveQ!Queue!MoveFirstToEnd, ListOf
<1>5. l' = <<>> => ReceiveQ!Queue!Clear
  BY DEF ReceiveQ!Queue!Clear, ListOf
<1>6. l = <<>> => ReceiveQ!Queue!Init
  BY DEF ReceiveQ!Queue!Init, ListOf
<1>7. ListsInv => \A i \in DOMAIN l : l[i].id \in ReceivedIds
  BY DEF ListsInv, ListOf, R, ToSet, ReceivedPackets
<1>8. StepsQueues => QueueStep(l, l', ReceivedPackets)
  BY DEF StepsQueues
<1>9. \A p \in ReceivedPackets : p.id \in ReceivedIds /\ p.content \in Contents
  BY DEF ReceivedPackets
<1> HIDE DEF l
<1>10. ListsInv /\ StepsQueues => ReceiveQ!Queue!Next \/ l' = l
  <2> SUFFICES ASSUME ListsInv, QueueStep(l, l', ReceivedPackets) PROVE ReceiveQ!Queue!Next \/ l' = l
    BY <1>8
  <2>1. ASSUME NEW p \in ReceivedPackets, (\A i \in DOMAIN l : l[i].id # p.id), l' = Append(l, p)
        PROVE  ReceiveQ!Queue!Next
    <3>1. ReceiveQ!Queue!Add(p.id, p.content)
      BY <1>2, <2>1
    <3>2. p.id \in ReceivedIds /\ p.content \in Contents
      BY <1>9
    <3> QED BY <3>1, <3>2 DEF ReceiveQ!Queue!Next
  <2>2. ASSUME NEW i \in DOMAIN l, l' = RemoveAt(l, i) PROVE ReceiveQ!Queue!Next
    <3>1. PICK id \in ReceivedIds : l[i].id = id
      BY <1>7
    <3>2. ReceiveQ!Queue!Delete(id)
      BY <1>1, <1>3, <2>2, <3>1
    <3> QED BY <3>2 DEF ReceiveQ!Queue!Next
  <2>3. l' = <<>> \/ (l # <<>> /\ l' = Append(Tail(l), Head(l))) => ReceiveQ!Queue!Next
    BY <1>4, <1>5 DEF ReceiveQ!Queue!Next
  <2> QED BY <2>1, <2>2, <2>3 DEF QueueStep
<1> QED BY <1>6, <1>10 DEF l

\* Both queues are sequences of packets, no two with the same id: what the
\* channel relies on when it finds, adds and deletes packets by their ids.
THEOREM QueuesAreSequences == Spec => ImplementSequences
<1> DEFINE sent == [i \in DOMAIN sendQueue |-> heap[sendQueue[i]]]
           received == [i \in DOMAIN receiveQueue |-> heap[receiveQueue[i]]]
<1>1. Init => SendQ!Queue!Init /\ ReceiveQ!Queue!Init
  BY EmptyMatches, SendQueueIsSequence, ReceiveQueueIsSequence DEF Init, SendQ!Init, ReceiveQ!Init
<1>2. MemoryInv /\ [Next]_vars => [SendQ!Queue!Next]_sent /\ [ReceiveQ!Queue!Next]_received
  <2> SUFFICES ASSUME MemoryInv, [Next]_vars
               PROVE  [SendQ!Queue!Next]_sent /\ [ReceiveQ!Queue!Next]_received
    OBVIOUS
  <2>1. ListsInv /\ StepsQueues
    BY MemoryStep DEF MemoryInv
  <2>2. (SendQ!Queue!Next \/ UNCHANGED ListOf(heap, sendQueue))
        /\ (ReceiveQ!Queue!Next \/ UNCHANGED ListOf(heap, receiveQueue))
    BY <2>1, SendQueueIsSequence, ReceiveQueueIsSequence
  <2> HIDE DEF Next
  <2>3. ListOf(heap, sendQueue) = sent /\ ListOf(heap, receiveQueue) = received
    BY DEF ListOf
  <2>4. ListOf(heap', sendQueue') = sent' /\ ListOf(heap', receiveQueue') = received'
    BY DEF ListOf
  <2> QED BY <2>2, <2>3, <2>4
<1>3. Spec => SendQ!Queue!Spec /\ ReceiveQ!Queue!Spec
  BY <1>1, <1>2, MemoryAlways, PTL DEF Spec, SendQ!Queue!Spec, ReceiveQ!Queue!Spec
<1> QED BY <1>3 DEF ImplementSequences, SendQ!ImplementsSequence, ReceiveQ!ImplementsSequence
=============================================================================
