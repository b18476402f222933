------------------------ MODULE TrudpInstanceProofs ------------------------
(***************************************************************************)
(* For any set of peers and any window: the application knows which        *)
(* channels are connected, no write queue starves, the loop of a host over *)
(* trudpProcessWriteQueue serves every waiting channel once; and while the *)
(* trudpcat client thinks it is connected, the channel to the server is    *)
(* watched, whichever socket it got when it started.                       *)
(***************************************************************************)
EXTENDS TrudpCatStart, TrudpFacts

Types ==
    /\ map \in Seq(Peers)
    /\ connected \subseteq Members
    /\ sending \in [Peers -> Nat] /\ waiting \in [Peers -> Nat]
    /\ writeQueueIdx \in Nat
    /\ view \in [Peers -> {"down", "up"}]
    /\ missed \in [Peers -> Nat]

\* The calls of trudpProcessWriteQueue that can pass before it is the turn of
\* the i-th channel: it serves the channels up to i, or first those behind
\* writeQueueIdx and finds once that there is none left.
Turns(i) ==
    IF writeQueueIdx < i THEN i - 1 - writeQueueIdx
    ELSE i + (IF writeQueueIdx < Len(map) THEN Len(map) - writeQueueIdx ELSE 0)

TurnsInTime == \A i \in DOMAIN map : missed[map[i]] + Turns(i) <= Len(map)

InstanceInv == Types /\ ApplicationKnows /\ TurnsInTime

-----------------------------------------------------------------------------
\* An enumeration of a finite set lists its elements.
LEMMA ListsOfSet ==
    ASSUME NEW S, IsFiniteSet(S), NEW T, S \subseteq T, NEW m \in SetToSeqs(S)
    PROVE  m \in Seq(T) /\ ToSet(m) = S
<1> DEFINE n == Cardinality(S)
<1>1. n \in Nat
  BY FS_CardinalityType
<1>2. m \in [1 .. n -> S] /\ \A i, j \in 1 .. n : i # j => m[i] # m[j]
  BY DEF SetToSeqs
<1>3. m \in Injection(1 .. n, S)
  BY <1>2 DEF Injection, IsInjective
<1>4. IsFiniteSet(1 .. n) /\ Cardinality(1 .. n) = n
  BY <1>1, FS_Interval
<1>5. m \in Surjection(1 .. n, S)
  BY <1>1, <1>3, <1>4, FS_Injection
<1> HIDE DEF n
<1>6. m \in Seq(T)
  BY <1>1, <1>2, SeqDef
<1>7. ToSet(m) = S
  BY <1>2, <1>5 DEF Surjection, ToSet
<1> QED BY <1>6, <1>7

\* The map lists exactly its members.
LEMMA ListingsSound ==
    ASSUME NEW S \in SUBSET Peers, NEW m \in Listings(S)
    PROVE  m \in Seq(Peers) /\ ToSet(m) = S
<1>1. IsFiniteSet(S)
  BY InstanceAssumption, FS_Subset
<1> QED BY <1>1, ListsOfSet DEF Listings

LEMMA MembersArePeers ==
    ASSUME map \in Seq(Peers)
    PROVE  /\ Members \subseteq Peers
           /\ Len(map) \in Nat /\ DOMAIN map = 1 .. Len(map)
           /\ \A i \in DOMAIN map : map[i] \in Peers
BY LenProperties, ElementOfSeq DEF Members, ToSet

\* The channels before stay in the map and p is in it.
LEMMA AddToMapSound ==
    ASSUME NEW p \in Peers, map \in Seq(Peers), AddToMap(p)
    PROVE  map' \in Seq(Peers) /\ Members' = Members \cup {p}
<1>1. CASE p \in Members
  BY <1>1 DEF AddToMap, Members
<1>2. CASE p \notin Members
  <2>1. map' \in Listings(Members \cup {p})
    BY <1>2 DEF AddToMap
  <2>2. Members \cup {p} \in SUBSET Peers
    BY MembersArePeers
  <2> QED BY <2>1, <2>2, ListingsSound DEF Members
<1> QED BY <1>1, <1>2

\* The i-th channel has its turn within as many calls as there are channels.
LEMMA TurnsBound ==
    ASSUME Types, NEW i \in DOMAIN map
    PROVE  Turns(i) \in Nat /\ Turns(i) <= Len(map)
<1>1. Len(map) \in Nat /\ i \in 1 .. Len(map) /\ writeQueueIdx \in Nat
  BY MembersArePeers DEF Types
<1> QED BY <1>1 DEF Turns

-----------------------------------------------------------------------------
\* A call other than trudpProcessWriteQueue keeps the turns: the map is as it
\* was, or the count starts again.
LEMMA OtherCallKeeps ==
    ASSUME InstanceInv, OtherCall, UNCHANGED writeQueueIdx,
           map' \in Seq(Peers), connected' \subseteq Members',
           sending' \in [Peers -> Nat], waiting' \in [Peers -> Nat],
           view' \in [Peers -> {"down", "up"}], ApplicationKnows'
    PROVE  InstanceInv'
<1>1. missed' \in [Peers -> Nat]
  BY DEF OtherCall, InstanceInv, Types
<1>2. Types'
  BY <1>1 DEF InstanceInv, Types
<1>3. TurnsInTime'
  <2>1. CASE map' = map
    <3>1. \A i \in DOMAIN map : missed'[map[i]] <= missed[map[i]]
      BY <2>1, MembersArePeers DEF OtherCall, InstanceInv, Types
    <3>2. \A i \in DOMAIN map : Turns(i)' = Turns(i)
      BY <2>1 DEF Turns
    <3>3. \A i \in DOMAIN map : /\ missed[map[i]] \in Nat /\ missed'[map[i]] \in Nat
                                /\ Turns(i) \in Nat
      BY <1>1, MembersArePeers, TurnsBound DEF InstanceInv, Types
    <3>4. Len(map) \in Nat
      BY MembersArePeers DEF InstanceInv, Types
    <3> SUFFICES ASSUME NEW i \in DOMAIN map
                 PROVE  missed'[map[i]] + Turns(i)' <= Len(map)
      BY <2>1 DEF TurnsInTime
    <3>5. missed[map[i]] + Turns(i) <= Len(map)
      BY DEF TurnsInTime, InstanceInv
    <3>6. missed'[map[i]] <= missed[map[i]] /\ Turns(i)' = Turns(i)
      BY <3>1, <3>2
    <3>7. missed[map[i]] \in Nat /\ missed'[map[i]] \in Nat /\ Turns(i) \in Nat
      BY <3>3
    <3> QED BY <3>4, <3>5, <3>6, <3>7
  <2>2. CASE map' # map
    <3> SUFFICES ASSUME NEW i \in DOMAIN map'
                 PROVE  missed'[map'[i]] + Turns(i)' <= Len(map')
      BY DEF TurnsInTime
    <3>1. map'[i] \in Peers
      BY LenProperties, ElementOfSeq
    <3>2. missed'[map'[i]] = 0
      BY <2>2, <3>1 DEF OtherCall
    <3>3. Len(map') \in Nat /\ i \in 1 .. Len(map') /\ writeQueueIdx' \in Nat
      BY LenProperties DEF InstanceInv, Types
    <3>4. Turns(i)' <= Len(map') /\ Turns(i)' \in Nat
      BY <3>3 DEF Turns
    <3> QED BY <3>2, <3>3, <3>4
  <2> QED BY <2>1, <2>2
<1> QED BY <1>2, <1>3 DEF InstanceInv

-----------------------------------------------------------------------------
\* The first datagram of a peer connects it, and the application hears of it.
LEMMA GetChannelCreateKeeps ==
    ASSUME InstanceInv, NEW p \in Peers, GetChannelCreate(p)
    PROVE  /\ map' \in Seq(Peers)
           /\ connected' \subseteq Members'
           /\ view' \in [Peers -> {"down", "up"}]
           /\ ApplicationKnows'
<1>1. map' \in Seq(Peers) /\ Members' = Members \cup {p}
  <2>1. CASE p \in Members
    BY <2>1 DEF GetChannelCreate, AddToMap, Members, InstanceInv, Types
  <2>2. CASE p \notin Members
    <3>1. map' \in Listings(Members \cup {p}) /\ Members \cup {p} \in SUBSET Peers
      BY <2>2, MembersArePeers DEF GetChannelCreate, AddToMap, InstanceInv, Types
    <3> QED BY <3>1, ListingsSound DEF Members
  <2> QED BY <2>1, <2>2
<1>2. connected' \subseteq Members'
  BY <1>1 DEF GetChannelCreate, InstanceInv, Types
<1>3. view[p] = IF p \in connected THEN "up" ELSE "down"
  BY DEF InstanceInv, ApplicationKnows
<1>4. view' = [view EXCEPT ![p] = "up"]
  BY <1>3 DEF GetChannelCreate, Hear, InstanceInv, Types
<1>5. view' \in [Peers -> {"down", "up"}] /\ ApplicationKnows'
  BY <1>4 DEF ApplicationKnows, GetChannelCreate, InstanceInv, Types
<1> QED BY <1>1, <1>2, <1>5

LEMMA NewKeeps ==
    ASSUME InstanceInv, NEW p \in Peers, New(p)
    PROVE  InstanceInv'
<1>1. map' \in Listings(Members \cup {p}) /\ Members \cup {p} \in SUBSET Peers
  BY MembersArePeers DEF New, AddToMap, InstanceInv, Types
<1>2. map' \in Seq(Peers) /\ Members' = Members \cup {p}
  BY <1>1, ListingsSound DEF Members
<1>3. ApplicationKnows'
  BY DEF New, ApplicationKnows, InstanceInv
<1> QED BY <1>2, <1>3, OtherCallKeeps DEF New, queueVars, InstanceInv, Types

LEMMA SendKeeps ==
    ASSUME InstanceInv, NEW to \in SUBSET Peers, Send(to)
    PROVE  InstanceInv'
<1>1. sending' \in [Peers -> Nat] /\ waiting' \in [Peers -> Nat]
  BY DEF Send, InstanceInv, Types
<1>2. ApplicationKnows' /\ Members' = Members
  BY DEF Send, ApplicationKnows, Members, InstanceInv
<1> QED BY <1>1, <1>2, OtherCallKeeps DEF Send, InstanceInv, Types

\* An acknowledgement leaves counts that are not negative.
LEMMA AfterAckType ==
    ASSUME NEW s \in Nat, NEW w \in Nat, NEW r \in AfterAck(s, w)
    PROVE  r.sending \in Nat /\ r.waiting \in Nat
BY DEF AfterAck

LEMMA ReceiveKeeps ==
    ASSUME InstanceInv, NEW p \in Peers,
           ReceiveAck(p) \/ ReceiveReset(p) \/ ReceiveOther(p) \/ ReceivePing(p)
    PROVE  InstanceInv'
<1>1. GetChannelCreate(p) /\ OtherCall /\ UNCHANGED writeQueueIdx
  BY DEF ReceiveAck, ReceiveReset, ReceiveOther, ReceivePing
<1>2. sending' \in [Peers -> Nat] /\ waiting' \in [Peers -> Nat]
  <2>1. CASE ReceiveAck(p)
    <3>1. sending[p] \in Nat /\ waiting[p] \in Nat
      BY DEF InstanceInv, Types
    <3>2. PICK r \in AfterAck(sending[p], waiting[p]) :
             /\ sending' = [sending EXCEPT ![p] = r.sending]
             /\ waiting' = [waiting EXCEPT ![p] = r.waiting]
      BY <2>1 DEF ReceiveAck
    <3>3. r.sending \in Nat /\ r.waiting \in Nat
      BY <3>1, AfterAckType
    <3> QED BY <3>2, <3>3 DEF InstanceInv, Types
  <2>2. CASE ReceiveReset(p)
    BY <2>2 DEF ReceiveReset, FreeQueues, InstanceInv, Types
  <2>3. CASE ReceiveOther(p) \/ ReceivePing(p)
    BY <2>3 DEF ReceiveOther, ReceivePing, queueVars, InstanceInv, Types
  <2> QED BY <2>1, <2>2, <2>3
<1> QED BY <1>1, <1>2, GetChannelCreateKeeps, OtherCallKeeps

-----------------------------------------------------------------------------
LEMMA DestroyKeeps ==
    ASSUME InstanceInv, NEW p \in Peers, Destroy(p)
    PROVE  InstanceInv'
<1>1. map' \in Listings(Members \ {p}) /\ Members \ {p} \in SUBSET Peers
  BY MembersArePeers DEF Destroy, InstanceInv, Types
<1>2. map' \in Seq(Peers) /\ Members' = Members \ {p}
  BY <1>1, ListingsSound DEF Members
<1>3. connected' \subseteq Members'
  BY <1>2 DEF Destroy, InstanceInv, Types
<1>4. view' = [view EXCEPT ![p] = "down"]
  BY DEF Destroy, Hear
<1>5. view' \in [Peers -> {"down", "up"}] /\ ApplicationKnows'
  BY <1>4 DEF Destroy, ApplicationKnows, InstanceInv, Types
<1>6. sending' \in [Peers -> Nat] /\ waiting' \in [Peers -> Nat]
  BY DEF Destroy, FreeQueues, InstanceInv, Types
<1> QED BY <1>2, <1>3, <1>5, <1>6, OtherCallKeeps DEF Destroy

LEMMA DestroyAllKeeps ==
    ASSUME InstanceInv, DestroyAll
    PROVE  InstanceInv'
<1>1. map' \in Seq(Peers) /\ connected' \subseteq Members'
  BY EmptySeq DEF DestroyAll
<1>2. view' = [p \in Peers |-> "down"]
  <2>1. \A p \in Peers : p \notin Members => view[p] = "down"
    BY DEF InstanceInv, Types, ApplicationKnows
  <2> QED BY <2>1 DEF DestroyAll, Hear
<1>3. view' \in [Peers -> {"down", "up"}] /\ ApplicationKnows'
  BY <1>2 DEF DestroyAll, ApplicationKnows
<1>4. sending' \in [Peers -> Nat] /\ waiting' \in [Peers -> Nat]
  BY DEF DestroyAll
<1> QED BY <1>1, <1>3, <1>4, OtherCallKeeps DEF DestroyAll

-----------------------------------------------------------------------------
\* What a call sends leaves the types as they are; a channel that counts one
\* call more has a waiting packet and is not among those found.
LEMMA SendFirstKeeps ==
    ASSUME InstanceInv, NEW served \in SUBSET Found, SendFirst(served)
    PROVE  /\ waiting' \in [Peers -> Nat] /\ missed' \in [Peers -> Nat]
           /\ \A j \in DOMAIN map :
                missed'[map[j]] # 0 => /\ missed'[map[j]] = missed[map[j]] + 1
                                       /\ waiting[map[j]] > 0
                                       /\ j \notin served
<1> DEFINE owners == {map[i] : i \in served}
<1>1. /\ \A j \in DOMAIN map : map[j] \in Peers
      /\ waiting \in [Peers -> Nat] /\ missed \in [Peers -> Nat]
  BY MembersArePeers DEF InstanceInv, Types
<1>2. /\ waiting' = [p \in Peers |-> waiting[p] - IF p \in owners THEN 1 ELSE 0]
      /\ missed' = [p \in Peers |-> IF p \in owners \/ waiting[p] = 0 THEN 0
                                    ELSE missed[p] + 1]
  BY DEF SendFirst
<1>3. \A p \in owners : waiting[p] > 0
  BY DEF Found
<1>4. \A j \in served : map[j] \in owners
  OBVIOUS
<1> HIDE DEF owners
<1>5. waiting' \in [Peers -> Nat]
  BY <1>1, <1>2, <1>3
<1>6. missed' \in [Peers -> Nat]
  BY <1>1, <1>2
<1>7. ASSUME NEW j \in DOMAIN map, missed'[map[j]] # 0
      PROVE  /\ missed'[map[j]] = missed[map[j]] + 1
             /\ waiting[map[j]] > 0 /\ j \notin served
  BY <1>1, <1>2, <1>4, <1>7
<1> QED BY <1>5, <1>6, <1>7

\* A call that stops at the i-th channel brings those it passes over nearer to
\* their turn, and those it serves start to count again.
LEMMA StopAtKeeps ==
    ASSUME InstanceInv, NEW i \in DOMAIN map, StopAt(i), UNCHANGED map
    PROVE  /\ TurnsInTime' /\ writeQueueIdx' \in Nat
           /\ waiting' \in [Peers -> Nat] /\ missed' \in [Peers -> Nat]
<1> DEFINE served == {j \in Found : j <= i}
<1>1. /\ Len(map) \in Nat /\ DOMAIN map = 1 .. Len(map) /\ writeQueueIdx \in Nat
      /\ \A j \in DOMAIN map : map[j] \in Peers
      /\ missed \in [Peers -> Nat]
  BY MembersArePeers DEF InstanceInv, Types
<1>2. i > writeQueueIdx /\ writeQueueIdx' = i
  BY DEF StopAt, Found
<1>3. SendFirst(served) /\ served \in SUBSET Found
  BY DEF StopAt
<1>4. \A j \in DOMAIN map :
        waiting[map[j]] > 0 /\ j \notin served /\ j > writeQueueIdx => j > i
  BY <1>1 DEF Found
<1> HIDE DEF served
<1>5. /\ waiting' \in [Peers -> Nat] /\ missed' \in [Peers -> Nat]
      /\ \A j \in DOMAIN map :
           missed'[map[j]] # 0 => /\ missed'[map[j]] = missed[map[j]] + 1
                                  /\ waiting[map[j]] > 0
                                  /\ j \notin served
  BY <1>3, SendFirstKeeps
<1>6. ASSUME NEW j \in DOMAIN map
      PROVE  missed'[map[j]] + Turns(j)' <= Len(map)
  <2>1. missed[map[j]] + Turns(j) <= Len(map) /\ missed[map[j]] \in Nat
    BY <1>1 DEF InstanceInv, TurnsInTime
  <2>2. Turns(j)' = IF i < j THEN j - 1 - i ELSE j + (Len(map) - i)
    BY <1>1, <1>2 DEF Turns
  <2>3. CASE missed'[map[j]] = 0
    BY <1>1, <2>2, <2>3
  <2>4. CASE missed'[map[j]] # 0
    <3>1. missed'[map[j]] = missed[map[j]] + 1
      BY <1>5, <2>4
    <3>2. j # i /\ (j > writeQueueIdx => j > i)
      <4>1. j > writeQueueIdx => j > i
        BY <1>4, <1>5, <2>4
      <4> QED BY <1>1, <1>2, <4>1
    <3>3. Turns(j)' <= Turns(j) - 1 /\ Turns(j) \in Nat /\ Turns(j)' \in Nat
      BY <1>1, <1>2, <2>2, <3>2, SMTT(30) DEF Turns
    <3> QED BY <1>1, <2>1, <3>1, <3>3
  <2> QED BY <2>3, <2>4
<1> QED BY <1>1, <1>2, <1>5, <1>6 DEF TurnsInTime

\* A call that comes to the end of the map starts a new round.
LEMMA ReachEndKeeps ==
    ASSUME InstanceInv, ReachEnd, UNCHANGED map
    PROVE  /\ TurnsInTime' /\ writeQueueIdx' \in Nat
           /\ waiting' \in [Peers -> Nat] /\ missed' \in [Peers -> Nat]
<1>1. /\ Len(map) \in Nat /\ DOMAIN map = 1 .. Len(map) /\ writeQueueIdx \in Nat
      /\ \A j \in DOMAIN map : map[j] \in Peers
      /\ missed \in [Peers -> Nat]
  BY MembersArePeers DEF InstanceInv, Types
<1>2. SendFirst(Found) /\ writeQueueIdx' = 0
  BY DEF ReachEnd
<1>3. /\ waiting' \in [Peers -> Nat] /\ missed' \in [Peers -> Nat]
      /\ \A j \in DOMAIN map :
           missed'[map[j]] # 0 => /\ missed'[map[j]] = missed[map[j]] + 1
                                  /\ waiting[map[j]] > 0
                                  /\ j \notin Found
  BY <1>2, SendFirstKeeps
<1>4. ASSUME NEW j \in DOMAIN map
      PROVE  missed'[map[j]] + Turns(j)' <= Len(map)
  <2>1. missed[map[j]] + Turns(j) <= Len(map) /\ missed[map[j]] \in Nat
    BY <1>1 DEF InstanceInv, TurnsInTime
  <2>2. Turns(j)' = j - 1
    BY <1>1, <1>2 DEF Turns
  <2>3. CASE missed'[map[j]] = 0
    BY <1>1, <2>2, <2>3
  <2>4. CASE missed'[map[j]] # 0
    <3>1. missed'[map[j]] = missed[map[j]] + 1 /\ ~(j > writeQueueIdx)
      BY <1>3, <2>4 DEF Found
    <3>2. Turns(j) >= j /\ Turns(j) \in Nat
      BY <1>1, <3>1 DEF Turns
    <3> QED BY <1>1, <2>1, <2>2, <3>1, <3>2
  <2> QED BY <2>3, <2>4
<1> QED BY <1>1, <1>2, <1>3, <1>4 DEF TurnsInTime

LEMMA ProcessWriteQueueKeeps ==
    ASSUME InstanceInv, ProcessWriteQueue
    PROVE  InstanceInv'
<1>1. /\ TurnsInTime' /\ writeQueueIdx' \in Nat
      /\ waiting' \in [Peers -> Nat] /\ missed' \in [Peers -> Nat]
  BY StopAtKeeps, ReachEndKeeps DEF ProcessWriteQueue
<1>2. UNCHANGED <<map, connected, sending, view>> /\ Members' = Members
  BY DEF ProcessWriteQueue, Members
<1>3. ApplicationKnows'
  BY <1>2 DEF ApplicationKnows, InstanceInv
<1> QED BY <1>1, <1>2, <1>3 DEF InstanceInv, Types

LEMMA BeginWriteLoopKeeps ==
    ASSUME InstanceInv, BeginWriteLoop
    PROVE  InstanceInv'
BY DEF BeginWriteLoop, queueVars, historyVars, InstanceInv, Types, ApplicationKnows,
       TurnsInTime, Turns, Members

-----------------------------------------------------------------------------
\* The invariant holds in every state of every instance.
THEOREM InstanceInvariant == Spec => []InstanceInv
<1>1. Init => InstanceInv
  <2> SUFFICES ASSUME Init PROVE InstanceInv
    OBVIOUS
  <2>1. map \in Seq(Peers) /\ DOMAIN map = {}
    BY EmptySeq, LenProperties DEF Init
  <2>2. Types
    BY <2>1 DEF Init, Types
  <2> QED BY <2>1, <2>2 DEF Init, InstanceInv, ApplicationKnows, TurnsInTime
<1>2. InstanceInv /\ [Next]_vars => InstanceInv'
  <2> SUFFICES ASSUME InstanceInv, [Next]_vars PROVE InstanceInv'
    OBVIOUS
  <2>1. CASE SendDataToAll
    <3>1. connected \in SUBSET Peers
      BY MembersArePeers DEF InstanceInv, Types
    <3> QED BY <2>1, <3>1, SendKeeps DEF SendDataToAll
  <2>2. CASE DestroyAll
    BY <2>2, DestroyAllKeeps
  <2>3. CASE ProcessWriteQueue
    BY <2>3, ProcessWriteQueueKeeps
  <2>4. ASSUME NEW p \in Peers, New(p) PROVE InstanceInv'
    BY <2>4, NewKeeps
  <2>5. ASSUME NEW p \in Peers, SendData(p) PROVE InstanceInv'
    BY <2>5, SendKeeps DEF SendData
  <2>6. ASSUME NEW p \in Peers, Destroy(p) PROVE InstanceInv'
    BY <2>6, DestroyKeeps
  <2>7. ASSUME NEW p \in Peers,
               ReceiveAck(p) \/ ReceiveReset(p) \/ ReceiveOther(p) \/ ReceivePing(p)
        PROVE InstanceInv'
    BY <2>7, ReceiveKeeps
  <2>8. CASE UNCHANGED vars
    BY <2>8 DEF vars, queueVars, historyVars, InstanceInv, Types, ApplicationKnows,
                TurnsInTime, Turns, Members
  <2>9. CASE BeginWriteLoop
    BY <2>9, BeginWriteLoopKeeps
  <2>10. CASE SendResetAll
    <3>1. UNCHANGED <<map, connected, sending, waiting, view>> /\ Members' = Members
      BY <2>10 DEF SendResetAll, queueVars, Members
    <3>2. ApplicationKnows'
      BY <3>1 DEF ApplicationKnows, InstanceInv
    <3> QED BY <2>10, <3>1, <3>2, OtherCallKeeps DEF SendResetAll, InstanceInv, Types
  <2> QED BY <2>1, <2>2, <2>3, <2>4, <2>5, <2>6, <2>7, <2>8, <2>9, <2>10 DEF Next
<1> QED BY <1>1, <1>2, PTL DEF Spec

\* The application knows which channels are connected (trudpGetChannelCreate,
\* trudpChannelDestroy): for any peers, however channels come and go.
THEOREM ApplicationAlwaysKnows == Spec => []ApplicationKnows
<1>1. InstanceInv => ApplicationKnows
  BY DEF InstanceInv
<1> QED BY <1>1, InstanceInvariant, PTL

\* No write queue starves (trudpProcessWriteQueue): for any number of channels.
THEOREM WriteQueuesNeverStarve == Spec => []NoWriteQueueStarves
<1>1. InstanceInv => NoWriteQueueStarves
  <2> SUFFICES ASSUME InstanceInv, NEW i \in DOMAIN map
               PROVE  missed[map[i]] <= Len(map)
    BY DEF NoWriteQueueStarves
  <2>1. missed[map[i]] \in Nat /\ Len(map) \in Nat
    BY MembersArePeers DEF InstanceInv, Types
  <2>2. Turns(i) \in Nat
    BY TurnsBound DEF InstanceInv
  <2>3. missed[map[i]] + Turns(i) <= Len(map)
    BY DEF InstanceInv, TurnsInTime
  <2> QED BY <2>1, <2>2, <2>3
<1> QED BY <1>1, InstanceInvariant, PTL

-----------------------------------------------------------------------------
\* The write loop.  No channel is in the map twice, so that a channel that has
\* been served is not met again behind writeQueueIdx.
LoopInv ==
    /\ IsInjective(map)
    /\ owed = IF looping THEN {map[i] : i \in Found} ELSE {}

LEMMA ListingsInjective ==
    ASSUME NEW S \in SUBSET Peers, NEW m \in Listings(S)
    PROVE  IsInjective(m)
BY DEF Listings, SetToSeqs, IsInjective

\* Outside the loop nothing is owed, whatever the map becomes.
LEMMA OtherCallKeepsLoop ==
    ASSUME LoopInv, OtherCall, IsInjective(map')
    PROVE  LoopInv'
BY DEF LoopInv, OtherCall, loopVars

LEMMA AddToMapInjective ==
    ASSUME Types, LoopInv, NEW p \in Peers, AddToMap(p)
    PROVE  IsInjective(map')
<1>1. CASE p \in Members
  BY <1>1 DEF AddToMap, LoopInv
<1>2. CASE p \notin Members
  <2>1. Members \cup {p} \in SUBSET Peers
    BY MembersArePeers DEF Types
  <2> QED BY <1>2, <2>1, ListingsInjective DEF AddToMap
<1> QED BY <1>1, <1>2

\* A call in the loop: those it serves are paid and are behind it.
LEMMA ServedArePaid ==
    ASSUME Types, LoopInv, UNCHANGED map, SendFirst({j \in Found : j <= writeQueueIdx'}),
           writeQueueIdx' \in Nat, writeQueueIdx' > writeQueueIdx, looping
    PROVE  owed' = {map[i] : i \in Found'}
<1> DEFINE served == {j \in Found : j <= writeQueueIdx'}
           owners == {map[i] : i \in served}
<1>1. /\ DOMAIN map = 1 .. Len(map) /\ Len(map) \in Nat /\ writeQueueIdx \in Nat
      /\ \A j \in DOMAIN map : map[j] \in Peers
      /\ waiting \in [Peers -> Nat]
  BY MembersArePeers DEF Types
<1>2. waiting' = [p \in Peers |-> waiting[p] - IF p \in owners THEN 1 ELSE 0]
      /\ owed' = owed \ owners
  BY DEF SendFirst
<1>3. \A j \in DOMAIN map : map[j] \in owners <=> j \in served
  BY DEF LoopInv, IsInjective, Found
<1>4. Found' = {j \in Found : j > writeQueueIdx'}
  <2>1. ASSUME NEW j \in DOMAIN map, j > writeQueueIdx'
        PROVE  waiting'[map[j]] = waiting[map[j]]
    <3>1. map[j] \notin owners /\ map[j] \in Peers
      BY <1>1, <1>3, <2>1
    <3> HIDE DEF owners
    <3> QED BY <1>1, <1>2, <3>1
  <2>2. ASSUME NEW j \in DOMAIN map
        PROVE  j \in Found' <=> j \in Found /\ j > writeQueueIdx'
    BY <1>1, <2>1, <2>2 DEF Found
  <2> QED BY <2>2 DEF Found
<1>5. owed = {map[i] : i \in Found}
  BY DEF LoopInv
<1>6. Found \subseteq DOMAIN map
  BY DEF Found
<1> HIDE DEF owners
<1>7. {map[i] : i \in Found} \ owners = {map[i] : i \in Found \ served}
  BY <1>3, <1>6
<1>8. Found \ served = {j \in Found : j > writeQueueIdx'}
  BY <1>1, <1>6
<1> QED BY <1>2, <1>4, <1>5, <1>7, <1>8

\* Whatever the loop sends is owed; when it ends all is paid.
LEMMA SentIsOwed ==
    ASSUME Types, LoopInv, looping, NEW served \in SUBSET Found, SendFirst(served),
           NEW p \in Peers, waiting'[p] < waiting[p]
    PROVE  p \in owed
<1>1. p \in {map[i] : i \in served}
  BY DEF SendFirst, Types
<1> QED BY <1>1 DEF LoopInv

LEMMA ProcessKeepsLoop ==
    ASSUME Types, LoopInv, ProcessWriteQueue
    PROVE  /\ LoopInv'
           /\ looping => /\ \A p \in Peers : waiting'[p] < waiting[p] => p \in owed
                         /\ ~looping' => owed' = {}
<1>1. UNCHANGED map
  BY DEF ProcessWriteQueue
<1>2. CASE ReachEnd
  <2>1. SendFirst(Found) /\ ~looping' /\ Found \in SUBSET Found
    BY <1>2 DEF ReachEnd
  <2>2. owed' = {}
    BY <2>1 DEF SendFirst, LoopInv
  <2>3. looping => \A p \in Peers : waiting'[p] < waiting[p] => p \in owed
    BY <2>1, SentIsOwed
  <2> QED BY <1>1, <2>1, <2>2, <2>3 DEF LoopInv
<1>3. ASSUME NEW i \in DOMAIN map, StopAt(i)
      PROVE  /\ LoopInv'
             /\ looping => /\ \A p \in Peers : waiting'[p] < waiting[p] => p \in owed
                           /\ ~looping' => owed' = {}
  <2>1. /\ writeQueueIdx' = i /\ looping' = looping
        /\ SendFirst({j \in Found : j <= i})
    BY <1>3 DEF StopAt
  <2>2. i \in Nat /\ i > writeQueueIdx
    BY <1>3, MembersArePeers DEF StopAt, Found, Types
  <2>3. CASE looping
    <3>1. owed' = {map[j] : j \in Found'}
      BY <1>1, <2>1, <2>2, <2>3, ServedArePaid
    <3>2. \A p \in Peers : waiting'[p] < waiting[p] => p \in owed
      BY <2>1, <2>3, SentIsOwed
    <3> QED BY <1>1, <2>1, <2>3, <3>1, <3>2 DEF LoopInv
  <2>4. CASE ~looping
    <3>1. owed' = {}
      BY <2>1, <2>4 DEF SendFirst, LoopInv
    <3> QED BY <1>1, <2>1, <2>4, <3>1 DEF LoopInv
  <2> QED BY <2>3, <2>4 DEF LoopInv
<1> QED BY <1>2, <1>3 DEF ProcessWriteQueue

\* A step of Next is a call of trudpProcessWriteQueue, the start of the loop, or
\* leaves the loop alone.
LEMMA StepKeepsLoop ==
    ASSUME Types, LoopInv, [Next]_vars
    PROVE  /\ LoopInv'
           /\ looping => /\ \A p \in Peers : waiting'[p] < waiting[p] => p \in owed
                         /\ ~looping' => owed' = {}
<1>1. CASE ProcessWriteQueue
  BY <1>1, ProcessKeepsLoop
<1>2. CASE BeginWriteLoop
  <2>1. ~looping /\ looping' /\ map' = map /\ Found' = Found
    BY <1>2 DEF BeginWriteLoop, queueVars, Found
  <2> QED BY <1>2, <2>1 DEF BeginWriteLoop, LoopInv
<1>3. CASE UNCHANGED vars
  <2>1. map' = map /\ waiting' = waiting /\ looping' = looping /\ owed' = owed /\ Found' = Found
    BY <1>3 DEF vars, queueVars, loopVars, Found
  <2>2. \A p \in Peers : ~(waiting'[p] < waiting[p])
    BY <2>1 DEF Types
  <2> QED BY <2>1, <2>2 DEF LoopInv
<1>4. CASE SendDataToAll \/ SendResetAll
  <2>1. OtherCall /\ map' = map
    BY <1>4 DEF SendDataToAll, Send, SendResetAll
  <2> QED BY <2>1, OtherCallKeepsLoop DEF OtherCall, LoopInv
<1>5. CASE DestroyAll
  <2>1. OtherCall /\ IsInjective(map')
    BY <1>5 DEF DestroyAll, IsInjective
  <2> QED BY <2>1, OtherCallKeepsLoop DEF OtherCall
<1>6. ASSUME NEW p \in Peers, New(p) \/ SendData(p) \/ Destroy(p) \/ ReceiveAck(p)
                              \/ ReceiveReset(p) \/ ReceiveOther(p) \/ ReceivePing(p)
      PROVE  LoopInv' /\ ~looping
  <2>1. OtherCall
    BY <1>6 DEF New, SendData, Send, Destroy, ReceiveAck, ReceiveReset, ReceiveOther,
                ReceivePing
  <2>2. CASE New(p) \/ ReceiveAck(p) \/ ReceiveReset(p) \/ ReceiveOther(p) \/ ReceivePing(p)
    <3>1. AddToMap(p)
      BY <2>2 DEF New, ReceiveAck, ReceiveReset, ReceiveOther, ReceivePing, GetChannelCreate
    <3> QED BY <2>1, <3>1, AddToMapInjective, OtherCallKeepsLoop DEF OtherCall
  <2>3. CASE SendData(p)
    <3>1. map' = map
      BY <2>3 DEF SendData, Send
    <3> QED BY <2>1, <3>1, OtherCallKeepsLoop DEF OtherCall, LoopInv
  <2>4. CASE Destroy(p)
    <3>1. map' \in Listings(Members \ {p}) /\ Members \ {p} \in SUBSET Peers
      BY <2>4, MembersArePeers DEF Destroy, Types
    <3> QED BY <2>1, <3>1, ListingsInjective, OtherCallKeepsLoop DEF OtherCall
  <2> QED BY <1>6, <2>2, <2>3, <2>4
<1> QED BY <1>1, <1>2, <1>3, <1>4, <1>5, <1>6 DEF Next

\* while(trudpProcessWriteQueue(td)) of network_loop and network_select_loop
\* sends one packet of every channel that waits behind writeQueueIdx, and ends:
\* for any channels and any contents of their write queues.
THEOREM WriteLoopServes == Spec => WriteLoopServesEachOnce
<1>1. Init => LoopInv
  BY DEF Init, LoopInv, IsInjective
<1>2. InstanceInv /\ LoopInv /\ [Next]_vars => LoopInv'
  BY StepKeepsLoop DEF InstanceInv
<1>3. InstanceInv /\ LoopInv /\ [Next]_vars
        => [looping => /\ \A p \in Peers : waiting'[p] < waiting[p] => p \in owed
                       /\ ~looping' => owed' = {}]_vars
  BY StepKeepsLoop DEF InstanceInv
<1> QED BY <1>1, <1>2, <1>3, InstanceInvariant, PTL DEF Spec, WriteLoopServesEachOnce

-----------------------------------------------------------------------------
(***************************************************************************)
(* Packets are counted                                                     *)
(***************************************************************************)

\* Only the channels of the map have packets, and the statistic is their sum.
\* A call that sent nothing came to the end of the map; the next one looks at
\* every channel.
QueuesInv ==
    /\ \A p \in Peers \ Members : sending[p] = 0 /\ waiting[p] = 0
    /\ sendStat = SumOver(sending, Peers)
    /\ fruitless \in 0 .. 2
    /\ fruitless > 0 => writeQueueIdx = 0
    /\ fruitless = 2 => \A p \in Peers : waiting[p] = 0

\* The sum over the map is the sum over all peers.
LEMMA MembersSum ==
    ASSUME NEW g \in [Peers -> Nat], NEW owners \in SUBSET Peers,
           \A p \in Peers \ owners : g[p] = 0
    PROVE  SumOver(g, owners) = SumOver(g, Peers)
<1>1. IsFiniteSet(Peers) /\ IsFiniteSet(Peers \ owners)
  BY InstanceAssumption, FS_Subset
<1>2. SumOver(g, Peers \ owners) = 0
  BY <1>1, SumZero
<1>3. /\ SumOver(g, Peers) = SumOver(g, owners) + SumOver(g, Peers \ owners)
      /\ SumOver(g, owners) \in Nat
  BY <1>1, SumSplit
<1> QED BY <1>2, <1>3

\* The queues of p change.
LEMMA PeerSum ==
    ASSUME NEW g \in [Peers -> Nat], NEW p \in Peers, NEW n \in Nat
    PROVE  SumOver([g EXCEPT ![p] = n], Peers) = SumOver(g, Peers) - g[p] + n
<1> DEFINE h == [g EXCEPT ![p] = n]
<1>1. \A x \in Peers : g[x] \in Nat /\ h[x] \in Nat /\ (x # p => h[x] = g[x])
  OBVIOUS
<1>2. h[p] = n
  OBVIOUS
<1> HIDE DEF h
<1>3. SumOver(h, Peers) = SumOver(g, Peers) - g[p] + h[p]
  BY <1>1, InstanceAssumption, SumExcept
<1> QED BY <1>2, <1>3 DEF h

LEMMA SendStatIsNat ==
    ASSUME InstanceInv, QueuesInv
    PROVE  sendStat \in Nat
<1>1. \A p \in Peers : sending[p] \in Nat
  BY DEF InstanceInv, Types
<1> QED BY <1>1, InstanceAssumption, SumIsNat DEF QueuesInv

LEMMA QueuesInit ==
    ASSUME Init
    PROVE  QueuesInv
<1>1. \A p \in Peers : sending[p] = 0
  BY DEF Init
<1>2. SumOver(sending, Peers) = 0
  BY <1>1, InstanceAssumption, SumZero
<1> QED BY <1>2 DEF Init, QueuesInv

LEMMA SendKeepsQueues ==
    ASSUME InstanceInv, QueuesInv, NEW to \in SUBSET Members, Send(to)
    PROVE  QueuesInv'
<1>1. PICK now \in SUBSET to :
        /\ sending' = [p \in Peers |-> sending[p] + IF p \in now THEN 1 ELSE 0]
        /\ waiting' = [p \in Peers |-> waiting[p] + IF p \in to \ now THEN 1 ELSE 0]
        /\ sendStat' = sendStat + Cardinality(now)
  BY DEF Send
<1>2. Members \subseteq Peers /\ sending \in [Peers -> Nat] /\ waiting \in [Peers -> Nat]
  BY MembersArePeers DEF InstanceInv, Types
<1>3. \A x \in Peers : /\ sending[x] \in Nat
                       /\ sending'[x] = sending[x] + IF x \in now THEN 1 ELSE 0
  BY <1>1, <1>2
<1>4. SumOver(sending', Peers) = SumOver(sending, Peers) + Cardinality(now)
  BY <1>2, <1>3, InstanceAssumption, SumMore
<1>5. Members' = Members /\ fruitless' = 0
  BY DEF Send, OtherCall, Members
<1>6. \A p \in Peers \ Members' : sending'[p] = 0 /\ waiting'[p] = 0
  BY <1>1, <1>2, <1>5 DEF QueuesInv
<1> QED BY <1>1, <1>4, <1>5, <1>6 DEF QueuesInv

\* A datagram of p changes the queues of p only.
LEMMA ReceiveKeepsQueues ==
    ASSUME InstanceInv, QueuesInv, NEW p \in Peers,
           ReceiveAck(p) \/ ReceiveReset(p) \/ ReceiveOther(p) \/ ReceivePing(p)
    PROVE  QueuesInv'
<1>1. /\ sending \in [Peers -> Nat] /\ waiting \in [Peers -> Nat]
      /\ map \in Seq(Peers)
  BY DEF InstanceInv, Types
<1>2. AddToMap(p) /\ fruitless' = 0
  BY DEF ReceiveAck, ReceiveReset, ReceiveOther, ReceivePing, GetChannelCreate, OtherCall
<1>3. Members' = Members \cup {p}
  BY <1>1, <1>2, AddToMapSound
<1>4. \E s, w \in Nat :
        /\ sending' = [sending EXCEPT ![p] = s]
        /\ waiting' = [waiting EXCEPT ![p] = w]
        /\ sendStat' = sendStat - sending[p] + s
  <2>1. CASE ReceiveAck(p)
    <3>1. PICK r \in AfterAck(sending[p], waiting[p]) :
            /\ sending' = [sending EXCEPT ![p] = r.sending]
            /\ waiting' = [waiting EXCEPT ![p] = r.waiting]
            /\ sendStat' = sendStat - sending[p] + r.sending
      BY <2>1 DEF ReceiveAck
    <3>2. r.sending \in Nat /\ r.waiting \in Nat
      BY <1>1, AfterAckType
    <3> QED BY <3>1, <3>2
  <2>2. CASE ReceiveReset(p)
    <3>1. /\ sending' = [sending EXCEPT ![p] = 0] /\ waiting' = [waiting EXCEPT ![p] = 0]
          /\ sendStat' = sendStat - sending[p]
      BY <2>2 DEF ReceiveReset, FreeQueues
    <3>2. sendStat - sending[p] = sendStat - sending[p] + 0
      BY <1>1, SendStatIsNat
    <3> QED BY <3>1, <3>2
  <2>3. CASE ReceiveOther(p) \/ ReceivePing(p)
    <3>1. UNCHANGED queueVars
      BY <2>3 DEF ReceiveOther, ReceivePing
    <3>2. /\ sending[p] \in Nat /\ waiting[p] \in Nat
          /\ sending' = [sending EXCEPT ![p] = sending[p]]
          /\ waiting' = [waiting EXCEPT ![p] = waiting[p]]
          /\ sendStat' = sendStat - sending[p] + sending[p]
      BY <1>1, <3>1, SendStatIsNat DEF queueVars
    <3> QED BY <3>2
  <2> QED BY <2>1, <2>2, <2>3
<1>5. PICK s, w \in Nat :
        /\ sending' = [sending EXCEPT ![p] = s]
        /\ waiting' = [waiting EXCEPT ![p] = w]
        /\ sendStat' = sendStat - sending[p] + s
  BY <1>4
<1>6. SumOver(sending', Peers) = SumOver(sending, Peers) - sending[p] + s
  BY <1>1, <1>5, PeerSum
<1>7. \A q \in Peers \ Members' : sending'[q] = 0 /\ waiting'[q] = 0
  BY <1>1, <1>3, <1>5 DEF QueuesInv
<1> QED BY <1>2, <1>5, <1>6, <1>7 DEF QueuesInv

\* A channel that goes takes its packets out of the statistic.
LEMMA DestroyKeepsQueues ==
    ASSUME InstanceInv, QueuesInv, NEW p \in Peers, Destroy(p)
    PROVE  QueuesInv'
<1>1. sending \in [Peers -> Nat] /\ waiting \in [Peers -> Nat] /\ 0 \in Nat
  BY DEF InstanceInv, Types
<1>2. map' \in Listings(Members \ {p}) /\ Members \ {p} \in SUBSET Peers
  BY MembersArePeers DEF Destroy, InstanceInv, Types
<1>3. Members' = Members \ {p}
  BY <1>2, ListingsSound DEF Members
<1>4. /\ sending' = [sending EXCEPT ![p] = 0] /\ waiting' = [waiting EXCEPT ![p] = 0]
      /\ sendStat' = sendStat - sending[p] /\ fruitless' = 0
  BY DEF Destroy, FreeQueues, OtherCall
<1>5. SumOver(sending', Peers) = SumOver(sending, Peers) - sending[p] + 0
  BY <1>1, <1>4, PeerSum
<1>6. \A q \in Peers \ Members' : sending'[q] = 0 /\ waiting'[q] = 0
  BY <1>1, <1>3, <1>4 DEF QueuesInv
<1>7. SumOver(sending, Peers) \in Nat /\ sending[p] \in Nat
  BY <1>1, InstanceAssumption, SumIsNat
<1> QED BY <1>4, <1>5, <1>6, <1>7 DEF QueuesInv

LEMMA DestroyAllKeepsQueues ==
    ASSUME DestroyAll
    PROVE  QueuesInv'
<1>1. \A p \in Peers : sending'[p] = 0 /\ waiting'[p] = 0
  BY DEF DestroyAll
<1>2. SumOver(sending', Peers) = 0
  BY <1>1, InstanceAssumption, SumZero
<1> QED BY <1>1, <1>2 DEF DestroyAll, OtherCall, QueuesInv

\* A call that finds nothing comes to the end of the map.  When it started with
\* the first channel, nothing waits.
LEMMA ProcessKeepsQueues ==
    ASSUME InstanceInv, QueuesInv, ProcessWriteQueue
    PROVE  QueuesInv'
<1>1. /\ waiting \in [Peers -> Nat] /\ waiting' \in [Peers -> Nat]
      /\ Members \subseteq Peers /\ DOMAIN map = 1 .. Len(map) /\ Len(map) \in Nat
  BY ProcessWriteQueueKeeps, MembersArePeers DEF InstanceInv, Types
<1>2. /\ UNCHANGED <<sending, sendStat, map>> /\ Members' = Members
      /\ \E served \in SUBSET Found : SendFirst(served)
  BY DEF ProcessWriteQueue, ReachEnd, StopAt, Members
<1>3. \A p \in Peers : waiting[p] = 0 => waiting'[p] = 0
  BY <1>1, <1>2 DEF SendFirst
<1>4. \A p \in Peers \ Members' : sending'[p] = 0 /\ waiting'[p] = 0
  BY <1>2, <1>3 DEF QueuesInv
<1>5. /\ fruitless' \in 0 .. 2 /\ (fruitless' > 0 => writeQueueIdx' = 0)
      /\ fruitless' = 2 => fruitless > 0 /\ Found = {}
  <2>1. CASE ReachEnd
    BY <2>1 DEF ReachEnd, FruitlessAfter, QueuesInv
  <2>2. CASE \E i \in DOMAIN map : StopAt(i)
    BY <2>2 DEF StopAt
  <2> QED BY <2>1, <2>2 DEF ProcessWriteQueue
<1>6. ASSUME fruitless' = 2, NEW p \in Peers
      PROVE  waiting'[p] = 0
  <2>1. writeQueueIdx = 0 /\ Found = {}
    BY <1>5, <1>6 DEF QueuesInv
  <2>2. ASSUME p \in Members PROVE waiting[p] = 0
    <3>1. PICK i \in DOMAIN map : map[i] = p
      BY <2>2 DEF Members, ToSet
    <3>2. i > 0 /\ i \notin Found
      BY <1>1, <2>1
    <3> QED BY <1>1, <2>1, <3>1, <3>2 DEF Found
  <2> QED BY <1>3, <2>2 DEF QueuesInv
<1> QED BY <1>2, <1>4, <1>5, <1>6 DEF QueuesInv

LEMMA StepKeepsQueues ==
    ASSUME InstanceInv, QueuesInv, [Next]_vars
    PROVE  QueuesInv'
<1>1. connected \subseteq Members /\ map \in Seq(Peers)
  BY DEF InstanceInv, Types
<1>2. CASE SendDataToAll
  BY <1>1, <1>2, SendKeepsQueues DEF SendDataToAll
<1>3. CASE SendResetAll
  BY <1>3 DEF SendResetAll, OtherCall, queueVars, QueuesInv, Members
<1>4. CASE DestroyAll
  BY <1>4, DestroyAllKeepsQueues
<1>5. CASE ProcessWriteQueue
  BY <1>5, ProcessKeepsQueues
<1>6. CASE BeginWriteLoop \/ UNCHANGED vars
  BY <1>6 DEF BeginWriteLoop, vars, queueVars, historyVars, QueuesInv, Members
<1>7. ASSUME NEW p \in Peers, New(p) PROVE QueuesInv'
  <2>1. Members' = Members \cup {p}
    BY <1>1, <1>7, AddToMapSound DEF New
  <2> QED BY <1>7, <2>1 DEF New, OtherCall, queueVars, QueuesInv
<1>8. ASSUME NEW p \in Peers, SendData(p) PROVE QueuesInv'
  BY <1>8, SendKeepsQueues DEF SendData
<1>9. ASSUME NEW p \in Peers, Destroy(p) PROVE QueuesInv'
  BY <1>9, DestroyKeepsQueues
<1>10. ASSUME NEW p \in Peers,
              ReceiveAck(p) \/ ReceiveReset(p) \/ ReceiveOther(p) \/ ReceivePing(p)
       PROVE QueuesInv'
  BY <1>10, ReceiveKeepsQueues
<1> QED BY <1>2, <1>3, <1>4, <1>5, <1>6, <1>7, <1>8, <1>9, <1>10 DEF Next

LEMMA QueuesAlways == Spec => [](InstanceInv /\ QueuesInv)
<1>1. Init => QueuesInv
  BY QueuesInit
<1>2. InstanceInv /\ QueuesInv /\ [Next]_vars => QueuesInv'
  BY StepKeepsQueues
<1> QED BY <1>1, <1>2, InstanceInvariant, PTL DEF Spec

\* The statistic of the send queues is what trudpGetSendQueueMax and the hosts
\* take it for, the number of packets in them: for any channels, and without
\* ever falling below 0 (trudpSendQueueAdd, trudpSendQueueDelete,
\* _trudpChannelFree).
THEOREM SendStatisticAlwaysExact == Spec => []SendStatisticExact
<1>1. InstanceInv /\ QueuesInv => SendStatisticExact
  <2> SUFFICES ASSUME InstanceInv, QueuesInv PROVE SendStatisticExact
    OBVIOUS
  <2>1. Members \in SUBSET Peers /\ sending \in [Peers -> Nat]
    BY MembersArePeers DEF InstanceInv, Types
  <2>2. SumOver(sending, Members) = SumOver(sending, Peers)
    BY <2>1, MembersSum DEF QueuesInv
  <2>3. sendStat = SumOver(sending, Members)
    BY <2>2 DEF QueuesInv
  <2> QED BY <2>3 DEF SendStatisticExact, SumOver
<1> QED BY <1>1, QueuesAlways, PTL

\* trudpProcessWriteQueue returns 0 for two reasons; twice in a row there is
\* only one left: for any number of channels, wherever writeQueueIdx stood.
THEOREM FruitlessTwiceIsEmpty == Spec => []TwoFruitlessCallsMeanEmpty
<1>1. InstanceInv /\ QueuesInv => TwoFruitlessCallsMeanEmpty
  <2> SUFFICES ASSUME InstanceInv, QueuesInv, fruitless = 2 PROVE WriteQueueSize = 0
    BY DEF TwoFruitlessCallsMeanEmpty
  <2>1. Members \subseteq Peers /\ IsFiniteSet(Members)
    BY MembersArePeers, InstanceAssumption, FS_Subset DEF InstanceInv, Types
  <2>2. SumOver(waiting, Members) = 0
    BY <2>1, SumZero DEF QueuesInv
  <2> QED BY <2>2 DEF WriteQueueSize, SumOver
<1> QED BY <1>1, QueuesAlways, PTL

-----------------------------------------------------------------------------
(***************************************************************************)
(* The client (trudpcat_ev.c)                                              *)
(***************************************************************************)

\* WatchedWhileConnected rests on the types of what it speaks of only: every
\* action that takes the channel away, or its packets, clears the flag or
\* makes it connected.
CatInv ==
    /\ map \in Seq(Peers)
    /\ connected \subseteq Members
    /\ sending \in [Peers -> Nat]
    /\ connectedFlag \in BOOLEAN
    /\ WatchedWhileConnected

LEMMA CatInitHolds ==
    ASSUME CatInit
    PROVE  CatInv
BY EmptySeq DEF CatInit, Init, CatInv, WatchedWhileConnected

-----------------------------------------------------------------------------
\* A datagram of p, other than a RESET, leaves the queues of other channels
\* alone and connects p.
LEMMA CatDatagramKeeps ==
    ASSUME CatInv, NEW p \in Peers, GetChannelCreate(p), UNCHANGED connectedFlag,
           sending' \in [Peers -> Nat],
           \A q \in Peers \ {p} : sending'[q] = sending[q]
    PROVE  CatInv'
<1>1. map' \in Seq(Peers) /\ Members' = Members \cup {p}
  BY AddToMapSound DEF CatInv, GetChannelCreate
<1>2. connected' = connected \cup {p}
  BY DEF GetChannelCreate
<1>3. WatchedWhileConnected'
  <2> SUFFICES ASSUME connectedFlag
               PROVE  Server \in Members' /\ (Server \in connected' \/ sending'[Server] > 0)
    BY DEF WatchedWhileConnected
  <2>1. Server \in Members /\ (Server \in connected \/ sending[Server] > 0)
    BY DEF CatInv, WatchedWhileConnected
  <2>2. CASE Server = p
    BY <1>1, <1>2, <2>2
  <2>3. CASE Server # p
    <3>1. sending'[Server] = sending[Server]
      BY <2>3, CatAssumption
    <3> QED BY <1>1, <1>2, <2>1, <3>1
  <2> QED BY <2>2, <2>3
<1> QED BY <1>1, <1>2, <1>3 DEF CatInv

LEMMA CatReceiveKeeps ==
    ASSUME CatInv, NEW p \in Peers, CatReceive(p)
    PROVE  CatInv'
<1>1. CASE CatReceiveAck(p)
  <2>1. GetChannelCreate(p) /\ UNCHANGED connectedFlag
    BY <1>1 DEF CatReceiveAck, ReceiveAck, appVars
  <2>2. PICK r \in AfterAck(sending[p], waiting[p]) :
            sending' = [sending EXCEPT ![p] = r.sending]
    BY <1>1 DEF CatReceiveAck, ReceiveAck
  <2>3. sending[p] \in Nat
    BY DEF CatInv
  <2>4. r.sending \in Nat
    BY <2>3, SMT DEF AfterAck
  <2>5. sending' \in [Peers -> Nat] /\ \A q \in Peers \ {p} : sending'[q] = sending[q]
    BY <2>2, <2>4 DEF CatInv
  <2> QED BY <2>1, <2>5, CatDatagramKeeps
<1>2. CASE CatReceiveReset(p)
  <2>1. GetChannelCreate(p) /\ UNCHANGED connectedFlag
        /\ sending' = [sending EXCEPT ![p] = 0]
    BY <1>2 DEF CatReceiveReset, ReceiveReset, FreeQueues, appVars
  <2>2. sending' \in [Peers -> Nat] /\ \A q \in Peers \ {p} : sending'[q] = sending[q]
    BY <2>1 DEF CatInv
  <2> QED BY <2>1, <2>2, CatDatagramKeeps
<1>3. CASE CatReceiveOther(p)
  <2>1. GetChannelCreate(p) /\ UNCHANGED <<connectedFlag, sending>>
    BY <1>3 DEF CatReceiveOther, ReceiveOther, ReceivePing, queueVars, appVars
  <2>2. sending' \in [Peers -> Nat] /\ \A q \in Peers \ {p} : sending'[q] = sending[q]
    BY <2>1 DEF CatInv
  <2> QED BY <2>1, <2>2, CatDatagramKeeps
<1> QED BY <1>1, <1>2, <1>3 DEF CatReceive

-----------------------------------------------------------------------------
\* DISCONNECTED of any channel clears the flag; where there was none nothing
\* has changed.
LEMMA CatDisconnectKeeps ==
    ASSUME CatInv, NEW gone \in SUBSET Members, Disconnect(gone)
    PROVE  CatInv'
<1>1. sending' \in [Peers -> Nat]
  BY DEF Disconnect, CatInv
<1>2. connectedFlag' \in BOOLEAN
  BY DEF Disconnect, FlagAfter, CatInv
<1>3. CASE gone = {}
  <2>1. map' = map /\ connected' = connected /\ connectedFlag' = connectedFlag
    BY <1>3 DEF Disconnect, FlagAfter, CatInv
  <2>2. sending'[Server] = sending[Server]
    BY <1>3, CatAssumption DEF Disconnect
  <2> QED BY <1>1, <2>1, <2>2 DEF CatInv, WatchedWhileConnected, Members
<1>4. CASE gone # {}
  <2>1. map' \in Listings(Members \ gone)
    BY <1>4 DEF Disconnect
  <2>2. Members \ gone \in SUBSET Peers
    BY MembersArePeers DEF CatInv
  <2>3. /\ map' \in Seq(Peers)
        /\ Members' = Members \ gone
    BY <2>1, <2>2, ListingsSound DEF Members
  <2>4. ~connectedFlag' /\ connected' = connected \ gone
    BY <1>4 DEF Disconnect, FlagAfter
  <2>5. connected' \subseteq Members'
    BY <2>3, <2>4 DEF CatInv
  <2> QED BY <1>1, <1>2, <2>3, <2>4, <2>5 DEF CatInv, WatchedWhileConnected
<1> QED BY <1>3, <1>4

LEMMA ConnectKeeps ==
    ASSUME CatInv, ConnectToPeer
    PROVE  CatInv'
<1>1. map' \in Seq(Peers) /\ Members' = Members \cup {Server}
  BY AddToMapSound, CatAssumption DEF ConnectToPeer, CatInv
<1>2. /\ sending' = [sending EXCEPT ![Server] = 1] /\ connectedFlag' = TRUE
      /\ connected' = connected \ {Server}
  BY DEF ConnectToPeer, Greeting
<1>3. sending' \in [Peers -> Nat] /\ sending'[Server] > 0
  BY <1>2, CatAssumption DEF CatInv
<1> QED BY <1>1, <1>2, <1>3 DEF CatInv, WatchedWhileConnected

\* A message makes no send queue shorter.
LEMMA MessageKeeps ==
    ASSUME CatInv, MessageTimer
    PROVE  CatInv'
<1>1. UNCHANGED <<map, connected, connectedFlag>>
  BY DEF MessageTimer, Send, appVars
<1>2. PICK sendsNow \in SUBSET connected :
          sending' = [p \in Peers |-> sending[p] + IF p \in sendsNow THEN 1 ELSE 0]
  BY DEF MessageTimer, Send
<1>3. sending' \in [Peers -> Nat]
  BY <1>2 DEF CatInv
<1>4. sending[Server] > 0 => sending'[Server] > 0
  BY <1>2, CatAssumption DEF CatInv
<1> QED BY <1>1, <1>3, <1>4 DEF CatInv, WatchedWhileConnected, Members

-----------------------------------------------------------------------------
LEMMA CatStepKeeps ==
    ASSUME CatInv, [CatNext]_allVars
    PROVE  CatInv'
<1>1. CASE ConnectTimer
  <2>1. CASE ConnectToPeer
    BY <2>1, ConnectKeeps
  <2>2. CASE UNCHANGED <<vars, connectedFlag>>
    BY <2>2 DEF CatInv, WatchedWhileConnected, Members, vars, queueVars
  <2>3. CASE \E gone \in SUBSET connected : Disconnect(gone)
    <3>1. SUBSET connected \subseteq SUBSET Members
      BY DEF CatInv
    <3> QED BY <2>3, <3>1, CatDisconnectKeeps
  <2> QED BY <1>1, <2>1, <2>2, <2>3 DEF ConnectTimer
<1>2. CASE SendQueueTimer
  BY <1>2, CatDisconnectKeeps DEF SendQueueTimer
<1>3. CASE LoopConnects
  BY <1>3, ConnectKeeps DEF LoopConnects
<1>4. CASE WriteLoop
  <2>1. UNCHANGED <<map, connected, sending, connectedFlag>>
    BY <1>4 DEF WriteLoop, BeginWriteLoop, ProcessWriteQueue, queueVars
  <2> QED BY <2>1 DEF CatInv, WatchedWhileConnected, Members
<1>5. CASE MessageTimer
  BY <1>5, MessageKeeps
<1>6. CASE ShowTimer \/ ShowIdle \/ LoopShows
  <2>1. UNCHANGED <<map, connected, sending, connectedFlag>>
    BY <1>6 DEF ShowTimer, ShowIdle, LoopShows, ShowStatistic, vars, queueVars
  <2> QED BY <2>1 DEF CatInv, WatchedWhileConnected, Members
<1>7. ASSUME NEW p \in Peers, CatReceive(p) PROVE CatInv'
  BY <1>7, CatReceiveKeeps
<1>8. CASE UNCHANGED allVars
  BY <1>8 DEF allVars, appVars, CatInv, WatchedWhileConnected, Members, vars, queueVars
<1> QED BY <1>1, <1>2, <1>3, <1>4, <1>5, <1>6, <1>7, <1>8 DEF CatNext

-----------------------------------------------------------------------------
\* The statistics of td count what is in the queues of the map and what has
\* left them uncounted.  Only the channels of the map have packets.
CatQueues ==
    /\ map \in Seq(Peers) /\ connected \subseteq Members
    /\ sending \in [Peers -> Nat] /\ waiting \in [Peers -> Nat]
    /\ \A p \in Peers \ Members : sending[p] = 0 /\ waiting[p] = 0
    /\ leaked.sending \in Nat /\ leaked.waiting \in Nat /\ flushed \in Int
    /\ sendStat = SumOver(sending, Peers) + leaked.sending
    /\ writeStat = SumOver(waiting, Peers) + leaked.waiting + flushed

LEMMA TotalsAreSums ==
    \A owners : /\ TotalOf(sending, owners) = SumOver(sending, owners)
                /\ TotalOf(waiting, owners) = SumOver(waiting, owners)
                /\ TotalOf(waiting', owners) = SumOver(waiting', owners)
BY DEF TotalOf, SumOver

LEMMA CatCounts ==
    ASSUME CatQueues
    PROVE  /\ SumOver(sending, Peers) \in Nat /\ SumOver(waiting, Peers) \in Nat
           /\ leaked.sending \in Nat /\ leaked.waiting \in Nat /\ flushed \in Int
           /\ sendStat = SumOver(sending, Peers) + leaked.sending
           /\ writeStat = SumOver(waiting, Peers) + leaked.waiting + flushed
<1>1. \A p \in Peers : sending[p] \in Nat /\ waiting[p] \in Nat
  BY DEF CatQueues
<1>2. SumOver(sending, Peers) \in Nat /\ SumOver(waiting, Peers) \in Nat
  BY <1>1, InstanceAssumption, SumIsNat
<1> QED BY <1>2 DEF CatQueues

\* The queues of the channels of gone are emptied.
LEMMA EmptiedSum ==
    ASSUME NEW g \in [Peers -> Nat], NEW gone \in SUBSET Peers,
           NEW h, h = [p \in Peers |-> IF p \in gone THEN 0 ELSE g[p]]
    PROVE  /\ SumOver(h, Peers) = SumOver(g, Peers) - SumOver(g, gone)
           /\ SumOver(g, gone) \in Nat
<1> DEFINE rest == Peers \ gone
<1>1. IsFiniteSet(Peers) /\ IsFiniteSet(gone) /\ IsFiniteSet(rest)
  BY InstanceAssumption, FS_Subset
<1>2. \A x \in Peers : g[x] \in Nat /\ h[x] \in Nat
  OBVIOUS
<1>3. /\ SumOver(g, Peers) = SumOver(g, gone) + SumOver(g, rest)
      /\ SumOver(g, gone) \in Nat /\ SumOver(g, rest) \in Nat
  BY <1>1, <1>2, SumSplit
<1>4. SumOver(h, Peers) = SumOver(h, gone) + SumOver(h, rest)
  BY <1>1, <1>2, SumSplit
<1>5. SumOver(h, gone) = 0
  <2>1. \A x \in gone : h[x] = 0
    OBVIOUS
  <2> QED BY <1>1, <2>1, SumZero
<1>6. SumOver(h, rest) = SumOver(g, rest)
  <2>1. \A x \in rest : g[x] \in Nat /\ h[x] = g[x]
    OBVIOUS
  <2> QED BY <1>1, <2>1, SumSame
<1> QED BY <1>3, <1>4, <1>5, <1>6

LEMMA CatQueuesInit ==
    ASSUME CatInit
    PROVE  CatQueues
<1>1. /\ map = <<>> /\ connected = {} /\ sendStat = 0 /\ writeStat = 0 /\ flushed = 0
      /\ sending = [p \in Peers |-> 0] /\ waiting = [p \in Peers |-> 0]
      /\ leaked.sending = 0 /\ leaked.waiting = 0
  BY DEF CatInit, Init
<1>2. SumOver(sending, Peers) = 0 /\ SumOver(waiting, Peers) = 0
  BY <1>1, InstanceAssumption, SumZero
<1>3. map \in Seq(Peers)
  BY <1>1, EmptySeq
<1> QED BY <1>1, <1>2, <1>3 DEF CatQueues

-----------------------------------------------------------------------------
LEMMA DisconnectKeepsCounts ==
    ASSUME CatQueues, NEW gone \in SUBSET Members, Disconnect(gone)
    PROVE  CatQueues'
<1>0. /\ SumOver(sending, Peers) \in Nat /\ SumOver(waiting, Peers) \in Nat
      /\ leaked.sending \in Nat /\ leaked.waiting \in Nat /\ flushed \in Int
      /\ sendStat = SumOver(sending, Peers) + leaked.sending
      /\ writeStat = SumOver(waiting, Peers) + leaked.waiting + flushed
  BY CatCounts
<1>1. /\ Members \subseteq Peers /\ gone \in SUBSET Peers /\ Members \ gone \in SUBSET Peers
      /\ sending \in [Peers -> Nat] /\ waiting \in [Peers -> Nat]
  BY MembersArePeers DEF CatQueues
<1>2. map' \in Seq(Peers) /\ Members' = Members \ gone
  <2>1. CASE gone = {}
    BY <2>1 DEF Disconnect, CatQueues, Members
  <2>2. CASE gone # {}
    BY <1>1, <2>2, ListingsSound DEF Disconnect, Members
  <2> QED BY <2>1, <2>2
<1>3. /\ sending' = [p \in Peers |-> IF p \in gone THEN 0 ELSE sending[p]]
      /\ waiting' = [p \in Peers |-> IF p \in gone THEN 0 ELSE waiting[p]]
      /\ connected' = connected \ gone
      /\ UNCHANGED <<leaked, flushed>>
  BY DEF Disconnect, countVars
<1>4. /\ sendStat' = sendStat - SumOver(sending, gone)
      /\ writeStat' = writeStat - SumOver(waiting, gone)
  BY TotalsAreSums DEF Disconnect
<1>5. /\ SumOver(sending', Peers) = SumOver(sending, Peers) - SumOver(sending, gone)
      /\ SumOver(waiting', Peers) = SumOver(waiting, Peers) - SumOver(waiting, gone)
      /\ SumOver(sending, gone) \in Nat /\ SumOver(waiting, gone) \in Nat
  BY <1>1, <1>3, EmptiedSum
<1>6. /\ sending' \in [Peers -> Nat] /\ waiting' \in [Peers -> Nat]
      /\ \A p \in Peers \ Members' : sending'[p] = 0 /\ waiting'[p] = 0
  BY <1>1, <1>2, <1>3 DEF CatQueues
<1>7. sendStat' = SumOver(sending', Peers) + leaked'.sending
  BY <1>0, <1>3, <1>4, <1>5
<1>8. writeStat' = SumOver(waiting', Peers) + leaked'.waiting + flushed'
  BY <1>0, <1>3, <1>4, <1>5
<1> QED BY <1>2, <1>3, <1>6, <1>7, <1>8 DEF CatQueues

\* What the replaced channel had is counted on as leaked.
LEMMA ConnectKeepsCounts ==
    ASSUME CatQueues, ConnectToPeer
    PROVE  CatQueues'
<1>0. /\ SumOver(sending, Peers) \in Nat /\ SumOver(waiting, Peers) \in Nat
      /\ leaked.sending \in Nat /\ leaked.waiting \in Nat /\ flushed \in Int
      /\ sendStat = SumOver(sending, Peers) + leaked.sending
      /\ writeStat = SumOver(waiting, Peers) + leaked.waiting + flushed
  BY CatCounts
<1>1. /\ Server \in Peers /\ sending \in [Peers -> Nat] /\ waiting \in [Peers -> Nat]
      /\ sending[Server] \in Nat /\ waiting[Server] \in Nat /\ 0 \in Nat /\ 1 \in Nat
  BY CatAssumption DEF CatQueues
<1>2. map' \in Seq(Peers) /\ Members' = Members \cup {Server}
  BY <1>1, AddToMapSound DEF ConnectToPeer, CatQueues
<1>3. /\ sending' = [sending EXCEPT ![Server] = 1]
      /\ waiting' = [waiting EXCEPT ![Server] = 0]
      /\ sendStat' = sendStat + 1
      /\ leaked'.sending = leaked.sending + sending[Server]
      /\ leaked'.waiting = leaked.waiting + waiting[Server]
      /\ connected' = connected \ {Server}
      /\ UNCHANGED <<writeStat, flushed>>
  BY DEF ConnectToPeer, Greeting
<1>4. /\ SumOver(sending', Peers) = SumOver(sending, Peers) - sending[Server] + 1
      /\ SumOver(waiting', Peers) = SumOver(waiting, Peers) - waiting[Server] + 0
  BY <1>1, <1>3, PeerSum
<1>5. /\ sending' \in [Peers -> Nat] /\ waiting' \in [Peers -> Nat]
      /\ \A p \in Peers \ Members' : sending'[p] = 0 /\ waiting'[p] = 0
  BY <1>1, <1>2, <1>3 DEF CatQueues
<1>6. /\ sendStat' = SumOver(sending', Peers) + leaked'.sending /\ leaked'.sending \in Nat
      /\ writeStat' = SumOver(waiting', Peers) + leaked'.waiting + flushed'
      /\ leaked'.waiting \in Nat
  BY <1>0, <1>1, <1>3, <1>4
<1> QED BY <1>2, <1>3, <1>5, <1>6 DEF CatQueues

\* A message goes to the send queue or to the write queue of every channel.
LEMMA MessageKeepsCounts ==
    ASSUME CatQueues, MessageTimer
    PROVE  CatQueues'
<1>0. /\ SumOver(sending, Peers) \in Nat /\ SumOver(waiting, Peers) \in Nat
      /\ leaked.sending \in Nat /\ leaked.waiting \in Nat /\ flushed \in Int
      /\ sendStat = SumOver(sending, Peers) + leaked.sending
      /\ writeStat = SumOver(waiting, Peers) + leaked.waiting + flushed
  BY CatCounts
<1>1. /\ connected \in SUBSET Peers
      /\ sending \in [Peers -> Nat] /\ waiting \in [Peers -> Nat]
  BY MembersArePeers DEF CatQueues
<1>2. PICK now \in SUBSET connected :
        /\ sending' = [p \in Peers |-> sending[p] + IF p \in now THEN 1 ELSE 0]
        /\ waiting' = [p \in Peers |-> waiting[p] + IF p \in connected \ now THEN 1 ELSE 0]
        /\ sendStat' = sendStat + Cardinality(now)
  BY DEF MessageTimer, Send
<1>3. {p \in connected : sending'[p] = sending[p]} = connected \ now
  BY <1>1, <1>2
<1>4. /\ UNCHANGED <<map, connected, leaked, flushed>> /\ Members' = Members
      /\ writeStat' = writeStat + Cardinality(connected \ now)
  BY <1>3 DEF MessageTimer, Send, appVars, countVars, Members
<1>5. /\ \A x \in Peers : /\ sending[x] \in Nat
                          /\ sending'[x] = sending[x] + IF x \in now THEN 1 ELSE 0
      /\ \A x \in Peers : /\ waiting[x] \in Nat
                          /\ waiting'[x] = waiting[x] + IF x \in connected \ now THEN 1 ELSE 0
  BY <1>1, <1>2
<1>6. /\ SumOver(sending', Peers) = SumOver(sending, Peers) + Cardinality(now)
      /\ Cardinality(now) \in Nat
  BY <1>1, <1>5, InstanceAssumption, SumMore
<1>7. /\ SumOver(waiting', Peers) = SumOver(waiting, Peers) + Cardinality(connected \ now)
      /\ Cardinality(connected \ now) \in Nat
  <2>1. connected \ now \subseteq Peers
    BY <1>1
  <2> QED BY <1>5, <2>1, InstanceAssumption, SumMore
<1>8. /\ sending' \in [Peers -> Nat] /\ waiting' \in [Peers -> Nat]
      /\ \A p \in Peers \ Members' : sending'[p] = 0 /\ waiting'[p] = 0
  BY <1>1, <1>2, <1>4 DEF CatQueues
<1>9. /\ sendStat' = SumOver(sending', Peers) + leaked'.sending
      /\ writeStat' = SumOver(waiting', Peers) + leaked'.waiting + flushed'
  BY <1>0, <1>2, <1>4, <1>6, <1>7
<1> QED BY <1>4, <1>8, <1>9 DEF CatQueues

\* An acknowledgement frees a packet, or moves one from the write queue to the
\* send queue; a RESET empties both.
LEMMA CatReceiveKeepsCounts ==
    ASSUME CatQueues, NEW p \in Peers, CatReceive(p)
    PROVE  CatQueues'
<1>0. /\ SumOver(sending, Peers) \in Nat /\ SumOver(waiting, Peers) \in Nat
      /\ leaked.sending \in Nat /\ leaked.waiting \in Nat /\ flushed \in Int
      /\ sendStat = SumOver(sending, Peers) + leaked.sending
      /\ writeStat = SumOver(waiting, Peers) + leaked.waiting + flushed
  BY CatCounts
<1>n. sendStat \in Nat /\ writeStat \in Int
  BY <1>0
<1>t. /\ sending \in [Peers -> Nat] /\ waiting \in [Peers -> Nat] /\ map \in Seq(Peers)
      /\ sending[p] \in Nat /\ waiting[p] \in Nat
  BY DEF CatQueues
<1>1. /\ sending \in [Peers -> Nat] /\ waiting \in [Peers -> Nat] /\ map \in Seq(Peers)
      /\ sending[p] \in Nat /\ waiting[p] \in Nat
      /\ sendStat \in Nat /\ writeStat \in Int
  BY <1>n, <1>t
<1>2. /\ AddToMap(p) /\ connected' = connected \cup {p} /\ UNCHANGED <<leaked, flushed>>
  BY DEF CatReceive, CatReceiveAck, CatReceiveReset, CatReceiveOther, ReceiveAck,
         ReceiveReset, ReceiveOther, ReceivePing, GetChannelCreate, appVars, countVars
<1>3. map' \in Seq(Peers) /\ Members' = Members \cup {p}
  BY <1>1, <1>2, AddToMapSound
<1>4. \E s, w \in Nat :
        /\ sending' = [sending EXCEPT ![p] = s]
        /\ waiting' = [waiting EXCEPT ![p] = w]
        /\ sendStat' = sendStat - sending[p] + s
        /\ writeStat' = writeStat - waiting[p] + w
  <2>1. CASE CatReceiveAck(p)
    <3>1. PICK r \in AfterAck(sending[p], waiting[p]) :
            /\ sending' = [sending EXCEPT ![p] = r.sending]
            /\ waiting' = [waiting EXCEPT ![p] = r.waiting]
            /\ sendStat' = sendStat - sending[p] + r.sending
      BY <2>1 DEF CatReceiveAck, ReceiveAck
    <3>2. r.sending \in Nat /\ r.waiting \in Nat
      BY <1>1, AfterAckType
    <3>3. r.waiting = waiting[p] \/ r.waiting = waiting[p] - 1
      BY DEF AfterAck
    <3>4. waiting'[p] = r.waiting
      BY <1>1, <3>1
    <3>5. writeStat' = IF waiting'[p] < waiting[p] THEN writeStat - 1 ELSE writeStat
      BY <2>1 DEF CatReceiveAck
    <3>6. writeStat' = writeStat - waiting[p] + r.waiting
      BY <1>1, <3>2, <3>3, <3>4, <3>5
    <3> QED BY <3>1, <3>2, <3>6
  <2>2. CASE CatReceiveReset(p)
    <3>1. /\ sending' = [sending EXCEPT ![p] = 0] /\ waiting' = [waiting EXCEPT ![p] = 0]
          /\ sendStat' = sendStat - sending[p] /\ writeStat' = writeStat - waiting[p]
      BY <2>2 DEF CatReceiveReset, ReceiveReset, FreeQueues
    <3>2. /\ sendStat - sending[p] = sendStat - sending[p] + 0
          /\ writeStat - waiting[p] = writeStat - waiting[p] + 0
      BY <1>1
    <3> QED BY <3>1, <3>2
  <2>3. CASE CatReceiveOther(p)
    <3>1. UNCHANGED <<sending, waiting, sendStat, writeStat>>
      BY <2>3 DEF CatReceiveOther, ReceiveOther, ReceivePing, queueVars
    <3>2. /\ sending' = [sending EXCEPT ![p] = sending[p]]
          /\ waiting' = [waiting EXCEPT ![p] = waiting[p]]
          /\ sendStat' = sendStat - sending[p] + sending[p]
          /\ writeStat' = writeStat - waiting[p] + waiting[p]
      BY <1>1, <3>1
    <3> QED BY <1>1, <3>2
  <2> QED BY <2>1, <2>2, <2>3 DEF CatReceive
<1>5. PICK s, w \in Nat :
        /\ sending' = [sending EXCEPT ![p] = s]
        /\ waiting' = [waiting EXCEPT ![p] = w]
        /\ sendStat' = sendStat - sending[p] + s
        /\ writeStat' = writeStat - waiting[p] + w
  BY <1>4
<1>6. /\ SumOver(sending', Peers) = SumOver(sending, Peers) - sending[p] + s
      /\ SumOver(waiting', Peers) = SumOver(waiting, Peers) - waiting[p] + w
  BY <1>1, <1>5, PeerSum
<1>7. /\ sending' \in [Peers -> Nat] /\ waiting' \in [Peers -> Nat]
      /\ \A q \in Peers \ Members' : sending'[q] = 0 /\ waiting'[q] = 0
  BY <1>1, <1>3, <1>5 DEF CatQueues
<1>8. /\ sendStat' = SumOver(sending', Peers) + leaked'.sending
      /\ writeStat' = SumOver(waiting', Peers) + leaked'.waiting + flushed'
  <2>1. /\ sendStat' = sendStat - sending[p] + s /\ writeStat' = writeStat - waiting[p] + w
        /\ leaked' = leaked /\ flushed' = flushed
        /\ sending[p] \in Nat /\ waiting[p] \in Nat
    BY <1>1, <1>2, <1>5
  <2> QED BY <1>0, <1>6, <2>1
<1> QED BY <1>2, <1>3, <1>7, <1>8 DEF CatQueues

\* What the loop takes from the write queues is counted on as flushed.
LEMMA WriteLoopKeepsCounts ==
    ASSUME CatQueues, WriteLoop
    PROVE  CatQueues'
<1>0. /\ SumOver(sending, Peers) \in Nat /\ SumOver(waiting, Peers) \in Nat
      /\ leaked.sending \in Nat /\ leaked.waiting \in Nat /\ flushed \in Int
      /\ sendStat = SumOver(sending, Peers) + leaked.sending
      /\ writeStat = SumOver(waiting, Peers) + leaked.waiting + flushed
  BY CatCounts
<1>1. /\ UNCHANGED <<map, connected, sending, sendStat, writeStat, leaked>>
      /\ Members' = Members
      /\ flushed' = flushed + SumOver(waiting, Members) - SumOver(waiting', Members)
  BY TotalsAreSums
  DEF WriteLoop, BeginWriteLoop, ProcessWriteQueue, queueVars, Members
<1>2. /\ Members \in SUBSET Peers
      /\ waiting \in [Peers -> Nat]
  BY MembersArePeers DEF CatQueues
<1>3. waiting' \in [Peers -> Nat] /\ \A p \in Peers : waiting[p] = 0 => waiting'[p] = 0
  <2>1. CASE BeginWriteLoop
    BY <1>2, <2>1 DEF BeginWriteLoop, queueVars
  <2>2. ASSUME NEW served \in SUBSET Found, SendFirst(served)
        PROVE  waiting' \in [Peers -> Nat] /\ \A p \in Peers : waiting[p] = 0 => waiting'[p] = 0
    <3> DEFINE owners == {map[i] : i \in served}
    <3>1. /\ waiting' = [p \in Peers |-> waiting[p] - IF p \in owners THEN 1 ELSE 0]
          /\ \A p \in owners : waiting[p] > 0
      BY <2>2 DEF SendFirst, Found
    <3> HIDE DEF owners
    <3> QED BY <1>2, <3>1
  <2>3. BeginWriteLoop \/ \E served \in SUBSET Found : SendFirst(served)
    BY DEF WriteLoop, ProcessWriteQueue, ReachEnd, StopAt
  <2> QED BY <2>1, <2>2, <2>3
<1>4. \A p \in Peers \ Members : waiting[p] = 0 /\ waiting'[p] = 0
  BY <1>3 DEF CatQueues
<1>5. /\ SumOver(waiting, Members) = SumOver(waiting, Peers)
      /\ SumOver(waiting', Members) = SumOver(waiting', Peers)
  BY <1>2, <1>3, <1>4, MembersSum
<1>6. SumOver(waiting', Peers) \in Nat
  <2>1. \A p \in Peers : waiting'[p] \in Nat
    BY <1>3
  <2> QED BY <2>1, InstanceAssumption, SumIsNat
<1>7. /\ flushed' \in Int
      /\ writeStat' = SumOver(waiting', Peers) + leaked'.waiting + flushed'
  BY <1>0, <1>1, <1>5, <1>6
<1> QED BY <1>1, <1>3, <1>4, <1>7 DEF CatQueues

-----------------------------------------------------------------------------
LEMMA CatStepKeepsCounts ==
    ASSUME CatQueues, [CatNext]_allVars
    PROVE  CatQueues'
<1>1. CASE ConnectTimer
  <2>1. CASE ConnectToPeer
    BY <2>1, ConnectKeepsCounts
  <2>2. CASE UNCHANGED <<vars, writeStat, countVars>>
    BY <2>2 DEF CatQueues, Members, vars, queueVars, countVars
  <2>3. CASE \E gone \in SUBSET connected : Disconnect(gone)
    <3>1. SUBSET connected \subseteq SUBSET Members
      BY DEF CatQueues
    <3> QED BY <2>3, <3>1, DisconnectKeepsCounts
  <2> QED BY <1>1, <2>1, <2>2, <2>3 DEF ConnectTimer
<1>2. CASE SendQueueTimer
  BY <1>2, DisconnectKeepsCounts DEF SendQueueTimer
<1>3. CASE LoopConnects
  BY <1>3, ConnectKeepsCounts DEF LoopConnects
<1>4. CASE WriteLoop
  BY <1>4, WriteLoopKeepsCounts
<1>5. CASE MessageTimer
  BY <1>5, MessageKeepsCounts
<1>6. CASE ShowTimer \/ ShowIdle \/ LoopShows
  <2>1. UNCHANGED <<vars, writeStat, countVars>>
    BY <1>6 DEF ShowTimer, ShowIdle, LoopShows, ShowStatistic
  <2> QED BY <2>1 DEF CatQueues, Members, vars, queueVars, countVars
<1>7. ASSUME NEW p \in Peers, CatReceive(p) PROVE CatQueues'
  BY <1>7, CatReceiveKeepsCounts
<1>8. CASE UNCHANGED allVars
  BY <1>8 DEF allVars, appVars, CatQueues, Members, vars, queueVars, countVars
<1> QED BY <1>1, <1>2, <1>3, <1>4, <1>5, <1>6, <1>7, <1>8 DEF CatNext

-----------------------------------------------------------------------------
\* A client that looks for its socket first is a client, whatever it gets
\* (main; TrudpCat says what holds once the event loop runs).
THEOREM StartImplementsClient == StartSpec => CatSpec
<1>1. StartInit => CatInit
  BY DEF StartInit
<1>2. ASSUME [StartNext]_<<allVars, bindVars>>
      PROVE  [CatNext]_allVars
  BY <1>2 DEF StartNext, Start
<1> QED BY <1>1, <1>2, PTL DEF StartSpec, CatSpec

\* Whatever channels come and go, and whatever connectToPeer replaces, silence
\* of the server is noticed while connected_flag is set (connectToPeer, case
\* DISCONNECTED of eventCb, connect_cb).
THEOREM ServerIsWatched == StartSpec => []WatchedWhileConnected
<1>1. CatInit => CatInv
  BY CatInitHolds
<1>2. CatInv /\ [CatNext]_allVars => CatInv'
  BY CatStepKeeps
<1>3. CatInv => WatchedWhileConnected
  BY DEF CatInv
<1>4. CatSpec => []WatchedWhileConnected
  BY <1>1, <1>2, <1>3, PTL DEF CatSpec
<1> QED BY <1>4, StartImplementsClient
\* The statistics of td keep for good the packets of the channels that
\* connectToPeer replaced, and those that trudpProcessWriteQueue took from a
\* write queue, and count every other packet once: for any peers.
THEOREM LeaksStayInStatistics == StartSpec => []StatisticsKeepLeaks
<1>1. CatInit => CatQueues
  BY CatQueuesInit
<1>2. CatQueues /\ [CatNext]_allVars => CatQueues'
  BY CatStepKeepsCounts
<1>3. CatQueues => StatisticsKeepLeaks
  <2> SUFFICES ASSUME CatQueues PROVE StatisticsKeepLeaks
    OBVIOUS
  <2>1. /\ Members \in SUBSET Peers
        /\ sending \in [Peers -> Nat] /\ waiting \in [Peers -> Nat]
    BY MembersArePeers DEF CatQueues
  <2>2. /\ SumOver(sending, Members) = SumOver(sending, Peers)
        /\ SumOver(waiting, Members) = SumOver(waiting, Peers)
    BY <2>1, MembersSum DEF CatQueues
  <2> QED BY <2>2, TotalsAreSums DEF CatQueues, StatisticsKeepLeaks
<1>4. CatSpec => []StatisticsKeepLeaks
  BY <1>1, <1>2, <1>3, PTL DEF CatSpec
<1> QED BY <1>4, StartImplementsClient
-----------------------------------------------------------------------------
(***************************************************************************)
(* The search for a port (udp.c)                                           *)
(***************************************************************************)

SearchTypes ==
    [remote : Families, step : {"ask", "try", "bound", "failed"},
     port : Nat, i : Nat, rp : Seq(Families),
     bound : SUBSET (Families \X Nat), open : Nat, lists : Nat,
     refused : SUBSET (Families \X Nat)]

\* Where the search is: the ports before the current one are refused for every
\* address, and the current one for those that are no longer in rp.  It has left
\* one list for each port, and none for the current one unless it tries it.
Progress(hints) ==
    /\ search \in SearchTypes
    /\ \A p \in LocalPort .. search.port - 1 : hints \X {p} \subseteq search.refused
    /\ search.port = LocalPort + search.i
       \/ (search.step = "failed" /\ search.i = TryPorts /\ search.port = LocalPort + TryPorts + 1)
    /\ search.i <= TryPorts
    /\ search.step = "try" =>
          (hints \ ToSet(search.rp)) \X {search.port} \subseteq search.refused
    /\ IF search.step = "bound"
       THEN search.open = 1 /\ \E a \in Families : search.bound = {<<a, search.port>>}
       ELSE search.open = 0 /\ search.bound = {}
    /\ search.lists = IF search.step = "try" THEN search.i + 1 ELSE search.i

SearchInv ==
    /\ search.step # "over" => Progress(Hints)
    /\ fd # "none" => search.step = "over"

\* The local variables of the search, one by one.
SearchAt(step, port, i, rp, bound, open, lists, refused) ==
    [remote |-> search.remote, step |-> step, port |-> port, i |-> i, rp |-> rp,
     bound |-> bound, open |-> open, lists |-> lists, refused |-> refused]

LEMMA SearchAtTyped ==
    ASSUME search \in SearchTypes,
           NEW step \in {"ask", "try", "bound", "failed"}, NEW port \in Nat, NEW i \in Nat,
           NEW rp \in Seq(Families), NEW bound \in SUBSET (Families \X Nat),
           NEW open \in Nat, NEW lists \in Nat, NEW refused \in SUBSET (Families \X Nat)
    PROVE  SearchAt(step, port, i, rp, bound, open, lists, refused) \in SearchTypes
BY DEF SearchAt, SearchTypes

LEMMA SearchFields ==
    ASSUME search \in SearchTypes
    PROVE  /\ search.port \in Nat /\ search.i \in Nat /\ search.rp \in Seq(Families)
           /\ search.bound \in SUBSET (Families \X Nat) /\ search.open \in Nat
           /\ search.lists \in Nat /\ search.refused \in SUBSET (Families \X Nat)
           /\ search.remote \in Families
BY DEF SearchTypes

LEMMA HintsAreFamilies ==
    ASSUME search \in SearchTypes
    PROVE  Hints \subseteq Families /\ IsFiniteSet(Hints)
<1>1. IsFiniteSet(Families)
  <2>1. IsFiniteSet({"IPv4"}) /\ IsFiniteSet({"IPv6"})
    BY FS_Singleton
  <2>2. IsFiniteSet({"IPv4"} \cup {"IPv6"})
    BY <2>1, FS_Union
  <2>3. Families = {"IPv4"} \cup {"IPv6"}
    BY DEF Families
  <2> QED BY <2>2, <2>3
<1>2. search.remote \in Families
  BY DEF SearchTypes
<1>3. Hints \subseteq Families
  BY <1>2 DEF Hints, ClientHints, ServerHints, Families
<1> QED BY <1>1, <1>3, FS_Subset

\* The hints stay as they are while the search goes on.
LEMMA HintsStay ==
    ASSUME Start, search \in SearchTypes, search' \in SearchTypes,
           search'.remote = search.remote
    PROVE  Hints' = Hints
<1>1. gated' = gated
  BY DEF Start, allVars, appVars, programVars
<1>2. byName' = byName
  <2>1. GetAddrInfo(Hints) => byName' = byName
    BY Zenon DEF GetAddrInfo
  <2>2. TryAddress \/ NextPort \/ Return(Room) => byName' = byName
    BY Zenon DEF TryAddress, NextPort, Return
  <2> QED BY <2>1, <2>2 DEF Start, BindRaw
<1> QED BY <1>1, <1>2 DEF Hints, ClientHints, ServerHints

LEMMA GetAddrInfoKeepsProgress ==
    ASSUME SearchInv, Start, GetAddrInfo(Hints)
    PROVE  SearchInv'
<1>1. search.step = "ask" /\ Progress(Hints) /\ search \in SearchTypes
  <2>1. search.step = "ask"
    BY Zenon DEF GetAddrInfo
  <2>2. Progress(Hints)
    BY <2>1 DEF SearchInv
  <2> QED BY <2>1, <2>2 DEF Progress
<1>2. fd' = fd /\ fd = "none"
  <2>1. fd' = fd
    BY Zenon DEF GetAddrInfo
  <2> QED BY <1>1, <2>1 DEF SearchInv
<1>3. CASE search' = [search EXCEPT !.step = "failed"]
  <2>1. /\ search' \in SearchTypes /\ search'.remote = search.remote /\ search'.step = "failed"
        /\ search'.port = search.port /\ search'.i = search.i /\ search'.bound = search.bound
        /\ search'.open = search.open /\ search'.lists = search.lists
        /\ search'.refused = search.refused
    BY <1>1, <1>3 DEF SearchTypes
  <2>2. Hints' = Hints
    BY <1>1, <2>1, HintsStay
  <2> QED BY <1>1, <1>2, <2>1, <2>2 DEF SearchInv, Progress
<1>4. ASSUME NEW res \in SetToSeqs(Hints),
             search' = [search EXCEPT !.step = "try", !.rp = res, !.lists = @ + 1]
      PROVE  SearchInv'
  <2>1. res \in Seq(Families) /\ ToSet(res) = Hints
    BY <1>1, HintsAreFamilies, ListsOfSet
  <2>2. /\ search' \in SearchTypes /\ search'.remote = search.remote /\ search'.step = "try"
        /\ search'.port = search.port /\ search'.i = search.i /\ search'.bound = search.bound
        /\ search'.open = search.open /\ search'.lists = search.lists + 1
        /\ search'.refused = search.refused /\ search'.rp = res
    <3>1. search' = SearchAt("try", search.port, search.i, res, search.bound, search.open,
                             search.lists + 1, search.refused)
      BY <1>1, <1>4 DEF SearchTypes, SearchAt
    <3>2. search' \in SearchTypes
      BY <1>1, <2>1, <3>1, SearchFields, SearchAtTyped
    <3> QED BY <3>1, <3>2 DEF SearchAt
  <2>3. Hints' = Hints
    BY <1>1, <2>2, HintsStay
  <2>4. (Hints \ ToSet(res)) \X {search.port} = {}
    BY <2>1
  <2> QED BY <1>1, <1>2, <2>2, <2>3, <2>4 DEF SearchInv, Progress
<1>5. \/ search' = [search EXCEPT !.step = "failed"]
      \/ \E res \in SetToSeqs(Hints) :
            search' = [search EXCEPT !.step = "try", !.rp = res, !.lists = @ + 1]
  BY Zenon DEF GetAddrInfo
<1> QED BY <1>3, <1>4, <1>5, Zenon

\* What is refused stays refused; the rest of rp is still to be tried.
LEMMA TryAddressKeepsProgress ==
    ASSUME SearchInv, Start, TryAddress
    PROVE  SearchInv'
<1>1. search.step = "try" /\ search.rp # <<>> /\ Progress(Hints) /\ search \in SearchTypes
  <2>1. search.step # "over" /\ search.step = "try" /\ search.rp # <<>>
    BY DEF TryAddress
  <2>2. Progress(Hints)
    BY <2>1 DEF SearchInv
  <2> QED BY <2>1, <2>2 DEF Progress
<1>2. fd' = fd /\ fd = "none"
  <2>1. search.step # "over" /\ UNCHANGED fd
    BY <1>1 DEF TryAddress
  <2> QED BY <2>1 DEF SearchInv
<1>3. /\ search.rp \in Seq(Families) /\ Head(search.rp) \in Families
      /\ Tail(search.rp) \in Seq(Families)
      /\ \A a \in ToSet(search.rp) : a = Head(search.rp) \/ a \in ToSet(Tail(search.rp))
  <2>1. search.rp \in Seq(Families)
    BY <1>1 DEF SearchTypes
  <2>2. ToSet(search.rp) \subseteq ToSet(Tail(search.rp)) \cup {Head(search.rp)}
    BY <1>1, <2>1, HeadAndTail
  <2> QED BY <1>1, <2>1, <2>2, HeadTailProperties
<1>4. /\ search.port \in Nat /\ search.open = 0 /\ search.bound = {}
      /\ search.lists = search.i + 1 /\ search.i \in Nat
      /\ search.refused \in SUBSET (Families \X Nat)
  BY <1>1 DEF Progress, SearchTypes
<1>5. CASE Refuse
  <2>1. /\ search' \in SearchTypes /\ search'.remote = search.remote /\ search'.step = "try"
        /\ search'.port = search.port /\ search'.i = search.i /\ search'.bound = search.bound
        /\ search'.open = search.open /\ search'.lists = search.lists
        /\ search'.refused = search.refused \cup {<<Head(search.rp), search.port>>}
        /\ search'.rp = Tail(search.rp)
    <3> DEFINE refused == search.refused \cup {<<Head(search.rp), search.port>>}
    <3>1. search' = SearchAt("try", search.port, search.i, Tail(search.rp), search.bound,
                             search.open, search.lists, refused)
      BY <1>1, <1>5 DEF SearchTypes, SearchAt, Refuse
    <3>2. refused \in SUBSET (Families \X Nat)
      BY <1>3, <1>4
    <3> HIDE DEF refused
    <3>3. search' \in SearchTypes
      BY <1>1, <1>3, <3>1, <3>2, SearchFields, SearchAtTyped
    <3> QED BY <3>1, <3>3 DEF SearchAt, refused
  <2>2. Hints' = Hints
    BY <1>1, <2>1, HintsStay
  <2>3. (Hints \ ToSet(search'.rp)) \X {search.port} \subseteq search'.refused
    <3>1. (Hints \ ToSet(search.rp)) \X {search.port} \subseteq search.refused
      BY <1>1 DEF Progress
    <3> QED BY <1>3, <2>1, <3>1
  <2>4. \A p \in LocalPort .. search.port - 1 : Hints \X {p} \subseteq search'.refused
    BY <1>1, <2>1 DEF Progress
  <2> QED BY <1>1, <1>2, <2>1, <2>2, <2>3, <2>4 DEF SearchInv, Progress
<1>6. CASE Bind
  <2>1. /\ search' \in SearchTypes /\ search'.remote = search.remote /\ search'.step = "bound"
        /\ search'.port = search.port /\ search'.i = search.i
        /\ search'.bound = {<<Head(search.rp), search.port>>}
        /\ search'.open = 1 /\ search'.lists = search.i
        /\ search'.refused = search.refused
    <3> DEFINE bound == {<<Head(search.rp), search.port>>}
    <3>1. search' = SearchAt("bound", search.port, search.i, search.rp, bound,
                             search.open + 1, search.lists - 1, search.refused)
      BY <1>1, <1>6 DEF SearchTypes, SearchAt, Bind
    <3>2. bound \in SUBSET (Families \X Nat)
      BY <1>3, <1>4
    <3>3. search.open + 1 = 1 /\ search.lists - 1 = search.i
      BY <1>4
    <3> HIDE DEF bound
    <3>4. search' \in SearchTypes
      BY <1>1, <1>4, <3>1, <3>2, <3>3, SearchFields, SearchAtTyped
    <3> QED BY <3>1, <3>3, <3>4 DEF SearchAt, bound
  <2>2. Hints' = Hints
    BY <1>1, <2>1, HintsStay
  <2> QED BY <1>1, <1>2, <1>3, <2>1, <2>2 DEF SearchInv, Progress
<1> QED BY <1>5, <1>6 DEF TryAddress

LEMMA NextPortKeepsProgress ==
    ASSUME SearchInv, Start, NextPort
    PROVE  SearchInv'
<1>1. search.step = "try" /\ search.rp = <<>> /\ Progress(Hints) /\ search \in SearchTypes
  <2>1. search.step # "over" /\ search.step = "try" /\ search.rp = <<>>
    BY DEF NextPort
  <2>2. Progress(Hints)
    BY <2>1 DEF SearchInv
  <2> QED BY <2>1, <2>2 DEF Progress
<1>2. fd' = fd /\ fd = "none"
  <2>1. search.step # "over" /\ UNCHANGED fd
    BY <1>1 DEF NextPort
  <2> QED BY <2>1 DEF SearchInv
<1>3. /\ search.port \in Nat /\ search.open = 0 /\ search.bound = {}
      /\ search.lists = search.i + 1 /\ search.i \in Nat /\ search.i <= TryPorts
      /\ search.port = LocalPort + search.i
      /\ LocalPort \in Nat /\ TryPorts \in Nat
  BY <1>1, BindAssumption DEF Progress, SearchTypes
<1>4. \A p \in LocalPort .. search.port + 1 - 1 : Hints \X {p} \subseteq search.refused
  <2>1. ToSet(search.rp) = {}
    BY <1>1 DEF ToSet
  <2>2. Hints \X {search.port} \subseteq search.refused
    BY <1>1, <2>1 DEF Progress
  <2>3. \A p \in LocalPort .. search.port - 1 : Hints \X {p} \subseteq search.refused
    BY <1>1 DEF Progress
  <2>4. \A p \in LocalPort .. search.port + 1 - 1 :
            p \in LocalPort .. search.port - 1 \/ p = search.port
    BY <1>3
  <2> QED BY <2>2, <2>3, <2>4
<1>5. CASE search.i < TryPorts
  <2>1. search' = [search EXCEPT !.port = @ + 1, !.i = @ + 1, !.step = "ask"]
    BY <1>5 DEF NextPort
  <2>2. /\ search' \in SearchTypes /\ search'.remote = search.remote /\ search'.step = "ask"
        /\ search'.port = search.port + 1 /\ search'.i = search.i + 1
        /\ search'.bound = {} /\ search'.open = 0 /\ search'.lists = search.i + 1
        /\ search'.refused = search.refused
    <3>1. search' = SearchAt("ask", search.port + 1, search.i + 1, search.rp, search.bound,
                             search.open, search.lists, search.refused)
      BY <1>1, <2>1 DEF SearchTypes, SearchAt
    <3>2. search.port + 1 \in Nat /\ search.i + 1 \in Nat /\ search.lists - 1 \in Nat
      BY <1>3
    <3>3. search' \in SearchTypes
      BY <1>1, <3>1, <3>2, SearchFields, SearchAtTyped
    <3>4. search.lists - 1 = search.i
      BY <1>3
    <3> QED BY <1>3, <3>1, <3>3, <3>4 DEF SearchAt
  <2>3. Hints' = Hints
    BY <1>1, <2>2, HintsStay
  <2>4. search'.port = LocalPort + search'.i /\ search'.i <= TryPorts
    BY <1>3, <1>5, <2>2
  <2>5. \A p \in LocalPort .. search'.port - 1 : Hints' \X {p} \subseteq search'.refused
    <3> SUFFICES ASSUME NEW p \in LocalPort .. search'.port - 1
                 PROVE  Hints' \X {p} \subseteq search'.refused
      OBVIOUS
    <3>1. p \in LocalPort .. search.port + 1 - 1
      BY <1>3, <2>2
    <3>2. Hints \X {p} \subseteq search.refused
      BY <1>4, <3>1
    <3> QED BY <2>2, <2>3, <3>2
  <2>6. search'.lists = search'.i
    BY <2>2
  <2> QED BY <1>2, <2>2, <2>4, <2>5, <2>6 DEF SearchInv, Progress
<1>6. CASE ~(search.i < TryPorts)
  <2>1. search' = [search EXCEPT !.port = @ + 1, !.step = "failed", !.lists = @ - 1]
    BY <1>6 DEF NextPort
  <2>2. /\ search' \in SearchTypes /\ search'.remote = search.remote /\ search'.step = "failed"
        /\ search'.port = search.port + 1 /\ search'.i = search.i
        /\ search'.bound = {} /\ search'.open = 0 /\ search'.lists = search.i
        /\ search'.refused = search.refused
    <3>1. search' = SearchAt("failed", search.port + 1, search.i, search.rp, search.bound,
                             search.open, search.lists - 1, search.refused)
      BY <1>1, <2>1 DEF SearchTypes, SearchAt
    <3>2. search.port + 1 \in Nat /\ search.i + 1 \in Nat /\ search.lists - 1 \in Nat
      BY <1>3
    <3>3. search' \in SearchTypes
      BY <1>1, <3>1, <3>2, SearchFields, SearchAtTyped
    <3>4. search.lists - 1 = search.i
      BY <1>3
    <3> QED BY <1>3, <3>1, <3>3, <3>4 DEF SearchAt
  <2>3. Hints' = Hints
    BY <1>1, <2>2, HintsStay
  <2>4. search.i = TryPorts /\ search.port + 1 = LocalPort + TryPorts + 1
    BY <1>3, <1>6
  <2> QED BY <1>2, <1>3, <1>4, <2>2, <2>3, <2>4 DEF SearchInv, Progress
<1> QED BY <1>5, <1>6

LEMMA SearchStep ==
    ASSUME SearchInv, [StartNext]_<<allVars, bindVars>>
    PROVE  SearchInv'
<1>1. CASE Start
  <2>1. CASE GetAddrInfo(Hints)
    BY <1>1, <2>1, GetAddrInfoKeepsProgress
  <2>2. CASE TryAddress
    BY <1>1, <2>2, TryAddressKeepsProgress
  <2>3. CASE NextPort
    BY <1>1, <2>3, NextPortKeepsProgress
  <2>4. CASE Return(Room)
    BY <2>4 DEF Return, NoSearch, SearchInv
  <2> QED BY <1>1, <2>1, <2>2, <2>3, <2>4 DEF Start, BindRaw
<1>2. CASE Running
  BY <1>2 DEF Running, bindVars, SearchInv, Families
<1>3. CASE UNCHANGED <<allVars, bindVars>>
  BY <1>3 DEF allVars, appVars, programVars, bindVars, SearchInv, Progress, Hints, ClientHints,
              ServerHints
<1> QED BY <1>1, <1>2, <1>3 DEF StartNext

LEMMA SearchStarts ==
    ASSUME StartInit
    PROVE  SearchInv
<1>1. PICK remote \in Families : search = Search(remote)
  BY DEF StartInit, BindInit, MakeAddr
<1>2. <<>> \in Seq(Families)
  BY EmptySeq
<1>3. LocalPort \in Nat /\ TryPorts \in Nat
  BY BindAssumption
<1>4. search \in SearchTypes
  BY <1>1, <1>2, <1>3 DEF Search, SearchTypes
<1>5. /\ search.step = "ask" /\ search.port = LocalPort /\ search.i = 0
      /\ search.open = 0 /\ search.bound = {} /\ search.lists = 0
  BY <1>1 DEF Search
<1>6. LocalPort .. LocalPort - 1 = {} /\ LocalPort = LocalPort + 0 /\ 0 <= TryPorts
  BY <1>3
<1> QED BY <1>4, <1>5, <1>6 DEF StartInit, BindInit, SearchInv, Progress

\* The search passes over a port only when each of its addresses was refused,
\* and leaves no socket open: for any first port and any number of tries
\* (trudpUdpBindRaw, trudpUdpBindRaw_cli).
THEOREM SearchIsAlwaysThorough == StartSpec => []SearchIsThorough
<1>1. SearchInv => SearchIsThorough
  <2> SUFFICES ASSUME SearchInv, search.step # "over", Progress(Hints)
               PROVE  SearchIsThorough
    BY DEF SearchInv, SearchIsThorough, SearchIsThoroughFor
  <2>1. \A a \in search.bound : a[2] = search.port
    BY DEF Progress
  <2>2. search.open = Cardinality(search.bound)
    BY FS_EmptySet, FS_Singleton DEF Progress
  <2>3. search.port > LocalPort + search.i => search.step = "failed" /\ search.i = TryPorts
    <3>1. search.i \in Nat /\ LocalPort \in Nat
      BY BindAssumption DEF Progress, SearchTypes
    <3> QED BY <3>1 DEF Progress
  <2> QED BY <2>1, <2>2, <2>3 DEF SearchIsThorough, SearchIsThoroughFor, Progress
<1> QED BY <1>1, SearchStarts, SearchStep, PTL DEF StartSpec
=============================================================================
