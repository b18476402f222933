---------------------------- MODULE TrudpFacts -----------------------------
(***************************************************************************)
(* Facts that the proofs of several modules rest on: what the id operators *)
(* return, for every PacketIdLimit, what lists hold, and what the sums over *)
(* the channels of a map are.                                              *)
(***************************************************************************)
EXTENDS TrudpSeqId, SequencesExt, SequenceTheorems, FiniteSetTheorems, WellFoundedInduction, TLAPS

\* Reduction modulo m leaves a number below m alone and takes m off a number
\* between m and 2m (modAddU, modSubU on 32-bit ids).
LEMMA ModSmall ==
    ASSUME NEW m \in Nat, m > 0, NEW a \in Nat, a < m
    PROVE  a % m = a
OBVIOUS

LEMMA ModOnce ==
    ASSUME NEW m \in Nat, m > 0, NEW a \in Nat, m <= a, a < 2 * m
    PROVE  a % m = a - m
OBVIOUS

\* _trudpGetNextSeqId in closed form: one more, and 1 after the last id.
LEMMA NextClosed ==
    ASSUME NEW id \in PacketIds
    PROVE  GetNextSeqId(id) = IF id = PacketIdLimit - 1 THEN 1 ELSE id + 1
<1> USE PacketIdLimitAssumption DEF PacketIds
<1>1. id % PacketIdLimit = id /\ 1 % PacketIdLimit = 1
  BY ModSmall
<1>2. CASE id = PacketIdLimit - 1
  <2>1. (id + 1) % PacketIdLimit = 0
    BY <1>2, ModOnce
  <2>2. ModAddU(id, 1, PacketIdLimit) = 0
    BY <1>1, <2>1 DEF ModAddU
  <2>3. 0 % PacketIdLimit = 0
    BY ModSmall
  <2>4. ModAddU(0, 1, PacketIdLimit) = 1
    BY <1>1, <2>3 DEF ModAddU
  <2> QED BY <1>2, <2>2, <2>4 DEF GetNextSeqId
<1>3. CASE id # PacketIdLimit - 1
  <2>1. (id + 1) % PacketIdLimit = id + 1
    BY <1>3, ModSmall
  <2>2. ModAddU(id, 1, PacketIdLimit) = id + 1
    BY <1>1, <2>1 DEF ModAddU
  <2> QED BY <1>3, <2>2 DEF GetNextSeqId
<1> QED BY <1>2, <1>3

\* The next id is an id and never the session-opening 0.
LEMMA NextIsId ==
    ASSUME NEW id \in PacketIds
    PROVE  GetNextSeqId(id) \in PacketIds \ {0}
BY NextClosed, PacketIdLimitAssumption DEF PacketIds

\* Less than one cycle on, the closed form needs no reduction.
LEMMA IdAfterOneCycle ==
    ASSUME NEW id \in PacketIds, NEW i \in 0 .. PacketIdLimit - 2
    PROVE  IdAfter(id, i) = IF id + i < PacketIdLimit THEN id + i
                            ELSE id + i - PacketIdLimit + 1
<1>1. id + i >= PacketIdLimit =>
        (id + i - PacketIdLimit) % (PacketIdLimit - 1) = id + i - PacketIdLimit
  BY ModSmall, PacketIdLimitAssumption DEF PacketIds
<1>2. CASE id + i < PacketIdLimit
  BY <1>2 DEF IdAfter
<1>3. CASE id + i >= PacketIdLimit
  <2>1. IdAfter(id, i) = 1 + ((id + i - PacketIdLimit) % (PacketIdLimit - 1))
    BY <1>3, PacketIdLimitAssumption DEF IdAfter, PacketIds
  <2>2. IdAfter(id, i) = 1 + (id + i - PacketIdLimit)
    BY <1>1, <1>3, <2>1
  <2> QED BY <1>3, <2>2, PacketIdLimitAssumption DEF PacketIds
<1> QED BY <1>2, <1>3, PacketIdLimitAssumption DEF PacketIds

\* The closed form is an id, 0 only at the start of a walk from 0.
LEMMA IdAfterIsId ==
    ASSUME NEW id \in PacketIds, NEW i \in Nat
    PROVE  /\ IdAfter(id, i) \in PacketIds
           /\ IdAfter(id, i) = 0 => id = 0 /\ i = 0
<1>1. id + i >= PacketIdLimit =>
        (id + i - PacketIdLimit) % (PacketIdLimit - 1) \in 0 .. PacketIdLimit - 2
  BY PacketIdLimitAssumption DEF PacketIds
<1> QED BY <1>1, PacketIdLimitAssumption DEF PacketIds, IdAfter

\* One increment more is one step more in the closed form.
LEMMA IdAfterStep ==
    ASSUME NEW id \in PacketIds, NEW i \in 0 .. PacketIdLimit - 3
    PROVE  GetNextSeqId(IdAfter(id, i)) = IdAfter(id, i + 1)
<1>1. IdAfter(id, i) \in PacketIds
  BY IdAfterIsId, PacketIdLimitAssumption
<1>2. i \in 0 .. PacketIdLimit - 2 /\ i + 1 \in 0 .. PacketIdLimit - 2
  BY PacketIdLimitAssumption
<1> QED BY <1>1, <1>2, NextClosed, IdAfterOneCycle, PacketIdLimitAssumption DEF PacketIds

\* Walking on from an id already reached.
LEMMA IdAfterSum ==
    ASSUME NEW id \in PacketIds, NEW i \in Nat, NEW j \in Nat,
           i + j <= PacketIdLimit - 2
    PROVE  IdAfter(IdAfter(id, i), j) = IdAfter(id, i + j)
<1>1. IdAfter(id, i) \in PacketIds
  BY IdAfterIsId
<1>2. /\ i \in 0 .. PacketIdLimit - 2 /\ j \in 0 .. PacketIdLimit - 2
      /\ i + j \in 0 .. PacketIdLimit - 2
  BY PacketIdLimitAssumption
<1> QED BY <1>1, <1>2, IdAfterOneCycle, PacketIdLimitAssumption DEF PacketIds

\* Two different places of a walk have different ids.
LEMMA IdAfterInjective ==
    ASSUME NEW id \in PacketIds,
           NEW i \in 0 .. PacketIdLimit - 2, NEW j \in 0 .. PacketIdLimit - 2,
           IdAfter(id, i) = IdAfter(id, j)
    PROVE  i = j
BY IdAfterOneCycle, PacketIdLimitAssumption DEF PacketIds

\* _trudpGetSeqIdDistance of two places of a walk that are less than about
\* half a cycle apart has the sign of their order.
LEMMA DistanceSign ==
    ASSUME NEW id \in PacketIds, NEW i \in Nat, NEW j \in Nat,
           i <= (PacketIdLimit \div 2) - 2, j <= (PacketIdLimit \div 2) - 2
    PROVE  GetSeqIdDistance(IdAfter(id, i), IdAfter(id, j)) > 0 <=> i < j
<1> DEFINE a == IdAfter(id, i)
           b == IdAfter(id, j)
           half == PacketIdLimit \div 2
<1>0. half \in Nat /\ 2 * half <= PacketIdLimit /\ PacketIdLimit <= 2 * half + 1
  BY PacketIdLimitAssumption
<1>1. a \in PacketIds /\ b \in PacketIds
  BY <1>0, IdAfterIsId, PacketIdLimitAssumption
<1>2. ModSubU(b, a, PacketIdLimit) =
        IF a <= b THEN b - a ELSE b - a + PacketIdLimit
  <2>1. a % PacketIdLimit = a /\ b % PacketIdLimit = b
    BY <1>1, ModSmall, PacketIdLimitAssumption DEF PacketIds
  <2>2. CASE a <= b
    <3>1. (b + PacketIdLimit - a) % PacketIdLimit = b - a
      BY <1>1, <2>2, ModOnce, PacketIdLimitAssumption DEF PacketIds
    <3> QED BY <2>1, <2>2, <3>1 DEF ModSubU
  <2>3. CASE ~(a <= b)
    <3>1. (b + PacketIdLimit - a) % PacketIdLimit = b + PacketIdLimit - a
      BY <1>1, <2>3, ModSmall, PacketIdLimitAssumption DEF PacketIds
    <3> QED BY <1>1, <2>1, <2>3, <3>1, PacketIdLimitAssumption DEF ModSubU, PacketIds
  <2> QED BY <2>2, <2>3
<1>3. GetSeqIdDistance(a, b) =
        LET diff == IF a <= b THEN b - a ELSE b - a + PacketIdLimit
        IN  IF diff < half THEN diff ELSE diff - PacketIdLimit
  BY <1>2 DEF GetSeqIdDistance
<1>4. /\ a = IF id + i < PacketIdLimit THEN id + i ELSE id + i - PacketIdLimit + 1
      /\ b = IF id + j < PacketIdLimit THEN id + j ELSE id + j - PacketIdLimit + 1
  <2>1. i \in 0 .. PacketIdLimit - 2 /\ j \in 0 .. PacketIdLimit - 2
    BY <1>0, PacketIdLimitAssumption
  <2> QED BY <2>1, IdAfterOneCycle
<1> HIDE DEF a, b, half
<1>5. GetSeqIdDistance(a, b) > 0 <=> i < j
  BY <1>0, <1>1, <1>3, <1>4, PacketIdLimitAssumption, i <= half - 2, j <= half - 2 DEF PacketIds, half
<1> QED BY <1>5 DEF a, b

-----------------------------------------------------------------------------
\* What sequences hold after they are joined, cut, extended or shortened,
\* and that one without repetitions stays so.

\* The elements of a concatenation, of a part and of the rest of a sequence.
LEMMA ToSetConcat ==
    ASSUME NEW P, NEW s \in Seq(P), NEW t \in Seq(P)
    PROVE  ToSet(s \o t) = ToSet(s) \cup ToSet(t)
<1>1. \A q : ToSet(q) = Range(q)
  BY DEF ToSet, Range
<1> QED BY <1>1, RangeConcatenation

LEMMA ToSetSubSeq ==
    ASSUME NEW P, NEW s \in Seq(P), NEW i \in 1 .. Len(s) + 1, NEW j \in 0 .. Len(s)
    PROVE  /\ SubSeq(s, i, j) \in Seq(P)
           /\ ToSet(SubSeq(s, i, j)) \subseteq ToSet(s)
<1>1. SubSeq(s, i, j) \in Seq(P)
  BY SubSeqProperties
<1>2. \A k \in DOMAIN SubSeq(s, i, j) :
         i + k - 1 \in DOMAIN s /\ SubSeq(s, i, j)[k] = s[i + k - 1]
  BY SubSeqProperties
<1> QED BY <1>1, <1>2 DEF ToSet

LEMMA RemoveAtElements ==
    ASSUME NEW P, NEW s \in Seq(P), NEW i \in DOMAIN s
    PROVE  /\ RemoveAt(s, i) \in Seq(P)
           /\ Len(RemoveAt(s, i)) = Len(s) - 1
           /\ ToSet(RemoveAt(s, i)) \subseteq ToSet(s)
           /\ ToSet(s) \subseteq ToSet(RemoveAt(s, i)) \cup {s[i]}
<1> DEFINE front == SubSeq(s, 1, i - 1)
           back == SubSeq(s, i + 1, Len(s))
<1>0. i \in 1 .. Len(s) /\ Len(s) \in Nat
  BY LenProperties
<1>1. /\ front \in Seq(P) /\ ToSet(front) \subseteq ToSet(s)
      /\ back \in Seq(P) /\ ToSet(back) \subseteq ToSet(s)
  BY <1>0, ToSetSubSeq
<1>2. /\ Len(front) = i - 1 /\ \A k \in 1 .. i - 1 : front[k] = s[k]
      /\ Len(back) = Len(s) - i
      /\ \A k \in 1 .. Len(s) - i : back[k] = s[i + k]
  BY <1>0, SubSeqProperties
<1>3. RemoveAt(s, i) = front \o back
  BY DEF RemoveAt
<1>4. ToSet(RemoveAt(s, i)) = ToSet(front) \cup ToSet(back)
  BY <1>1, <1>3, ToSetConcat, ZenonT(30)
<1>5. ToSet(s) \subseteq ToSet(front) \cup ToSet(back) \cup {s[i]}
  <2> SUFFICES ASSUME NEW k \in DOMAIN s
               PROVE  s[k] \in ToSet(front) \cup ToSet(back) \cup {s[i]}
    BY DEF ToSet
  <2>0. k \in 1 .. Len(s)
    BY LenProperties
  <2>1. CASE k < i
    <3>1. k \in DOMAIN front /\ front[k] = s[k]
      BY <1>0, <1>1, <1>2, <2>0, <2>1, LenProperties
    <3> QED BY <3>1 DEF ToSet
  <2>2. CASE k > i
    <3>1. k - i \in DOMAIN back /\ back[k - i] = s[k]
      BY <1>0, <1>1, <1>2, <2>0, <2>2, LenProperties, SMTT(30)
    <3> QED BY <3>1 DEF ToSet
  <2> QED BY <1>0, <2>0, <2>1, <2>2
<1>6. Len(front \o back) = Len(s) - 1 /\ front \o back \in Seq(P)
  BY <1>0, <1>1, <1>2, ConcatProperties, SMTT(30)
<1> QED BY <1>1, <1>3, <1>4, <1>5, <1>6

\* the places of a sequence after one is taken out
LEMMA RemoveAtPlaces ==
    ASSUME NEW P, NEW s \in Seq(P), NEW i \in DOMAIN s
    PROVE  /\ DOMAIN RemoveAt(s, i) = 1 .. Len(s) - 1
           /\ \A k \in 1 .. Len(s) - 1 :
                 RemoveAt(s, i)[k] = IF k < i THEN s[k] ELSE s[k + 1]
<1> DEFINE front == SubSeq(s, 1, i - 1)
           back == SubSeq(s, i + 1, Len(s))
<1>0. i \in 1 .. Len(s) /\ Len(s) \in Nat
  BY LenProperties
<1>1. /\ front \in Seq(P) /\ Len(front) = i - 1 /\ \A k \in 1 .. i - 1 : front[k] = s[k]
      /\ back \in Seq(P) /\ Len(back) = Len(s) - i
      /\ \A k \in 1 .. Len(s) - i : back[k] = s[i + k]
  BY <1>0, SubSeqProperties
<1>2. RemoveAt(s, i) = front \o back
  BY DEF RemoveAt
<1>l. Len(front) = i - 1 /\ Len(back) = Len(s) - i
  BY <1>1
<1> HIDE DEF front, back
<1>3. /\ front \o back \in Seq(P) /\ Len(front \o back) = Len(s) - 1
      /\ \A k \in 1 .. Len(front) + Len(back) :
            (front \o back)[k] = IF k <= Len(front) THEN front[k] ELSE back[k - Len(front)]
  <2>1. /\ front \o back \in Seq(P) /\ Len(front \o back) = Len(front) + Len(back)
        /\ \A k \in 1 .. Len(front) + Len(back) :
              (front \o back)[k] = IF k <= Len(front) THEN front[k] ELSE back[k - Len(front)]
    BY <1>1, ConcatProperties
  <2>2. Len(front) + Len(back) = Len(s) - 1
    BY <1>0, <1>l
  <2> QED BY <2>1, <2>2
<1>4. ASSUME NEW k \in 1 .. Len(s) - 1
      PROVE  (front \o back)[k] = IF k < i THEN s[k] ELSE s[k + 1]
  <2>1. CASE k < i
    <3>1. k \in 1 .. i - 1 /\ k <= Len(front) /\ k \in 1 .. Len(front) + Len(back)
      BY <1>0, <1>1, <2>1
    <3> QED BY <1>1, <1>3, <2>1, <3>1
  <2>2. CASE ~(k < i)
    <3>1. PICK j \in Int : j = k - Len(front)
      BY <1>0, <1>l
    <3>2. /\ j \in 1 .. Len(s) - i /\ i + j = k + 1 /\ ~(k <= Len(front))
          /\ k \in 1 .. Len(front) + Len(back)
      <4>1. ASSUME NEW L \in Nat, NEW x \in 1 .. L, NEW y \in 1 .. L - 1, ~(y < x),
                   NEW z \in Int, z = y - (x - 1)
            PROVE  /\ z \in 1 .. L - x /\ x + z = y + 1 /\ ~(y <= x - 1)
                   /\ y \in 1 .. (x - 1) + (L - x)
        BY <4>1
      <4> QED BY <1>0, <1>l, <2>2, <3>1, <4>1
    <3>3. (front \o back)[k] = back[j]
      BY <1>3, <3>1, <3>2
    <3>4. back[j] = s[i + j]
      BY <1>1, <3>2
    <3> QED BY <2>2, <3>2, <3>3, <3>4
  <2> QED BY <2>1, <2>2
<1> QED BY <1>2, <1>3, <1>4, LenProperties

LEMMA ConcatGives ==
    ASSUME NEW P, NEW s \in Seq(P), NEW t \in Seq(P)
    PROVE  /\ s \o t \in Seq(P) /\ Len(s \o t) = Len(s) + Len(t)
           /\ ToSet(s \o t) = ToSet(s) \cup ToSet(t)
<1>1. ToSet(s \o t) = ToSet(s) \cup ToSet(t)
  BY ToSetConcat
<1> QED BY <1>1, ConcatProperties

\* Elements of a sequence after an append, its head and its tail.
LEMMA AppendElements ==
    ASSUME NEW S, NEW s \in Seq(S), NEW e \in S
    PROVE  ToSet(Append(s, e)) = ToSet(s) \cup {e}
<1>1. /\ Append(s, e) \in Seq(S) /\ Len(Append(s, e)) = Len(s) + 1
      /\ \A i \in 1 .. Len(s) : Append(s, e)[i] = s[i]
      /\ Append(s, e)[Len(s) + 1] = e
  BY AppendProperties
<1>2. Len(s) \in Nat /\ DOMAIN s = 1 .. Len(s) /\ DOMAIN Append(s, e) = 1 .. Len(s) + 1
  BY <1>1, LenProperties
<1>3. \A i \in 1 .. Len(s) + 1 : i \in 1 .. Len(s) \/ i = Len(s) + 1
  BY <1>2
<1>4. /\ \A i \in 1 .. Len(s) : i \in 1 .. Len(s) + 1
      /\ Len(s) + 1 \in 1 .. Len(s) + 1
  BY <1>2
<1> HIDE DEF ToSet
<1>5. ToSet(Append(s, e)) = {Append(s, e)[i] : i \in 1 .. Len(s) + 1}
      /\ ToSet(s) = {s[i] : i \in 1 .. Len(s)}
  BY <1>2 DEF ToSet
<1> QED BY <1>1, <1>3, <1>4, <1>5

LEMMA HeadElement ==
    ASSUME NEW S, NEW s \in Seq(S), s # <<>>
    PROVE  Head(s) \in ToSet(s)
BY DEF ToSet

LEMMA TailElements ==
    ASSUME NEW S, NEW s \in Seq(S), s # <<>>
    PROVE  ToSet(Tail(s)) \subseteq ToSet(s)
BY DEF ToSet

LEMMA HeadAndTail ==
    ASSUME NEW P, NEW s \in Seq(P), s # <<>>
    PROVE  ToSet(s) \subseteq ToSet(Tail(s)) \cup {Head(s)}
<1>1. /\ Tail(s) \in Seq(P) /\ Head(s) = s[1] /\ DOMAIN s = 1 .. Len(s)
      /\ DOMAIN Tail(s) = 1 .. Len(s) - 1 /\ Len(s) \in Nat
      /\ \A i \in 1 .. Len(s) - 1 : Tail(s)[i] = s[i + 1]
  BY HeadTailProperties, LenProperties
<1>2. ASSUME NEW i \in 1 .. Len(s) PROVE s[i] \in ToSet(Tail(s)) \cup {Head(s)}
  <2>1. CASE i = 1
    BY <1>1, <2>1
  <2>2. CASE i # 1
    <3>1. i - 1 \in 1 .. Len(s) - 1 /\ (i - 1) + 1 = i
      BY <1>1, <2>2
    <3> QED BY <1>1, <3>1, ZenonT(30) DEF ToSet
  <2> QED BY <2>1, <2>2
<1> QED BY <1>1, <1>2 DEF ToSet

LEMMA InjectiveAppend ==
    ASSUME NEW P, NEW s \in Seq(P), NEW e \in P, IsInjective(s), e \notin ToSet(s)
    PROVE  IsInjective(Append(s, e))
<1>1. /\ DOMAIN Append(s, e) = 1 .. Len(s) + 1 /\ DOMAIN s = 1 .. Len(s) /\ Len(s) \in Nat
      /\ \A i \in 1 .. Len(s) : Append(s, e)[i] = s[i]
      /\ Append(s, e)[Len(s) + 1] = e
  BY AppendProperties, LenProperties
<1>2. \A i \in 1 .. Len(s) : s[i] # e
  BY <1>1 DEF ToSet
<1>3. \A i \in 1 .. Len(s) + 1 : i \in 1 .. Len(s) \/ i = Len(s) + 1
  BY <1>1
<1> QED BY <1>1, <1>2, <1>3 DEF IsInjective

LEMMA InjectiveTail ==
    ASSUME NEW P, NEW s \in Seq(P), s # <<>>, IsInjective(s)
    PROVE  IsInjective(Tail(s)) /\ Head(s) \notin ToSet(Tail(s))
<1>1. /\ Tail(s) \in Seq(P) /\ Len(Tail(s)) = Len(s) - 1 /\ Head(s) = s[1]
      /\ \A i \in 1 .. Len(s) - 1 : Tail(s)[i] = s[i + 1]
      /\ Len(s) \in Nat /\ Len(s) # 0 /\ DOMAIN s = 1 .. Len(s)
      /\ DOMAIN Tail(s) = 1 .. Len(s) - 1
  BY HeadTailProperties, LenProperties, EmptySeq
<1>2. \A i \in 1 .. Len(s) - 1 : i + 1 \in 1 .. Len(s) /\ i + 1 # 1
  BY <1>1
<1>3. IsInjective(Tail(s))
  BY <1>1, <1>2 DEF IsInjective
<1>4. 1 \in DOMAIN s
  BY <1>1
<1>5. \A i \in DOMAIN Tail(s) : Tail(s)[i] # Head(s)
  BY <1>1, <1>2, <1>4 DEF IsInjective
<1> QED BY <1>3, <1>5 DEF ToSet

LEMMA InjectiveRemoveAt ==
    ASSUME NEW P, NEW s \in Seq(P), NEW i \in DOMAIN s, IsInjective(s)
    PROVE  IsInjective(RemoveAt(s, i)) /\ s[i] \notin ToSet(RemoveAt(s, i))
<1>1. /\ DOMAIN RemoveAt(s, i) = 1 .. Len(s) - 1
      /\ \A k \in 1 .. Len(s) - 1 :
            RemoveAt(s, i)[k] = IF k < i THEN s[k] ELSE s[k + 1]
      /\ Len(s) \in Nat /\ DOMAIN s = 1 .. Len(s)
  BY RemoveAtPlaces, LenProperties
<1> DEFINE from(k) == IF k < i THEN k ELSE k + 1
<1>2. ASSUME NEW k \in 1 .. Len(s) - 1
      PROVE  from(k) \in DOMAIN s /\ from(k) # i /\ RemoveAt(s, i)[k] = s[from(k)]
  BY <1>1
<1>3. ASSUME NEW j \in 1 .. Len(s) - 1, NEW k \in 1 .. Len(s) - 1, from(j) = from(k)
      PROVE  j = k
  BY <1>1, <1>3
<1> HIDE DEF from
<1>4. IsInjective(RemoveAt(s, i))
  BY <1>1, <1>2, <1>3 DEF IsInjective
<1>5. \A k \in DOMAIN RemoveAt(s, i) : RemoveAt(s, i)[k] # s[i]
  BY <1>1, <1>2 DEF IsInjective
<1> QED BY <1>4, <1>5 DEF ToSet

LEMMA InjectiveConcat ==
    ASSUME NEW P, NEW s \in Seq(P), NEW t \in Seq(P), IsInjective(s), IsInjective(t),
           ToSet(s) \cap ToSet(t) = {}
    PROVE  IsInjective(s \o t)
<1>1. /\ DOMAIN s = 1 .. Len(s) /\ DOMAIN t = 1 .. Len(t) /\ Len(s) \in Nat /\ Len(t) \in Nat
      /\ DOMAIN (s \o t) = 1 .. Len(s) + Len(t)
      /\ \A i \in 1 .. Len(s) + Len(t) :
            (s \o t)[i] = IF i <= Len(s) THEN s[i] ELSE t[i - Len(s)]
  BY ConcatProperties, LenProperties
<1>2. \A i \in 1 .. Len(s) : \A j \in 1 .. Len(t) : s[i] # t[j]
  BY <1>1 DEF ToSet
<1>3. /\ \A i, j \in 1 .. Len(s) : s[i] = s[j] => i = j
      /\ \A i, j \in 1 .. Len(t) : t[i] = t[j] => i = j
  BY <1>1 DEF IsInjective
<1>4. ASSUME NEW i \in 1 .. Len(s) + Len(t), NEW j \in 1 .. Len(s) + Len(t),
             (s \o t)[i] = (s \o t)[j]
      PROVE  i = j
  <2>1. \A k \in 1 .. Len(s) + Len(t) :
           IF k <= Len(s) THEN k \in 1 .. Len(s) ELSE k - Len(s) \in 1 .. Len(t)
    <3>1. \A L, M \in Nat : \A k \in 1 .. L + M :
             IF k <= L THEN k \in 1 .. L ELSE k - L \in 1 .. M
      OBVIOUS
    <3> QED BY <1>1, <3>1
  <2>2. CASE i <= Len(s)
    BY <1>1, <1>2, <1>3, <1>4, <2>1, <2>2
  <2>3. CASE ~(i <= Len(s))
    BY <1>1, <1>2, <1>3, <1>4, <2>1, <2>3
  <2> QED BY <2>2, <2>3
<1> QED BY <1>1, <1>4 DEF IsInjective

-----------------------------------------------------------------------------
(***************************************************************************)
(* Sums over a finite set (MapThenSumSet) are counts: the sum of g over D  *)
(* is the number of units of g, of which each x in D has g[x].  What the   *)
(* recursion of the sum computes is shown by a minimal counterexample.     *)
(***************************************************************************)
SumOver(g, D) == MapThenSumSet(LAMBDA x : g[x], D)
Units(g, D) == {u \in D \X Nat : u[2] < g[u[1]]}

LEMMA MinimalSubset ==
    ASSUME NEW D, IsFiniteSet(D), NEW Bad, Bad \subseteq SUBSET D, Bad # {}
    PROVE  \E s \in Bad : \A t \in Bad : t \subseteq s => t = s
<1>1. Bad \subseteq FiniteSubsetsOf(D)
  BY FS_Subset DEF FiniteSubsetsOf
<1>2. IsWellFoundedOn(StrictSubsetOrdering(D), FiniteSubsetsOf(D))
  BY FS_StrictSubsetOrderingWellFounded
<1>3. PICK s \in Bad : \A t \in Bad : ~(<<t, s>> \in StrictSubsetOrdering(D))
  BY <1>1, <1>2, WFMin
<1> QED BY <1>3 DEF StrictSubsetOrdering

\* One more element brings its units.
LEMMA UnitsAdd ==
    ASSUME NEW D, NEW g, IsFiniteSet(D), NEW x \in D, g[x] \in Nat,
           IsFiniteSet(Units(g, D \ {x}))
    PROVE  /\ IsFiniteSet(Units(g, D))
           /\ Cardinality(Units(g, D)) = g[x] + Cardinality(Units(g, D \ {x}))
<1> DEFINE own == {x} \X (0 .. g[x] - 1)
<1>1. Units(g, D) = own \cup Units(g, D \ {x}) /\ own \cap Units(g, D \ {x}) = {}
  BY DEF Units
<1>2. IsFiniteSet(0 .. g[x] - 1) /\ Cardinality(0 .. g[x] - 1) = g[x]
  <2>1. g[x] - 1 \in Int /\ 0 \in Int
    OBVIOUS
  <2>2. IsFiniteSet(0 .. g[x] - 1)
        /\ Cardinality(0 .. g[x] - 1) = IF 0 > g[x] - 1 THEN 0 ELSE (g[x] - 1) - 0 + 1
    BY <2>1, FS_Interval
  <2> QED BY <2>2
<1>3. IsFiniteSet(own) /\ Cardinality(own) = g[x]
  <2>1. IsFiniteSet({x}) /\ Cardinality({x}) = 1
    BY FS_Singleton
  <2> DEFINE J == 0 .. g[x] - 1
  <2>2. IsFiniteSet(J) /\ Cardinality(J) = g[x]
    BY <1>2
  <2> HIDE DEF J
  <2>3. IsFiniteSet({x} \X J) /\ Cardinality({x} \X J) = Cardinality({x}) * Cardinality(J)
    BY <2>1, <2>2, FS_Product
  <2>4. Cardinality({x}) * Cardinality(J) = g[x]
    BY <2>1, <2>2
  <2> QED BY <2>3, <2>4 DEF J
<1> HIDE DEF own
<1>4. /\ IsFiniteSet(own \cup Units(g, D \ {x}))
      /\ Cardinality(own \cup Units(g, D \ {x}))
           = Cardinality(own) + Cardinality(Units(g, D \ {x})) - Cardinality(own \cap Units(g, D \ {x}))
  BY <1>3, FS_Union
<1>5. Cardinality(own \cap Units(g, D \ {x})) = 0 /\ Cardinality(Units(g, D \ {x})) \in Nat
  BY <1>1, FS_EmptySet, FS_CardinalityType
<1>6. Cardinality(Units(g, D)) = g[x] + Cardinality(Units(g, D \ {x})) - 0
  BY <1>1, <1>3, <1>4, <1>5
<1> QED BY <1>1, <1>4, <1>5, <1>6

LEMMA UnitsFinite ==
    ASSUME NEW D, IsFiniteSet(D), NEW g, \A x \in D : g[x] \in Nat
    PROVE  IsFiniteSet(Units(g, D))
<1> DEFINE Bad == {s \in SUBSET D : ~IsFiniteSet(Units(g, s))}
<1> SUFFICES ASSUME Bad # {} PROVE FALSE
  OBVIOUS
<1>0. Bad \subseteq SUBSET D /\ \A s : s \in Bad <=> s \subseteq D /\ ~IsFiniteSet(Units(g, s))
  OBVIOUS
<1> HIDE DEF Bad
<1>1. PICK s \in Bad : \A t \in Bad : t \subseteq s => t = s
  BY <1>0, MinimalSubset
<1>2. s # {}
  <2>1. Units(g, {}) = {}
    BY DEF Units
  <2> QED BY <1>0, <2>1, FS_EmptySet
<1>3. PICK x \in s : TRUE
  BY <1>2
<1>4. IsFiniteSet(Units(g, s \ {x}))
  BY <1>0, <1>1, <1>3
<1>5. IsFiniteSet(s) /\ g[x] \in Nat
  BY <1>0, <1>3, FS_Subset
<1> QED BY <1>0, <1>3, <1>4, <1>5, UnitsAdd

\* MapThenSumSet takes the elements in the order of CHOOSE.
LEMMA SumIsCount ==
    ASSUME NEW D, IsFiniteSet(D), NEW g, \A x \in D : g[x] \in Nat
    PROVE  SumOver(g, D) = Cardinality(Units(g, D)) /\ SumOver(g, D) \in Nat
<1> DEFINE First(s) == CHOOSE x \in s : TRUE
           Def(f) == [s \in SUBSET D |->
                        IF s = {} THEN 0 ELSE g[First(s)] + f[s \ {First(s)}]]
           iter == CHOOSE f : f = Def(f)
           count == [s \in SUBSET D |-> Cardinality(Units(g, s))]
<1>1. SumOver(g, D) = iter[D]
  BY DEF SumOver, MapThenSumSet, MapThenFoldSet
<1>2. \A s \in SUBSET D : s # {} => First(s) \in s
  OBVIOUS
<1> HIDE DEF First
<1>3. \A s \in SUBSET D : count[s] \in Nat /\ count[s] =
         IF s = {} THEN 0 ELSE g[First(s)] + count[s \ {First(s)}]
  <2> SUFFICES ASSUME NEW s \in SUBSET D
               PROVE  /\ Cardinality(Units(g, s)) \in Nat
                      /\ Cardinality(Units(g, s)) =
                           IF s = {} THEN 0 ELSE g[First(s)] + Cardinality(Units(g, s \ {First(s)}))
    BY <1>2
  <2>1. IsFiniteSet(s) /\ IsFiniteSet(s \ {First(s)}) /\ \A x \in s : g[x] \in Nat
    BY FS_Subset
  <2>2. IsFiniteSet(Units(g, s)) /\ IsFiniteSet(Units(g, s \ {First(s)}))
    BY <2>1, UnitsFinite
  <2>3. Units(g, {}) = {}
    BY DEF Units
  <2>4. s # {} => Cardinality(Units(g, s)) = g[First(s)] + Cardinality(Units(g, s \ {First(s)}))
    BY <1>2, <2>1, <2>2, UnitsAdd
  <2> QED BY <2>2, <2>3, <2>4, FS_EmptySet, FS_CardinalityType
<1>4. count = Def(count)
  BY <1>3
<1>5. iter = Def(iter)
  BY <1>4
<1> HIDE DEF iter, count
<1>6. iter[D] = count[D]
  <2> DEFINE Bad == {s \in SUBSET D : iter[s] # count[s]}
  <2> SUFFICES ASSUME Bad # {} PROVE FALSE
    OBVIOUS
  <2>1. Bad \subseteq SUBSET D /\ \A s : s \in Bad <=> s \subseteq D /\ iter[s] # count[s]
    OBVIOUS
  <2> HIDE DEF Bad
  <2>2. PICK s \in Bad : \A t \in Bad : t \subseteq s => t = s
    BY <2>1, MinimalSubset
  <2>3. iter[s] = IF s = {} THEN 0 ELSE g[First(s)] + iter[s \ {First(s)}]
    BY <1>5, <2>1
  <2>4. count[s] = IF s = {} THEN 0 ELSE g[First(s)] + count[s \ {First(s)}]
    BY <1>3, <2>1
  <2>5. s # {} => iter[s \ {First(s)}] = count[s \ {First(s)}]
    BY <1>2, <2>1, <2>2
  <2> QED BY <2>1, <2>3, <2>4, <2>5
<1>7. count[D] = Cardinality(Units(g, D)) /\ count[D] \in Nat
  BY <1>3 DEF count
<1> QED BY <1>1, <1>6, <1>7

LEMMA SumIsNat ==
    \A D : IsFiniteSet(D) => \A g : (\A x \in D : g[x] \in Nat) => SumOver(g, D) \in Nat
BY SumIsCount

LEMMA SumEmpty == \A g : SumOver(g, {}) = 0
<1> SUFFICES ASSUME NEW g PROVE SumOver(g, {}) = 0
  OBVIOUS
<1>1. Units(g, {}) = {}
  BY DEF Units
<1> QED BY <1>1, SumIsCount, FS_EmptySet

\* Only the elements of the set count.
LEMMA SumSame ==
    ASSUME NEW D, IsFiniteSet(D), NEW g, NEW h, \A x \in D : g[x] \in Nat /\ h[x] = g[x]
    PROVE  SumOver(h, D) = SumOver(g, D)
<1>1. Units(h, D) = Units(g, D)
  BY DEF Units
<1> QED BY <1>1, SumIsCount

\* What is not in E counts nothing.
LEMMA SumSplit ==
    ASSUME NEW D, IsFiniteSet(D), NEW E, E \subseteq D, NEW g, \A x \in D : g[x] \in Nat
    PROVE  /\ SumOver(g, D) = SumOver(g, E) + SumOver(g, D \ E)
           /\ SumOver(g, E) \in Nat /\ SumOver(g, D \ E) \in Nat
<1>1. IsFiniteSet(E) /\ IsFiniteSet(D \ E)
  BY FS_Subset
<1>2. /\ IsFiniteSet(Units(g, E)) /\ IsFiniteSet(Units(g, D \ E))
      /\ Units(g, D) = Units(g, E) \cup Units(g, D \ E)
      /\ Units(g, E) \cap Units(g, D \ E) = {}
  <2>1. IsFiniteSet(Units(g, E)) /\ IsFiniteSet(Units(g, D \ E))
    BY <1>1, UnitsFinite
  <2> QED BY <2>1 DEF Units
<1>3. Cardinality(Units(g, D)) = Cardinality(Units(g, E)) + Cardinality(Units(g, D \ E)) - 0
  <2> DEFINE U == Units(g, E)
             V == Units(g, D \ E)
  <2> HIDE DEF U, V
  <2>1. IsFiniteSet(U) /\ IsFiniteSet(V) /\ Units(g, D) = U \cup V /\ U \cap V = {}
    BY <1>2 DEF U, V
  <2>2. Cardinality(U \cup V) = Cardinality(U) + Cardinality(V) - Cardinality(U \cap V)
    BY <2>1, FS_Union
  <2>3. Cardinality(U \cap V) = 0
    BY <2>1, FS_EmptySet
  <2> QED BY <2>1, <2>2, <2>3 DEF U, V
<1>4. /\ SumOver(g, D) = Cardinality(Units(g, D))
      /\ SumOver(g, E) = Cardinality(Units(g, E)) /\ SumOver(g, E) \in Nat
      /\ SumOver(g, D \ E) = Cardinality(Units(g, D \ E)) /\ SumOver(g, D \ E) \in Nat
  BY <1>1, SumIsCount
<1> QED BY <1>3, <1>4

LEMMA SumZero ==
    ASSUME NEW D, IsFiniteSet(D), NEW g, \A x \in D : g[x] = 0
    PROVE  SumOver(g, D) = 0
<1>1. Units(g, D) = {}
  BY DEF Units
<1> QED BY <1>1, SumIsCount, FS_EmptySet

\* One more for each element of N
LEMMA SumMore ==
    ASSUME NEW D, IsFiniteSet(D), NEW N, N \subseteq D, NEW g, NEW h,
           \A x \in D : g[x] \in Nat /\ h[x] = g[x] + IF x \in N THEN 1 ELSE 0
    PROVE  SumOver(h, D) = SumOver(g, D) + Cardinality(N) /\ Cardinality(N) \in Nat
<1> DEFINE new == {<<x, g[x]>> : x \in N}
           pair == [x \in N |-> <<x, g[x]>>]
<1>1. Units(h, D) = Units(g, D) \cup new /\ Units(g, D) \cap new = {}
  BY DEF Units
<1>2. IsFiniteSet(N) /\ Cardinality(N) \in Nat
  BY FS_Subset, FS_CardinalityType
<1>3. pair \in Bijection(N, new)
  BY DEF Bijection, Injection, Surjection, IsInjective
<1>4. IsFiniteSet(new) /\ Cardinality(new) = Cardinality(N)
  BY <1>2, <1>3, FS_Bijection DEF ExistsBijection
<1> HIDE DEF new
<1>5. IsFiniteSet(Units(g, D))
  BY UnitsFinite
<1>6. Cardinality(Units(h, D)) = Cardinality(Units(g, D)) + Cardinality(new) - 0
  BY <1>1, <1>4, <1>5, FS_Union, FS_EmptySet
<1>7. /\ SumOver(g, D) = Cardinality(Units(g, D)) /\ SumOver(g, D) \in Nat
      /\ SumOver(h, D) = Cardinality(Units(h, D))
  BY SumIsCount
<1> QED BY <1>2, <1>4, <1>6, <1>7

\* One element changes.
LEMMA SumExcept ==
    ASSUME NEW D, IsFiniteSet(D), NEW y \in D, NEW g, NEW h,
           \A x \in D : g[x] \in Nat /\ h[x] \in Nat /\ (x # y => h[x] = g[x])
    PROVE  SumOver(h, D) = SumOver(g, D) - g[y] + h[y]
<1>1. \A f : (\A x \in D : f[x] \in Nat) =>
         SumOver(f, D) = f[y] + SumOver(f, D \ {y}) /\ SumOver(f, D \ {y}) \in Nat
  <2> SUFFICES ASSUME NEW f, \A x \in D : f[x] \in Nat
               PROVE  SumOver(f, D) = f[y] + SumOver(f, D \ {y}) /\ SumOver(f, D \ {y}) \in Nat
    OBVIOUS
  <2>1. IsFiniteSet(D \ {y})
    BY FS_RemoveElement
  <2>2. IsFiniteSet(Units(f, D \ {y}))
    BY <2>1, UnitsFinite
  <2> QED BY <2>1, <2>2, UnitsAdd, SumIsCount
<1>2. SumOver(h, D \ {y}) = SumOver(g, D \ {y})
  BY SumSame, FS_RemoveElement
<1>3. /\ SumOver(g, D) = g[y] + SumOver(g, D \ {y}) /\ SumOver(g, D \ {y}) \in Nat
      /\ SumOver(h, D) = h[y] + SumOver(h, D \ {y})
  BY <1>1
<1> QED BY <1>2, <1>3

-----------------------------------------------------------------------------
\* How many packets of a sequence are of the types K

PlacesOf(w, K) == {i \in DOMAIN w : w[i].type \in K}
NumberOf(w, K) == Cardinality(PlacesOf(w, K))

LEMMA PlacesFinite ==
    ASSUME NEW P, NEW w \in Seq(P), NEW K
    PROVE  /\ IsFiniteSet(PlacesOf(w, K)) /\ NumberOf(w, K) \in Nat
           /\ NumberOf(w, K) <= Len(w) /\ Len(w) \in Nat
           /\ w = <<>> => NumberOf(w, K) = 0
<1>1. Len(w) \in Nat /\ DOMAIN w = 1 .. Len(w) /\ PlacesOf(w, K) \subseteq 1 .. Len(w)
  BY LenProperties DEF PlacesOf
<1>2. IsFiniteSet(1 .. Len(w)) /\ Cardinality(1 .. Len(w)) = Len(w)
  <2>1. \A m \in Nat : IsFiniteSet(1 .. m) /\ Cardinality(1 .. m) = m
    BY FS_Interval
  <2> QED BY <1>1, <2>1
<1>3. /\ IsFiniteSet(PlacesOf(w, K)) /\ Cardinality(PlacesOf(w, K)) <= Len(w)
      /\ Cardinality(PlacesOf(w, K)) \in Nat
  BY <1>1, <1>2, FS_Subset, FS_CardinalityType
<1>4. w = <<>> => PlacesOf(w, K) = {}
  BY <1>1
<1> QED BY <1>1, <1>3, <1>4, FS_EmptySet DEF NumberOf

LEMMA NumberAppend ==
    ASSUME NEW P, NEW w \in Seq(P), NEW p \in P, NEW K
    PROVE  NumberOf(Append(w, p), K) = NumberOf(w, K) + IF p.type \in K THEN 1 ELSE 0
<1>1. /\ Len(w) \in Nat /\ DOMAIN w = 1 .. Len(w)
      /\ DOMAIN Append(w, p) = 1 .. Len(w) + 1
      /\ \A i \in 1 .. Len(w) : Append(w, p)[i] = w[i]
      /\ Append(w, p)[Len(w) + 1] = p
  BY AppendProperties, LenProperties
<1>2. IsFiniteSet(PlacesOf(w, K)) /\ NumberOf(w, K) \in Nat
  BY PlacesFinite
<1>3. Len(w) + 1 \notin PlacesOf(w, K)
  BY <1>1 DEF PlacesOf
<1>4. PlacesOf(Append(w, p), K)
        = PlacesOf(w, K) \cup (IF p.type \in K THEN {Len(w) + 1} ELSE {})
  <2>1. ASSUME NEW i \in 1 .. Len(w) + 1
        PROVE  i \in PlacesOf(Append(w, p), K) <=>
                  i \in PlacesOf(w, K) \cup (IF p.type \in K THEN {Len(w) + 1} ELSE {})
    <3>1. CASE i \in 1 .. Len(w)
      <4>1. i # Len(w) + 1
        BY <1>1, <3>1
      <4> QED BY <1>1, <3>1, <4>1 DEF PlacesOf
    <3>2. CASE i = Len(w) + 1
      BY <1>1, <1>3, <3>2 DEF PlacesOf
    <3> QED BY <1>1, <3>1, <3>2
  <2>2. \A i \in 1 .. Len(w) : i \in 1 .. Len(w) + 1
    BY <1>1
  <2>3. Len(w) + 1 \in 1 .. Len(w) + 1
    BY <1>1
  <2> QED BY <1>1, <2>1, <2>2, <2>3 DEF PlacesOf
<1>5. Cardinality(PlacesOf(w, K) \cup {Len(w) + 1}) = Cardinality(PlacesOf(w, K)) + 1
  BY <1>2, <1>3, FS_AddElement
<1>6. CASE p.type \in K
  BY <1>4, <1>5, <1>6 DEF NumberOf
<1>7. CASE p.type \notin K
  <2>1. PlacesOf(Append(w, p), K) = PlacesOf(w, K)
    BY <1>4, <1>7
  <2> QED BY <1>2, <1>7, <2>1 DEF NumberOf
<1> QED BY <1>6, <1>7

LEMMA NumberRemoveAt ==
    ASSUME NEW P, NEW w \in Seq(P), NEW j \in DOMAIN w, NEW K
    PROVE  /\ NumberOf(w, K) = NumberOf(RemoveAt(w, j), K) + IF w[j].type \in K THEN 1 ELSE 0
           /\ NumberOf(RemoveAt(w, j), K) \in Nat
<1> DEFINE v == RemoveAt(w, j)
           S == PlacesOf(v, K)
           T == PlacesOf(w, K) \ {j}
           f == [k \in S |-> IF k < j THEN k ELSE k + 1]
<1>1. /\ Len(w) \in Nat /\ DOMAIN w = 1 .. Len(w) /\ v \in Seq(P)
      /\ DOMAIN v = 1 .. Len(w) - 1
      /\ \A k \in 1 .. Len(w) - 1 : v[k] = IF k < j THEN w[k] ELSE w[k + 1]
  BY RemoveAtElements, RemoveAtPlaces, LenProperties
<1>2. /\ IsFiniteSet(S) /\ IsFiniteSet(PlacesOf(w, K)) /\ Cardinality(S) \in Nat
      /\ Cardinality(PlacesOf(w, K)) \in Nat
  BY <1>1, PlacesFinite DEF NumberOf
<1> HIDE DEF v
<1>3. \A k \in S : f[k] \in T
  <2> SUFFICES ASSUME NEW k \in S PROVE f[k] \in T
    OBVIOUS
  <2>1. k \in 1 .. Len(w) - 1 /\ v[k].type \in K
    BY <1>1 DEF PlacesOf
  <2>2. CASE k < j
    BY <1>1, <2>1, <2>2 DEF PlacesOf
  <2>3. CASE ~(k < j)
    <3>1. k + 1 \in 1 .. Len(w) /\ k + 1 # j
      BY <1>1, <2>1, <2>3
    <3> QED BY <1>1, <2>1, <2>3, <3>1 DEF PlacesOf
  <2> QED BY <2>2, <2>3
<1>4. \A k, l \in S : f[k] = f[l] => k = l
  BY <1>1 DEF PlacesOf
<1>5. \A x \in T : \E k \in S : f[k] = x
  <2> SUFFICES ASSUME NEW x \in T PROVE \E k \in S : f[k] = x
    OBVIOUS
  <2>1. x \in 1 .. Len(w) /\ w[x].type \in K /\ x # j
    BY <1>1 DEF PlacesOf
  <2>2. CASE x < j
    <3>1. x \in 1 .. Len(w) - 1
      BY <1>1, <2>1, <2>2
    <3>2. x \in S /\ f[x] = x
      BY <1>1, <2>1, <2>2, <3>1 DEF PlacesOf
    <3> QED BY <3>2
  <2>3. CASE ~(x < j)
    <3>1. x - 1 \in 1 .. Len(w) - 1 /\ ~(x - 1 < j) /\ (x - 1) + 1 = x
      BY <1>1, <2>1, <2>3
    <3>2. v[x - 1] = w[x]
      BY <1>1, <3>1
    <3>3. x - 1 \in S
      BY <1>1, <2>1, <3>1, <3>2 DEF PlacesOf
    <3>4. f[x - 1] = x
      BY <3>1, <3>3
    <3> QED BY <3>3, <3>4
  <2> QED BY <2>2, <2>3
<1>6. f \in Bijection(S, T)
  <2>1. f \in [S -> T]
    BY <1>3
  <2> HIDE DEF f, S, T
  <2> QED BY <1>4, <1>5, <2>1 DEF Bijection, Injection, Surjection, IsInjective, f
<1>7. Cardinality(T) = Cardinality(S)
  BY <1>2, <1>6, FS_Bijection DEF ExistsBijection
<1>8. Cardinality(T) = IF j \in PlacesOf(w, K) THEN Cardinality(PlacesOf(w, K)) - 1
                       ELSE Cardinality(PlacesOf(w, K))
  BY <1>2, FS_RemoveElement
<1>9. j \in PlacesOf(w, K) <=> w[j].type \in K
  BY DEF PlacesOf
<1> QED BY <1>2, <1>7, <1>8, <1>9 DEF NumberOf, v

LEMMA TailIsRemoveAt ==
    ASSUME NEW P, NEW w \in Seq(P), w # <<>>
    PROVE  1 \in DOMAIN w /\ Tail(w) = RemoveAt(w, 1) /\ Head(w) = w[1]
<1>1. 1 \in DOMAIN w /\ Len(w) \in Nat /\ Len(w) >= 1 /\ Head(w) = w[1]
  BY LenProperties, HeadTailProperties, EmptySeq
<1>2. /\ Tail(w) \in Seq(P) /\ Len(Tail(w)) = Len(w) - 1
      /\ \A k \in 1 .. Len(w) - 1 : Tail(w)[k] = w[k + 1]
  BY <1>1, HeadTailProperties
<1>3. /\ RemoveAt(w, 1) \in Seq(P) /\ Len(RemoveAt(w, 1)) = Len(w) - 1
      /\ \A k \in 1 .. Len(w) - 1 : RemoveAt(w, 1)[k] = w[k + 1]
  BY <1>1, RemoveAtElements, RemoveAtPlaces
<1> QED BY <1>1, <1>2, <1>3, SeqEqual

LEMMA NumberTail ==
    ASSUME NEW P, NEW w \in Seq(P), w # <<>>, NEW K
    PROVE  /\ NumberOf(w, K) = NumberOf(Tail(w), K) + IF Head(w).type \in K THEN 1 ELSE 0
           /\ NumberOf(Tail(w), K) \in Nat
<1>1. 1 \in DOMAIN w /\ Tail(w) = RemoveAt(w, 1) /\ Head(w) = w[1]
  BY TailIsRemoveAt
<1>2. /\ NumberOf(w, K) = NumberOf(RemoveAt(w, 1), K) + IF w[1].type \in K THEN 1 ELSE 0
      /\ NumberOf(RemoveAt(w, 1), K) \in Nat
  BY <1>1, NumberRemoveAt
<1> QED BY <1>1, <1>2
=============================================================================
