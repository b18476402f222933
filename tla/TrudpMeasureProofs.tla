------------------------- MODULE TrudpMeasureProofs -------------------------
(***************************************************************************)
(* Proofs about TrudpMeasure: the check of a datagram is exact, a trip time *)
(* is that of the copy it was measured with, and retransmissions keep to    *)
(* RTT and MAX_RTT, for every width of the fields, every offset of the      *)
(* clocks and every middle value of the trip time.                          *)
(***************************************************************************)
EXTENDS TrudpMeasure, TrudpFacts

-----------------------------------------------------------------------------
\* Quotients and remainders.
LEMMA DivMod ==
    ASSUME NEW m \in Nat, m > 0, NEW n \in Int
    PROVE  n % m \in 0 .. m - 1 /\ n \div m \in Int /\ n = m * (n \div m) + (n % m)
OBVIOUS

LEMMA DivModOf ==
    ASSUME NEW m \in Nat, m > 0, NEW q \in Int, NEW r \in 0 .. m - 1
    PROVE  (m * q + r) % m = r /\ (m * q + r) \div m = q
<1> DEFINE n == m * q + r
<1>1. n \in Int
  OBVIOUS
<1>2. n % m \in 0 .. m - 1 /\ n \div m \in Int /\ n = m * (n \div m) + (n % m)
  BY <1>1, DivMod
<1>3. \A p \in Int : p > q => m * p >= m * q + m
  OBVIOUS
<1>4. \A p \in Int : p < q => m * q >= m * p + m
  OBVIOUS
<1>5. n \div m = q
  BY <1>2, <1>3, <1>4
<1> QED BY <1>2, <1>5

LEMMA DivNat ==
    ASSUME NEW m \in Nat, m > 0, NEW n \in Nat
    PROVE  n \div m \in Nat
OBVIOUS

LEMMA DivLess ==
    ASSUME NEW m \in Nat, m > 1, NEW n \in Nat, n # 0
    PROVE  n \div m \in 0 .. n - 1
<1>1. n % m \in 0 .. m - 1 /\ n \div m \in Nat /\ n = m * (n \div m) + (n % m)
  BY DivMod, DivNat
<1>2. \A q \in Nat : q >= n => m * q >= 2 * q 
  OBVIOUS
<1> QED BY <1>1, <1>2

\* Multiples of the modulus and remainders inside a difference do not count.
LEMMA ModShift ==
    ASSUME NEW m \in Nat, m > 0, NEW n \in Int, NEW k \in Int
    PROVE  (n + m * k) % m = n % m
<1>1. n % m \in 0 .. m - 1 /\ n \div m \in Int /\ n = m * (n \div m) + (n % m)
  BY DivMod
<1>2. PICK q \in Int, r \in 0 .. m - 1 : q = n \div m /\ r = n % m /\ n = m * q + r
  BY <1>1
<1>3. n + m * k = m * (q + k) + r
  BY <1>2
<1>4. (m * (q + k) + r) % m = r
  BY DivModOf
<1> QED BY <1>2, <1>3, <1>4

LEMMA ModDiff ==
    ASSUME NEW m \in Nat, m > 0, NEW a \in Int, NEW b \in Int
    PROVE  ((a % m) - (b % m)) % m = (a - b) % m
<1>1. PICK q \in Int, r \in 0 .. m - 1 : r = a % m /\ a = m * q + r
  BY DivMod
<1>2. PICK p \in Int, s \in 0 .. m - 1 : s = b % m /\ b = m * p + s
  BY DivMod
<1>3. a - b = (r - s) + m * (q - p)
  BY <1>1, <1>2
<1>4. PICK d \in Int, k \in Int : d = r - s /\ k = q - p
  OBVIOUS
<1>5. (d + m * k) % m = d % m
  BY ModShift
<1> QED BY <1>1, <1>2, <1>3, <1>4, <1>5

\* A set of numbers has a least one.
LEMMA Least ==
    ASSUME NEW Bad \in SUBSET Nat, Bad # {}
    PROVE  \E n \in Bad : \A m \in Bad : n <= m
<1>1. PICK n \in Bad : \A y \in Bad : ~(<<y, n>> \in OpToRel(<, Nat))
  BY NatLessThanWellFounded, WFMin, Zenon
<1>2. \A y \in Nat, z \in Nat : y < z => <<y, z>> \in OpToRel(<, Nat)
  BY Zenon DEF OpToRel
<1>3. \A y \in Bad : y \in Nat
  OBVIOUS
<1>4. \A y \in Bad : ~(y < n)
  BY <1>1, <1>2, <1>3, Zenon
<1> QED BY <1>4
-----------------------------------------------------------------------------
(***************************************************************************)
(* The sum of the bytes of a field exists and is a number.  The definition  *)
(* is recursive, and no induction theorem can be used (it would take an     *)
(* operator): sums up to n are functions on 0 .. n, any two of them agree   *)
(* and every n has one, each by a least counterexample.                     *)
(***************************************************************************)
SumsTo(n) ==
    {f \in [0 .. n -> Nat] : \A m \in 0 .. n :
        f[m] = IF m = 0 THEN 0 ELSE (m % Byte) + f[m \div Byte]}

LEMMA ByteIsNat == Byte \in Nat /\ Byte > 1
<1>1. Nibble \in Nat /\ Nibble > 5
  BY PacketAssumption
<1> QED BY <1>1 DEF Byte

LEMMA ByteDiv ==
    ASSUME NEW n \in Nat
    PROVE  /\ n % Byte \in Nat /\ n \div Byte \in Nat
           /\ n # 0 => n \div Byte \in 0 .. n - 1
<1>1. PICK b \in Nat : b = Byte /\ b > 1
  BY ByteIsNat
<1>2. n % b \in 0 .. b - 1 /\ n \div b \in Nat
  BY <1>1, DivMod, DivNat
<1>3. n # 0 => n \div b \in 0 .. n - 1
  BY <1>1, DivLess
<1> QED BY <1>1, <1>2, <1>3

LEMMA SumsAgree ==
    ASSUME NEW n \in Nat, NEW k \in Nat, NEW f \in SumsTo(n), NEW g \in SumsTo(k),
           NEW m \in Nat, m <= n, m <= k
    PROVE  f[m] = g[m]
<1> DEFINE Bad == {i \in Nat : i <= n /\ i <= k /\ f[i] # g[i]}
<1> SUFFICES ASSUME Bad # {} PROVE FALSE
  OBVIOUS
<1>1. PICK i \in Bad : \A j \in Bad : i <= j
  BY Least
<1>2. i \in 0 .. n /\ i \in 0 .. k /\ i \in Nat /\ f[i] # g[i]
  BY <1>1
<1>3. /\ f[i] = IF i = 0 THEN 0 ELSE (i % Byte) + f[i \div Byte]
      /\ g[i] = IF i = 0 THEN 0 ELSE (i % Byte) + g[i \div Byte]
  BY <1>2 DEF SumsTo
<1>4. i # 0
  BY <1>2, <1>3
<1>5. PICK j \in 0 .. i - 1 : j = i \div Byte
  BY <1>2, <1>4, ByteDiv
<1>6. f[j] = g[j]
  <2>1. j \in Nat /\ j <= n /\ j <= k /\ ~(i <= j)
    BY <1>2, <1>5
  <2> QED BY <1>1, <2>1
<1> QED BY <1>2, <1>3, <1>4, <1>5, <1>6

LEMMA SumsExist ==
    ASSUME NEW n \in Nat
    PROVE  SumsTo(n) # {}
<1> DEFINE Bad == {i \in Nat : SumsTo(i) = {}}
<1> SUFFICES ASSUME Bad # {} PROVE FALSE
  OBVIOUS
<1>1. PICK i \in Bad : \A j \in Bad : i <= j
  BY Least
<1>2. i \in Nat /\ SumsTo(i) = {}
  BY <1>1
<1>3. CASE i = 0
  <2> DEFINE f == [m \in 0 .. 0 |-> 0]
  <2>1. f \in [0 .. 0 -> Nat] /\ \A m \in 0 .. 0 : m = 0 /\ f[m] = 0
    OBVIOUS
  <2>2. f \in SumsTo(0)
    BY <2>1 DEF SumsTo
  <2> QED BY <1>2, <1>3, <2>2
<1>4. CASE i # 0
  <2>1. i - 1 \in Nat /\ ~(i <= i - 1)
    BY <1>2, <1>4
  <2>2. PICK g : g \in SumsTo(i - 1)
    BY <1>1, <2>1
  <2>3. /\ g \in [0 .. i - 1 -> Nat]
        /\ \A m \in 0 .. i - 1 : g[m] = IF m = 0 THEN 0 ELSE (m % Byte) + g[m \div Byte]
    BY <2>2 DEF SumsTo
  <2>4. PICK q \in 0 .. i - 1 : q = i \div Byte
    BY <1>2, <1>4, ByteDiv
  <2>5. PICK r \in Nat : r = i % Byte
    BY <1>2, ByteDiv
  <2> DEFINE f == [m \in 0 .. i |-> IF m = i THEN r + g[q] ELSE g[m]]
  <2>6. /\ \A m \in 0 .. i : m # i => m \in 0 .. i - 1
        /\ \A m \in 0 .. i - 1 : m \in 0 .. i /\ m # i
        /\ i \in 0 .. i
    BY <1>2
  <2>7. f \in [0 .. i -> Nat] /\ f[i] = r + g[q] /\ \A m \in 0 .. i - 1 : f[m] = g[m]
    BY <2>3, <2>4, <2>5, <2>6
  <2> HIDE DEF f
  <2>8. ASSUME NEW m \in 0 .. i
        PROVE  f[m] = IF m = 0 THEN 0 ELSE (m % Byte) + f[m \div Byte]
    <3>1. CASE m = i
      BY <1>4, <2>4, <2>5, <2>7, <3>1
    <3>2. CASE m # i
      <4>1. m \in 0 .. i - 1 /\ m \in Nat
        BY <2>6, <3>2
      <4>2. m # 0 => m \div Byte \in 0 .. i - 1
        BY <1>2, <4>1, ByteDiv
      <4> QED BY <2>3, <2>7, <4>1, <4>2
    <3> QED BY <3>1, <3>2
  <2>9. f \in SumsTo(i)
    BY <2>7, <2>8 DEF SumsTo
  <2> QED BY <1>2, <2>9
<1> QED BY <1>3, <1>4

LEMMA ByteSumIs ==
    /\ ByteSum[0] = 0
    /\ \A n \in Nat : /\ ByteSum[n] \in Nat
                      /\ ByteSum[n] = (n % Byte) + ByteSum[n \div Byte]
<1> DEFINE Some(n) == CHOOSE f : f \in SumsTo(n)
           F == [n \in Nat |-> Some(n)[n]]
           Eq(G) == G = [n \in Nat |-> IF n = 0 THEN 0 ELSE (n % Byte) + G[n \div Byte]]
<1>1. ASSUME NEW n \in Nat PROVE Some(n) \in SumsTo(n)
  BY SumsExist
<1> HIDE DEF Some
<1>2. ASSUME NEW n \in Nat
      PROVE  F[n] \in Nat /\ F[n] = IF n = 0 THEN 0 ELSE (n % Byte) + F[n \div Byte]
  <2>1. PICK f \in SumsTo(n) : f = Some(n)
    BY <1>1
  <2>2. /\ f \in [0 .. n -> Nat] /\ n \in 0 .. n /\ F[n] = f[n]
        /\ f[n] = IF n = 0 THEN 0 ELSE (n % Byte) + f[n \div Byte]
    BY <2>1 DEF SumsTo
  <2>3. ASSUME n # 0 PROVE f[n \div Byte] = F[n \div Byte]
    <3>1. PICK q \in Nat : q = n \div Byte /\ q <= n
      BY <2>3, ByteDiv
    <3>2. f[q] = Some(q)[q]
      BY <1>1, <2>1, <3>1, SumsAgree
    <3> QED BY <3>1, <3>2
  <2> QED BY <2>2, <2>3
<1> HIDE DEF F
<1>3. F = [n \in Nat |-> IF n = 0 THEN 0 ELSE (n % Byte) + F[n \div Byte]]
  <2>1. F = [n \in Nat |-> F[n]]
    BY DEF F
  <2> QED BY <1>2, <2>1
<1>4. Eq(F)
  BY <1>3
<1>5. ByteSum = CHOOSE G : Eq(G)
  BY DEF ByteSum
<1>6. Eq(ByteSum)
  BY <1>4, <1>5
<1>7. \A n \in Nat : ByteSum[n] = IF n = 0 THEN 0 ELSE (n % Byte) + ByteSum[n \div Byte]
  BY <1>6
<1> HIDE DEF Eq
<1>8. \A n \in Nat : ByteSum[n] \in Nat
  <2> DEFINE Bad == {n \in Nat : ByteSum[n] \notin Nat}
  <2> SUFFICES ASSUME Bad # {} PROVE FALSE
    OBVIOUS
  <2>1. PICK n \in Bad : \A j \in Bad : n <= j
    BY Least
  <2>2. n \in Nat /\ ByteSum[n] \notin Nat
    BY <2>1
  <2>3. n # 0
    BY <1>7, <2>2
  <2>4. PICK q \in 0 .. n - 1 : q = n \div Byte
    BY <2>2, <2>3, ByteDiv
  <2>5. ByteSum[q] \in Nat
    <3>1. q \in Nat /\ ~(n <= q)
      BY <2>2, <2>4
    <3> QED BY <2>1, <3>1
  <2>6. n % Byte \in Nat /\ ByteSum[n] = (n % Byte) + ByteSum[q]
    BY <1>7, <2>2, <2>3, <2>4, ByteDiv
  <2> QED BY <2>2, <2>5, <2>6
<1>9. 0 \div Byte = 0 /\ 0 % Byte = 0
  <2>1. PICK b \in Nat : b = Byte /\ b > 1
    BY ByteIsNat
  <2>2. (b * 0 + 0) % b = 0 /\ (b * 0 + 0) \div b = 0
    BY <2>1, DivModOf
  <2>3. b * 0 + 0 = 0
    BY <2>1
  <2> QED BY <2>1, <2>2, <2>3
<1> QED BY <1>7, <1>8, <1>9

-----------------------------------------------------------------------------
\* A byte changed by 1 .. Byte - 1 changes any sum it is in, modulo Byte.
LEMMA ModAdded ==
    ASSUME NEW m \in Nat, m > 1, NEW b \in 1 .. m - 1, NEW n \in Int
    PROVE  (n + b) % m # n % m
<1>1. PICK q \in Int, r \in 0 .. m - 1 : r = n % m /\ n = m * q + r
  BY DivMod
<1>2. CASE r + b < m
  <2>1. PICK c \in 0 .. m - 1 : c = r + b
    BY <1>2
  <2>2. (m * q + c) % m = c
    BY DivModOf
  <2>3. n + b = m * q + c
    BY <1>1, <2>1
  <2> QED BY <1>1, <2>1, <2>2, <2>3
<1>3. CASE ~(r + b < m)
  <2>1. PICK c \in 0 .. m - 1 : c = r + b - m
    BY <1>3
  <2>2. PICK p \in Int : p = q + 1
    OBVIOUS
  <2>3. m * p = m * q + m
    BY <2>2
  <2>4. (m * p + c) % m = c
    BY DivModOf
  <2>5. n + b = m * p + c
    <3>1. PICK v \in Int : v = m * q
      OBVIOUS
    <3>2. n = v + r /\ m * p = v + m
      BY <1>1, <2>3, <3>1
    <3> QED BY <2>1, <3>2
  <2> QED BY <1>1, <2>1, <2>4, <2>5
<1> QED BY <1>2, <1>3

LEMMA ByteChanges ==
    ASSUME NEW b \in 1 .. Byte - 1, NEW x \in 0 .. Byte - 1, NEW rest \in Nat
    PROVE  /\ (x + b) % Byte \in 0 .. Byte - 1
           /\ (x + b) % Byte # x
           /\ (rest + ((x + b) % Byte)) % Byte # (rest + x) % Byte
<1>1. PICK m \in Nat : m = Byte /\ m > 1
  BY ByteIsNat
<1>2. PICK y \in 0 .. m - 1 : y = (x + b) % m
  BY <1>1, DivMod
<1>3. y = x + b \/ y = x + b + m * (-1)
  <2>1. CASE x + b < m
    BY <1>1, <1>2, <2>1, ModSmall
  <2>2. CASE ~(x + b < m)
    <3>1. m <= x + b /\ x + b < 2 * m /\ x + b \in Nat
      BY <1>1, <2>2
    <3>2. (x + b) % m = x + b - m
      BY <1>1, <3>1, ModOnce
    <3> QED BY <1>2, <3>2
  <2> QED BY <2>1, <2>2
<1>4. PICK n \in Int : n = rest + x
  BY <1>1
<1>5. rest + y = n + b \/ rest + y = (n + b) + m * (-1)
  BY <1>1, <1>2, <1>3, <1>4
<1>6. (rest + y) % m = (n + b) % m
  <2>1. ((n + b) + m * (-1)) % m = (n + b) % m
    <3>1. PICK k \in Int : k = n + b
      BY <1>1, <1>4
    <3>2. PICK e \in Int : e = -1
      OBVIOUS
    <3>3. m > 0
      BY <1>1
    <3>4. (k + m * e) % m = k % m
      BY <3>3, ModShift
    <3> QED BY <3>1, <3>2, <3>4
  <2> QED BY <1>5, <2>1
<1>7. (n + b) % m # n % m
  BY <1>1, ModAdded
<1>8. y # x
  BY <1>1, <1>2, <1>3
<1> QED BY <1>1, <1>2, <1>4, <1>6, <1>7, <1>8

\* The bytes of a field: of a word with its lowest byte changed, and of the
\* two bytes that hold the channel and payload_length.
LEMMA LowByteChanges ==
    ASSUME NEW b \in 1 .. Byte - 1, NEW w \in Nat, NEW rest \in Nat
    PROVE  (rest + ByteSum[(w - (w % Byte)) + (((w % Byte) + b) % Byte)]) % Byte
              # (rest + ByteSum[w]) % Byte
<1>1. PICK m \in Nat : m = Byte /\ m > 1
  BY ByteIsNat
<1>2. PICK q \in Nat, x \in 0 .. m - 1 : q = w \div m /\ x = w % m /\ w = m * q + x
  BY <1>1, DivMod, DivNat
<1>3. PICK y \in 0 .. m - 1 : y = (x + b) % m
  BY <1>1, <1>2, DivMod
<1>4. (w - (w % Byte)) + (((w % Byte) + b) % Byte) = m * q + y
  <2>1. m * q \in Nat
    BY <1>1, <1>2
  <2> QED BY <1>1, <1>2, <1>3, <2>1
<1>5. m * q + y \in Nat
  BY <1>1, <1>2, <1>3
<1>6. (m * q + y) % m = y /\ (m * q + y) \div m = q
  BY <1>1, <1>2, <1>3, DivModOf
<1>7. PICK s \in Nat : s = ByteSum[q]
  BY <1>2, ByteSumIs
<1>8. ByteSum[m * q + y] = y + s
  BY <1>1, <1>5, <1>6, <1>7, ByteSumIs
<1>9. ByteSum[w] = x + s
  BY <1>1, <1>2, <1>7, ByteSumIs
<1>10. PICK n \in Nat : n = rest + s
  BY <1>7
<1>11. (n + y) % m # (n + x) % m
  BY <1>1, <1>2, <1>3, <1>10, ByteChanges
<1>12. rest + (y + s) = n + y /\ rest + (x + s) = n + x
  BY <1>1, <1>2, <1>3, <1>7, <1>10
<1> QED BY <1>1, <1>4, <1>8, <1>9, <1>11, <1>12

LEMMA TwoBytes ==
    ASSUME NEW x \in 0 .. Byte - 1, NEW y \in 0 .. Byte - 1
    PROVE  ByteSum[x + Byte * y] = x + y
<1>1. PICK m \in Nat : m = Byte /\ m > 1
  BY ByteIsNat
<1>2. (m * y + x) % m = x /\ (m * y + x) \div m = y
  BY <1>1, DivModOf
<1>3. (m * 0 + y) % m = y /\ (m * 0 + y) \div m = 0
  BY <1>1, DivModOf
<1>4. m * 0 + y = y /\ y \in Nat /\ x + m * y = m * y + x
  BY <1>1
<1>5. m * y + x \in Nat
  BY <1>1
<1>6. ByteSum[y] = y
  <2>1. y % m = y /\ y \div m = 0
    BY <1>3, <1>4
  <2>2. ByteSum[y] = y + ByteSum[0]
    BY <1>1, <1>4, <2>1, ByteSumIs
  <2> QED BY <1>4, <2>2, ByteSumIs
<1>7. ByteSum[m * y + x] = x + y
  BY <1>1, <1>2, <1>5, <1>6, ByteSumIs
<1> QED BY <1>1, <1>4, <1>7

\* The fields channel and payload_length take the second and the third byte.
LEMMA Nibbles ==
    ASSUME NEW c \in 0 .. Nibble - 1, NEW l \in 0 .. PayloadMod - 1
    PROVE  /\ l % Nibble \in 0 .. Nibble - 1
           /\ l \div Nibble \in 0 .. Byte - 1
           /\ l = Nibble * (l \div Nibble) + (l % Nibble)
           /\ c + Nibble * (l % Nibble) \in 0 .. Byte - 1
           /\ c + Nibble * l = (c + Nibble * (l % Nibble)) + Byte * (l \div Nibble)
<1>1. PICK n \in Nat : n = Nibble /\ n > 5
  BY PacketAssumption
<1>2. PICK q \in Nat, r \in 0 .. n - 1 : q = l \div n /\ r = l % n /\ l = n * q + r
  <2>1. l \in Nat
    OBVIOUS
  <2> QED BY <1>1, <2>1, DivMod, DivNat
<1>3. PICK m \in Nat : m = Byte /\ m = n * n
  BY <1>1 DEF Byte
<1>4. PayloadMod = n * m
  BY <1>1, <1>3 DEF PayloadMod
<1>5. n * q < n * m
  BY <1>2, <1>4
<1>6. q < m
  BY <1>1, <1>2, <1>3, <1>5
<1>7. c + n * r \in 0 .. m - 1
  <2>1. n * r <= n * (n - 1)
    BY <1>1, <1>2
  <2> QED BY <1>1, <1>2, <1>3, <2>1
<1>8. n * l = n * (n * q) + n * r
  BY <1>1, <1>2
<1>9. n * (n * q) = m * q
  <2>1. n * (n * q) = (n * n) * q
    OBVIOUS
  <2> QED BY <1>3, <2>1
<1>10. c + n * l = (c + n * r) + m * q
  BY <1>1, <1>2, <1>3, <1>8, <1>9
<1> QED BY <1>1, <1>2, <1>3, <1>6, <1>7, <1>10
-----------------------------------------------------------------------------
(***************************************************************************)
(* The packets that packet.c makes are right: every field keeps its width,  *)
(* payload_length holds the low bits of the length, and the checksum is     *)
(* that of the header.                                                      *)
(***************************************************************************)
RightPacket(p) ==
    /\ p \in Packet
    /\ p.length >= HeaderLength
    /\ p.header.payload_length = (p.length - HeaderLength) % PayloadMod
    /\ p.header.checksum = Checksum(p.header)

\* the sum of the bytes a checksum is the low byte of
ByteTotal(th) ==
    th.version + Nibble * th.message_type
        + ByteSum[th.channel + Nibble * th.payload_length]
        + ByteSum[th.id] + ByteSum[th.timestamp]

\* a header from its fields
HeaderOf(c, v, t, ch, l, i, ts) ==
    [checksum |-> c, version |-> v, message_type |-> t, channel |-> ch,
     payload_length |-> l, id |-> i, timestamp |-> ts]

LEMMA Widths ==
    /\ Nibble \in Nat /\ Nibble > 5 /\ Byte \in Nat /\ Byte > 1
    /\ PayloadMod \in Nat /\ PayloadMod > 0
    /\ Word \in Nat /\ Word > 0 /\ HeaderLength \in Nat
<1>1. Nibble \in Nat /\ Nibble > 5 /\ Word \in Nat /\ Word > 0 /\ HeaderLength \in Nat
  BY PacketAssumption
<1>2. PICK n \in Nat, m \in Nat : n = Nibble /\ m = Byte /\ n > 5 /\ m > 1
  BY <1>1, ByteIsNat
<1>3. n * m \in Nat /\ n * m > 0
  BY <1>2
<1> QED BY <1>1, <1>2, <1>3 DEF PayloadMod

\* Every field but the checksum has its width.
Fields(th) ==
    /\ th.version \in 0 .. Nibble - 1 /\ th.message_type \in 0 .. Nibble - 1
    /\ th.channel \in 0 .. Nibble - 1 /\ th.payload_length \in 0 .. PayloadMod - 1
    /\ th.id \in 0 .. Word - 1 /\ th.timestamp \in 0 .. Word - 1

LEMMA ChecksumIsByte ==
    ASSUME NEW th, th.version \in Nat, th.message_type \in Nat, th.channel \in Nat,
           th.payload_length \in Nat, th.id \in Nat, th.timestamp \in Nat
    PROVE  ByteTotal(th) \in Nat /\ Checksum(th) \in 0 .. Byte - 1
           /\ Checksum(th) = ByteTotal(th) % Byte
<1>1. PICK n \in Nat, m \in Nat : n = Nibble /\ m = Byte /\ m > 1
  BY Widths
<1>2. n * th.message_type \in Nat /\ n * th.payload_length \in Nat
  BY <1>1
<1>3. th.channel + n * th.payload_length \in Nat
  BY <1>2
<1>4. ByteSum[th.channel + n * th.payload_length] \in Nat /\ ByteSum[th.id] \in Nat
      /\ ByteSum[th.timestamp] \in Nat
  BY <1>3, ByteSumIs
<1>5. ByteTotal(th) \in Nat
  BY <1>1, <1>2, <1>4 DEF ByteTotal
<1>6. Checksum(th) = ByteTotal(th) % Byte
  BY DEF Checksum, ByteTotal
<1>7. PICK k \in Nat : k = ByteTotal(th)
  BY <1>5
<1>8. k % m \in 0 .. m - 1
  BY <1>1, <1>7, DivMod
<1> QED BY <1>1, <1>5, <1>6, <1>7, <1>8

\* _trudpHeaderCreate
LEMMA HeaderCreateRight ==
    ASSUME NEW id \in 0 .. Word - 1, NEW type \in 0 .. 5, NEW channel \in 0 .. Nibble - 1,
           NEW n \in Nat, NEW ts \in 0 .. Word - 1
    PROVE  LET th == HeaderCreate(id, type, channel, n, ts)
           IN  /\ th \in Header /\ th.checksum = Checksum(th)
               /\ th.message_type = type /\ th.payload_length = n % PayloadMod
               /\ th.id = id /\ th.timestamp = ts /\ th.channel = channel
<1> DEFINE zero == HeaderOf(0, 2, type, channel, n % PayloadMod, id, ts)
           c == Checksum(zero)
           th == HeaderOf(c, 2, type, channel, n % PayloadMod, id, ts)
<1>1. n % PayloadMod \in 0 .. PayloadMod - 1
  BY Widths, DivMod
<1>2. /\ zero.version = 2 /\ zero.message_type = type /\ zero.channel = channel
      /\ zero.payload_length = n % PayloadMod /\ zero.id = id /\ zero.timestamp = ts
  BY DEF HeaderOf
<1>3. c \in 0 .. Byte - 1
  <2>1. /\ type \in Nat /\ channel \in Nat /\ n % PayloadMod \in Nat
        /\ id \in Nat /\ ts \in Nat
    BY <1>1
  <2> HIDE DEF zero
  <2>2. Checksum(zero) \in 0 .. Byte - 1
    BY <1>2, <2>1, ChecksumIsByte
  <2> QED BY <2>2
<1>4. Checksum(th) = c
  BY DEF Checksum, HeaderOf
<1>5. HeaderCreate(id, type, channel, n, ts) = th
  BY DEF HeaderCreate, ChecksumSet, HeaderOf, TR_UDP_PROTOCOL_VERSION
<1> HIDE DEF c
<1>6. th \in Header
  <2>1. 2 \in 0 .. Nibble - 1 /\ type \in 0 .. Nibble - 1
    BY Widths
  <2> QED BY <1>1, <1>3, <2>1 DEF Header, HeaderOf
<1>7. /\ th.checksum = c /\ th.message_type = type /\ th.payload_length = n % PayloadMod
      /\ th.id = id /\ th.timestamp = ts /\ th.channel = channel
  BY DEF HeaderOf
<1> QED BY <1>4, <1>5, <1>6, <1>7
\* A packet of a length and a header that was made for that length.
LEMMA MadeRight ==
    ASSUME NEW id \in 0 .. Word - 1, NEW type \in 0 .. 5, NEW channel \in 0 .. Nibble - 1,
           NEW n \in Nat, NEW ts \in 0 .. Word - 1, NEW p,
           p = [length |-> HeaderLength + n, header |-> HeaderCreate(id, type, channel, n, ts)]
    PROVE  /\ RightPacket(p) /\ p.header.message_type = type
           /\ p.header.timestamp = ts /\ p.header.id = id
<1> DEFINE th == HeaderCreate(id, type, channel, n, ts)
<1>1. /\ th \in Header /\ th.checksum = Checksum(th)
      /\ th.message_type = type /\ th.payload_length = n % PayloadMod
      /\ th.id = id /\ th.timestamp = ts
  BY HeaderCreateRight, SMTT(30)
<1> HIDE DEF th
<1>2. p = [length |-> HeaderLength + n, header |-> th]
  BY DEF th
<1>3. PICK l \in Nat : l = HeaderLength + n /\ l >= HeaderLength /\ l - HeaderLength = n
  BY Widths
<1>4. p.length = l /\ p.header = th /\ p \in Packet
  BY <1>1, <1>2, <1>3 DEF Packet
<1> QED BY <1>1, <1>3, <1>4 DEF RightPacket

LEMMA DataRight ==
    ASSUME NEW id \in 0 .. Word - 1, NEW n \in Nat, NEW ts \in 0 .. Word - 1
    PROVE  LET p == DATAcreateNew(id, 0, n, ts)
           IN  /\ RightPacket(p) /\ p.header.message_type = TRU_DATA
               /\ p.header.timestamp = ts
<1>1. 0 \in 0 .. Nibble - 1 /\ TRU_DATA \in 0 .. 5
  BY Widths DEF TRU_DATA
<1>2. DATAcreateNew(id, 0, n, ts)
        = [length |-> HeaderLength + n, header |-> HeaderCreate(id, TRU_DATA, 0, n, ts)]
  BY DEF DATAcreateNew, WithData
<1> QED BY <1>1, <1>2, MadeRight

LEMMA PingRight ==
    ASSUME NEW id \in 0 .. Word - 1, NEW n \in Nat, NEW ts \in 0 .. Word - 1
    PROVE  LET p == PINGcreateNew(id, 0, n, ts)
           IN  /\ RightPacket(p) /\ p.header.message_type = TRU_PING
               /\ p.header.timestamp = ts
<1>1. 0 \in 0 .. Nibble - 1 /\ TRU_PING \in 0 .. 5
  BY Widths DEF TRU_PING
<1>2. PINGcreateNew(id, 0, n, ts)
        = [length |-> HeaderLength + n, header |-> HeaderCreate(id, TRU_PING, 0, n, ts)]
  BY DEF PINGcreateNew, WithData
<1> QED BY <1>1, <1>2, MadeRight

LEMMA ResetRight ==
    ASSUME NEW id \in 0 .. Word - 1, NEW ts \in 0 .. Word - 1
    PROVE  LET p == RESETcreateNew(id, 0, ts)
           IN  /\ RightPacket(p) /\ p.header.message_type = TRU_RESET
               /\ p.header.timestamp = ts
<1>1. 0 \in 0 .. Nibble - 1 /\ TRU_RESET \in 0 .. 5 /\ HeaderLength + 0 = HeaderLength
  BY Widths DEF TRU_RESET
<1>2. RESETcreateNew(id, 0, ts)
        = [length |-> HeaderLength + 0, header |-> HeaderCreate(id, TRU_RESET, 0, 0, ts)]
  BY <1>1 DEF RESETcreateNew
<1> QED BY <1>1, <1>2, MadeRight

LEMMA AnswerRight ==
    ASSUME NEW p \in Packet, NEW type \in 0 .. 5, NEW n \in Nat
    PROVE  LET a == Answer(p, type, n)
           IN  /\ RightPacket(a) /\ a.header.message_type = type
               /\ a.header.timestamp = p.header.timestamp
<1>1. /\ p.header.id \in 0 .. Word - 1 /\ p.header.channel \in 0 .. Nibble - 1
      /\ p.header.timestamp \in 0 .. Word - 1
  BY DEF Packet, Header
<1>2. Answer(p, type, n)
        = [length |-> HeaderLength + n,
           header |-> HeaderCreate(p.header.id, type, p.header.channel, n, p.header.timestamp)]
  BY DEF Answer
<1> QED BY <1>1, <1>2, MadeRight, SMTT(30)

LEMMA AnswersRight ==
    ASSUME NEW p \in Packet
    PROVE  /\ LET a == ACKcreateNew(p)
              IN  /\ RightPacket(a) /\ a.header.message_type = TRU_ACK
                  /\ a.header.timestamp = p.header.timestamp
           /\ LET a == ACKtoRESETcreateNew(p)
              IN  /\ RightPacket(a) /\ a.header.message_type = TRU_ACK_RESET
                  /\ a.header.timestamp = p.header.timestamp
           /\ LET a == ACKtoPINGcreateNew(p)
              IN  /\ RightPacket(a) /\ a.header.message_type = TRU_ACK_PING
                  /\ a.header.timestamp = p.header.timestamp
<1>1. TRU_ACK \in 0 .. 5 /\ TRU_ACK_RESET \in 0 .. 5 /\ TRU_ACK_PING \in 0 .. 5
  BY DEF TRU_ACK, TRU_ACK_RESET, TRU_ACK_PING
<1>2. GetDataLength(p) \in Nat
  BY DEF GetDataLength, Packet, Header
<1>3. 0 \in Nat
  OBVIOUS
<1> HIDE DEF TRU_ACK, TRU_ACK_RESET, TRU_ACK_PING
<1>4. ACKcreateNew(p) = Answer(p, TRU_ACK, 0)
      /\ ACKtoRESETcreateNew(p) = Answer(p, TRU_ACK_RESET, 0)
      /\ ACKtoPINGcreateNew(p) = Answer(p, TRU_ACK_PING, GetDataLength(p))
  BY DEF ACKcreateNew, ACKtoRESETcreateNew, ACKtoPINGcreateNew
<1> QED BY <1>1, <1>2, <1>3, <1>4, AnswerRight

\* trudpPacketUpdateTimestamp
LEMMA UpdateRight ==
    ASSUME NEW p, RightPacket(p), NEW ts \in 0 .. Word - 1
    PROVE  LET q == UpdateTimestamp(p, ts)
           IN  /\ RightPacket(q) /\ q.header.timestamp = ts
               /\ q.header.message_type = p.header.message_type
<1>1. p \in Packet
  BY DEF RightPacket
<1>2. PICK l \in Nat, th \in Header : p = [length |-> l, header |-> th]
  BY <1>1 DEF Packet
<1>3. /\ th.version \in 0 .. Nibble - 1 /\ th.message_type \in 0 .. Nibble - 1
      /\ th.channel \in 0 .. Nibble - 1 /\ th.payload_length \in 0 .. PayloadMod - 1
      /\ th.id \in 0 .. Word - 1
      /\ th = HeaderOf(th.checksum, th.version, th.message_type, th.channel,
                       th.payload_length, th.id, th.timestamp)
  BY DEF Header, HeaderOf
<1> DEFINE New(c) == HeaderOf(c, th.version, th.message_type, th.channel,
                              th.payload_length, th.id, ts)
           c == Checksum([th EXCEPT !.timestamp = ts])
<1>4. c = Checksum(New(th.checksum)) /\ c = Checksum(New(c))
  BY <1>3 DEF Checksum, HeaderOf
<1>5. c \in 0 .. Byte - 1
  <2> DEFINE nh == New(th.checksum)
  <2>1. /\ nh.version \in Nat /\ nh.message_type \in Nat /\ nh.channel \in Nat
        /\ nh.payload_length \in Nat /\ nh.id \in Nat /\ nh.timestamp \in Nat
    BY <1>3 DEF HeaderOf
  <2> HIDE DEF nh
  <2>2. Checksum(nh) \in 0 .. Byte - 1
    BY <2>1, ChecksumIsByte
  <2> QED BY <1>4, <2>2 DEF nh
<1>6. UpdateTimestamp(p, ts) = [length |-> l, header |-> New(c)]
  <2>1. [th EXCEPT !.timestamp = ts] = New(th.checksum)
    BY <1>3 DEF HeaderOf
  <2> HIDE DEF c
  <2>2. [New(th.checksum) EXCEPT !.checksum = c] = New(c)
    BY DEF HeaderOf
  <2> HIDE DEF New
  <2>3. ChecksumSet([th EXCEPT !.timestamp = ts]) = New(c)
    BY <2>1, <2>2 DEF ChecksumSet, c
  <2>4. UpdateTimestamp(p, ts) = [p EXCEPT !.header = ChecksumSet([th EXCEPT !.timestamp = ts])]
    BY <1>2 DEF UpdateTimestamp
  <2>5. [p EXCEPT !.header = New(c)] = [length |-> l, header |-> New(c)]
    BY <1>2
  <2> QED BY <2>3, <2>4, <2>5
<1> HIDE DEF c
<1>7. New(c) \in Header
  BY <1>3, <1>5 DEF Header, HeaderOf
<1>8. /\ New(c).checksum = c /\ New(c).timestamp = ts
      /\ New(c).message_type = th.message_type /\ New(c).payload_length = th.payload_length
  BY DEF HeaderOf
<1> HIDE DEF New
<1>9. /\ l >= HeaderLength /\ th.payload_length = (l - HeaderLength) % PayloadMod
      /\ p.header.message_type = th.message_type
  BY <1>2 DEF RightPacket
<1>10. PICK q : q = UpdateTimestamp(p, ts)
  OBVIOUS
<1>11. q.length = l /\ q.header = New(c) /\ q \in Packet
  BY <1>6, <1>7, <1>10 DEF Packet
<1> QED BY <1>4, <1>8, <1>9, <1>10, <1>11 DEF RightPacket
-----------------------------------------------------------------------------
\* A right packet passes trudpPacketCheck exactly when payload_length holds the
\* whole length, and no damage to one byte of its header goes unseen.
LEMMA CheckRight ==
    ASSUME NEW p, RightPacket(p)
    PROVE  Check(p) <=> p.length < HeaderLength + PayloadMod
<1>1. PICK m \in Nat : m = PayloadMod /\ m > 0
  BY Widths
<1>2. p.length \in Nat /\ p.length >= HeaderLength /\ HeaderLength \in Nat
  BY Widths DEF RightPacket, Packet
<1>3. PICK n \in Nat : n = p.length - HeaderLength /\ p.length = HeaderLength + n
  BY <1>2
<1>4. n = n % m <=> n < m
  <2>1. n % m \in 0 .. m - 1
    BY <1>1, DivMod
  <2>2. n < m => n % m = n
    BY <1>1, ModSmall
  <2> QED BY <1>1, <2>1, <2>2
<1>5. Check(p) <=> n = n % m
  BY <1>1, <1>3 DEF Check, ChecksumCheck, RightPacket
<1> QED BY <1>1, <1>2, <1>3, <1>4, <1>5

LEMMA NibblePair ==
    ASSUME NEW x \in 0 .. Byte - 1
    PROVE  /\ x % Nibble \in 0 .. Nibble - 1 /\ x \div Nibble \in 0 .. Nibble - 1
           /\ (x % Nibble) + Nibble * (x \div Nibble) = x
<1>1. PICK n \in Nat : n = Nibble /\ n > 5 /\ Byte = n * n
  BY Widths DEF Byte
<1>2. x \in Nat /\ x < n * n
  BY <1>1
<1>3. PICK q \in Nat, r \in 0 .. n - 1 : q = x \div n /\ r = x % n /\ x = n * q + r
  BY <1>1, <1>2, DivMod, DivNat
<1>4. q < n
  <2>1. n * q < n * n
    BY <1>2, <1>3
  <2> QED BY <1>1, <2>1
<1> QED BY <1>1, <1>3, <1>4

LEMMA PairNibbles ==
    ASSUME NEW v \in 0 .. Nibble - 1, NEW t \in 0 .. Nibble - 1
    PROVE  v + Nibble * t \in 0 .. Byte - 1
<1>1. PICK n \in Nat : n = Nibble /\ n > 5 /\ Byte = n * n
  BY Widths DEF Byte
<1>2. n * t <= n * (n - 1)
  BY <1>1
<1>3. n * (n - 1) = n * n - n /\ n * t \in Nat
  BY <1>1
<1> QED BY <1>1, <1>2, <1>3

\* The damaged headers, each with the sum its checksum should have.
LEMMA ChecksumOf ==
    ASSUME NEW c, NEW v \in Nat, NEW t \in Nat, NEW ch \in Nat, NEW l \in Nat,
           NEW i \in Nat, NEW ts \in Nat
    PROVE  /\ Checksum(HeaderOf(c, v, t, ch, l, i, ts))
                = ((v + Nibble * t) + ByteSum[ch + Nibble * l] + ByteSum[i] + ByteSum[ts]) % Byte
           /\ HeaderOf(c, v, t, ch, l, i, ts).checksum = c
           /\ v + Nibble * t \in Nat /\ ByteSum[ch + Nibble * l] \in Nat
           /\ ByteSum[i] \in Nat /\ ByteSum[ts] \in Nat
<1>1. PICK n \in Nat : n = Nibble
  BY Widths
<1>2. n * t \in Nat /\ n * l \in Nat
  BY <1>1
<1>3. v + n * t \in Nat /\ ch + n * l \in Nat
  BY <1>2
<1>4. ByteSum[ch + n * l] \in Nat /\ ByteSum[i] \in Nat /\ ByteSum[ts] \in Nat
  BY <1>3, ByteSumIs
<1>5. Checksum(HeaderOf(c, v, t, ch, l, i, ts))
        = (v + Nibble * t + ByteSum[ch + Nibble * l] + ByteSum[i] + ByteSum[ts]) % Byte
  BY DEF Checksum, HeaderOf
<1>6. HeaderOf(c, v, t, ch, l, i, ts).checksum = c
  BY DEF HeaderOf
<1> QED BY <1>1, <1>3, <1>4, <1>5, <1>6

LEMMA DamageUnfits ==
    ASSUME NEW h \in Header, h.checksum = Checksum(h), NEW b \in 1 .. Byte - 1,
           NEW th \in OneByteChanged(h, b)
    PROVE  th.checksum # Checksum(th)
<1>1. PICK c \in 0 .. Byte - 1, v \in 0 .. Nibble - 1, t \in 0 .. Nibble - 1,
           ch \in 0 .. Nibble - 1, l \in 0 .. PayloadMod - 1,
           i \in 0 .. Word - 1, ts \in 0 .. Word - 1 :
               /\ h.checksum = c /\ h.version = v /\ h.message_type = t /\ h.channel = ch
               /\ h.payload_length = l /\ h.id = i /\ h.timestamp = ts
               /\ h = HeaderOf(c, v, t, ch, l, i, ts)
  BY DEF Header, HeaderOf
<1> DEFINE first == ((v + Nibble * t) + b) % Byte
           low == l % Nibble
           high == l \div Nibble
           second == ((ch + Nibble * low) + b) % Byte
           third == (high + b) % Byte
           LowByte(w) == (w - (w % Byte)) + (((w % Byte) + b) % Byte)
           x1 == v + Nibble * t
           x2 == ByteSum[ch + Nibble * l]
           x3 == ByteSum[i]
           x4 == ByteSum[ts]
<1>2. \/ th = HeaderOf((c + b) % Byte, v, t, ch, l, i, ts)
      \/ th = HeaderOf(c, first % Nibble, first \div Nibble, ch, l, i, ts)
      \/ th = HeaderOf(c, v, t, second % Nibble, (Nibble * high) + (second \div Nibble), i, ts)
      \/ th = HeaderOf(c, v, t, ch, (Nibble * third) + low, i, ts)
      \/ th = HeaderOf(c, v, t, ch, l, LowByte(i), ts)
      \/ th = HeaderOf(c, v, t, ch, l, i, LowByte(ts))
  <2>1. \/ th = [h EXCEPT !.checksum = (c + b) % Byte]
        \/ th = [h EXCEPT !.version = first % Nibble, !.message_type = first \div Nibble]
        \/ th = [h EXCEPT !.channel = second % Nibble,
                          !.payload_length = (Nibble * high) + (second \div Nibble)]
        \/ th = [h EXCEPT !.payload_length = (Nibble * third) + low]
        \/ th = [h EXCEPT !.id = LowByte(i)]
        \/ th = [h EXCEPT !.timestamp = LowByte(ts)]
    BY <1>1, Zenon DEF OneByteChanged
  <2> HIDE DEF first, second, third, low, high, LowByte
  <2>2. h = HeaderOf(c, v, t, ch, l, i, ts)
    BY <1>1
  <2> DEFINE v2 == first % Nibble
             t2 == first \div Nibble
             c2 == second % Nibble
             l2 == (Nibble * high) + (second \div Nibble)
             k == HeaderOf(c, v2, t, ch, l, i, ts)
             g == HeaderOf(c, v, t, c2, l, i, ts)
  <2> HIDE DEF v2, t2, c2, l2
  <2>3. [h EXCEPT !.checksum = (c + b) % Byte] = HeaderOf((c + b) % Byte, v, t, ch, l, i, ts)
    BY <2>2 DEF HeaderOf
  <2>4. [h EXCEPT !.payload_length = (Nibble * third) + low]
          = HeaderOf(c, v, t, ch, (Nibble * third) + low, i, ts)
    BY <2>2 DEF HeaderOf
  <2>5. [h EXCEPT !.id = LowByte(i)] = HeaderOf(c, v, t, ch, l, LowByte(i), ts)
    BY <2>2 DEF HeaderOf
  <2>6. [h EXCEPT !.timestamp = LowByte(ts)] = HeaderOf(c, v, t, ch, l, i, LowByte(ts))
    BY <2>2 DEF HeaderOf
  <2>7. [h EXCEPT !.version = v2, !.message_type = t2] = HeaderOf(c, v2, t2, ch, l, i, ts)
    <3>1. [h EXCEPT !.version = v2] = k
      BY <2>2 DEF HeaderOf
    <3>2. [k EXCEPT !.message_type = t2] = HeaderOf(c, v2, t2, ch, l, i, ts)
      BY DEF HeaderOf
    <3> HIDE DEF k
    <3> QED BY <3>1, <3>2, Zenon
  <2>8. [h EXCEPT !.channel = c2, !.payload_length = l2] = HeaderOf(c, v, t, c2, l2, i, ts)
    <3>1. [h EXCEPT !.channel = c2] = g
      BY <2>2 DEF HeaderOf
    <3>2. [g EXCEPT !.payload_length = l2] = HeaderOf(c, v, t, c2, l2, i, ts)
      BY DEF HeaderOf
    <3> HIDE DEF g
    <3> QED BY <3>1, <3>2, Zenon
  <2> QED BY <2>1, <2>3, <2>4, <2>5, <2>6, <2>7, <2>8, Zenon DEF v2, t2, c2, l2
<1>3. PICK m \in Nat, n \in Nat : m = Byte /\ n = Nibble /\ m > 1 /\ n > 5
  BY Widths
<1>4. /\ v \in Nat /\ t \in Nat /\ ch \in Nat /\ l \in Nat /\ i \in Nat /\ ts \in Nat
  OBVIOUS
<1>5. /\ x1 \in 0 .. m - 1 /\ x2 \in Nat /\ x3 \in Nat /\ x4 \in Nat
      /\ c = (x1 + x2 + x3 + x4) % m
  <2>0. Checksum(h) = (x1 + x2 + x3 + x4) % Byte
    BY <1>1 DEF Checksum
  <2>1. x2 \in Nat /\ x3 \in Nat /\ x4 \in Nat
    BY <1>1, <1>4, ChecksumOf
  <2>2. x1 \in 0 .. Byte - 1
    BY PairNibbles
  <2> HIDE DEF x1, x2, x3, x4
  <2> QED BY <1>1, <1>3, <2>0, <2>1, <2>2
<1>6. CASE th = HeaderOf((c + b) % Byte, v, t, ch, l, i, ts)
  <2>1. (c + b) % Byte # c
    <3>1. 0 \in Nat
      OBVIOUS
    <3> QED BY <3>1, ByteChanges
  <2>2. th.checksum = (c + b) % Byte /\ Checksum(th) = c
    BY <1>3, <1>4, <1>5, <1>6, ChecksumOf
  <2> QED BY <2>1, <2>2
<1>7. CASE th = HeaderOf(c, first % Nibble, first \div Nibble, ch, l, i, ts)
  <2>1. PICK r \in Nat : r = x2 + x3 + x4
    BY <1>5
  <2>2. /\ first \in 0 .. Byte - 1
        /\ (r + first) % Byte # (r + x1) % Byte
    BY <1>3, <1>5, ByteChanges
  <2> HIDE DEF first, x1, x2, x3, x4
  <2>3. /\ first % Nibble \in Nat /\ first \div Nibble \in Nat
        /\ (first % Nibble) + Nibble * (first \div Nibble) = first
    BY <2>2, NibblePair
  <2>4. th.checksum = c /\ Checksum(th) = (first + x2 + x3 + x4) % m
    <3>1. PICK fv \in Nat, ft \in Nat : fv = first % Nibble /\ ft = first \div Nibble
      BY <2>3
    <3>2. /\ Checksum(HeaderOf(c, fv, ft, ch, l, i, ts))
               = ((fv + Nibble * ft) + x2 + x3 + x4) % Byte
          /\ HeaderOf(c, fv, ft, ch, l, i, ts).checksum = c
      BY <1>4, ChecksumOf DEF x2, x3, x4
    <3> QED BY <1>3, <1>7, <2>3, <3>1, <3>2
  <2>5. first + x2 + x3 + x4 = r + first /\ x1 + x2 + x3 + x4 = r + x1
    BY <1>3, <1>5, <2>1, <2>2
  <2> QED BY <1>3, <1>5, <2>2, <2>4, <2>5
<1>8. /\ low \in 0 .. Nibble - 1 /\ high \in 0 .. Byte - 1
      /\ ch + Nibble * low \in 0 .. Byte - 1
      /\ ch + Nibble * l = (ch + Nibble * low) + Byte * high
  BY Nibbles
<1>9. x2 = (ch + Nibble * low) + high
  BY <1>8, TwoBytes
<1>10. PICK s \in Nat : s = x1 + x3 + x4
  BY <1>5
<1>11. CASE th = HeaderOf(c, v, t, second % Nibble, (Nibble * high) + (second \div Nibble), i, ts)
  <2> DEFINE x == ch + Nibble * low
             pl == (Nibble * high) + (second \div Nibble)
             word == (second % Nibble) + Nibble * pl
  <2>1. x \in 0 .. Byte - 1 /\ high \in Nat
    BY <1>8
  <2>2. PICK r \in Nat : r = s + high
    BY <1>10, <2>1
  <2>3. second \in 0 .. Byte - 1 /\ (r + second) % Byte # (r + x) % Byte
    BY <2>1, ByteChanges
  <2> HIDE DEF second, x, low, high, x1, x2, x3, x4
  <2>4. /\ second % Nibble \in 0 .. Nibble - 1 /\ second \div Nibble \in 0 .. Nibble - 1
        /\ (second % Nibble) + Nibble * (second \div Nibble) = second
    BY <2>3, NibblePair
  <2>5. pl \in Nat /\ word = second + Byte * high
    <3>1. PICK q \in 0 .. n - 1, r1 \in 0 .. n - 1 :
             q = second \div n /\ r1 = second % n /\ second = r1 + n * q
      BY <1>3, <2>4
    <3>2. pl = n * high + q /\ n * high \in Nat
      BY <1>3, <2>1, <3>1
    <3>3. n * pl = n * (n * high) + n * q
      BY <3>2
    <3>4. n * (n * high) = (n * n) * high
      BY <2>1
    <3>5. word = r1 + n * (n * high) + n * q
      <4>1. word = r1 + n * pl
        BY <1>3, <3>1
      <4>2. PICK u \in Nat, w \in Nat : u = n * (n * high) /\ w = n * q
        BY <2>1, <3>1
      <4>3. n * pl = u + w
        BY <3>3, <4>2
      <4> HIDE DEF word, pl
      <4> QED BY <4>1, <4>2, <4>3
    <3>6. n * n = Byte
      BY <1>3 DEF Byte
    <3>7. PICK u \in Nat, w \in Nat : u = n * (n * high) /\ w = n * q
      BY <2>1, <3>1
    <3>8. word = u + (r1 + w)
      <4> HIDE DEF word
      <4> QED BY <3>5, <3>7
    <3>9. second = r1 + w /\ u = Byte * high
      BY <3>1, <3>4, <3>6, <3>7
    <3>10. word = second + Byte * high
      <4> HIDE DEF word
      <4> QED BY <3>1, <3>7, <3>8, <3>9
    <3>11. pl \in Nat
      <4> HIDE DEF pl
      <4> QED BY <3>1, <3>2
    <3> QED BY <3>10, <3>11
  <2>6. ByteSum[word] = second + high
    <3>1. high \in 0 .. Byte - 1
      BY <1>8
    <3> HIDE DEF word
    <3> QED BY <2>3, <2>5, <3>1, TwoBytes
  <2>7. th.checksum = c /\ Checksum(th) = (x1 + (second + high) + x3 + x4) % m
    <3>1. /\ second % Nibble \in Nat /\ pl \in Nat
          /\ th = HeaderOf(c, v, t, second % Nibble, pl, i, ts)
      BY <1>11, <2>4, <2>5
    <3> HIDE DEF pl
    <3>2. th.checksum = c /\ Checksum(th) = (x1 + ByteSum[(second % Nibble) + Nibble * pl] + x3 + x4) % m
      BY <1>3, <1>4, <3>1, ChecksumOf DEF x1, x3, x4
    <3> QED BY <2>6, <3>2
  <2>8. x1 + (second + high) + x3 + x4 = r + second /\ x1 + x2 + x3 + x4 = r + x
    <3>1. x2 = x + high /\ x \in Nat /\ second \in Nat
      BY <1>9, <2>1, <2>3 DEF x
    <3> QED BY <1>5, <1>10, <2>1, <2>2, <3>1
  <2> QED BY <1>3, <1>5, <2>3, <2>7, <2>8
<1>12. CASE th = HeaderOf(c, v, t, ch, (Nibble * third) + low, i, ts)
  <2> DEFINE x == ch + Nibble * low
             pl == (Nibble * third) + low
  <2>1. x \in 0 .. Byte - 1
    BY <1>8
  <2>2. PICK r \in Nat : r = s + x
    BY <1>10, <2>1
  <2>3. third \in 0 .. Byte - 1 /\ (r + third) % Byte # (r + high) % Byte
    BY <1>8, ByteChanges
  <2> HIDE DEF third, x, low, high, x1, x2, x3, x4
  <2>4. pl \in Nat /\ ch + Nibble * pl = x + Byte * third
    <3>1. PICK k \in 0 .. n - 1 : k = low
      BY <1>3, <1>8
    <3>2. PICK d \in Nat : d = third
      BY <2>3
    <3>3. pl = n * d + k /\ n * d \in Nat
      BY <1>3, <3>1, <3>2
    <3>4. n * pl = n * (n * d) + n * k
      BY <3>3
    <3>5. n * (n * d) = (n * n) * d /\ n * n = Byte
      BY <1>3 DEF Byte
    <3>6. PICK u \in Nat, w \in Nat : u = n * (n * d) /\ w = n * k
      BY <3>1
    <3>7. n * pl = u + w /\ u = Byte * third /\ x = ch + w
      BY <1>3, <3>1, <3>2, <3>4, <3>5, <3>6 DEF x
    <3>8. pl \in Nat
      <4> HIDE DEF pl
      <4> QED BY <3>1, <3>3
    <3> HIDE DEF pl
    <3>9. ch + n * pl = x + Byte * third
      BY <1>4, <3>6, <3>7
    <3> QED BY <1>3, <3>8, <3>9
  <2>5. ByteSum[ch + Nibble * pl] = x + third
    <3> HIDE DEF pl
    <3> QED BY <2>1, <2>3, <2>4, TwoBytes
  <2>6. th.checksum = c /\ Checksum(th) = (x1 + (x + third) + x3 + x4) % m
    <3>1. pl \in Nat /\ th = HeaderOf(c, v, t, ch, pl, i, ts)
      BY <1>12, <2>4
    <3> HIDE DEF pl
    <3>2. th.checksum = c /\ Checksum(th) = (x1 + ByteSum[ch + Nibble * pl] + x3 + x4) % m
      BY <1>3, <1>4, <3>1, ChecksumOf DEF x1, x3, x4
    <3> QED BY <2>5, <3>2
  <2>7. x1 + (x + third) + x3 + x4 = r + third /\ x1 + x2 + x3 + x4 = r + high
    <3>1. x2 = x + high /\ x \in Nat /\ third \in Nat /\ high \in Nat
      BY <1>8, <1>9, <2>1, <2>3 DEF x
    <3> QED BY <1>5, <1>10, <2>1, <2>2, <3>1
  <2> QED BY <1>3, <1>5, <2>3, <2>6, <2>7
<1>13. ASSUME NEW w \in Nat
       PROVE  LowByte(w) \in Nat
              /\ \A rest \in Nat : (rest + ByteSum[LowByte(w)]) % Byte # (rest + ByteSum[w]) % Byte
  <2>1. PICK q \in Nat, x \in 0 .. m - 1 : q = w \div m /\ x = w % m /\ w = m * q + x
    <3>1. w \in Int /\ m > 0
      BY <1>3
    <3>2. w % m \in 0 .. m - 1 /\ w = m * (w \div m) + (w % m)
      BY <3>1, DivMod
    <3>3. w \div m \in Nat
      BY <3>1, DivNat
    <3> QED BY <3>2, <3>3
  <2>2. PICK y \in 0 .. m - 1 : y = (x + b) % m
    BY <1>3, <2>1, DivMod
  <2>3. LowByte(w) = (w - x) + y /\ w - x \in Nat
    <3>1. PICK u \in Nat : u = m * q
      BY <2>1
    <3>2. w = u + x
      BY <2>1, <3>1
    <3>3. w % Byte = x /\ (x + b) % Byte = y
      BY <1>3, <2>1, <2>2
    <3>4. LowByte(w) = (w - x) + y
      BY <3>3
    <3>5. w - x \in Nat
      <4> HIDE DEF LowByte
      <4> QED BY <3>1, <3>2
    <3> QED BY <3>4, <3>5
  <2>4. LowByte(w) \in Nat
    <3> HIDE DEF LowByte
    <3> QED BY <2>2, <2>3
  <2> QED BY <2>4, LowByteChanges
<1>14. CASE th = HeaderOf(c, v, t, ch, l, LowByte(i), ts)
  <2>1. PICK r \in Nat : r = x1 + x2 + x4
    BY <1>5
  <2> HIDE DEF LowByte, x1, x2
  <2>2. LowByte(i) \in Nat /\ (r + ByteSum[LowByte(i)]) % Byte # (r + x3) % Byte
    BY <1>4, <1>13
  <2>3. /\ th.checksum = c
        /\ Checksum(th) = (x1 + x2 + ByteSum[LowByte(i)] + x4) % m
        /\ ByteSum[LowByte(i)] \in Nat
    BY <1>3, <1>4, <1>14, <2>2, ChecksumOf DEF x1, x2
  <2> HIDE DEF x3, x4
  <2>4. x1 + x2 + ByteSum[LowByte(i)] + x4 = r + ByteSum[LowByte(i)]
        /\ x1 + x2 + x3 + x4 = r + x3
    BY <1>5, <2>1, <2>3
  <2> QED BY <1>3, <1>5, <2>2, <2>3, <2>4
<1>15. CASE th = HeaderOf(c, v, t, ch, l, i, LowByte(ts))
  <2>1. PICK r \in Nat : r = x1 + x2 + x3
    BY <1>5
  <2> HIDE DEF LowByte, x1, x2
  <2>2. LowByte(ts) \in Nat /\ (r + ByteSum[LowByte(ts)]) % Byte # (r + x4) % Byte
    BY <1>4, <1>13
  <2>3. /\ th.checksum = c
        /\ Checksum(th) = (x1 + x2 + x3 + ByteSum[LowByte(ts)]) % m
        /\ ByteSum[LowByte(ts)] \in Nat
    BY <1>3, <1>4, <1>15, <2>2, ChecksumOf DEF x1, x2
  <2> HIDE DEF x3, x4
  <2>4. x1 + x2 + x3 + ByteSum[LowByte(ts)] = r + ByteSum[LowByte(ts)]
        /\ x1 + x2 + x3 + x4 = r + x4
    BY <1>5, <2>1, <2>3
  <2> QED BY <1>3, <1>5, <2>2, <2>3, <2>4
<1> HIDE DEF first, second, third, low, high, LowByte
<1> QED BY <1>2, <1>6, <1>7, <1>11, <1>12, <1>14, <1>15

LEMMA DamageSeen ==
    ASSUME NEW p, RightPacket(p), NEW b \in 1 .. Byte - 1,
           NEW th \in OneByteChanged(p.header, b)
    PROVE  ~ Check([p EXCEPT !.header = th])
<1>1. p \in Packet /\ p.header \in Header /\ p.header.checksum = Checksum(p.header)
  BY DEF RightPacket, Packet
<1>2. th.checksum # Checksum(th)
  BY <1>1, DamageUnfits
<1>3. [p EXCEPT !.header = th].header = th
  BY <1>1 DEF Packet
<1> QED BY <1>2, <1>3 DEF Check, ChecksumCheck
-----------------------------------------------------------------------------
(***************************************************************************)
(* The inductive invariant.  Whatever is in a queue or on its way was made  *)
(* right and carries the clock of one host at the moment in its history: of *)
(* its sender, or, in an answer, of the host it goes back to.  The middle   *)
(* trip time stays within the clamp, so that its sum with RTT does not wrap.*)
(***************************************************************************)
Stamped(h, p, t) == t \in Int /\ p.header.timestamp = (t + Offset[h]) % Word

Answers == {TRU_ACK, TRU_ACK_RESET, TRU_ACK_PING}

\* whose clock a datagram shows
Owner(d) == IF d.packet.header.message_type \in Answers THEN d.to ELSE Peer(d.to)

RightDatagram(d) ==
    /\ d.to \in Hosts
    /\ RightPacket(d.packet)
    /\ Stamped(Owner(d), d.packet, d.stamped)

RightWire(w) == \A d \in w : RightDatagram(d)

OwnData(h, p, t) ==
    RightPacket(p) /\ p.header.message_type = TRU_DATA /\ Stamped(h, p, t)

SendEntry(h) ==
    {e \in [packet : Packet, expected : Int, queued : Int, stamped : Int] :
        OwnData(h, e.packet, e.stamped) /\ e.expected - e.queued \in RTT .. MAX_RTT}

WriteEntry(h) ==
    {e \in [packet : Packet, stamped : Int] : OwnData(h, e.packet, e.stamped)}

SendQueues(f) ==
    f = [h \in Hosts |-> f[h]] /\ \A h \in Hosts : f[h] \in Seq(SendEntry(h))
WriteQueues(f) ==
    f = [h \in Hosts |-> f[h]] /\ \A h \in Hosts : f[h] \in Seq(WriteEntry(h))

Measures(tt, middle, ms) ==
    /\ tt \in [Hosts -> Int]
    /\ middle \in [Hosts -> 0 .. MAX_TRIPTIME_MIDDLE]
    /\ ms \in [Hosts -> [own : BOOLEAN, age : Int]]
    /\ \A h \in Hosts : ms[h].own => tt[h] = ms[h].age % Word

MeasureInv ==
    /\ now \in Int
    /\ RightWire(wire)
    /\ sendId \in [Hosts -> 0 .. Word - 1]
    /\ SendQueues(sendQueue)
    /\ WriteQueues(writeQueue)
    /\ Measures(triptime, triptimeMiddle, measured)

\* There are two hosts, each the other's peer.
LEMMA Peers ==
    ASSUME NEW h \in Hosts
    PROVE  Peer(h) \in Hosts /\ Peer(Peer(h)) = h
<1>1. PICK a \in Hosts, b \in Hosts : a # b /\ Hosts = {a, b}
  BY MeasureAssumption
<1>2. Peer(h) \in Hosts /\ Peer(h) # h
  <2>1. \E g \in Hosts : g # h
    BY <1>1
  <2> QED BY <2>1 DEF Peer
<1>3. Peer(Peer(h)) \in Hosts /\ Peer(Peer(h)) # Peer(h)
  <2>1. \E g \in Hosts : g # Peer(h)
    BY <1>1
  <2> QED BY <2>1 DEF Peer
<1> QED BY <1>1, <1>2, <1>3

LEMMA TimestampIs ==
    ASSUME now \in Int, NEW h \in Hosts
    PROVE  Timestamp(h) \in 0 .. Word - 1 /\ Timestamp(h) = (now + Offset[h]) % Word
<1>1. Offset[h] \in Nat
  BY MeasureAssumption
<1>2. PICK k \in Int : k = now + Offset[h]
  BY <1>1
<1>3. k % Word \in 0 .. Word - 1
  BY Widths, DivMod
<1> QED BY <1>2, <1>3 DEF Timestamp

\* The clamps keep the time until the next retransmission within its limits.
LEMMA ExpectedIs ==
    ASSUME MeasureInv, NEW h \in Hosts
    PROVE  ExpectedTime(h) \in Int /\ ExpectedTime(h) - now \in RTT .. MAX_RTT
<1>1. triptimeMiddle[h] \in 0 .. MAX_TRIPTIME_MIDDLE /\ now \in Int
  BY DEF MeasureInv, Measures
<1>2. /\ RTT \in Nat /\ MAX_RTT \in Nat /\ RTT <= MAX_RTT /\ MAX_TRIPTIME_MIDDLE \in Nat
      /\ MAX_TRIPTIME_MIDDLE + RTT < Word /\ Word \in Nat /\ Word > 0
  BY MeasureAssumption, Widths
<1>3. PICK k \in Nat : k = triptimeMiddle[h] + RTT /\ k >= RTT /\ k < Word
  BY <1>1, <1>2
<1>4. k % Word = k
  BY <1>2, <1>3, ModSmall
<1>5. AtMost(k, MAX_RTT) \in RTT .. MAX_RTT
  BY <1>2, <1>3 DEF AtMost
<1> QED BY <1>1, <1>2, <1>3, <1>4, <1>5 DEF ExpectedTime

LEMMA SendEntryIs ==
    ASSUME MeasureInv, NEW h \in Hosts, NEW p, NEW t, OwnData(h, p, t)
    PROVE  [packet |-> p, expected |-> ExpectedTime(h), queued |-> now, stamped |-> t]
              \in SendEntry(h)
<1>1. ExpectedTime(h) \in Int /\ ExpectedTime(h) - now \in RTT .. MAX_RTT /\ now \in Int
  BY ExpectedIs DEF MeasureInv
<1>2. p \in Packet /\ t \in Int
  BY DEF OwnData, RightPacket, Stamped
<1>3. PICK e : e = [packet |-> p, expected |-> ExpectedTime(h), queued |-> now, stamped |-> t]
  OBVIOUS
<1>4. e \in [packet : Packet, expected : Int, queued : Int, stamped : Int]
      /\ e.packet = p /\ e.stamped = t /\ e.expected - e.queued \in RTT .. MAX_RTT
  BY <1>1, <1>2, <1>3
<1> QED BY <1>3, <1>4 DEF SendEntry

LEMMA WriteEntryIs ==
    ASSUME NEW h \in Hosts, NEW p, NEW t, OwnData(h, p, t)
    PROVE  [packet |-> p, stamped |-> t] \in WriteEntry(h)
<1>1. p \in Packet /\ t \in Int
  BY DEF OwnData, RightPacket, Stamped
<1>2. PICK e : e = [packet |-> p, stamped |-> t]
  OBVIOUS
<1>3. e \in [packet : Packet, stamped : Int] /\ e.packet = p /\ e.stamped = t
  BY <1>1, <1>2
<1> QED BY <1>2, <1>3 DEF WriteEntry

LEMMA QueuesKeep ==
    ASSUME NEW h \in Hosts, NEW f
    PROVE  /\ \A q \in Seq(SendEntry(h)) : SendQueues(f) => SendQueues([f EXCEPT ![h] = q])
           /\ \A q \in Seq(WriteEntry(h)) : WriteQueues(f) => WriteQueues([f EXCEPT ![h] = q])
<1>1. ASSUME NEW q \in Seq(SendEntry(h)), SendQueues(f)
      PROVE  SendQueues([f EXCEPT ![h] = q])
  BY <1>1 DEF SendQueues
<1>2. ASSUME NEW q \in Seq(WriteEntry(h)), WriteQueues(f)
      PROVE  WriteQueues([f EXCEPT ![h] = q])
  BY <1>2 DEF WriteQueues
<1> QED BY <1>1, <1>2

\* A datagram of data, of a PING or of a RESET shows its sender's clock.
LEMMA DatagramRight ==
    ASSUME NEW h \in Hosts, NEW p, RightPacket(p), NEW t, Stamped(h, p, t),
           p.header.message_type \notin Answers
    PROVE  RightDatagram(Datagram(Peer(h), p, t))
<1>1. PICK d : d = Datagram(Peer(h), p, t)
  OBVIOUS
<1>2. d.to = Peer(h) /\ d.packet = p /\ d.stamped = t
  BY <1>1 DEF Datagram
<1>3. Owner(d) = h
  BY <1>2, Peers DEF Owner
<1> QED BY <1>1, <1>2, <1>3, Peers DEF RightDatagram

\* An answer shows the clock of the host that sent what it answers.
LEMMA AnswerDatagramRight ==
    ASSUME NEW d, RightDatagram(d), d.packet.header.message_type \notin Answers,
           NEW a, RightPacket(a), a.header.message_type \in Answers,
           a.header.timestamp = d.packet.header.timestamp
    PROVE  RightDatagram(Datagram(Peer(d.to), a, d.stamped))
<1>1. d.to \in Hosts /\ Stamped(Peer(d.to), d.packet, d.stamped)
  BY DEF RightDatagram, Owner
<1>2. PICK e : e = Datagram(Peer(d.to), a, d.stamped)
  OBVIOUS
<1>3. e.to = Peer(d.to) /\ e.packet = a /\ e.stamped = d.stamped
  BY <1>2 DEF Datagram
<1>4. Owner(e) = Peer(d.to)
  BY <1>3 DEF Owner
<1>5. Stamped(Peer(d.to), a, d.stamped)
  BY <1>1 DEF Stamped
<1> QED BY <1>1, <1>2, <1>3, <1>4, <1>5, Peers DEF RightDatagram
-----------------------------------------------------------------------------
\* _trudpChannelCalculateTriptime, whatever the conversions of the code yield.
LEMMA ToUint32Is ==
    ASSUME NEW n \in Nat
    PROVE  ToUint32(n) \subseteq Nat
<1>1. PICK q \in Nat : q = n \div 2
  BY DivNat
<1>2. PICK w \in Nat : w = Word /\ w > 0
  BY Widths
<1>3. q % w \in Nat /\ w - 1 \in Nat
  BY <1>2, DivMod
<1> QED BY <1>1, <1>2, <1>3 DEF ToUint32

LEMMA MiddleTimesIs ==
    ASSUME NEW middle \in Nat, NEW t \in Nat
    PROVE  MiddleTimes(middle, t) \subseteq 0 .. MAX_TRIPTIME_MIDDLE
<1> DEFINE first == IF middle = START_MIDDLE_TIME \/ t > middle
                    THEN ToUint32(3 * t)
                    ELSE {((middle * 19 + t) % Word) \div 20}
           Raised(m) == IF 2 * m < 3 * t THEN ToUint32(3 * t) ELSE {m}
           raised == UNION {Raised(m) : m \in first}
           Clamped(m) == AtMost(AtMost(m, (t * 10) % Word), MAX_TRIPTIME_MIDDLE)
<1>1. 3 * t \in Nat /\ middle * 19 + t \in Nat /\ t * 10 \in Nat
  OBVIOUS
<1>2. (middle * 19 + t) % Word \in Nat /\ (t * 10) % Word \in Nat
  BY <1>1, Widths, DivMod
<1>3. ((middle * 19 + t) % Word) \div 20 \in Nat
  BY <1>2, DivNat
<1>4. first \subseteq Nat /\ ToUint32(3 * t) \subseteq Nat
  BY <1>1, <1>3, ToUint32Is
<1>5. raised \subseteq Nat
  <2> HIDE DEF first
  <2> QED BY <1>4
<1>6. MAX_TRIPTIME_MIDDLE \in Nat
  BY MeasureAssumption
<1>7. \A m \in Nat : Clamped(m) \in 0 .. MAX_TRIPTIME_MIDDLE
  BY <1>2, <1>6 DEF AtMost
<1>8. MiddleTimes(middle, t) = {Clamped(m) : m \in raised}
  BY DEF MiddleTimes
<1> HIDE DEF raised, Clamped
<1> QED BY <1>5, <1>7, <1>8

\* The clock's offset and its wrap cancel out of the trip time.
LEMMA TripTimeIs ==
    ASSUME MeasureInv, NEW d \in wire
    PROVE  LET t == (Timestamp(d.to) - d.packet.header.timestamp) % Word
           IN  /\ t \in 0 .. Word - 1
               /\ d.packet.header.message_type \in Answers => t = (now - d.stamped) % Word
<1>1. RightDatagram(d) /\ now \in Int
  BY DEF MeasureInv, RightWire
<1>2. PICK w \in Nat : w = Word /\ w > 0
  BY Widths
<1>3. PICK ts \in 0 .. w - 1 : ts = d.packet.header.timestamp
  BY <1>1, <1>2 DEF RightDatagram, RightPacket, Packet, Header
<1>4. PICK o \in Int : o = Offset[d.to]
  BY <1>1, MeasureAssumption DEF RightDatagram
<1>5. Timestamp(d.to) \in 0 .. w - 1 /\ Timestamp(d.to) = (now + o) % w
  BY <1>1, <1>2, <1>4, TimestampIs DEF RightDatagram
<1>6. PICK k \in Int : k = Timestamp(d.to) - ts
  BY <1>2, <1>5
<1>7. k % w \in 0 .. w - 1
  BY <1>2, DivMod
<1>8. ASSUME d.packet.header.message_type \in Answers
      PROVE  k % w = (now - d.stamped) % w
  <2>1. d.stamped \in Int /\ ts = (d.stamped + o) % w
    BY <1>1, <1>2, <1>3, <1>4, <1>8 DEF RightDatagram, Owner, Stamped
  <2>2. PICK a \in Int, b \in Int : a = now + o /\ b = d.stamped + o
    BY <1>1, <2>1
  <2>3. ((a % w) - (b % w)) % w = (a - b) % w
    BY <1>2, ModDiff
  <2>4. a - b = now - d.stamped
    BY <1>1, <2>1, <2>2
  <2> QED BY <1>5, <1>6, <2>1, <2>2, <2>3, <2>4
<1> QED BY <1>2, <1>3, <1>6, <1>7, <1>8

LEMMA TripTimeKeeps ==
    ASSUME MeasureInv, NEW d \in wire, CalculateTriptime(d.to, d),
           d.packet.header.message_type \in Answers \cup {TRU_PING}
    PROVE  Measures(triptime', triptimeMiddle', measured')
<1> DEFINE h == d.to
           t == (Timestamp(h) - d.packet.header.timestamp) % Word
           ms == IF d.packet.header.message_type = TRU_PING THEN NoMeasure
                 ELSE [own |-> TRUE, age |-> now - d.stamped]
<1>1. h \in Hosts /\ d.stamped \in Int /\ now \in Int
  BY DEF MeasureInv, RightWire, RightDatagram, Stamped
<1>2. t \in 0 .. Word - 1
      /\ (d.packet.header.message_type \in Answers => t = (now - d.stamped) % Word)
  BY TripTimeIs
<1>3. ms \in [own : BOOLEAN, age : Int] /\ (ms.own => t = ms.age % Word)
  <2>1. CASE d.packet.header.message_type = TRU_PING
    BY <2>1 DEF NoMeasure
  <2>2. CASE d.packet.header.message_type # TRU_PING
    <3>1. ms = [own |-> TRUE, age |-> now - d.stamped]
          /\ d.packet.header.message_type \in Answers
      BY <2>2
    <3> HIDE DEF ms, t
    <3> QED BY <1>1, <1>2, <3>1
  <2> QED BY <2>1, <2>2
<1>4. PICK m \in MiddleTimes(triptimeMiddle[h], t) :
         triptimeMiddle' = [triptimeMiddle EXCEPT ![h] = m]
  BY DEF CalculateTriptime
<1>5. triptime' = [triptime EXCEPT ![h] = t] /\ measured' = [measured EXCEPT ![h] = ms]
  BY DEF CalculateTriptime
<1>6. triptimeMiddle[h] \in 0 .. MAX_TRIPTIME_MIDDLE /\ Measures(triptime, triptimeMiddle, measured)
  BY <1>1 DEF MeasureInv, Measures
<1>7. m \in 0 .. MAX_TRIPTIME_MIDDLE
  <2>1. t \in Nat /\ triptimeMiddle[h] \in Nat
    BY <1>2, <1>6
  <2> QED BY <1>4, <2>1, MiddleTimesIs
<1> HIDE DEF t, ms, h
<1>8. t \in Int
  BY <1>2
<1> QED BY <1>1, <1>3, <1>4, <1>5, <1>6, <1>7, <1>8 DEF Measures
-----------------------------------------------------------------------------
\* The steps keep the invariant.
LEMMA TypesDiffer ==
    /\ TRU_DATA \notin Answers /\ TRU_PING \notin Answers /\ TRU_RESET \notin Answers
    /\ TRU_ACK \in Answers /\ TRU_ACK_RESET \in Answers /\ TRU_ACK_PING \in Answers
BY DEF Answers, TRU_DATA, TRU_ACK, TRU_RESET, TRU_ACK_RESET, TRU_PING, TRU_ACK_PING

\* _trudpChannelSendPacket, whichever queue the packet goes to
LEMMA SendPacketKeeps ==
    ASSUME MeasureInv, NEW h \in Hosts, NEW sq \in Seq(SendEntry(h)),
           NEW wq \in Seq(WriteEntry(h)), NEW p, NEW t, OwnData(h, p, t),
           NEW D, RightWire(D), SendPacket(h, sq, wq, p, t, D)
    PROVE  RightWire(wire') /\ SendQueues(sendQueue') /\ WriteQueues(writeQueue')
<1> DEFINE e == [packet |-> p, expected |-> ExpectedTime(h), queued |-> now, stamped |-> t]
           w == [packet |-> p, stamped |-> t]
<1>1. SendQueues(sendQueue) /\ WriteQueues(writeQueue)
  BY DEF MeasureInv
<1>2. e \in SendEntry(h) /\ w \in WriteEntry(h)
  BY SendEntryIs, WriteEntryIs
<1>3. RightDatagram(Datagram(Peer(h), p, t))
  BY DatagramRight, TypesDiffer DEF OwnData
<1>4. \/ /\ sendQueue' = [sendQueue EXCEPT ![h] = Append(sq, e)]
         /\ writeQueue' = [writeQueue EXCEPT ![h] = wq]
         /\ wire' = D \cup {Datagram(Peer(h), p, t)}
      \/ /\ sendQueue' = [sendQueue EXCEPT ![h] = sq]
         /\ writeQueue' = [writeQueue EXCEPT ![h] = Append(wq, w)]
         /\ wire' = D
  BY DEF SendPacket, Put
<1> HIDE DEF e, w
<1>5. Append(sq, e) \in Seq(SendEntry(h)) /\ Append(wq, w) \in Seq(WriteEntry(h))
  BY <1>2, AppendProperties
<1>6. RightWire(D \cup {Datagram(Peer(h), p, t)})
  BY <1>3 DEF RightWire
<1>7. CASE /\ sendQueue' = [sendQueue EXCEPT ![h] = Append(sq, e)]
           /\ writeQueue' = [writeQueue EXCEPT ![h] = wq]
           /\ wire' = D \cup {Datagram(Peer(h), p, t)}
  <2>1. /\ SendQueues([sendQueue EXCEPT ![h] = Append(sq, e)])
        /\ WriteQueues([writeQueue EXCEPT ![h] = wq])
    BY <1>1, <1>5, QueuesKeep
  <2> QED BY <1>6, <1>7, <2>1
<1>8. CASE /\ sendQueue' = [sendQueue EXCEPT ![h] = sq]
           /\ writeQueue' = [writeQueue EXCEPT ![h] = Append(wq, w)]
           /\ wire' = D
  <2>1. /\ SendQueues([sendQueue EXCEPT ![h] = sq])
        /\ WriteQueues([writeQueue EXCEPT ![h] = Append(wq, w)])
    BY <1>1, <1>5, QueuesKeep
  <2> QED BY <1>8, <2>1
<1> QED BY <1>4, <1>7, <1>8

LEMMA NewIdIs ==
    ASSUME NEW h \in Hosts, sendId \in [Hosts -> 0 .. Word - 1], GetNewId(h)
    PROVE  sendId' \in [Hosts -> 0 .. Word - 1]
<1>1. PICK id \in 0 .. Word - 1 : id = sendId[h]
  OBVIOUS
<1>2. Ids!GetNextSeqId(id) \in 0 .. Word - 1
  <2>1. PICK w \in Nat : w = Word /\ w > 0
    BY Widths
  <2>2. \A a \in Nat, b \in Nat : Ids!ModAddU(a, b, w) \in 0 .. w - 1
    <3> SUFFICES ASSUME NEW a \in Nat, NEW b \in Nat
                 PROVE  Ids!ModAddU(a, b, w) \in 0 .. w - 1
      OBVIOUS
    <3>1. PICK x \in Nat, y \in Nat : x = a % w /\ y = b % w
      BY <2>1, DivMod
    <3>2. PICK k \in Nat : k = x + y /\ k = (a % w) + (b % w)
      BY <3>1
    <3>3. k % w \in 0 .. w - 1
      BY <2>1, DivMod
    <3> QED BY <3>2, <3>3 DEF Ids!ModAddU
  <2>3. Ids!ModAddU(id, 1, w) \in 0 .. w - 1
    BY <2>2
  <2>4. Ids!ModAddU(Ids!ModAddU(id, 1, w), 1, w) \in 0 .. w - 1
    BY <2>2, <2>3
  <2> QED BY <2>1, <2>3, <2>4 DEF Ids!GetNextSeqId
<1>3. sendId' = [sendId EXCEPT ![h] = Ids!GetNextSeqId(id)]
  BY <1>1 DEF GetNewId
<1> QED BY <1>2, <1>3

LEMMA InitKeeps == Init => MeasureInv
<1> SUFFICES ASSUME Init PROVE MeasureInv
  OBVIOUS
<1>1. now = 0 /\ wire = {} /\ sendId = [h \in Hosts |-> 0]
      /\ sendQueue = [h \in Hosts |-> <<>>] /\ writeQueue = [h \in Hosts |-> <<>>]
      /\ triptime = [h \in Hosts |-> 0] /\ triptimeMiddle = [h \in Hosts |-> START_MIDDLE_TIME]
      /\ measured = [h \in Hosts |-> NoMeasure]
  BY DEF Init
<1>2. SendQueues(sendQueue) /\ WriteQueues(writeQueue)
  BY <1>1 DEF SendQueues, WriteQueues
<1>3. 0 \in 0 .. Word - 1 /\ START_MIDDLE_TIME \in 0 .. MAX_TRIPTIME_MIDDLE
  BY Widths, MeasureAssumption
<1>4. Measures(triptime, triptimeMiddle, measured)
  BY <1>1, <1>3 DEF Measures, NoMeasure
<1>5. RightWire(wire)
  BY <1>1 DEF RightWire
<1> QED BY <1>1, <1>2, <1>3, <1>4, <1>5 DEF MeasureInv

LEMMA SendDataKeeps ==
    ASSUME MeasureInv, NEW h \in Hosts, NEW n \in Payloads[h], SendData(h, n)
    PROVE  MeasureInv'
<1>a. PICK sq \in Seq(SendEntry(h)), wq \in Seq(WriteEntry(h)) :
         sq = sendQueue[h] /\ wq = writeQueue[h]
  BY DEF MeasureInv, SendQueues, WriteQueues
<1>b. PICK id \in 0 .. Word - 1 : id = sendId[h]
  BY DEF MeasureInv
<1>c. PICK D, ts : D = wire /\ ts = Timestamp(h)
  OBVIOUS
<1>1. sq = sendQueue[h] /\ wq = writeQueue[h] /\ D = wire /\ id = sendId[h]
      /\ ts = Timestamp(h)
  BY <1>a, <1>b, <1>c
<1>2. PICK p, t : p = DATAcreateNew(id, 0, n, ts) /\ t = now
  OBVIOUS
<1>3. SendPacket(h, sq, wq, p, t, D)
  BY <1>1, <1>2 DEF SendData, SendPacket, Put
<1>4. OwnData(h, p, t) /\ RightWire(D)
  <2>1. ts \in 0 .. Word - 1 /\ ts = (t + Offset[h]) % Word /\ t \in Int
    BY <1>1, <1>2, TimestampIs DEF MeasureInv
  <2>2. n \in Nat
    BY MeasureAssumption
  <2>3. RightPacket(p) /\ p.header.message_type = TRU_DATA /\ p.header.timestamp = ts
    BY <1>2, <2>1, <2>2, DataRight
  <2> QED BY <1>1, <2>1, <2>3 DEF OwnData, Stamped, MeasureInv
<1>5. RightWire(wire') /\ SendQueues(sendQueue') /\ WriteQueues(writeQueue')
  BY <1>3, <1>4, SendPacketKeeps
<1>6. sendId' \in [Hosts -> 0 .. Word - 1]
  BY NewIdIs DEF MeasureInv, SendData
<1>7. UNCHANGED <<now, triptime, triptimeMiddle, measured>>
  BY DEF SendData
<1> QED BY <1>5, <1>6, <1>7 DEF MeasureInv

LEMMA SendPINGKeeps ==
    ASSUME MeasureInv, NEW h \in Hosts, NEW n \in PingPayloads[h], SendPING(h, n)
    PROVE  MeasureInv'
<1>1a. PICK ts : ts = Timestamp(h)
  OBVIOUS
<1>1. PICK id \in 0 .. Word - 1 : id = sendId[h] /\ ts = Timestamp(h)
  BY <1>1a DEF MeasureInv
<1>2. PICK p, t : p = PINGcreateNew(id, 0, n, ts) /\ t = now
  OBVIOUS
<1>3. wire' = wire \cup {Datagram(Peer(h), p, t)}
  BY <1>1, <1>2 DEF SendPING, Put
<1>4. RightPacket(p) /\ Stamped(h, p, t) /\ p.header.message_type \notin Answers
  <2>1. ts \in 0 .. Word - 1 /\ ts = (t + Offset[h]) % Word /\ t \in Int
    BY <1>1, <1>2, TimestampIs DEF MeasureInv
  <2>2. n \in Nat
    BY MeasureAssumption
  <2>3. RightPacket(p) /\ p.header.message_type = TRU_PING /\ p.header.timestamp = ts
    BY <1>2, <2>1, <2>2, PingRight
  <2> QED BY <2>1, <2>3, TypesDiffer DEF Stamped
<1>5. RightWire(wire')
  <2>1. RightDatagram(Datagram(Peer(h), p, t))
    BY <1>4, DatagramRight
  <2> QED BY <1>3, <2>1 DEF MeasureInv, RightWire
<1>6. UNCHANGED <<now, sendId, sendQueue, writeQueue, triptime, triptimeMiddle, measured>>
  BY DEF SendPING, channelVars
<1> QED BY <1>5, <1>6 DEF MeasureInv

LEMMA SendQueueProcessKeeps ==
    ASSUME MeasureInv, NEW h \in Hosts, SendQueueProcess(h)
    PROVE  MeasureInv'
<1>1a. PICK ts : ts = Timestamp(h)
  OBVIOUS
<1>1. PICK sq \in Seq(SendEntry(h)) : sq = sendQueue[h] /\ ts = Timestamp(h)
  BY <1>1a DEF MeasureInv, SendQueues
<1>2. sq # <<>>
  BY <1>1 DEF SendQueueProcess
<1>3. PICK first \in SendEntry(h) : first = Head(sq) /\ 1 \in DOMAIN sq
  BY <1>2, HeadTailProperties, LenProperties, EmptySeq
<1>4. PICK p, t : p = UpdateTimestamp(first.packet, ts) /\ t = now
  OBVIOUS
<1> DEFINE e == [packet |-> p, expected |-> ExpectedTime(h), queued |-> now, stamped |-> t]
<1>5. /\ sendQueue' = [sendQueue EXCEPT ![h][1] = e]
      /\ wire' = wire \cup {Datagram(Peer(h), p, t)}
      /\ UNCHANGED <<now, sendId, writeQueue, triptime, triptimeMiddle, measured>>
  BY <1>1, <1>3, <1>4 DEF SendQueueProcess, Put
<1>6. OwnData(h, p, t)
  <2>1. OwnData(h, first.packet, first.stamped)
    BY DEF SendEntry
  <2>2. ts \in 0 .. Word - 1 /\ ts = (t + Offset[h]) % Word /\ t \in Int
    BY <1>1, <1>4, TimestampIs DEF MeasureInv
  <2>3. RightPacket(p) /\ p.header.message_type = TRU_DATA /\ p.header.timestamp = ts
    BY <1>4, <2>1, <2>2, UpdateRight DEF OwnData
  <2> QED BY <2>2, <2>3 DEF OwnData, Stamped
<1>7. e \in SendEntry(h)
  BY <1>6, SendEntryIs
<1>8. RightWire(wire')
  <2>1. RightDatagram(Datagram(Peer(h), p, t))
    BY <1>6, DatagramRight, TypesDiffer DEF OwnData
  <2> QED BY <1>5, <2>1 DEF MeasureInv, RightWire
<1> HIDE DEF e
<1>9. SendQueues(sendQueue')
  <2>1. SendQueues(sendQueue)
    BY DEF MeasureInv
  <2>2. [sq EXCEPT ![1] = e] \in Seq(SendEntry(h))
    BY <1>3, <1>7, ExceptSeq
  <2>3. sendQueue' = [sendQueue EXCEPT ![h] = [sq EXCEPT ![1] = e]]
    BY <1>1, <1>5
  <2>4. SendQueues([sendQueue EXCEPT ![h] = [sq EXCEPT ![1] = e]])
    BY <2>1, <2>2, QueuesKeep
  <2> QED BY <2>3, <2>4
<1> QED BY <1>5, <1>8, <1>9 DEF MeasureInv
LEMMA ReceiveAckKeeps ==
    ASSUME MeasureInv, NEW d \in wire, ReceiveAck(d.to, d), UNCHANGED now
    PROVE  MeasureInv'
<1>1. PICK h \in Hosts : h = d.to
  BY DEF MeasureInv, RightWire, RightDatagram
<1>2. Measures(triptime', triptimeMiddle', measured')
  <2>1. CalculateTriptime(d.to, d) /\ d.packet.header.message_type = TRU_ACK
    BY DEF ReceiveAck
  <2> QED BY <2>1, TypesDiffer, TripTimeKeeps
<1>3. PICK sq \in Seq(SendEntry(h)), wq \in Seq(WriteEntry(h)) :
         sq = sendQueue[h] /\ wq = writeQueue[h]
  BY DEF MeasureInv, SendQueues, WriteQueues
<1>4. PICK D : D = wire \ {d}
  OBVIOUS
<1>5. RightWire(D) /\ SendQueues(sendQueue) /\ WriteQueues(writeQueue)
  BY <1>4 DEF MeasureInv, RightWire
<1>6. RightWire(wire') /\ SendQueues(sendQueue') /\ WriteQueues(writeQueue')
  <2>1. CASE wire' = wire \ {d} /\ UNCHANGED <<sendQueue, writeQueue>>
    BY <1>4, <1>5, <2>1
  <2>2. ASSUME NEW i \in DOMAIN sq, wq # <<>>,
               SendPacket(h, RemoveAt(sq, i), Tail(wq), Head(wq).packet, Head(wq).stamped, D)
        PROVE  RightWire(wire') /\ SendQueues(sendQueue') /\ WriteQueues(writeQueue')
    <3>1. PICK rest \in Seq(SendEntry(h)) : rest = RemoveAt(sq, i)
      BY RemoveAtElements
    <3>2. PICK tail \in Seq(WriteEntry(h)), first \in WriteEntry(h) :
             tail = Tail(wq) /\ first = Head(wq)
      BY <2>2, HeadTailProperties, EmptySeq
    <3>3. PICK p, t : p = first.packet /\ t = first.stamped
      OBVIOUS
    <3>4. OwnData(h, p, t)
      BY <3>3 DEF WriteEntry
    <3>5. SendPacket(h, rest, tail, p, t, D)
      BY <2>2, <3>1, <3>2, <3>3 DEF SendPacket, Put
    <3> QED BY <1>5, <3>4, <3>5, SendPacketKeeps
  <2>3. ASSUME NEW i \in DOMAIN sq,
               sendQueue' = [sendQueue EXCEPT ![h] = RemoveAt(sq, i)],
               wire' = wire \ {d}, UNCHANGED writeQueue
        PROVE  RightWire(wire') /\ SendQueues(sendQueue') /\ WriteQueues(writeQueue')
    <3>1. RemoveAt(sq, i) \in Seq(SendEntry(h))
      BY RemoveAtElements
    <3>2. SendQueues([sendQueue EXCEPT ![h] = RemoveAt(sq, i)])
      BY <1>5, <3>1, QueuesKeep
    <3> QED BY <1>4, <1>5, <2>3, <3>2
  <2>4. ASSUME NEW i \in DOMAIN sendQueue[d.to],
               IF writeQueue[d.to] # <<>>
               THEN SendPacket(d.to, RemoveAt(sendQueue[d.to], i), Tail(writeQueue[d.to]),
                               Head(writeQueue[d.to]).packet, Head(writeQueue[d.to]).stamped,
                               wire \ {d})
               ELSE /\ sendQueue' = [sendQueue EXCEPT ![d.to] = RemoveAt(sendQueue[d.to], i)]
                    /\ wire' = wire \ {d}
                    /\ UNCHANGED writeQueue
        PROVE  RightWire(wire') /\ SendQueues(sendQueue') /\ WriteQueues(writeQueue')
    <3>1. CASE wq = <<>>
      BY <1>1, <1>3, <2>3, <2>4, <3>1
    <3>2. CASE wq # <<>>
      <4>1. SendPacket(d.to, RemoveAt(sendQueue[d.to], i), Tail(writeQueue[d.to]),
                       Head(writeQueue[d.to]).packet, Head(writeQueue[d.to]).stamped,
                       wire \ {d})
        BY <1>1, <1>3, <2>4, <3>2
      <4>2. SendPacket(h, RemoveAt(sq, i), Tail(wq), Head(wq).packet, Head(wq).stamped, D)
        BY <1>1, <1>3, <1>4, <4>1 DEF SendPacket, Put
      <4> QED BY <1>1, <1>3, <2>2, <2>4, <3>2, <4>2
    <3> QED BY <3>1, <3>2
  <2>5. \/ wire' = wire \ {d} /\ UNCHANGED <<sendQueue, writeQueue>>
        \/ \E i \in DOMAIN sendQueue[d.to] :
             IF writeQueue[d.to] # <<>>
             THEN SendPacket(d.to, RemoveAt(sendQueue[d.to], i), Tail(writeQueue[d.to]),
                             Head(writeQueue[d.to]).packet, Head(writeQueue[d.to]).stamped,
                             wire \ {d})
             ELSE /\ sendQueue' = [sendQueue EXCEPT ![d.to] = RemoveAt(sendQueue[d.to], i)]
                  /\ wire' = wire \ {d}
                  /\ UNCHANGED writeQueue
    BY Zenon DEF ReceiveAck
  <2> QED BY <2>1, <2>4, <2>5
<1>7. UNCHANGED <<now, sendId>>
  BY DEF ReceiveAck
<1> QED BY <1>2, <1>6, <1>7 DEF MeasureInv

LEMMA ReceiveAckPingKeeps ==
    ASSUME MeasureInv, NEW d \in wire, ReceiveAckPing(d.to, d), UNCHANGED now
    PROVE  MeasureInv'
<1>1. Measures(triptime', triptimeMiddle', measured')
  <2>1. CalculateTriptime(d.to, d) /\ d.packet.header.message_type = TRU_ACK_PING
    BY DEF ReceiveAckPing
  <2> QED BY <2>1, TypesDiffer, TripTimeKeeps
<1>2. RightWire(wire')
  BY DEF MeasureInv, RightWire, ReceiveAckPing
<1>3. UNCHANGED <<sendId, sendQueue, writeQueue>>
  BY DEF ReceiveAckPing
<1> QED BY <1>1, <1>2, <1>3 DEF MeasureInv

LEMMA ReceivePingKeeps ==
    ASSUME MeasureInv, NEW d \in wire, ReceivePing(d.to, d), UNCHANGED now
    PROVE  MeasureInv'
<1>1. d.packet.header.message_type = TRU_PING
  BY DEF ReceivePing
<1>2. Measures(triptime', triptimeMiddle', measured')
  <2>1. CalculateTriptime(d.to, d)
    BY DEF ReceivePing
  <2> QED BY <1>1, <2>1, TripTimeKeeps
<1>3. PICK a : a = ACKtoPINGcreateNew(d.packet)
  OBVIOUS
<1>4. RightWire(wire')
  <2>1. RightDatagram(d) /\ d.packet \in Packet
    BY DEF MeasureInv, RightWire, RightDatagram, RightPacket
  <2>2. /\ RightPacket(a) /\ a.header.message_type = TRU_ACK_PING
        /\ a.header.timestamp = d.packet.header.timestamp
    BY <1>3, <2>1, AnswersRight
  <2>3. RightDatagram(Datagram(Peer(d.to), a, d.stamped))
    BY <1>1, <2>1, <2>2, TypesDiffer, AnswerDatagramRight
  <2>4. wire' = (wire \ {d}) \cup {Datagram(Peer(d.to), a, d.stamped)}
    BY <1>3 DEF ReceivePing, Put
  <2> QED BY <2>3, <2>4 DEF MeasureInv, RightWire
<1>5. UNCHANGED <<sendId, sendQueue, writeQueue>>
  BY DEF ReceivePing
<1> QED BY <1>2, <1>4, <1>5 DEF MeasureInv

LEMMA ReceiveDataKeeps ==
    ASSUME MeasureInv, NEW d \in wire, ReceiveData(d.to, d), UNCHANGED now
    PROVE  MeasureInv'
<1>1. d.packet.header.message_type = TRU_DATA
  BY DEF ReceiveData
<1>2. RightDatagram(d) /\ d.packet \in Packet /\ d.to \in Hosts
  BY DEF MeasureInv, RightWire, RightDatagram, RightPacket
<1>3a. PICK a : a = ACKcreateNew(d.packet)
  OBVIOUS
<1>3. PICK h \in Hosts : h = d.to /\ a = ACKcreateNew(d.packet)
  BY <1>3a, <1>2
<1>4a. PICK ts : ts = Timestamp(h)
  OBVIOUS
<1>4. PICK id \in 0 .. Word - 1 : id = sendId[h] /\ ts = Timestamp(h)
  BY <1>4a DEF MeasureInv
<1>5. PICK r, t : r = RESETcreateNew(id, 0, ts) /\ t = now
  OBVIOUS
<1>6. RightDatagram(Datagram(Peer(h), a, d.stamped))
  <2>1. /\ RightPacket(a) /\ a.header.message_type = TRU_ACK
        /\ a.header.timestamp = d.packet.header.timestamp
    BY <1>2, <1>3, AnswersRight
  <2>2. RightDatagram(Datagram(Peer(d.to), a, d.stamped))
    BY <1>1, <1>2, <2>1, TypesDiffer, AnswerDatagramRight
  <2> QED BY <1>3, <2>2
<1>7. RightDatagram(Datagram(Peer(h), r, t))
  <2>1. ts \in 0 .. Word - 1 /\ ts = (t + Offset[h]) % Word /\ t \in Int
    BY <1>4, <1>5, TimestampIs DEF MeasureInv
  <2>2. RightPacket(r) /\ r.header.message_type = TRU_RESET /\ r.header.timestamp = ts
    BY <1>5, <2>1, ResetRight
  <2>3. Stamped(h, r, t)
    BY <2>1, <2>2 DEF Stamped
  <2> QED BY <2>2, <2>3, TypesDiffer, DatagramRight
<1>8. \/ /\ wire' = (wire \ {d}) \cup {Datagram(Peer(h), a, d.stamped)}
         /\ UNCHANGED sendId
      \/ /\ GetNewId(h)
         /\ wire' = (wire \ {d}) \cup {Datagram(Peer(h), a, d.stamped), Datagram(Peer(h), r, t)}
  BY <1>3, <1>4, <1>5 DEF ReceiveData, Put, GetNewId
<1>9. RightWire(wire')
  BY <1>6, <1>7, <1>8 DEF MeasureInv, RightWire
<1>10. sendId' \in [Hosts -> 0 .. Word - 1]
  BY <1>8, NewIdIs DEF MeasureInv
<1>11. UNCHANGED <<sendQueue, writeQueue, triptime, triptimeMiddle, measured>>
  BY DEF ReceiveData
<1> QED BY <1>9, <1>10, <1>11 DEF MeasureInv

\* _trudpChannelReset
LEMMA ChannelResetKeeps ==
    ASSUME MeasureInv, NEW h \in Hosts, ChannelReset(h)
    PROVE  /\ sendId' \in [Hosts -> 0 .. Word - 1]
           /\ SendQueues(sendQueue') /\ WriteQueues(writeQueue')
           /\ Measures(triptime', triptimeMiddle', measured')
<1>1. sendId' \in [Hosts -> 0 .. Word - 1]
  <2>1. 0 \in 0 .. Word - 1
    BY Widths
  <2> QED BY <2>1 DEF MeasureInv, ChannelReset
<1>2. SendQueues(sendQueue') /\ WriteQueues(writeQueue')
  <2>1. SendQueues(sendQueue) /\ WriteQueues(writeQueue)
    BY DEF MeasureInv
  <2>2. <<>> \in Seq(SendEntry(h)) /\ <<>> \in Seq(WriteEntry(h))
    OBVIOUS
  <2>3. SendQueues([sendQueue EXCEPT ![h] = <<>>]) /\ WriteQueues([writeQueue EXCEPT ![h] = <<>>])
    BY <2>1, <2>2, QueuesKeep
  <2>4. sendQueue' = [sendQueue EXCEPT ![h] = <<>>] /\ writeQueue' = [writeQueue EXCEPT ![h] = <<>>]
    BY DEF ChannelReset
  <2> QED BY <2>3, <2>4
<1>3. Measures(triptime', triptimeMiddle', measured')
  <2>1. Measures(triptime, triptimeMiddle, measured)
    BY DEF MeasureInv
  <2>2. START_MIDDLE_TIME \in 0 .. MAX_TRIPTIME_MIDDLE
    BY MeasureAssumption
  <2>3. /\ triptime' = [triptime EXCEPT ![h] = 0]
        /\ triptimeMiddle' = [triptimeMiddle EXCEPT ![h] = START_MIDDLE_TIME]
        /\ measured' = [measured EXCEPT ![h] = NoMeasure]
    BY DEF ChannelReset
  <2>4. NoMeasure \in [own : BOOLEAN, age : Int] /\ ~NoMeasure.own
    BY DEF NoMeasure
  <2> QED BY <2>1, <2>2, <2>3, <2>4 DEF Measures
<1> QED BY <1>1, <1>2, <1>3

LEMMA ReceiveResetKeeps ==
    ASSUME MeasureInv, NEW d \in wire, ReceiveReset(d.to, d), UNCHANGED now
    PROVE  MeasureInv'
<1>1. RightDatagram(d) /\ d.packet \in Packet /\ d.to \in Hosts
      /\ d.packet.header.message_type = TRU_RESET
  BY DEF MeasureInv, RightWire, RightDatagram, RightPacket, ReceiveReset
<1>2a. PICK a : a = ACKtoRESETcreateNew(d.packet)
  OBVIOUS
<1>2. PICK h \in Hosts : h = d.to /\ a = ACKtoRESETcreateNew(d.packet)
  BY <1>2a, <1>1
<1>3. RightWire(wire')
  <2>1. /\ RightPacket(a) /\ a.header.message_type = TRU_ACK_RESET
        /\ a.header.timestamp = d.packet.header.timestamp
    BY <1>1, <1>2, AnswersRight
  <2>2. RightDatagram(Datagram(Peer(d.to), a, d.stamped))
    BY <1>1, <2>1, TypesDiffer, AnswerDatagramRight
  <2>3. wire' = (wire \ {d}) \cup {Datagram(Peer(d.to), a, d.stamped)}
    BY <1>2 DEF ReceiveReset, Put
  <2> QED BY <2>2, <2>3 DEF MeasureInv, RightWire
<1>4. ChannelReset(h)
  BY <1>2 DEF ReceiveReset, ChannelReset
<1> QED BY <1>3, <1>4, ChannelResetKeeps DEF MeasureInv

LEMMA ReceiveAckResetKeeps ==
    ASSUME MeasureInv, NEW d \in wire, ReceiveAckReset(d.to, d), UNCHANGED now
    PROVE  MeasureInv'
<1>1. PICK h \in Hosts : h = d.to
  BY DEF MeasureInv, RightWire, RightDatagram
<1>2. RightWire(wire')
  BY DEF MeasureInv, RightWire, ReceiveAckReset
<1>3. ChannelReset(h)
  BY <1>1 DEF ReceiveAckReset, ChannelReset
<1> QED BY <1>2, <1>3, ChannelResetKeeps DEF MeasureInv

LEMMA MeasureStep == MeasureInv /\ [Next]_vars => MeasureInv'
<1> SUFFICES ASSUME MeasureInv, [Next]_vars PROVE MeasureInv'
  OBVIOUS
<1>1. ASSUME NEW h \in Hosts, NEW n \in Payloads[h], SendData(h, n) PROVE MeasureInv'
  BY <1>1, SendDataKeeps
<1>2. ASSUME NEW h \in Hosts, NEW n \in PingPayloads[h], SendPING(h, n) PROVE MeasureInv'
  BY <1>2, SendPINGKeeps
<1>3. ASSUME NEW h \in Hosts, SendQueueProcess(h) PROVE MeasureInv'
  BY <1>3, SendQueueProcessKeeps
<1>4. ASSUME NEW d \in wire, Receive(d) PROVE MeasureInv'
  <2>0. UNCHANGED now
    BY <1>4 DEF Receive
  <2>1. CASE ReceiveAck(d.to, d)
    BY <2>0, <2>1, ReceiveAckKeeps
  <2>2. CASE ReceiveAckPing(d.to, d)
    BY <2>0, <2>2, ReceiveAckPingKeeps
  <2>3. CASE ReceivePing(d.to, d)
    BY <2>0, <2>3, ReceivePingKeeps
  <2>4. CASE ReceiveData(d.to, d)
    BY <2>0, <2>4, ReceiveDataKeeps
  <2>5. CASE ReceiveReset(d.to, d)
    BY <2>0, <2>5, ReceiveResetKeeps
  <2>6. CASE ReceiveAckReset(d.to, d)
    BY <2>0, <2>6, ReceiveAckResetKeeps
  <2>7. CASE ReceiveNoTrudp(d)
    <3>1. wire' = wire \ {d} /\ UNCHANGED <<sendId, sendQueue, writeQueue, triptime,
                                            triptimeMiddle, measured>>
      BY <2>7 DEF ReceiveNoTrudp, channelVars
    <3> QED BY <2>0, <3>1 DEF MeasureInv, RightWire
  <2> QED BY <1>4, <2>1, <2>2, <2>3, <2>4, <2>5, <2>6, <2>7 DEF Receive
<1>5. ASSUME NEW d \in wire, Lose(d) PROVE MeasureInv'
  <2>1. wire' = wire \ {d} /\ UNCHANGED <<now, sendId, sendQueue, writeQueue, triptime,
                                          triptimeMiddle, measured>>
    BY <1>5 DEF Lose, channelVars
  <2> QED BY <2>1 DEF MeasureInv, RightWire
<1>6. CASE Tick
  <2>1. PICK t \in Delays : now' = now + t
    BY <1>6 DEF Tick
  <2>2. now' \in Int
    BY <2>1, MeasureAssumption DEF MeasureInv
  <2>3. UNCHANGED <<wire, sendId, sendQueue, writeQueue, triptime, triptimeMiddle, measured>>
    BY <1>6 DEF Tick, channelVars
  <2> QED BY <2>2, <2>3 DEF MeasureInv
<1>7. CASE UNCHANGED vars
  BY <1>7 DEF vars, channelVars, MeasureInv
<1> QED BY <1>1, <1>2, <1>3, <1>4, <1>5, <1>6, <1>7 DEF Next

\* Nothing a host does or the network loses makes a packet wrong.
THEOREM MeasuresStayRight == Spec => []MeasureInv
BY InitKeeps, MeasureStep, PTL DEF Spec

-----------------------------------------------------------------------------
\* Every packet on its way has fields of their widths, is accepted exactly when
\* its length fits in payload_length, and is refused with one byte damaged.
\* (trudpPacketCheck and the functions that make and restamp packets)
THEOREM ChecksAreExact == Spec => []CheckIsExact
<1>1. MeasureInv => CheckIsExact
  <2> SUFFICES ASSUME MeasureInv, NEW d \in wire
               PROVE  /\ d.packet \in Packet
                      /\ Check(d.packet) <=> d.packet.length < HeaderLength + PayloadMod
                      /\ \A b \in Damages : \A th \in OneByteChanged(d.packet.header, b) :
                            ~ Check([d.packet EXCEPT !.header = th])
    BY DEF CheckIsExact
  <2>1. PICK p : p = d.packet /\ RightPacket(p)
    BY DEF MeasureInv, RightWire, RightDatagram
  <2>2. p \in Packet
    BY <2>1 DEF RightPacket
  <2>3. Check(p) <=> p.length < HeaderLength + PayloadMod
    BY <2>1, CheckRight
  <2>4. ASSUME NEW b \in Damages, NEW th \in OneByteChanged(p.header, b)
        PROVE  ~ Check([p EXCEPT !.header = th])
    <3>1. b \in 1 .. Byte - 1
      BY MeasureAssumption
    <3> QED BY <2>1, <3>1, DamageSeen
  <2> QED BY <2>1, <2>2, <2>3, <2>4
<1> QED BY <1>1, MeasuresStayRight, PTL

\* A trip time taken from an answer is the time since that copy was stamped.
\* (_trudpChannelCalculateTriptime and the answers that copy the timestamp)
THEOREM TripTimesAreTheCopys == Spec => []TripTimeOfTheCopy
<1>1. MeasureInv => TripTimeOfTheCopy
  BY DEF MeasureInv, Measures, TripTimeOfTheCopy
<1> QED BY <1>1, MeasuresStayRight, PTL

\* Retransmissions keep to RTT and MAX_RTT, whatever was measured.
\* (_trudpChannelCalculateExpectedTime and the clamps of the trip time)
THEOREM RetransmissionsStayPaced == Spec => []RetransmissionPaced
<1>1. MeasureInv => RetransmissionPaced
  <2> SUFFICES ASSUME MeasureInv, NEW h \in Hosts, NEW i \in DOMAIN sendQueue[h]
               PROVE  sendQueue[h][i].expected - sendQueue[h][i].queued \in RTT .. MAX_RTT
    BY DEF RetransmissionPaced
  <2>1. PICK sq \in Seq(SendEntry(h)) : sq = sendQueue[h]
    BY DEF MeasureInv, SendQueues
  <2>2. sq[i] \in SendEntry(h)
    BY <2>1, LenProperties, ElementOfSeq
  <2> QED BY <2>1, <2>2 DEF SendEntry
<1> QED BY <1>1, MeasuresStayRight, PTL
=============================================================================
