--------------------------- MODULE EDISenderProofs ----------------------------
(***************************************************************************)
(* Proofs about the EDI sender, for every set of configurations and every   *)
(* number of AF packets: the map of pending fragments loses and reorders    *)
(* nothing, and the cut into fragments carries every byte and survives the  *)
(* losses it is meant to survive.                                           *)
(***************************************************************************)
EXTENDS EDISender, FunctionTheorems, FiniteSetTheorems, SequenceTheorems,
        WellFoundedInduction, TLAPS

(* Arithmetic *)

\* A set of naturals has a least element.
LEMMA LeastNat ==
    ASSUME NEW T, T \subseteq Nat, T # {}
    PROVE  \E x \in T : \A y \in T : x <= y
  <1>1. PICK x \in T : \A y \in T : ~(<<y, x>> \in OpToRel(<, Nat))
    BY NatLessThanWellFounded, WFMin
  <1>2. \A y \in T : ~(y < x)
    BY <1>1 DEF OpToRel
  <1>3. \A y \in T : x <= y
    BY <1>2
  <1> QED  BY <1>3

\* A bounded set of naturals has a greatest element.
LEMMA GreatestNat ==
    ASSUME NEW n \in Nat, NEW T, T \subseteq 1 .. n, T # {}
    PROVE  \E x \in T : \A y \in T : x >= y
  <1> DEFINE U == {n - x : x \in T}
  <1>0. \A x \in T : x \in Nat /\ n - x \in Nat
    OBVIOUS
  <1>1. U \subseteq Nat /\ U # {}
    BY <1>0
  <1>2. PICK u \in U : \A v \in U : u <= v
    <2> HIDE DEF U
    <2> QED  BY <1>1, LeastNat
  <1>3. PICK x \in T : u = n - x
    OBVIOUS
  <1>4. ASSUME NEW y \in T PROVE x >= y
    <2>1. n - y \in U
      OBVIOUS
    <2> QED  BY <1>2, <1>3, <2>1
  <1> QED  BY <1>4

\* Quotient and remainder.
LEMMA DivMod ==
    ASSUME NEW a \in Nat, NEW b \in Nat, b > 0
    PROVE  /\ a \div b \in Nat
           /\ a % b \in 0 .. b - 1
           /\ a = b * (a \div b) + (a % b)
  <1>1. a = b * (a \div b) + (a % b)
    OBVIOUS
  <1>2. a % b \in 0 .. b - 1 /\ a \div b \in Int
    OBVIOUS
  <1>3. PICK q \in Int : q = a \div b
    BY <1>2
  <1>4. PICK r \in Nat : r = a % b /\ r < b
    BY <1>2
  <1>5. a = b * q + r
    BY <1>1, <1>3, <1>4
  <1>6. q >= 0
    BY ONLY <1>4, <1>5, a \in Nat, b \in Nat, b > 0, q \in Int, r \in Nat
  <1> QED  BY <1>1, <1>2, <1>3, <1>6

\* Multiplication by a natural is monotonic.
LEMMA MulMono ==
    ASSUME NEW a \in Nat, NEW b \in Nat, NEW c \in Nat, a <= b
    PROVE  a * c <= b * c
  <1>1. b * c - a * c = (b - a) * c
    OBVIOUS
  <1>2. PICK d \in Nat : d = b - a
    OBVIOUS
  <1>3. d * c \in Nat
    OBVIOUS
  <1>4. (b - a) * c \in Nat
    BY <1>2, <1>3
  <1> QED  BY <1>1, <1>4

\* CEIL_DIV rounds up.
LEMMA CeilDivBounds ==
    ASSUME NEW a \in Nat, NEW b \in Nat, b > 0
    PROVE  /\ CeilDiv(a, b) \in Nat
           /\ b * CeilDiv(a, b) >= a
           /\ b * CeilDiv(a, b) < a + b
           /\ a > 0 => CeilDiv(a, b) > 0
  <1>1. PICK q \in Nat : q = a \div b
    BY DivMod
  <1>2. PICK r \in 0 .. b - 1 : r = a % b
    BY DivMod
  <1>3. a = b * q + r
    BY <1>1, <1>2, DivMod
  <1>4. CeilDiv(a, b) = IF r = 0 THEN q ELSE q + 1
    BY <1>1, <1>2 DEF CeilDiv
  <1>5. b * (q + 1) = b * q + b
    OBVIOUS
  <1>6. a > 0 /\ r = 0 => q > 0
    BY ONLY <1>3, q \in Nat, b \in Nat, b > 0, a \in Nat
  <1>7. PICK p \in Nat : p = b * q
    OBVIOUS
  <1> QED  BY <1>3, <1>4, <1>5, <1>6, <1>7

\* Its result is a natural number.
LEMMA CeilDivNat ==
    ASSUME NEW a \in Nat, NEW b \in Nat, b > 0
    PROVE  CeilDiv(a, b) \in Nat
  BY CeilDivBounds

-----------------------------------------------------------------------------
(* Chunks and fragments *)

\* The AF packets of the configurations are not empty and fit 1400 bytes.
LEMMA PacketSize ==
    ASSUME NEW c \in Confs, NEW l \in PacketsOf(c)
    PROVE  l \in Nat /\ 0 < l /\ l <= 1400
  <1>1. PICK v \in {-1, VersionLen} : l = AFPacket(TagPacket(c.len, c.atstf, v))
    BY DEF PacketsOf
  <1>2. PICK len \in Nat : len = c.len
    BY SenderAssumption
  <1>3. PICK dsti \in Nat : dsti = TagDSTI(c.atstf)
    BY DEF TagDSTI
  <1>4. PICK ver \in Nat : ver = IF v >= 0 THEN TagODRVersion(v) ELSE 0
    BY SenderAssumption DEF TagODRVersion
  <1>5. l = 2 + 4 + 2 + 1 + 1 + ((4 + 4 + 8) + dsti + (4 + 4 + 3 + len) + (4 + 4 + 2 * 2) + ver) + 2
    BY <1>1, <1>2, <1>3, <1>4 DEF AFPacket, TagPacket, TagStarPTR, TagSSm, TagODRAudioLevels
  <1>6. l <= 1400
    BY SizeAssumption
  <1> QED  BY <1>5, <1>6

\* Protect(): up to seven chunks of up to 207 bytes, and less padding than chunks.
LEMMA Chunks ==
    ASSUME NEW l \in Nat, 0 < l, l <= 1400
    PROVE  /\ NumChunks(l) \in 1 .. 7
           /\ ChunkLen(l) \in 1 .. 207
           /\ ZeroPad(l) \in 0 .. 6
  <1>0. l \in Nat /\ l > 0
    OBVIOUS
  <1>1. PICK c \in Nat : /\ c = NumChunks(l)
                        /\ 207 * c >= l /\ 207 * c < l + 207 /\ c > 0
    <2>1. CeilDiv(l, 207) \in Nat
      BY <1>0, CeilDivBounds
    <2>2. 207 * CeilDiv(l, 207) >= l
      BY <1>0, CeilDivBounds
    <2>3. 207 * CeilDiv(l, 207) < l + 207
      BY <1>0, CeilDivBounds
    <2>4. CeilDiv(l, 207) > 0
      BY <1>0, CeilDivBounds
    <2> QED  BY <2>1, <2>2, <2>3, <2>4 DEF NumChunks, MaxChunk
  <1>2. 207 * c >= l /\ 207 * c < l + 207 /\ c > 0
    BY <1>1
  <1>3. c \in 1 .. 7
    BY <1>2
  <1>4. PICK k \in Nat : k = CeilDiv(l, c) /\ c * k >= l /\ c * k < l + c /\ k > 0
    <2>1. CeilDiv(l, c) \in Nat
      BY <1>0, <1>3, CeilDivBounds
    <2>2. c * CeilDiv(l, c) >= l
      BY <1>0, <1>3, CeilDivBounds
    <2>3. c * CeilDiv(l, c) < l + c
      BY <1>0, <1>3, CeilDivBounds
    <2>4. CeilDiv(l, c) > 0
      BY <1>0, <1>3, CeilDivBounds
    <2> QED  BY <2>1, <2>2, <2>3, <2>4
  <1>5. c * k >= l /\ c * k < l + c /\ k > 0
    BY <1>4
  <1>6. k <= 207
    <2>1. c = 1 \/ c = 2 \/ c = 3 \/ c = 4 \/ c = 5 \/ c = 6 \/ c = 7
      BY <1>3
    <2> QED  BY ONLY <2>1, <1>2, <1>5, k \in Nat, l \in Nat, l <= 1400
  <1>7. ChunkLen(l) = k
    BY <1>1, <1>4 DEF ChunkLen
  <1>8. PICK p \in Nat : p = c * k
    OBVIOUS
  <1>9. ZeroPad(l) = p - l
    BY <1>1, <1>7, <1>8 DEF ZeroPad
  <1> QED  BY <1>1, <1>3, <1>5, <1>6, <1>7, <1>8, <1>9

\* A packet has at most seven chunks.
LEMMA ChunkCount ==
    ASSUME NEW l \in Nat, 0 < l, l <= 1400
    PROVE  NumChunks(l) \in 1 .. 7
  BY Chunks

\* A chunk has at most 207 bytes.
LEMMA ChunkLength ==
    ASSUME NEW l \in Nat, 0 < l, l <= 1400
    PROVE  ChunkLen(l) \in 1 .. 207
  BY Chunks

\* ProtectAndFragment(): there are bytes to cut, and room for them.
LEMMA Fragments ==
    ASSUME NEW l \in Nat, 0 < l, l <= 1400, NEW m \in 0 .. PARITYBYTES - 1
    PROVE  /\ BlockLen(l, m) \in Nat \ {0}
           /\ MaxPayload(l, m) \in Nat \ {0}
           /\ NumFragments(l, m) \in Nat \ {0}
           /\ FragmentSize(l, m) \in Nat \ {0}
           /\ MaxPayload(l, m) * NumFragments(l, m) >= BlockLen(l, m)
           /\ NumFragments(l, m) * FragmentSize(l, m) >= BlockLen(l, m)
           /\ NumFragments(l, m) * FragmentSize(l, m) < BlockLen(l, m) + NumFragments(l, m)
           /\ m > 0 => (m + 1) * MaxPayload(l, m) <= 48 * NumChunks(l)
           /\ m = 0 => NumFragments(l, m) = 1
  <1>1. PICK c \in 1 .. 7 : c = NumChunks(l)
    BY ChunkCount
  <1>2. PICK k \in 1 .. 207 : k = ChunkLen(l)
    BY ChunkLength
  <1>3. m \in 0 .. 47
    BY DEF PARITYBYTES
  <1>4. PICK B \in Nat \ {0} : B = BlockLen(l, m)
    <2>1. c * (k + 48) \in Nat \ {0}
      OBVIOUS
    <2> QED  BY <1>1, <1>2, <1>3, <2>1 DEF BlockLen, PARITYBYTES
  <1>5. PICK P \in Nat \ {0} : P = MaxPayload(l, m) /\ (m > 0 => (m + 1) * P <= 48 * c)
    <2>1. CASE m > 0
      <3>1. PICK x \in Nat : x = c * 48
        OBVIOUS
      <3>2. PICK y \in Nat : y = m + 1 /\ y > 0 /\ y <= 48
        BY <1>3
      <3>3. PICK q \in Nat : q = x \div y
        BY <3>2, DivMod
      <3>4. PICK r \in 0 .. y - 1 : r = x % y
        BY <3>2, DivMod
      <3>5. x = y * q + r
        BY <3>2, <3>3, <3>4, DivMod
      <3>6. q # 0 /\ y * q <= x
        BY ONLY <3>1, <3>2, <3>5, c \in 1 .. 7, x \in Nat, y \in Nat, q \in Nat, r \in 0 .. y - 1
      <3>7. MaxPayload(l, m) = q
        BY <1>1, <2>1, <3>1, <3>2, <3>3 DEF MaxPayload, PARITYBYTES
      <3> QED  BY <3>1, <3>2, <3>6, <3>7
    <2>2. CASE ~(m > 0)
      BY <2>2 DEF MaxPayload
    <2> QED  BY <2>1, <2>2
  <1>6. PICK n \in Nat : n = NumFragments(l, m) /\ P * n >= B /\ P * n < B + P /\ n > 0
    <2>0. B \in Nat /\ B > 0 /\ P \in Nat /\ P > 0
      OBVIOUS
    <2>1. CeilDiv(B, P) \in Nat
      BY <2>0, CeilDivNat
    <2>2. P * CeilDiv(B, P) >= B
      BY <2>0, CeilDivBounds
    <2>3. P * CeilDiv(B, P) < B + P
      BY <2>0, CeilDivBounds
    <2>4. CeilDiv(B, P) > 0
      BY <2>0, CeilDivBounds
    <2>5. CeilDiv(B, P) = NumFragments(l, m)
      BY <1>4, <1>5 DEF NumFragments
    <2> QED  BY <2>1, <2>2, <2>3, <2>4, <2>5
  <1>7. P * n >= B /\ P * n < B + P /\ n > 0
    BY <1>6
  <1>8. PICK s \in Nat : s = FragmentSize(l, m) /\ n * s >= B /\ n * s < B + n /\ s > 0
    <2>0. B \in Nat /\ B > 0 /\ n > 0
      BY <1>7
    <2>1. CeilDiv(B, n) \in Nat
      BY <2>0, CeilDivNat
    <2>2. n * CeilDiv(B, n) >= B
      BY <2>0, CeilDivBounds
    <2>3. n * CeilDiv(B, n) < B + n
      BY <2>0, CeilDivBounds
    <2>4. CeilDiv(B, n) > 0
      BY <2>0, CeilDivBounds
    <2>5. CeilDiv(B, n) = FragmentSize(l, m)
      BY <1>4, <1>6 DEF FragmentSize
    <2> QED  BY <2>1, <2>2, <2>3, <2>4, <2>5
  <1>9. n * s >= B /\ n * s < B + n /\ s > 0
    BY <1>8
  <1>10. m = 0 => n = 1
    <2> SUFFICES ASSUME m = 0 PROVE n = 1
      OBVIOUS
    <2>1. P = 1400 /\ B = l
      BY <1>4, <1>5 DEF MaxPayload, BlockLen
    <2> QED  BY <1>7, <2>1
  <1> QED  BY <1>1, <1>4, <1>5, <1>6, <1>7, <1>8, <1>9, <1>10
\* A factor that is not zero can be cancelled.
LEMMA MulCancel ==
    ASSUME NEW a \in Nat, NEW b \in Nat, NEW c \in Nat, a * c < b * c
    PROVE  a < b
  <1>1. SUFFICES ASSUME b <= a PROVE FALSE
    OBVIOUS
  <1>2. b * c <= a * c
    BY <1>1, MulMono
  <1>3. PICK x \in Nat : x = a * c
    OBVIOUS
  <1>4. PICK y \in Nat : y = b * c
    OBVIOUS
  <1> QED  BY <1>2, <1>3, <1>4

\* Rows of n have unique positions.
LEMMA RowColumn ==
    ASSUME NEW n \in Nat, NEW q \in Nat, NEW r \in 0 .. n - 1,
           NEW p \in Nat, NEW t \in 0 .. n - 1, q * n + r = p * n + t
    PROVE  q = p /\ r = t
  <1>1. ASSUME NEW x \in Nat, NEW u \in 0 .. n - 1, NEW y \in Nat, NEW v \in 0 .. n - 1,
               x * n + u = y * n + v
        PROVE  ~(x < y)
    <2>1. SUFFICES ASSUME x < y PROVE FALSE
      OBVIOUS
    <2>2. (x + 1) * n <= y * n
      BY <2>1, MulMono
    <2>3. (x + 1) * n = x * n + n
      OBVIOUS
    <2>4. PICK a \in Nat : a = x * n
      OBVIOUS
    <2>5. PICK b \in Nat : b = y * n
      OBVIOUS
    <2> QED  BY <1>1, <2>2, <2>3, <2>4, <2>5
  <1>2. q = p
    BY <1>1
  <1>3. PICK a \in Nat : a = q * n
    OBVIOUS
  <1> QED  BY <1>2, <1>3

\* The bytes of a fragment are a column of the rows that the block is laid out
\* in, with as many columns as there are fragments; without FEC there is one.
LEMMA FragmentIs ==
    ASSUME NEW l \in Nat, 0 < l, l <= 1400, NEW m \in 0 .. PARITYBYTES - 1,
           NEW i \in 0 .. NumFragments(l, m) - 1
    PROVE  Fragment(l, m, i) =
              [j \in 1 .. FragmentSize(l, m) |->
                  IF (j - 1) * NumFragments(l, m) + i < BlockLen(l, m)
                  THEN (j - 1) * NumFragments(l, m) + i ELSE -1]
  <1>1. CASE m > 0
    BY <1>1 DEF Fragment
  <1>2. CASE ~(m > 0)
    <2>1. m = 0 /\ m \in 0 .. PARITYBYTES - 1
      BY <1>2 DEF PARITYBYTES
    <2>2. NumFragments(l, m) = 1
      BY <2>1, Fragments
    <2>3. BlockLen(l, m) = l
      BY <2>1 DEF BlockLen
    <2>4. PICK s \in Nat : s = FragmentSize(l, m)
      BY <2>1, Fragments
    <2>5. NumFragments(l, m) * FragmentSize(l, m) >= BlockLen(l, m)
      BY <2>1, Fragments
    <2>6. NumFragments(l, m) * FragmentSize(l, m) < BlockLen(l, m) + NumFragments(l, m)
      BY <2>1, Fragments
    <2>7. s = l
      BY <2>2, <2>3, <2>4, <2>5, <2>6
    <2>8. i = 0 /\ i * l = 0 /\ (i + 1) * l = l
      BY <2>2
    <2>9. Fragment(l, m, i) = Piece(0, l)
      BY <2>1, <2>4, <2>7, <2>8 DEF Fragment
    <2>10. ASSUME NEW j \in 1 .. l
           PROVE  0 + j - 1 = IF (j - 1) * 1 + 0 < l THEN (j - 1) * 1 + 0 ELSE -1
      OBVIOUS
    <2>11. Piece(0, l) = [j \in 1 .. l |-> IF (j - 1) * 1 + 0 < l THEN (j - 1) * 1 + 0 ELSE -1]
      BY <2>10 DEF Piece
    <2> QED  BY <2>2, <2>3, <2>4, <2>7, <2>8, <2>9, <2>11
  <1> QED  BY <1>1, <1>2
\* A block has at most seven chunks of 255 bytes.
LEMMA BlockSize ==
    ASSUME NEW l \in Nat, 0 < l, l <= 1400, NEW m \in 0 .. PARITYBYTES - 1
    PROVE  BlockLen(l, m) <= 1785
  <1>1. PICK c \in 1 .. 7 : c = NumChunks(l)
    BY ChunkCount
  <1>2. PICK k \in 1 .. 207 : k = ChunkLen(l)
    BY ChunkLength
  <1>3. c * (k + 48) <= 1785
    <2>1. c = 1 \/ c = 2 \/ c = 3 \/ c = 4 \/ c = 5 \/ c = 6 \/ c = 7
      OBVIOUS
    <2> QED  BY <2>1
  <1> QED  BY <1>1, <1>2, <1>3 DEF BlockLen, PARITYBYTES

\* There are so many fragments that the bytes of a chunk, one in n going to the
\* same fragment, leave at most 48 / (m + 1), rounded up, in one.
LEMMA FragmentsPerChunk ==
    ASSUME NEW l \in Nat, 0 < l, l <= 1400, NEW m \in 1 .. 5
    PROVE  48 * NumFragments(l, m) >= (m + 1) * (ChunkLen(l) + 48)
  <1>1. PICK c \in 1 .. 7 : c = NumChunks(l)
    BY ChunkCount
  <1>2. PICK k \in 1 .. 207 : k = ChunkLen(l)
    BY ChunkLength
  <1>3. m \in 0 .. PARITYBYTES - 1 /\ m > 0
    BY DEF PARITYBYTES
  <1>4. PICK P \in Nat : P = MaxPayload(l, m)
    BY <1>3, Fragments
  <1>5. PICK n \in Nat : n = NumFragments(l, m)
    BY <1>3, Fragments
  <1>6. MaxPayload(l, m) * NumFragments(l, m) >= BlockLen(l, m)
    BY <1>3, Fragments
  <1>7. (m + 1) * MaxPayload(l, m) <= 48 * NumChunks(l)
    BY <1>3, Fragments
  <1>8. BlockLen(l, m) = c * (k + 48)
    BY <1>1, <1>2, <1>3 DEF BlockLen, PARITYBYTES
  <1>9. P * n >= c * (k + 48)
    BY <1>4, <1>5, <1>6, <1>8
  <1>10. (m + 1) * P <= 48 * c
    BY <1>1, <1>4, <1>7
  <1>11. ((m + 1) * P) * n <= (48 * c) * n
    <2>1. (m + 1) * P \in Nat /\ 48 * c \in Nat
      OBVIOUS
    <2>2. PICK x \in Nat : x = (m + 1) * P
      BY <2>1
    <2>3. PICK y \in Nat : y = 48 * c
      BY <2>1
    <2>4. x * n <= y * n
      BY <1>10, <2>2, <2>3, MulMono
    <2> QED  BY <2>2, <2>3, <2>4
  <1>12. PICK x \in Nat : x = P * n
    OBVIOUS
  <1>13. ((m + 1) * P) * n = (m + 1) * x
    BY <1>12
  <1>14. 48 * n >= (m + 1) * (k + 48)
    <2>1. m = 1 \/ m = 2 \/ m = 3 \/ m = 4 \/ m = 5
      OBVIOUS
    <2>2. c = 1 \/ c = 2 \/ c = 3 \/ c = 4 \/ c = 5 \/ c = 6 \/ c = 7
      OBVIOUS
    <2>3. (m + 1) * x <= (48 * c) * n
      BY <1>11, <1>13
    <2>4. x >= c * (k + 48)
      BY <1>9, <1>12
    <2> QED  BY ONLY <2>1, <2>2, <2>3, <2>4, x \in Nat, n \in Nat, k \in Nat
  <1> QED  BY <1>2, <1>5, <1>14

\* If the rows from which a fragment takes bytes of one chunk are so close, then
\* m fragments take no more bytes of it than its parity has.
LEMMA FewRows ==
    ASSUME NEW n \in Nat, NEW L \in Nat, NEW m \in 1 .. 5, 48 * n >= (m + 1) * L,
           NEW S, S \subseteq Nat, \A h, j \in S : h <= j => (j - h) * n < L
    PROVE  m * Cardinality(S) <= 48
  <1>1. CASE S = {}
    BY <1>1, FS_EmptySet
  <1>2. CASE S # {}
    <2>1. PICK h \in S : \A j \in S : h <= j
      BY <1>2, LeastNat
    <2>2. ASSUME NEW j \in S PROVE (m + 1) * (j - h) < 48
      <3>1. PICK d \in Nat : d = j - h
        BY <2>1
      <3>2. d * n < L
        BY <2>1, <3>1
      <3>3. (m + 1) * d < 48
        <4>1. SUFFICES ASSUME (m + 1) * d >= 48 PROVE FALSE
          OBVIOUS
        <4>2. PICK e \in Nat : e = (m + 1) * d
          OBVIOUS
        <4>3. 48 * n <= e * n
          BY <4>1, <4>2, MulMono
        <4>4. e * n = (m + 1) * (d * n)
          BY <4>2
        <4>5. PICK x \in Nat : x = d * n
          OBVIOUS
        <4>6. (m + 1) * x >= (m + 1) * L
          BY <4>3, <4>4, <4>5
        <4>7. m = 1 \/ m = 2 \/ m = 3 \/ m = 4 \/ m = 5
          OBVIOUS
        <4> QED  BY ONLY <4>5, <4>6, <4>7, <3>2, L \in Nat, x \in Nat
      <3> QED  BY <3>1, <3>3
    <2>3. PICK D \in Nat : S \subseteq h .. h + D /\ m * (D + 1) <= 48
      <3>1. m = 1 \/ m = 2 \/ m = 3 \/ m = 4 \/ m = 5
        OBVIOUS
      <3>2. ASSUME NEW D \in Nat, NEW b \in Nat, m = b, (b + 1) * (D + 1) >= 48
            PROVE  S \subseteq h .. h + D
        <4>1. ASSUME NEW j \in S PROVE j \in h .. h + D
          <5>1. j \in Nat /\ h \in Nat /\ h <= j
            BY <2>1
          <5>2. PICK d \in Nat : d = j - h
            BY <5>1
          <5>3. (b + 1) * d < 48
            BY <2>2, <3>2, <5>2
          <5>4. d < D + 1
            <6>1. d * (b + 1) < (D + 1) * (b + 1)
              BY <3>2, <5>3
            <6> QED  BY <6>1, MulCancel
          <5> QED  BY <5>1, <5>2, <5>4
        <4> QED  BY <4>1
      <3>3. CASE m = 1
        <4>1. S \subseteq h .. h + 23
          BY <3>2, <3>3, 23 \in Nat, 1 \in Nat, (1 + 1) * (23 + 1) >= 48
        <4> QED  BY <3>3, <4>1, 23 \in Nat, 1 * (23 + 1) <= 48
      <3>4. CASE m = 2
        <4>1. S \subseteq h .. h + 15
          BY <3>2, <3>4, 15 \in Nat, 2 \in Nat, (2 + 1) * (15 + 1) >= 48
        <4> QED  BY <3>4, <4>1, 15 \in Nat, 2 * (15 + 1) <= 48
      <3>5. CASE m = 3
        <4>1. S \subseteq h .. h + 11
          BY <3>2, <3>5, 11 \in Nat, 3 \in Nat, (3 + 1) * (11 + 1) >= 48
        <4> QED  BY <3>5, <4>1, 11 \in Nat, 3 * (11 + 1) <= 48
      <3>6. CASE m = 4
        <4>1. S \subseteq h .. h + 9
          BY <3>2, <3>6, 9 \in Nat, 4 \in Nat, (4 + 1) * (9 + 1) >= 48
        <4> QED  BY <3>6, <4>1, 9 \in Nat, 4 * (9 + 1) <= 48
      <3>7. CASE m = 5
        <4>1. S \subseteq h .. h + 7
          BY <3>2, <3>7, 7 \in Nat, 5 \in Nat, (5 + 1) * (7 + 1) >= 48
        <4> QED  BY <3>7, <4>1, 7 \in Nat, 5 * (7 + 1) <= 48
      <3> QED  BY <3>1, <3>3, <3>4, <3>5, <3>6, <3>7
    <2>4. h \in Nat /\ IsFiniteSet(h .. h + D) /\ Cardinality(h .. h + D) = D + 1
      <3>1. h \in Int /\ h + D \in Int /\ ~(h > h + D) /\ (h + D) - h + 1 = D + 1
        BY <2>1
      <3> QED  BY <3>1, FS_Interval
    <2>5. Cardinality(S) <= D + 1 /\ Cardinality(S) \in Nat
      <3>1. S \in SUBSET (h .. h + D)
        BY <2>3
      <3>2. IsFiniteSet(S) /\ Cardinality(S) <= Cardinality(h .. h + D)
        BY <2>4, <3>1, FS_Subset
      <3> QED  BY <2>4, <3>2, FS_CardinalityType
    <2>6. PICK C \in Nat : C = Cardinality(S)
      BY <2>5
    <2>7. C * m <= (D + 1) * m
      BY <2>5, <2>6, MulMono
    <2> QED  BY <2>3, <2>6, <2>7
  <1> QED  BY <1>1, <1>2
\* A function onto T that takes no value twice counts the elements of T.
LEMMA CountedBy ==
    ASSUME NEW S, NEW B \in Nat, NEW g \in [S -> 0 .. B - 1],
           \A p, q \in S : g[p] = g[q] => p = q,
           \A x \in 0 .. B - 1 : \E p \in S : g[p] = x
    PROVE  Cardinality(S) = B
  <1> DEFINE T == 0 .. B - 1
  <1>1. IsFiniteSet(T) /\ Cardinality(T) = B
    <2>1. 0 \in Int /\ B - 1 \in Int /\ (0 > B - 1 <=> B = 0) /\ (B - 1) - 0 + 1 = B
      OBVIOUS
    <2> QED  BY <2>1, FS_Interval
  <1> HIDE DEF T
  <1>2. g \in Injection(S, T) /\ g \in Surjection(S, T)
    BY DEF Injection, IsInjective, Surjection, T
  <1>3. Cardinality(S) = Cardinality(T)
    BY <1>1, <1>2, FS_Injection
  <1> QED  BY <1>1, <1>3

\* Each byte of the block is in exactly one place of one fragment.
LEMMA WholeBlock ==
    ASSUME NEW l \in Nat, 0 < l, l <= 1400, NEW m \in 0 .. 5
    PROVE  LET F == [i \in 0 .. NumFragments(l, m) - 1 |-> Fragment(l, m, i)]
               at == UNION {{<<i, j>> : j \in {k \in DOMAIN F[i] : F[i][k] >= 0}} :
                               i \in DOMAIN F}
           IN  /\ {F[p[1]][p[2]] : p \in at} = 0 .. BlockLen(l, m) - 1
               /\ Cardinality(at) = BlockLen(l, m)
               /\ \A i \in DOMAIN F : Len(F[i]) < 2^14
               /\ m > 0 => ChunkLen(l) <= MaxChunk /\ ZeroPad(l) < 2^8
  <1> DEFINE n == NumFragments(l, m)
             s == FragmentSize(l, m)
             B == BlockLen(l, m)
             F == [i \in 0 .. n - 1 |-> Fragment(l, m, i)]
             at == UNION {{<<i, j>> : j \in {k \in DOMAIN F[i] : F[i][k] >= 0}} :
                             i \in DOMAIN F}
             ix(i, j) == (j - 1) * n + i
  <1>0. m \in 0 .. PARITYBYTES - 1
    BY DEF PARITYBYTES
  <1>1. n \in Nat /\ n > 0
    BY <1>0, Fragments
  <1>2. s \in Nat /\ s > 0
    BY <1>0, Fragments
  <1>3. B \in Nat /\ B > 0
    BY <1>0, Fragments
  <1>4. n * s >= B
    BY <1>0, Fragments
  <1>5. n * s < B + n
    BY <1>0, Fragments
  <1>6. B <= 1785
    BY <1>0, BlockSize
  <1>7. \A i \in 0 .. n - 1 : F[i] = [j \in 1 .. s |-> IF ix(i, j) < B THEN ix(i, j) ELSE -1]
    BY <1>0, FragmentIs
  <1>8. DOMAIN F = 0 .. n - 1
    OBVIOUS
  <1> HIDE DEF n, s, B, F
  <1>9. \A i \in 0 .. n - 1 : DOMAIN F[i] = 1 .. s
    <2> HIDE DEF ix
    <2> TAKE i \in 0 .. n - 1
    <2>1. F[i] = [j \in 1 .. s |-> IF ix(i, j) < B THEN ix(i, j) ELSE -1]
      BY <1>7, Zenon
    <2> QED  BY <2>1, Zenon
  <1>10. ASSUME NEW i \in 0 .. n - 1, NEW j \in 1 .. s
         PROVE  /\ ix(i, j) \in Nat
                /\ F[i][j] = IF ix(i, j) < B THEN ix(i, j) ELSE -1
                /\ F[i][j] >= 0 <=> ix(i, j) < B
    <2>1. ix(i, j) \in Nat
      <3>1. PICK a \in Nat : a = j - 1
        OBVIOUS
      <3>2. a * n \in Nat
        BY <1>1
      <3> QED  BY <3>1, <3>2
    <2>2. F[i][j] = IF ix(i, j) < B THEN ix(i, j) ELSE -1
      BY <1>7
    <2> HIDE DEF ix
    <2> QED  BY <2>1, <2>2
  <1>11. ASSUME NEW p \in at
         PROVE  \E i \in 0 .. n - 1, j \in 1 .. s :
                   p = <<i, j>> /\ ix(i, j) < B /\ F[p[1]][p[2]] = ix(i, j)
    <2>1. PICK i \in 0 .. n - 1 : p \in {<<i, j>> : j \in {k \in DOMAIN F[i] : F[i][k] >= 0}}
      BY <1>8
    <2>2. PICK j \in 1 .. s : p = <<i, j>> /\ F[i][j] >= 0
      <3>1. PICK j \in {k \in DOMAIN F[i] : F[i][k] >= 0} : p = <<i, j>>
        BY <2>1
      <3>2. j \in DOMAIN F[i] /\ F[i][j] >= 0
        OBVIOUS
      <3>3. DOMAIN F[i] = 1 .. s
        BY <1>9
      <3> QED  BY <3>1, <3>2, <3>3
    <2>3. ix(i, j) < B /\ F[i][j] = ix(i, j)
      BY <1>10, <2>2
    <2> QED  BY <2>2, <2>3
  <1>12. ASSUME NEW i \in 0 .. n - 1, NEW j \in 1 .. s, ix(i, j) < B
         PROVE  <<i, j>> \in at
    <2>0. F[i][j] >= 0
      BY <1>10, <1>12
    <2>1. j \in {k \in DOMAIN F[i] : F[i][k] >= 0}
      BY <1>9, <2>0
    <2> QED  BY <1>8, <2>1
  <1> DEFINE g == [p \in at |-> F[p[1]][p[2]]]
  <1> HIDE DEF at, ix
  <1>13. g \in [at -> 0 .. B - 1]
    <2>1. ASSUME NEW p \in at PROVE F[p[1]][p[2]] \in 0 .. B - 1
      BY <1>3, <1>10, <1>11
    <2> QED  BY <2>1
  <1>14. ASSUME NEW p \in at, NEW q \in at, g[p] = g[q]
         PROVE  p = q
    <2>1. PICK i \in 0 .. n - 1, j \in 1 .. s : p = <<i, j>> /\ g[p] = ix(i, j)
      BY <1>11
    <2>2. PICK h \in 0 .. n - 1, k \in 1 .. s : q = <<h, k>> /\ g[q] = ix(h, k)
      BY <1>11
    <2>3. PICK a \in Nat : a = j - 1
      OBVIOUS
    <2>4. PICK b \in Nat : b = k - 1
      OBVIOUS
    <2>5. a * n + i = b * n + h
      BY <1>14, <2>1, <2>2, <2>3, <2>4 DEF ix
    <2>6. a = b
      BY <1>1, <2>5, RowColumn
    <2>7. i = h
      BY <1>1, <2>5, RowColumn
    <2> QED  BY <2>1, <2>2, <2>3, <2>4, <2>6, <2>7
  <1>15. ASSUME NEW x \in 0 .. B - 1
         PROVE  \E p \in at : g[p] = x
    <2>1. x \in Nat /\ x < B
      BY <1>3
    <2>2. PICK a \in Nat : a = x \div n
      BY <1>1, <2>1, DivMod
    <2>3. PICK i \in 0 .. n - 1 : i = x % n
      BY <1>1, <2>1, DivMod
    <2>4. x = n * a + i
      BY <1>1, <2>1, <2>2, <2>3, DivMod
    <2>5. a < s
      <3>1. PICK y \in Nat : y = a * n
        BY <1>1
      <3>2. n * a = y
        BY <1>1, <3>1
      <3>3. PICK z \in Nat : z = s * n
        BY <1>1, <1>2
      <3>4. n * s = z
        BY <1>1, <1>2, <3>3
      <3>5. a * n < s * n
        BY <1>3, <1>4, <2>1, <2>4, <3>1, <3>2, <3>3, <3>4
      <3> QED  BY <1>1, <1>2, <3>5, MulCancel
    <2>6. PICK j \in 1 .. s : j = a + 1
      BY <1>2, <2>5
    <2>7. ix(i, j) = x
      <3>1. j - 1 = a
        BY <2>6
      <3>2. a * n = n * a
        BY <1>1
      <3> QED  BY <2>4, <3>1, <3>2 DEF ix
    <2>8. <<i, j>> \in at
      BY <1>12, <2>1, <2>7
    <2>9. F[i][j] = x
      BY <1>10, <2>1, <2>7
    <2> QED  BY <2>8, <2>9
  <1>16. {F[p[1]][p[2]] : p \in at} = 0 .. B - 1
    <2>1. \A p \in at : F[p[1]][p[2]] = g[p] /\ g[p] \in 0 .. B - 1
      BY <1>13
    <2> HIDE DEF g
    <2> QED  BY <1>15, <2>1
  <1>17. Cardinality(at) = B
    <2> HIDE DEF g
    <2> QED  BY <1>3, <1>13, <1>14, <1>15, CountedBy
  <1>18. ASSUME NEW i \in DOMAIN F PROVE Len(F[i]) < 2^14
    <2>1. F[i] \in [1 .. s -> Int] /\ i \in 0 .. n - 1
      BY <1>7, <1>8, <1>10
    <2>2. Len(F[i]) = s
      BY <1>2, <2>1
    <2>3. s < 2000
      <3>1. PICK y \in Nat : y = s - 1
        BY <1>2
      <3>2. n * s = n * y + n
        <4>1. n * (y + 1) = n * y + n
          BY <1>1
        <4>2. s = y + 1
          BY <1>2, <3>1
        <4> QED  BY <4>1, <4>2
      <3>3. 1 * y <= n * y
        BY <1>1, MulMono
      <3>4. PICK z \in Nat : z = n * y
        BY <1>1
      <3> QED  BY <1>1, <1>2, <1>3, <1>5, <1>6, <3>1, <3>2, <3>3, <3>4
    <2> QED  BY <1>2, <2>2, <2>3
  <1>19. ChunkLen(l) <= MaxChunk
    BY ChunkLength DEF MaxChunk
  <1>20. ZeroPad(l) < 2^8
    BY Chunks
  <1> QED  BY <1>16, <1>17, <1>18, <1>19, <1>20 DEF n, s, B, F, at
\* The loss of m fragments takes no more bytes of a chunk than its parity has.
LEMMA LossBounded ==
    ASSUME NEW l \in Nat, 0 < l, l <= 1400, NEW m \in 1 .. 5,
           NEW c \in 0 .. NumChunks(l) - 1, NEW i \in 0 .. NumFragments(l, m) - 1
    PROVE  LET f == Fragment(l, m, i)
           IN  m * Cardinality({j \in DOMAIN f : f[j] \in Chunk(l, c)}) <= PARITYBYTES
  <1> DEFINE n == NumFragments(l, m)
             s == FragmentSize(l, m)
             L == ChunkLen(l) + 48
             B == BlockLen(l, m)
             f == Fragment(l, m, i)
             S == {j \in DOMAIN f : f[j] \in Chunk(l, c)}
             byte(j) == IF (j - 1) * n + i < B THEN (j - 1) * n + i ELSE -1
  <1>0. m \in 0 .. PARITYBYTES - 1
    BY DEF PARITYBYTES
  <1>1. n \in Nat /\ n > 0
    BY <1>0, Fragments
  <1>2. s \in Nat
    BY <1>0, Fragments
  <1>3. L \in Nat /\ c \in Nat
    BY ChunkLength, ChunkCount
  <1>4. 48 * n >= (m + 1) * L
    BY FragmentsPerChunk
  <1>5. f = [j \in 1 .. s |-> byte(j)]
    BY <1>0, FragmentIs
  <1>6. Chunk(l, c) = c * L .. (c + 1) * L - 1
    BY DEF Chunk, PARITYBYTES
  <1> HIDE DEF n, s, L, B, f
  <1>7. DOMAIN f = 1 .. s /\ \A j \in 1 .. s : f[j] = byte(j)
    <2> HIDE DEF byte
    <2> QED  BY <1>5
  <1>8. PICK a \in Nat : a = c * L
    BY <1>3
  <1>9. (c + 1) * L = a + L
    <2>1. (c + 1) * L = c * L + L
      BY <1>3
    <2> QED  BY <1>8, <2>1
  <1>10. ASSUME NEW j \in S
         PROVE  j \in Nat /\ j > 0 /\ (j - 1) * n + i \in a .. a + L - 1
    <2>1. j \in 1 .. s /\ f[j] \in a .. a + L - 1
      <3> HIDE DEF byte
      <3>1. j \in DOMAIN f /\ f[j] \in Chunk(l, c)
        OBVIOUS
      <3>2. Chunk(l, c) = a .. a + L - 1
        <4>1. PICK b \in Int : b = (c + 1) * L - 1
          BY <1>3, <1>9
        <4>2. b = a + L - 1
          BY <1>3, <1>9, <4>1
        <4>3. Chunk(l, c) = a .. b
          BY <1>6, <1>8, <4>1
        <4> QED  BY <4>2, <4>3
      <3>3. j \in 1 .. s
        BY <1>7, <3>1
      <3>4. f[j] \in a .. a + L - 1
        BY <3>1, <3>2, Zenon
      <3> QED  BY <3>3, <3>4
    <2>2. f[j] = IF (j - 1) * n + i < B THEN (j - 1) * n + i ELSE -1
      BY <1>7, <2>1
    <2>3. f[j] # -1
      BY <1>3, <1>8, <2>1
    <2> QED  BY <2>1, <2>2, <2>3
  <1>11. ASSUME NEW h \in S, NEW j \in S, h <= j
         PROVE  (j - h) * n < L
    <2>1. PICK x \in Nat : x = h - 1
      BY <1>10
    <2>2. PICK y \in Nat : y = j - 1
      BY <1>10
    <2>3. x * n + i \in a .. a + L - 1
      BY <1>10, <2>1
    <2>4. y * n + i \in a .. a + L - 1
      BY <1>10, <2>2
    <2>5. (y - x) * n = y * n - x * n
      BY <1>1
    <2>6. y - x = j - h
      BY <1>10, <2>1, <2>2
    <2>7. PICK u \in Nat : u = x * n
      BY <1>1
    <2>8. PICK v \in Nat : v = y * n
      BY <1>1
    <2>9. i \in Int
      BY <1>1 DEF n
    <2>10. v - u < L
      BY <1>3, <2>3, <2>4, <2>7, <2>8, <2>9
    <2> QED  BY <2>5, <2>6, <2>7, <2>8, <2>10
  <1>12. S \subseteq Nat
    BY <1>10
  <1> HIDE DEF S
  <1>13. m * Cardinality(S) <= 48
    BY <1>1, <1>3, <1>4, <1>11, <1>12, FewRows
  <1> QED  BY <1>13 DEF S, f, PARITYBYTES

\* What Recoverable says of an AF packet of one of the configurations.
LEMMA PacketRecoverable ==
    ASSUME conf \in Confs, pc = "stamp" => af \in PacketsOf(conf)
    PROVE  Recoverable
  <1>1. pc = "stamp" => af \in Nat /\ 0 < af /\ af <= 1400
    BY PacketSize
  <1>2. Reassembles
    BY <1>1, WholeBlock DEF Reassembles
  <1>3. ASSUME pc = "stamp", NEW m \in 1 .. 5, NEW c \in 0 .. NumChunks(af) - 1,
               NEW i \in 0 .. NumFragments(af, m) - 1
        PROVE  LET f == Fragment(af, m, i)
               IN  m * Cardinality({j \in DOMAIN f : f[j] \in Chunk(af, c)}) <= PARITYBYTES
    BY <1>1, <1>3, LossBounded
  <1> QED  BY <1>2, <1>3 DEF Recoverable
-----------------------------------------------------------------------------
(* The map of pending fragments *)

FragmentType == [packet : Nat, seq : Nat, pseq : Nat, findex : Nat, fcount : Nat]

Times == DOMAIN m_pending_frames

\* write() is between the assembly of a packet and the insertion of its fragments.
Writing == pc \in {"stamp", "insert"}

\* Types that STypeOK leaves open.
MoreTypes ==
    /\ conf \in Confs
    /\ m_pending_frames \in [Times -> FragmentType]
    /\ sent \in Seq(FragmentType)

\* The fragments that write() is about to insert are those of the last packet.
InHand ==
    Writing =>
        /\ conf.enable_pft
        /\ af \in PacketsOf(conf)
        /\ edi_fragments \in [1 .. NumFragments(af, conf.fec) -> FragmentType]
        /\ \A i \in 1 .. NumFragments(af, conf.fec) :
              edi_fragments[i].packet = packets /\ edi_fragments[i].findex = i - 1
        /\ pc = "stamp" => clock <= WriteUntil
        /\ pc = "insert" => now <= WriteUntil /\ now <= clock

\* No fragment is of a packet that is still to be assembled or inserted.
Numbered ==
    /\ \A t \in Times : /\ m_pending_frames[t].packet <= packets
                        /\ Writing => m_pending_frames[t].packet < packets
    /\ \A i \in DOMAIN sent : /\ sent[i].packet <= packets
                              /\ Writing => sent[i].packet < packets

\* The fragments of a packet are due in their order, after those that were sent.
DueInOrder ==
    /\ \A t, u \in Times :
          t < u /\ m_pending_frames[t].packet = m_pending_frames[u].packet
              => m_pending_frames[t].findex < m_pending_frames[u].findex
    /\ \A i \in DOMAIN sent : \A t \in Times :
          sent[i].packet = m_pending_frames[t].packet
              => sent[i].findex < m_pending_frames[t].findex

\* Without FEC the packets are due in their order, at times that have come, and
\* that are earlier than the time the packet in hand gets.
PacketsInOrder ==
    conf.fec = 0 =>
        /\ \A t, u \in Times : t < u => m_pending_frames[t].packet < m_pending_frames[u].packet
        /\ \A i \in DOMAIN sent : \A t \in Times : sent[i].packet < m_pending_frames[t].packet
        /\ \A t \in Times : t <= clock

\* Without FEC the packet in hand gets a time that no fragment is stored under.
FreshTime ==
    conf.fec = 0 =>
        \A t \in Times : (pc = "stamp" => t < clock) /\ (pc = "insert" => t < now)

\* Without PFT nothing is pending.
NothingPending == ~conf.enable_pft => Times = {}

\* The inductive invariant of the two threads.
SInv ==
    /\ STypeOK /\ MoreTypes /\ InHand /\ Numbered
    /\ DueInOrder /\ PacketsInOrder /\ FreshTime /\ NothingPending
    /\ NoneLost /\ FragmentsInOrder

\* The constants are natural numbers.
LEMMA Constants ==
    /\ VersionLen \in Nat /\ Spread \in Nat /\ WriteUntil \in Nat /\ MaxPackets \in Nat
    /\ Micro \in Nat /\ Micro * Spread \in Nat /\ MaxTime \in Nat /\ WriteUntil <= MaxTime
  <1>1. /\ VersionLen \in Nat /\ Spread \in Nat /\ WriteUntil \in Nat /\ MaxPackets \in Nat
        /\ Micro \in Nat
    BY SenderAssumption
  <1>2. Micro * Spread \in Nat
    BY <1>1
  <1>3. PICK x \in Nat : x = Micro * Spread
    BY <1>2
  <1> QED  BY <1>1, <1>2, <1>3 DEF MaxTime

\* Initially nothing is pending.
LEMMA SInvInit == Init => SInv
  <1> SUFFICES ASSUME Init PROVE SInv
    OBVIOUS
  <1>1. Times = {} /\ DOMAIN sent = {} /\ sent = << >> /\ written = {}
    BY DEF Init, Times
  <1>2. conf \in Confs /\ pc = "idle" /\ ~Writing
    BY DEF Init, Writing
  <1>3. STypeOK
    <2>1. m_running \in BOOLEAN
      BY <1>2, SenderAssumption DEF Init
    <2>2. run \in {"off", "sleep", "lock", "pass", "ended", "terminated"}
      BY DEF Init
    <2>3. {m_seq, m_pseq} \subseteq 0 .. 2^16 - 1 /\ packets \in 0 .. MaxPackets
      BY Constants DEF Init
    <2>4. {clock, now, passNow} \subseteq 0 .. MaxTime
      BY Constants DEF Init
    <2> QED  BY <1>1, <1>2, <2>1, <2>2, <2>3, <2>4 DEF STypeOK, Times, Init
  <1>4. MoreTypes
    <2>1. m_pending_frames \in [Times -> FragmentType]
      BY <1>1 DEF Init, Times
    <2> QED  BY <1>1, <1>2, <2>1 DEF MoreTypes
  <1>5. InHand /\ Numbered /\ DueInOrder /\ PacketsInOrder /\ FreshTime /\ NothingPending
    BY <1>1, <1>2 DEF InHand, Numbered, DueInOrder, PacketsInOrder, FreshTime, NothingPending
  <1>6. FragmentsInOrder
    BY <1>1 DEF FragmentsInOrder
  <1>7. NoneLost
    <2>1. Range(sent) = {} /\ Range(m_pending_frames) = {}
      BY <1>1 DEF Range, Times
    <2> QED  BY <1>1, <2>1 DEF NoneLost
  <1> QED  BY <1>3, <1>4, <1>5, <1>6, <1>7 DEF SInv

\* The numbers of the type invariant.
LEMMA Numbers ==
    ASSUME STypeOK
    PROVE  /\ clock \in Nat /\ clock <= MaxTime
           /\ now \in Nat /\ now <= MaxTime
           /\ passNow \in Nat /\ passNow <= MaxTime
           /\ packets \in Nat /\ packets <= MaxPackets
           /\ \A t \in Times : t \in Nat /\ t <= MaxTime
  <1>1. {clock, now, passNow} \subseteq 0 .. MaxTime
    BY DEF STypeOK
  <1>2. clock \in 0 .. MaxTime /\ now \in 0 .. MaxTime /\ passNow \in 0 .. MaxTime
    BY <1>1
  <1>3. packets \in 0 .. MaxPackets
    BY DEF STypeOK
  <1>4. Times \subseteq 0 .. MaxTime
    BY DEF STypeOK, Times
  <1> QED  BY <1>2, <1>3, <1>4, Constants

\* Steps that leave the fragments alone.
LEMMA QuietStep ==
    ASSUME SInv,
           UNCHANGED <<conf, m_pending_frames, sent, written, packets, af,
                       edi_fragments, now, m_seq, m_pseq>>,
           pc' = pc \/ pc' \in {"idle", "stop", "join", "done", "terminated"},
           run' \in {"off", "sleep", "lock", "pass", "ended", "terminated"},
           m_running' \in BOOLEAN,
           clock' \in clock .. MaxTime, passNow' \in 0 .. MaxTime,
           pc' = "stamp" => clock' <= WriteUntil
    PROVE  SInv'
  <1>0. STypeOK
    BY DEF SInv
  <1>1. clock \in Nat /\ clock' \in Nat /\ clock <= clock' /\ clock' <= MaxTime
    <2>1. clock \in Nat
      BY <1>0, Numbers
    <2> QED  BY <2>1, Constants
  <1>2. Times' = Times /\ (Writing' => Writing /\ pc' = pc)
    BY DEF Times, Writing
  <1>3. STypeOK'
    <2>1. pc' \in {"idle", "stamp", "insert", "stop", "join", "done", "terminated"}
      BY DEF SInv, STypeOK
    <2>2. {clock', now', passNow'} \subseteq 0 .. MaxTime
      <3>1. now \in Nat /\ now <= MaxTime
        BY <1>0, Numbers
      <3>2. now' \in 0 .. MaxTime /\ clock' \in 0 .. MaxTime
        BY <1>1, <3>1, Constants
      <3> QED  BY <3>2
    <2> QED  BY <2>1, <2>2 DEF SInv, STypeOK, PacketsOf
  <1>4. MoreTypes'
    BY <1>2 DEF SInv, MoreTypes
  <1>5. InHand'
    <2>1. pc' = "insert" => now <= clock'
      <3>1. now \in Nat
        BY <1>0, Numbers
      <3>2. pc = "insert" => now <= clock
        BY DEF SInv, InHand, Writing
      <3> QED  BY <1>1, <3>1, <3>2
    <2> QED  BY <1>2, <2>1 DEF SInv, InHand, PacketsOf
  <1>6. Numbered'
    BY <1>2 DEF SInv, Numbered
  <1>7. DueInOrder' /\ FragmentsInOrder' /\ NothingPending'
    BY <1>2 DEF SInv, DueInOrder, FragmentsInOrder, NothingPending
  <1>8. ASSUME conf'.fec = 0, NEW t \in Times'
        PROVE  t <= clock' /\ (pc' = "stamp" => t < clock') /\ (pc' = "insert" => t < now')
    <2>1. t \in Times /\ t \in Nat /\ conf.fec = 0
      BY <1>0, <1>2, <1>8, Numbers
    <2>2. t <= clock
      BY <2>1 DEF SInv, PacketsInOrder
    <2>3. pc = "stamp" => t < clock
      BY <2>1 DEF SInv, FreshTime
    <2>4. pc = "insert" => t < now
      BY <2>1 DEF SInv, FreshTime
    <2>5. t <= clock'
      BY <1>1, <2>1, <2>2
    <2>6. pc' = "stamp" => t < clock'
      BY <1>1, <2>1, <2>3
    <2>7. pc' = "insert" => t < now'
      BY <2>4
    <2> QED  BY <2>5, <2>6, <2>7
  <1>9. FreshTime'
    BY <1>8 DEF FreshTime
  <1>10. PacketsInOrder'
    BY <1>2, <1>8 DEF SInv, PacketsInOrder
  <1>11. NoneLost'
    <2>1. Range(sent)' = Range(sent) /\ Range(m_pending_frames)' = Range(m_pending_frames)
      BY DEF Range
    <2> QED  BY <2>1 DEF SInv, NoneLost
  <1> QED  BY <1>3, <1>4, <1>5, <1>6, <1>7, <1>9, <1>10, <1>11 DEF SInv

\* The fields of the fragments that were sent and that are pending.
LEMMA FieldTypes ==
    ASSUME MoreTypes
    PROVE  /\ \A i \in DOMAIN sent : sent[i] \in FragmentType /\ sent[i].packet \in Nat
           /\ \A t \in Times : /\ m_pending_frames[t] \in FragmentType
                               /\ m_pending_frames[t].packet \in Nat
  <1>1. ASSUME NEW i \in DOMAIN sent PROVE sent[i] \in FragmentType
    <2>1. sent \in Seq(FragmentType)
      BY DEF MoreTypes
    <2>2. i \in 1 .. Len(sent)
      BY <2>1, LenProperties
    <2> QED  BY <2>1, <2>2, ElementOfSeq
  <1>2. \A t \in Times : m_pending_frames[t] \in FragmentType
    BY DEF MoreTypes
  <1>3. \A x \in FragmentType : x.packet \in Nat
    BY DEF FragmentType
  <1> QED  BY <1>1, <1>2, <1>3

\* The numbers of a configuration.
LEMMA ConfType ==
    ASSUME conf \in Confs
    PROVE  /\ conf.enable_pft \in BOOLEAN
           /\ conf.fec \in Nat /\ conf.fec \in 0 .. PARITYBYTES - 1
           /\ ~conf.enable_pft => conf.fec = 0
  <1>1. conf.enable_pft \in BOOLEAN
    BY SenderAssumption
  <1>2. conf.fec \in 0 .. PARITYBYTES - 1
    BY SenderAssumption
  <1>3. conf.fec \in Nat
    BY <1>2 DEF PARITYBYTES
  <1>4. conf.fec > 0 => conf.enable_pft
    BY SenderAssumption
  <1>5. PICK f \in Nat : f = conf.fec
    BY <1>3
  <1>6. f > 0 \/ f = 0
    OBVIOUS
  <1>7. ~conf.enable_pft => conf.fec = 0
    BY <1>4, <1>5, <1>6
  <1> QED  BY <1>1, <1>2, <1>3, <1>7

\* The assembly of a packet: the numbers move on.
LEMMA AssembledNumbers ==
    ASSUME SInv, Assembled
    PROVE  /\ pc = "idle" /\ ~Writing
           /\ packets \in Nat /\ packets' = packets + 1 /\ packets' \in 0 .. MaxPackets
           /\ clock \in Nat /\ clock' = clock + 1
           /\ clock' \in 0 .. MaxTime /\ clock' <= WriteUntil
           /\ m_seq \in Nat /\ m_pseq \in Nat
           /\ m_seq' \in 0 .. 2^16 - 1
  <1>1. STypeOK
    BY DEF SInv
  <1>2. pc = "idle" /\ ~Writing
    BY DEF Assembled, Writing
  <1>3. packets \in Nat /\ packets' = packets + 1 /\ packets' \in 0 .. MaxPackets
    <2>1. packets \in Nat /\ packets < MaxPackets /\ packets' = packets + 1
      BY <1>1, Numbers DEF Assembled
    <2> QED  BY <2>1, Constants
  <1>4. /\ clock \in Nat /\ clock' = clock + 1
        /\ clock' \in 0 .. MaxTime /\ clock' <= WriteUntil
    <2>1. clock \in Nat /\ clock < WriteUntil /\ clock' = clock + 1
      BY <1>1, Numbers DEF Assembled
    <2> QED  BY <2>1, Constants
  <1>5. m_seq \in 0 .. 2^16 - 1 /\ m_pseq \in 0 .. 2^16 - 1
    <2>1. {m_seq, m_pseq} \subseteq 0 .. 2^16 - 1
      BY <1>1 DEF STypeOK
    <2> QED  BY <2>1
  <1>6. m_seq' \in 0 .. 2^16 - 1
    BY <1>5 DEF Assembled
  <1> QED  BY <1>2, <1>3, <1>4, <1>5, <1>6

\* Without a new fragment sent, the assembly of a packet keeps the order of those
\* that are sent and pending.
LEMMA AssembledOrder ==
    ASSUME SInv, Assembled, UNCHANGED <<conf, m_pending_frames, sent, written>>,
           pc' \in {"stamp", "terminated"}
    PROVE  /\ MoreTypes' /\ Numbered' /\ DueInOrder' /\ PacketsInOrder' /\ FreshTime'
           /\ NothingPending' /\ NoneLost' /\ FragmentsInOrder'
  <1>0. /\ packets \in Nat /\ packets' = packets + 1
        /\ clock \in Nat /\ clock' = clock + 1
    BY AssembledNumbers
  <1>1. Times' = Times /\ STypeOK
    BY DEF Times, SInv
  <1>2. MoreTypes' /\ DueInOrder' /\ NothingPending' /\ FragmentsInOrder'
    BY <1>1 DEF SInv, MoreTypes, DueInOrder, NothingPending, FragmentsInOrder
  <1>3. NoneLost'
    <2>1. Range(sent)' = Range(sent) /\ Range(m_pending_frames)' = Range(m_pending_frames)
      BY DEF Range
    <2> QED  BY <2>1 DEF SInv, NoneLost
  <1>4. Numbered'
    <2>1. ASSUME NEW t \in Times PROVE m_pending_frames[t].packet < packets'
      <3>1. m_pending_frames[t].packet <= packets
        BY DEF SInv, Numbered
      <3>2. m_pending_frames[t].packet \in Nat
        BY DEF SInv, MoreTypes, FragmentType
      <3> QED  BY <1>0, <3>1, <3>2
    <2>2. ASSUME NEW i \in DOMAIN sent PROVE sent[i].packet < packets'
      <3>1. sent[i].packet <= packets
        BY DEF SInv, Numbered
      <3>2. sent[i].packet \in Nat
        BY FieldTypes DEF SInv
      <3> QED  BY <1>0, <3>1, <3>2
    <2>3. ASSUME NEW t \in Times
          PROVE  m_pending_frames[t].packet <= packets'
      <3>1. m_pending_frames[t].packet \in Nat
        BY DEF SInv, MoreTypes, FragmentType
      <3> QED  BY <1>0, <2>1, <3>1
    <2>4. ASSUME NEW i \in DOMAIN sent
          PROVE  sent[i].packet <= packets'
      <3>1. sent[i].packet \in Nat
        BY FieldTypes DEF SInv
      <3> QED  BY <1>0, <2>2, <3>1
    <2> QED  BY <1>1, <2>1, <2>2, <2>3, <2>4 DEF Numbered
  <1>5. ASSUME conf.fec = 0, NEW t \in Times PROVE t < clock' /\ t <= clock'
    <2>1. t <= clock /\ t \in Nat
      BY <1>1, <1>5, Numbers DEF SInv, PacketsInOrder
    <2> QED  BY <1>0, <2>1
  <1>6. FreshTime'
    BY <1>1, <1>5 DEF FreshTime
  <1>7. PacketsInOrder'
    BY <1>1, <1>5 DEF SInv, PacketsInOrder
  <1> QED  BY <1>2, <1>3, <1>4, <1>6, <1>7

\* write() assembles a packet and cuts it into fragments.
LEMMA WritePFTStep ==
    ASSUME SInv, WritePFT
    PROVE  SInv'
  <1>0. STypeOK /\ conf \in Confs /\ Assembled
    BY DEF SInv, MoreTypes, WritePFT
  <1>1. MoreTypes' /\ Numbered' /\ DueInOrder' /\ PacketsInOrder' /\ FreshTime'
           /\ NothingPending' /\ NoneLost' /\ FragmentsInOrder'
    BY <1>0, AssembledOrder DEF WritePFT
  <1>2. /\ packets' \in 0 .. MaxPackets /\ packets' \in Nat
        /\ clock' \in 0 .. MaxTime /\ clock' <= WriteUntil
        /\ m_seq \in Nat /\ m_pseq \in Nat
        /\ m_seq' \in 0 .. 2^16 - 1
    BY <1>0, AssembledNumbers
  <1>3. /\ conf' = conf /\ conf.enable_pft /\ af' \in PacketsOf(conf) /\ pc' = "stamp"
        /\ now' = now /\ passNow' = passNow /\ run' = run /\ m_running' = m_running
        /\ m_pending_frames' = m_pending_frames
    BY DEF WritePFT, thread
  <1>4. PICK l : l = af' /\ l \in PacketsOf(conf) /\ l \in Nat /\ 0 < l /\ l <= 1400
    BY <1>0, <1>3, PacketSize
  <1>5. conf.fec \in 0 .. PARITYBYTES - 1
    BY <1>0, ConfType
  <1>6. PICK n \in Nat : n = NumFragments(l, conf.fec)
    BY <1>4, <1>5, Fragments
  <1>7. /\ edi_fragments' = [i \in 1 .. n |-> [packet |-> packets', seq |-> m_seq,
                               pseq |-> m_pseq, findex |-> i - 1, fcount |-> n]]
        /\ m_pseq' = (m_pseq + 1) % 2^16
    BY <1>4, <1>6 DEF WritePFT, Assemble
  <1>8. InHand'
    <2>1. edi_fragments' \in [1 .. n -> FragmentType]
      <3>1. ASSUME NEW i \in 1 .. n
            PROVE  [packet |-> packets', seq |-> m_seq, pseq |-> m_pseq,
                    findex |-> i - 1, fcount |-> n] \in FragmentType
        BY <1>2 DEF FragmentType
      <3> QED  BY <1>7, <3>1
    <2>2. \A i \in 1 .. n : edi_fragments'[i].packet = packets' /\ edi_fragments'[i].findex = i - 1
      BY <1>7
    <2>3. NumFragments(af', conf'.fec) = n /\ PacketsOf(conf)' = PacketsOf(conf)
      BY <1>3, <1>4, <1>6 DEF PacketsOf
    <2> QED  BY <1>2, <1>3, <2>1, <2>2, <2>3 DEF InHand
  <1>9. STypeOK'
    <2>1. m_pseq' \in 0 .. 2^16 - 1
      BY <1>2, <1>7
    <2>2. {m_seq', m_pseq'} \subseteq 0 .. 2^16 - 1
      BY <1>2, <2>1
    <2>3. {clock', now', passNow'} \subseteq 0 .. MaxTime
      <3>1. now' \in 0 .. MaxTime /\ passNow' \in 0 .. MaxTime
        BY <1>0, <1>3, Numbers, Constants
      <3> QED  BY <1>2, <3>1
    <2>4. PacketsOf(conf)' = PacketsOf(conf)
      BY <1>3 DEF PacketsOf
    <2> QED  BY <1>0, <1>2, <1>3, <2>2, <2>3, <2>4 DEF STypeOK
  <1> QED  BY <1>1, <1>8, <1>9 DEF SInv

\* What the destinations were handed after one more fragment.
LEMMA SentAppended ==
    ASSUME MoreTypes, NEW x \in FragmentType, sent' = Append(sent, x)
    PROVE  /\ sent' \in Seq(FragmentType)
           /\ \A i \in DOMAIN sent' : \/ i \in DOMAIN sent /\ sent'[i] = sent[i]
                                      \/ i = Len(sent) + 1 /\ sent'[i] = x
           /\ \A i \in DOMAIN sent : i \in Nat /\ i <= Len(sent)
           /\ Len(sent) \in Nat
           /\ Range(sent') = Range(sent) \cup {x}
  <1>1. /\ sent \in Seq(FragmentType) /\ Len(sent) \in Nat /\ DOMAIN sent = 1 .. Len(sent)
    BY LenProperties DEF MoreTypes
  <1>2. /\ sent' \in Seq(FragmentType) /\ Len(sent') = Len(sent) + 1
        /\ \A i \in 1 .. Len(sent) : sent'[i] = sent[i]
        /\ sent'[Len(sent) + 1] = x
    BY <1>1, AppendProperties
  <1>3. DOMAIN sent' = 1 .. Len(sent) + 1
    BY <1>2, LenProperties
  <1>4. \A i \in DOMAIN sent' : i \in DOMAIN sent \/ i = Len(sent) + 1
    BY <1>1, <1>3
  <1>5. \A i \in DOMAIN sent : i \in DOMAIN sent' /\ i \in Nat /\ i <= Len(sent)
    BY <1>1, <1>3
  <1>6. Len(sent) + 1 \in DOMAIN sent'
    BY <1>1, <1>3
  <1>7. \A i \in DOMAIN sent : sent'[i] = sent[i]
    BY <1>1, <1>2
  <1>8. Range(sent') = Range(sent) \cup {x}
    BY <1>2, <1>4, <1>5, <1>6, <1>7 DEF Range
  <1> QED  BY <1>1, <1>2, <1>4, <1>5, <1>7, <1>8

\* write() without PFT: the packet is sent after all earlier ones.
LEMMA WriteAFStep ==
    ASSUME SInv, WriteAF
    PROVE  SInv'
  <1>0. STypeOK /\ conf \in Confs /\ Assembled /\ MoreTypes
    BY DEF SInv, MoreTypes, WriteAF
  <1>2. /\ packets \in Nat /\ packets' = packets + 1
        /\ packets' \in 0 .. MaxPackets /\ packets' \in Nat
        /\ clock' \in 0 .. MaxTime
        /\ m_seq \in Nat /\ m_pseq \in Nat
        /\ m_seq' \in 0 .. 2^16 - 1
        /\ pc = "idle"
    BY <1>0, AssembledNumbers
  <1> DEFINE x == [packet |-> packets', seq |-> m_seq, pseq |-> 0, findex |-> 0, fcount |-> 0]
  <1>3. /\ conf' = conf /\ ~conf.enable_pft /\ pc' = pc /\ sent' = Append(sent, x)
        /\ now' = now /\ passNow' = passNow /\ run' = run /\ m_running' = m_running
        /\ m_pending_frames' = m_pending_frames /\ m_pseq' = m_pseq /\ af' = af
    BY DEF WriteAF, thread
  <1>4. x \in FragmentType /\ x.packet = packets'
    BY <1>2 DEF FragmentType
  <1> HIDE DEF x
  <1>5. Times = {} /\ Times' = {} /\ ~Writing'
    BY <1>2, <1>3 DEF SInv, NothingPending, Times, Writing
  <1>6. /\ sent' \in Seq(FragmentType)
        /\ \A i \in DOMAIN sent' : \/ i \in DOMAIN sent /\ sent'[i] = sent[i]
                                   \/ i = Len(sent) + 1 /\ sent'[i] = x
        /\ \A i \in DOMAIN sent : i \in Nat /\ i <= Len(sent)
        /\ Len(sent) \in Nat
    BY <1>0, <1>3, <1>4, SentAppended
  <1>7. \A i \in DOMAIN sent : sent[i].packet < packets' /\ sent[i].packet <= packets'
    <2>1. ASSUME NEW i \in DOMAIN sent
          PROVE  sent[i].packet < packets' /\ sent[i].packet <= packets'
      <3>1. sent[i].packet <= packets /\ sent[i].packet \in Nat
        BY <1>0, FieldTypes DEF SInv, Numbered
      <3>2. PICK k \in Nat : k = sent[i].packet
        BY <3>1
      <3> QED  BY <1>2, <3>1, <3>2
    <2> QED  BY <2>1
  <1>8. STypeOK'
    <2>1. {m_seq', m_pseq'} \subseteq 0 .. 2^16 - 1
      BY <1>0, <1>2, <1>3 DEF STypeOK
    <2>3. {clock', now', passNow'} \subseteq 0 .. MaxTime
      <3>1. now' \in 0 .. MaxTime /\ passNow' \in 0 .. MaxTime
        BY <1>0, <1>3, Numbers, Constants
      <3> QED  BY <1>2, <3>1
    <2>4. PacketsOf(conf)' = PacketsOf(conf)
      BY <1>3 DEF PacketsOf
    <2> QED  BY <1>0, <1>2, <1>3, <2>1, <2>3, <2>4 DEF STypeOK
  <1>9. MoreTypes'
    BY <1>3, <1>5, <1>6 DEF SInv, MoreTypes, Times
  <1>10. InHand' /\ DueInOrder' /\ PacketsInOrder' /\ FreshTime' /\ NothingPending'
    BY <1>5 DEF InHand, DueInOrder, PacketsInOrder, FreshTime, NothingPending
  <1>11. Numbered'
    <2>1. \A i \in DOMAIN sent' : sent'[i].packet <= packets'
      BY <1>2, <1>4, <1>6, <1>7
    <2> QED  BY <1>5, <2>1 DEF Numbered
  <1>12. NoneLost'
    BY <1>3 DEF NoneLost
  <1>13. FragmentsInOrder'
    <2>1. ASSUME NEW i \in DOMAIN sent', NEW j \in DOMAIN sent', i < j
          PROVE  /\ sent'[i].packet = sent'[j].packet => sent'[i].findex < sent'[j].findex
                 /\ conf'.fec = 0 => sent'[i].packet < sent'[j].packet
      <3>1. CASE j \in DOMAIN sent
        <4>1. i \in DOMAIN sent /\ sent'[i] = sent[i] /\ sent'[j] = sent[j]
          BY <1>6, <2>1, <3>1
        <4> QED  BY <1>3, <2>1, <3>1, <4>1 DEF SInv, FragmentsInOrder
      <3>2. CASE j \notin DOMAIN sent
        <4>1. j = Len(sent) + 1 /\ sent'[j] = x
          BY <1>6, <3>2
        <4>2. i \in DOMAIN sent /\ sent'[i] = sent[i]
          BY <1>6, <2>1, <4>1
        <4>3. sent[i].packet < packets' /\ sent[i].packet \in Nat
          BY <1>0, <1>7, <4>2, FieldTypes
        <4>4. sent'[i].packet < sent'[j].packet
          BY <1>4, <4>1, <4>2, <4>3
        <4>5. sent[i].packet # packets'
          BY <1>2, <4>3
        <4> QED  BY <1>4, <4>1, <4>2, <4>4, <4>5
      <3> QED  BY <3>1, <3>2
    <2> QED  BY <2>1 DEF FragmentsInOrder
  <1> QED  BY <1>8, <1>9, <1>10, <1>11, <1>12, <1>13 DEF SInv

\* A destination throws while the packet is handed over.
LEMMA WriteThrowsStep ==
    ASSUME SInv, WriteThrows
    PROVE  SInv'
  <1>0. STypeOK /\ conf \in Confs /\ Assembled
    BY DEF SInv, MoreTypes, WriteThrows
  <1>1. MoreTypes' /\ Numbered' /\ DueInOrder' /\ PacketsInOrder' /\ FreshTime'
           /\ NothingPending' /\ NoneLost' /\ FragmentsInOrder'
    BY <1>0, AssembledOrder DEF WriteThrows
  <1>2. /\ packets' \in 0 .. MaxPackets
        /\ clock' \in 0 .. MaxTime
        /\ m_seq' \in 0 .. 2^16 - 1
    BY <1>0, AssembledNumbers
  <1>3. /\ conf' = conf /\ pc' = "terminated" /\ af' = af /\ m_pseq' = m_pseq
        /\ now' = now /\ passNow' = passNow /\ run' = run /\ m_running' = m_running
        /\ m_pending_frames' = m_pending_frames
    BY DEF WriteThrows, thread
  <1>4. STypeOK'
    <2>1. {m_seq', m_pseq'} \subseteq 0 .. 2^16 - 1
      BY <1>0, <1>2, <1>3 DEF STypeOK
    <2>3. {clock', now', passNow'} \subseteq 0 .. MaxTime
      <3>1. now' \in 0 .. MaxTime /\ passNow' \in 0 .. MaxTime
        BY <1>0, <1>3, Numbers, Constants
      <3> QED  BY <1>2, <3>1
    <2>4. PacketsOf(conf)' = PacketsOf(conf)
      BY <1>3 DEF PacketsOf
    <2> QED  BY <1>0, <1>2, <1>3, <2>1, <2>3, <2>4 DEF STypeOK
  <1>5. InHand'
    BY <1>3 DEF InHand, Writing
  <1> QED  BY <1>1, <1>4, <1>5 DEF SInv

\* write() reads the time: no pending fragment is stored under it without FEC.
LEMMA StampStep ==
    ASSUME SInv, Stamp
    PROVE  SInv'
  <1>0. STypeOK /\ conf \in Confs
    BY DEF SInv, MoreTypes
  <1>1. /\ conf' = conf /\ pc = "stamp" /\ pc' = "insert" /\ now' = clock /\ af' = af
        /\ clock' = clock /\ passNow' = passNow /\ run' = run /\ m_running' = m_running
        /\ m_pending_frames' = m_pending_frames /\ sent' = sent /\ written' = written
        /\ packets' = packets /\ m_seq' = m_seq /\ m_pseq' = m_pseq
        /\ edi_fragments' = edi_fragments
    BY DEF Stamp, thread
  <1>2. Times' = Times /\ Writing /\ Writing' /\ PacketsOf(conf)' = PacketsOf(conf)
    BY <1>1 DEF Times, Writing, PacketsOf
  <1>3. STypeOK'
    <2>1. {clock', now', passNow'} \subseteq 0 .. MaxTime
      BY <1>0, <1>1 DEF STypeOK
    <2> QED  BY <1>0, <1>1, <1>2, <2>1 DEF STypeOK
  <1>4. MoreTypes' /\ Numbered' /\ DueInOrder' /\ PacketsInOrder' /\ NothingPending' /\ FragmentsInOrder'
    <2>1. MoreTypes' /\ DueInOrder' /\ NothingPending' /\ FragmentsInOrder'
      BY <1>1, <1>2 DEF SInv, MoreTypes, DueInOrder, NothingPending, FragmentsInOrder
    <2>2. Numbered'
      BY <1>1, <1>2 DEF SInv, Numbered
    <2>3. PacketsInOrder'
      BY <1>1, <1>2 DEF SInv, PacketsInOrder
    <2> QED  BY <2>1, <2>2, <2>3
  <1>5. NoneLost'
    <2>1. Range(sent)' = Range(sent) /\ Range(m_pending_frames)' = Range(m_pending_frames)
      BY <1>1 DEF Range
    <2> QED  BY <1>1, <2>1 DEF SInv, NoneLost
  <1>6. InHand'
    <2>1. clock <= WriteUntil /\ clock \in Nat
      BY <1>0, <1>1, <1>2, Numbers DEF SInv, InHand
    <2>2. now' <= clock'
      BY <1>1, <2>1
    <2> QED  BY <1>1, <1>2, <2>1, <2>2 DEF SInv, InHand
  <1>7. FreshTime'
    BY <1>1, <1>2 DEF SInv, FreshTime
  <1> QED  BY <1>3, <1>4, <1>5, <1>6, <1>7 DEF SInv

\* The wait between two fragments is a whole number of ticks.
LEMMA WaitType ==
    ASSUME NEW n \in Nat
    PROVE  WaitTime(n) \in Nat
  <1>1. ASSUME NEW a \in Nat, NEW b \in Nat, b > 0 PROVE Rounded(a, b) \in Nat
    <2>1. PICK q \in Nat : q = a \div b
      BY <1>1, DivMod
    <2> QED  BY <2>1 DEF Rounded
  <1>2. Micro \in Nat /\ Spread \in Nat
    BY Constants
  <1>3. PICK w \in Nat : w = IF n > 1 /\ Spread > 0 THEN Rounded(Spread, n) ELSE 1
    BY <1>1, <1>2
  <1>4. Micro * w \in Nat
    BY <1>2
  <1> QED  BY <1>3, <1>4 DEF WaitTime

\* The fragments of the packet in hand under their times.
LEMMA SpacedFacts ==
    ASSUME SInv, pc = "insert"
    PROVE  /\ \A t \in DOMAIN Spaced(now) :
                 /\ t \in Nat /\ t <= MaxTime
                 /\ Spaced(now)[t] \in FragmentType /\ Spaced(now)[t].packet = packets
           /\ \A t, u \in DOMAIN Spaced(now) :
                 t < u => Spaced(now)[t].findex < Spaced(now)[u].findex
           /\ conf.fec = 0 =>
                 /\ DOMAIN Spaced(now) = {now}
                 /\ Range(edi_fragments) = {Spaced(now)[now]}
  <1> DEFINE n == NumFragments(af, conf.fec)
             w == WaitTime(n)
             At(i) == now + (i - 1) * w
             X == Spaced(now)
  <1>0. STypeOK /\ conf \in Confs /\ Writing
    BY DEF SInv, MoreTypes, Writing
  <1>1. /\ af \in PacketsOf(conf) /\ now <= WriteUntil
        /\ edi_fragments \in [1 .. n -> FragmentType]
        /\ \A i \in 1 .. n : edi_fragments[i].packet = packets /\ edi_fragments[i].findex = i - 1
    BY <1>0 DEF SInv, InHand
  <1>2. af \in Nat /\ 0 < af /\ af <= 1400
    BY <1>0, <1>1, PacketSize
  <1>3. conf.fec \in 0 .. PARITYBYTES - 1
    BY <1>0, ConfType
  <1>4. n \in Nat /\ n > 0
    BY <1>2, <1>3, Fragments
  <1>5. (n - 1) * w <= Micro * Spread
    BY <1>0, <1>1, SpreadAssumption
  <1>6. conf.fec = 0 => n = 1
    BY <1>2, <1>3, Fragments
  <1> HIDE DEF n
  <1>7. w \in Nat
    BY <1>4, WaitType
  <1>8. Len(edi_fragments) = n
    BY <1>1, <1>4
  <1>9. X = [t \in {At(i) : i \in 1 .. n} |-> edi_fragments[Max({i \in 1 .. n : At(i) = t})]]
    BY <1>8 DEF Spaced
  <1> HIDE DEF w, X
  <1>10. now \in Nat
    BY <1>0, Numbers
  <1>11. ASSUME NEW i \in 1 .. n
         PROVE  /\ At(i) \in Nat /\ At(i) <= MaxTime
                /\ \A j \in 1 .. n : i <= j => At(i) <= At(j)
    <2>1. PICK a \in Nat : a = i - 1
      OBVIOUS
    <2>2. a * w \in Nat
      BY <1>7
    <2>3. PICK b \in Nat : b = n - 1 /\ a <= b
      BY <1>4, <2>1
    <2>4. a * w <= b * w
      BY <1>7, <2>3, MulMono
    <2>5. PICK x \in Nat : x = a * w
      BY <2>2
    <2>6. PICK y \in Nat : y = Micro * Spread
      BY Constants
    <2>7. b * w \in Nat /\ b * w <= y
      BY <1>5, <1>7, <2>3, <2>6
    <2>8. x <= y
      BY <2>4, <2>5, <2>7
    <2>9. At(i) = now + x
      BY <2>1, <2>5
    <2>10. MaxTime = WriteUntil + y /\ WriteUntil \in Nat
      BY <2>6, Constants DEF MaxTime
    <2>11. At(i) \in Nat /\ At(i) <= MaxTime
      <3> HIDE DEF At
      <3> QED  BY <1>1, <1>10, <2>8, <2>9, <2>10
    <2>12. ASSUME NEW j \in 1 .. n, i <= j
           PROVE  At(i) <= At(j)
      <3>1. PICK c \in Nat : c = j - 1 /\ a <= c
        BY <2>1, <2>12
      <3>2. a * w <= c * w
        BY <1>7, <3>1, MulMono
      <3>3. PICK z \in Nat : z = c * w
        BY <1>7
      <3>4. At(j) = now + z
        BY <3>1, <3>3
      <3> HIDE DEF At
      <3> QED  BY <1>10, <2>5, <2>9, <3>2, <3>3, <3>4
    <2> QED  BY <2>11, <2>12
  <1> HIDE DEF At
  <1>12. DOMAIN X = {At(i) : i \in 1 .. n}
    BY <1>9
  <1>13. ASSUME NEW t \in DOMAIN X
         PROVE  \E i \in 1 .. n : t = At(i) /\ X[t] = edi_fragments[i]
    <2> DEFINE T == {i \in 1 .. n : At(i) = t}
    <2>1. T # {} /\ T \subseteq 1 .. n
      BY <1>12
    <2>2. \E x \in T : \A y \in T : x >= y
      <3> HIDE DEF T
      <3> QED  BY <1>4, <2>1, GreatestNat
    <2>3. Max(T) \in T
      <3> HIDE DEF T
      <3> QED  BY <2>2 DEF Max
    <2>4. X[t] = edi_fragments[Max(T)]
      BY <1>9, <1>12
    <2> QED  BY <2>3, <2>4
  <1>14. ASSUME NEW t \in DOMAIN X
         PROVE  /\ t \in Nat /\ t <= MaxTime
                /\ X[t] \in FragmentType /\ X[t].packet = packets
    <2>1. PICK i \in 1 .. n : t = At(i) /\ X[t] = edi_fragments[i]
      BY <1>13
    <2> QED  BY <1>1, <1>11, <2>1 DEF n
  <1>15. ASSUME NEW t \in DOMAIN X, NEW u \in DOMAIN X, t < u
         PROVE  X[t].findex < X[u].findex
    <2>1. PICK i \in 1 .. n : t = At(i) /\ X[t] = edi_fragments[i]
      BY <1>13
    <2>2. PICK j \in 1 .. n : u = At(j) /\ X[u] = edi_fragments[j]
      BY <1>13
    <2>3. X[t].findex = i - 1 /\ X[u].findex = j - 1
      BY <1>1, <2>1, <2>2 DEF n
    <2>4. ~(j <= i)
      <3>1. SUFFICES ASSUME j <= i PROVE FALSE
        OBVIOUS
      <3>2. At(j) <= At(i) /\ At(i) \in Nat /\ At(j) \in Nat
        BY <1>11, <3>1
      <3> QED  BY <1>15, <2>1, <2>2, <3>2
    <2>5. i - 1 < j - 1
      BY <2>4
    <2> QED  BY <2>3, <2>5
  <1>16. ASSUME conf.fec = 0
         PROVE  DOMAIN X = {now} /\ Range(edi_fragments) = {X[now]}
    <2>1. n = 1
      BY <1>6, <1>16
    <2>2. At(1) = now
      <3>1. (1 - 1) * w = 0
        BY <1>7
      <3> QED  BY <1>10, <3>1 DEF At
    <2>3. DOMAIN X = {now}
      BY <1>12, <2>1, <2>2
    <2>4. DOMAIN edi_fragments = {1}
      BY <1>1, <2>1 DEF n
    <2>5. X[now] = edi_fragments[1]
      <3>1. PICK i \in 1 .. n : now = At(i) /\ X[now] = edi_fragments[i]
        BY <1>13, <2>3
      <3> QED  BY <2>1, <3>1
    <2>6. Range(edi_fragments) = {X[now]}
      BY <2>4, <2>5 DEF Range
    <2> QED  BY <2>3, <2>6
  <1> QED  BY <1>14, <1>15, <1>16 DEF X

\* The map after assignments: the assigned entries, and the others as they were.
LEMMA Overlay ==
    ASSUME NEW f, NEW g
    PROVE  /\ DOMAIN Assigned(f, g) = (DOMAIN f) \cup (DOMAIN g)
           /\ \A x \in DOMAIN f : Assigned(f, g)[x] = f[x]
           /\ \A x \in (DOMAIN g) \ (DOMAIN f) : Assigned(f, g)[x] = g[x]
  BY DEF Assigned

\* write() stores the fragments of the packet in hand under their times.
LEMMA InsertStep ==
    ASSUME SInv, Insert
    PROVE  SInv'
  <1> DEFINE X == Spaced(now)
             P == m_pending_frames
  <1>0. STypeOK /\ conf \in Confs /\ MoreTypes /\ Writing
    BY DEF SInv, MoreTypes, Insert, Writing
  <1>1. /\ conf' = conf /\ pc = "insert" /\ pc' = "idle" /\ now' = 0 /\ af' = 0
        /\ clock' = clock /\ passNow' = passNow /\ run' = run /\ m_running' = m_running
        /\ m_pending_frames' = Assigned(X, P) /\ sent' = sent
        /\ written' = written \cup Range(edi_fragments)
        /\ packets' = packets /\ m_seq' = m_seq /\ m_pseq' = m_pseq
    BY DEF Insert, thread
  <1>2. /\ conf.enable_pft /\ now <= clock
    BY <1>0, <1>1 DEF SInv, InHand
  <1>3. /\ packets \in Nat /\ clock \in Nat /\ now \in Nat
        /\ \A t \in Times : t \in Nat /\ t <= MaxTime
    BY <1>0, Numbers
  <1>4. \A t \in DOMAIN X : /\ t \in Nat /\ t <= MaxTime
                            /\ X[t] \in FragmentType /\ X[t].packet = packets
    BY <1>1, SpacedFacts
  <1>5. \A t, u \in DOMAIN X : t < u => X[t].findex < X[u].findex
    BY <1>1, SpacedFacts
  <1>6. conf.fec = 0 => DOMAIN X = {now} /\ Range(edi_fragments) = {X[now]}
    BY <1>1, SpacedFacts
  <1> HIDE DEF X
  <1>7. Times' = (DOMAIN X) \cup Times
    BY <1>1, Overlay DEF Times
  <1>8. \A t \in DOMAIN X : P'[t] = X[t]
    BY <1>1, Overlay
  <1>9. \A t \in Times \ DOMAIN X : P'[t] = P[t]
    <2>1. \A t \in (DOMAIN P) \ (DOMAIN X) : Assigned(X, P)[t] = P[t]
      <3> HIDE DEF P
      <3> QED  BY Overlay
    <2> QED  BY <1>1, <2>1 DEF Times
  <1>10. \A t \in Times : P[t] \in FragmentType /\ P[t].packet \in Nat /\ P[t].packet < packets
    BY <1>0, FieldTypes DEF SInv, Numbered
  <1>11. \A i \in DOMAIN sent : sent[i].packet \in Nat /\ sent[i].packet < packets
    BY <1>0, FieldTypes DEF SInv, Numbered
  <1>12. ~Writing'
    BY <1>1 DEF Writing
  <1>13. STypeOK'
    <2>1. {clock', now', passNow'} \subseteq 0 .. MaxTime
      <3>1. passNow \in 0 .. MaxTime /\ clock \in 0 .. MaxTime /\ 0 \in 0 .. MaxTime
        BY <1>0, Numbers, Constants
      <3> QED  BY <1>1, <3>1
    <2>2. DOMAIN m_pending_frames' \subseteq 0 .. MaxTime
      <3>1. Times' \subseteq 0 .. MaxTime
        BY <1>3, <1>4, <1>7, Constants
      <3> QED  BY <3>1 DEF Times
    <2> QED  BY <1>0, <1>1, <2>1, <2>2 DEF STypeOK
  <1>14. MoreTypes'
    <2>1. m_pending_frames' = [t \in Times' |-> m_pending_frames'[t]]
      BY <1>1 DEF Assigned, Times
    <2>2. \A t \in Times' : m_pending_frames'[t] \in FragmentType
      BY <1>4, <1>7, <1>8, <1>9, <1>10
    <2>3. m_pending_frames' \in [Times' -> FragmentType]
      BY <2>1, <2>2
    <2> QED  BY <1>0, <1>1, <2>3 DEF MoreTypes
  <1>15. InHand'
    BY <1>12 DEF InHand
  <1>16. Numbered'
    <2>1. ASSUME NEW t \in Times' PROVE P'[t].packet <= packets
      <3>1. CASE t \in DOMAIN X
        BY <1>3, <1>4, <1>8, <3>1
      <3>2. CASE t \notin DOMAIN X
        <4>1. P'[t].packet \in Nat /\ P'[t].packet < packets
          BY <1>7, <1>9, <1>10, <3>2
        <4> QED  BY <1>3, <4>1
      <3> QED  BY <3>1, <3>2
    <2>2. ASSUME NEW i \in DOMAIN sent PROVE sent[i].packet <= packets
      <3>1. sent[i].packet \in Nat /\ sent[i].packet < packets
        BY <1>11
      <3> QED  BY <1>3, <3>1
    <2> QED  BY <1>1, <1>12, <2>1, <2>2 DEF Numbered
  <1>17. DueInOrder'
    <2>1. ASSUME NEW t \in Times', NEW u \in Times', t < u,
                 P'[t].packet = P'[u].packet
          PROVE  P'[t].findex < P'[u].findex
      <3>1. CASE t \in DOMAIN X /\ u \in DOMAIN X
        BY <1>5, <1>8, <2>1, <3>1
      <3>2. CASE t \notin DOMAIN X /\ u \notin DOMAIN X
        <4>1. t \in Times /\ u \in Times /\ P'[t] = P[t] /\ P'[u] = P[u]
          BY <1>7, <1>9, <3>2
        <4> QED  BY <2>1, <4>1 DEF SInv, DueInOrder
      <3>3. ASSUME NEW x \in DOMAIN X, NEW y \in Times \ DOMAIN X
            PROVE  P'[x].packet # P'[y].packet
        <4>1. P'[x].packet = packets
          BY <1>4, <1>8
        <4>2. P'[y].packet \in Nat /\ P'[y].packet < packets
          BY <1>9, <1>10
        <4> QED  BY <1>3, <4>1, <4>2
      <3> QED  BY <1>7, <2>1, <3>1, <3>2, <3>3
    <2>2. ASSUME NEW i \in DOMAIN sent, NEW t \in Times', sent[i].packet = P'[t].packet
          PROVE  sent[i].findex < P'[t].findex
      <3>1. CASE t \in DOMAIN X
        <4>1. P'[t].packet = packets
          BY <1>4, <1>8, <3>1
        <4>2. sent[i].packet \in Nat /\ sent[i].packet < packets
          BY <1>11
        <4> QED  BY <1>3, <2>2, <4>1, <4>2
      <3>2. CASE t \notin DOMAIN X
        <4>1. t \in Times /\ P'[t] = P[t]
          BY <1>7, <1>9, <3>2
        <4> QED  BY <2>2, <4>1 DEF SInv, DueInOrder
      <3> QED  BY <3>1, <3>2
    <2> QED  BY <1>1, <2>1, <2>2 DEF DueInOrder
  <1>18. ASSUME conf.fec = 0
         PROVE  /\ now \notin Times /\ Times' = Times \cup {now}
                /\ P'[now] = X[now] /\ X[now].packet = packets
                /\ \A t \in Times : t < now /\ P'[t] = P[t]
    <2>1. \A t \in Times : t < now
      BY <1>1, <1>18 DEF SInv, FreshTime
    <2>2. now \notin Times
      BY <1>3, <2>1
    <2>3. DOMAIN X = {now}
      BY <1>6, <1>18
    <2>4. Times' = Times \cup {now}
      BY <1>7, <2>3
    <2>5. P'[now] = X[now] /\ X[now].packet = packets
      BY <1>4, <1>8, <2>3
    <2>6. \A t \in Times : P'[t] = P[t]
      BY <1>9, <2>2, <2>3
    <2> QED  BY <2>1, <2>2, <2>4, <2>5, <2>6
  <1>19. PacketsInOrder'
    <2> SUFFICES ASSUME conf.fec = 0
                 PROVE  /\ \A t, u \in Times' : t < u => P'[t].packet < P'[u].packet
                        /\ \A i \in DOMAIN sent : \A t \in Times' : sent[i].packet < P'[t].packet
                        /\ \A t \in Times' : t <= clock
      BY <1>1 DEF PacketsInOrder
    <2>1. ASSUME NEW t \in Times', NEW u \in Times', t < u
          PROVE  P'[t].packet < P'[u].packet
      <3>1. CASE t \in Times /\ u \in Times
        BY <1>18, <2>1, <3>1 DEF SInv, PacketsInOrder
      <3>2. CASE t \in Times /\ u = now
        BY <1>10, <1>18, <3>2
      <3>3. ~(t = now)
        <4>1. SUFFICES ASSUME t = now PROVE FALSE
          OBVIOUS
        <4>2. u = now \/ (u \in Nat /\ u < now)
          BY <1>3, <1>18
        <4> QED  BY <1>3, <2>1, <4>1, <4>2
      <3> QED  BY <1>18, <3>1, <3>2, <3>3
    <2>2. ASSUME NEW i \in DOMAIN sent, NEW t \in Times'
          PROVE  sent[i].packet < P'[t].packet
      <3>1. CASE t \in Times
        BY <1>18, <3>1 DEF SInv, PacketsInOrder
      <3>2. CASE t = now
        BY <1>11, <1>18, <3>2
      <3> QED  BY <1>18, <3>1, <3>2
    <2>3. ASSUME NEW t \in Times' PROVE t <= clock
      <3>1. CASE t \in Times
        BY <3>1 DEF SInv, PacketsInOrder
      <3>2. CASE t = now
        BY <1>2, <3>2
      <3> QED  BY <1>18, <3>1, <3>2
    <2> QED  BY <2>1, <2>2, <2>3
  <1>20. FreshTime' /\ NothingPending'
    BY <1>1, <1>2 DEF FreshTime, NothingPending
  <1>21. NoneLost'
    <2> SUFFICES ASSUME conf.fec = 0
                 PROVE  /\ written' = Range(sent) \cup Range(P')
                        /\ Range(sent) \cap Range(P') = {}
      <3>1. Range(sent)' = Range(sent) /\ Range(P)' = Range(P')
        BY <1>1
      <3> QED  BY <1>1, <3>1 DEF NoneLost
    <2>1. Range(P') = Range(P) \cup {X[now]}
      BY <1>18 DEF Range, Times
    <2>2. /\ written = Range(sent) \cup Range(P)
          /\ Range(sent) \cap Range(P) = {}
      BY <1>2 DEF SInv, NoneLost
    <2>3. X[now] \notin Range(sent)
      <3>1. SUFFICES ASSUME NEW i \in DOMAIN sent, sent[i] = X[now] PROVE FALSE
        BY DEF Range
      <3>2. sent[i].packet \in Nat /\ sent[i].packet < packets /\ X[now].packet = packets
        BY <1>11, <1>18
      <3> QED  BY <1>3, <3>1, <3>2
    <2>4. written' = written \cup {X[now]}
      BY <1>1, <1>6
    <2> QED  BY <2>1, <2>2, <2>3, <2>4
  <1>22. FragmentsInOrder'
    BY <1>1 DEF SInv, FragmentsInOrder
  <1> QED  BY <1>13, <1>14, <1>15, <1>16, <1>17, <1>19, <1>20, <1>21, <1>22 DEF SInv

\* run() hands over the fragment that is due first and takes it out of the map.
LEMMA RunSendStep ==
    ASSUME SInv, RunSend
    PROVE  SInv'
  <1> DEFINE P == m_pending_frames
             d == Min(Due)
             x == P[d]
  <1>0. STypeOK /\ conf \in Confs /\ MoreTypes
    BY DEF SInv, MoreTypes
  <1>1. /\ conf' = conf /\ pc' = pc /\ now' = now /\ af' = af
        /\ clock' = clock /\ passNow' = passNow /\ run' = run /\ m_running' = m_running
        /\ packets' = packets /\ m_seq' = m_seq /\ m_pseq' = m_pseq
        /\ edi_fragments' = edi_fragments /\ written' = written
        /\ sent' = Append(sent, x)
        /\ m_pending_frames' = [t \in Times \ {d} |-> P[t]]
    BY DEF RunSend, main, packet, thread, Restrict, Times
  <1>2. /\ packets \in Nat /\ passNow \in Nat
        /\ \A t \in Times : t \in Nat /\ t <= MaxTime
    BY <1>0, Numbers
  <1>3. d \in Times /\ \A t \in Times : d <= t
    <2>1. Due \subseteq Nat /\ Due # {} /\ Due \subseteq Times
      BY <1>2 DEF Due, RunSend, Times
    <2>2. \E y \in Due : \A z \in Due : y <= z
      BY <2>1, LeastNat
    <2>3. d \in Due /\ \A z \in Due : d <= z
      BY <2>2 DEF Min
    <2> HIDE DEF d
    <2>4. d \in Times /\ d \in Nat /\ d <= passNow
      BY <1>2, <2>1, <2>3 DEF Due
    <2>5. ASSUME NEW t \in Times PROVE d <= t
      <3>1. CASE t <= passNow
        BY <2>3, <3>1 DEF Due, Times
      <3>2. CASE ~(t <= passNow)
        BY <1>2, <2>4, <3>2
      <3> QED  BY <3>1, <3>2
    <2> QED  BY <2>4, <2>5
  <1> HIDE DEF d
  <1>4. Times' = Times \ {d} /\ \A t \in Times' : t \in Times /\ P'[t] = P[t]
    BY <1>1 DEF Times
  <1>5. \A t \in Times' : d < t
    <2>1. ASSUME NEW t \in Times' PROVE d < t
      <3>1. t \in Nat /\ d \in Nat /\ d <= t /\ t # d
        BY <1>2, <1>3, <1>4
      <3> QED  BY <3>1
    <2> QED  BY <2>1
  <1>6. x \in FragmentType /\ x.packet \in Nat
    BY <1>0, <1>3, FieldTypes
  <1>7. \A t \in Times' : P[t].packet = x.packet => x.findex < P[t].findex
    BY <1>3, <1>4, <1>5 DEF SInv, DueInOrder
  <1>8. conf.fec = 0 => \A t \in Times' : x.packet < P[t].packet
    BY <1>3, <1>4, <1>5 DEF SInv, PacketsInOrder
  <1>9. \A i \in DOMAIN sent : sent[i].packet = x.packet => sent[i].findex < x.findex
    BY <1>3 DEF SInv, DueInOrder
  <1>10. conf.fec = 0 => \A i \in DOMAIN sent : sent[i].packet < x.packet
    BY <1>3 DEF SInv, PacketsInOrder
  <1>11. x.packet <= packets /\ (Writing => x.packet < packets)
    BY <1>3 DEF SInv, Numbered
  <1> HIDE DEF x
  <1>12. /\ sent' \in Seq(FragmentType)
         /\ \A i \in DOMAIN sent' : \/ i \in DOMAIN sent /\ sent'[i] = sent[i]
                                    \/ i = Len(sent) + 1 /\ sent'[i] = x
         /\ \A i \in DOMAIN sent : i \in Nat /\ i <= Len(sent)
         /\ Len(sent) \in Nat
         /\ Range(sent') = Range(sent) \cup {x}
    BY <1>0, <1>1, <1>6, SentAppended
  <1>13. Writing' = Writing /\ PacketsOf(conf)' = PacketsOf(conf)
    BY <1>1 DEF Writing, PacketsOf
  <1>14. STypeOK'
    <2>1. DOMAIN m_pending_frames' \subseteq 0 .. MaxTime
      BY <1>0, <1>4 DEF STypeOK, Times
    <2> QED  BY <1>0, <1>1, <1>13, <2>1 DEF STypeOK
  <1>15. MoreTypes'
    <2>1. m_pending_frames' \in [Times' -> FragmentType]
      BY <1>0, <1>1, <1>4 DEF MoreTypes
    <2> QED  BY <1>0, <1>1, <1>12, <2>1 DEF MoreTypes
  <1>16. InHand'
    BY <1>1, <1>13 DEF SInv, InHand
  <1>17. Numbered'
    <2>1. \A t \in Times' : /\ P'[t].packet <= packets
                            /\ Writing => P'[t].packet < packets
      BY <1>4 DEF SInv, Numbered
    <2>2. \A i \in DOMAIN sent' : /\ sent'[i].packet <= packets
                                  /\ Writing => sent'[i].packet < packets
      BY <1>11, <1>12 DEF SInv, Numbered
    <2> QED  BY <1>1, <1>13, <2>1, <2>2 DEF Numbered
  <1>18. DueInOrder'
    <2>1. \A t, u \in Times' : t < u /\ P'[t].packet = P'[u].packet
                                  => P'[t].findex < P'[u].findex
      BY <1>4 DEF SInv, DueInOrder
    <2>2. \A i \in DOMAIN sent' : \A t \in Times' :
              sent'[i].packet = P'[t].packet => sent'[i].findex < P'[t].findex
      BY <1>4, <1>7, <1>12 DEF SInv, DueInOrder
    <2> QED  BY <2>1, <2>2 DEF DueInOrder
  <1>19. PacketsInOrder'
    <2> SUFFICES ASSUME conf.fec = 0
                 PROVE  /\ \A t, u \in Times' : t < u => P'[t].packet < P'[u].packet
                        /\ \A i \in DOMAIN sent' : \A t \in Times' : sent'[i].packet < P'[t].packet
                        /\ \A t \in Times' : t <= clock
      BY <1>1 DEF PacketsInOrder
    <2>1. \A t, u \in Times' : t < u => P'[t].packet < P'[u].packet
      BY <1>4 DEF SInv, PacketsInOrder
    <2>2. \A i \in DOMAIN sent' : \A t \in Times' : sent'[i].packet < P'[t].packet
      BY <1>4, <1>8, <1>12 DEF SInv, PacketsInOrder
    <2>3. \A t \in Times' : t <= clock
      BY <1>4 DEF SInv, PacketsInOrder
    <2> QED  BY <2>1, <2>2, <2>3
  <1>20. FreshTime' /\ NothingPending'
    BY <1>1, <1>4 DEF SInv, FreshTime, NothingPending
  <1>21. NoneLost'
    <2> SUFFICES ASSUME conf.fec = 0, conf.enable_pft
                 PROVE  /\ written = Range(sent') \cup Range(P')
                        /\ Range(sent') \cap Range(P') = {}
      BY <1>1 DEF NoneLost
    <2>1. /\ written = Range(sent) \cup Range(P)
          /\ Range(sent) \cap Range(P) = {}
      BY DEF SInv, NoneLost
    <2>2. Range(P) = Range(P') \cup {x}
      <3>1. \A t \in DOMAIN P : t = d \/ (t \in DOMAIN P' /\ P'[t] = P[t])
        BY <1>4 DEF Times
      <3>2. \A t \in DOMAIN P' : t \in DOMAIN P /\ P'[t] = P[t]
        BY <1>4 DEF Times
      <3>3. d \in DOMAIN P /\ P[d] = x
        BY <1>3 DEF Times, x
      <3> QED  BY <3>1, <3>2, <3>3 DEF Range
    <2>3. x \notin Range(P')
      <3>1. SUFFICES ASSUME NEW t \in DOMAIN P', P'[t] = x PROVE FALSE
        BY DEF Range
      <3>2. t \in Times' /\ P[t] = x
        BY <1>4, <3>1 DEF Times
      <3>3. x.packet < x.packet
        BY <1>8, <3>2
      <3> QED  BY <1>6, <3>3
    <2> QED  BY <1>12, <2>1, <2>2, <2>3
  <1>22. FragmentsInOrder'
    <2>1. ASSUME NEW i \in DOMAIN sent', NEW j \in DOMAIN sent', i < j
          PROVE  /\ sent'[i].packet = sent'[j].packet => sent'[i].findex < sent'[j].findex
                 /\ conf'.fec = 0 => sent'[i].packet < sent'[j].packet
      <3>1. CASE j \in DOMAIN sent
        <4>1. i \in DOMAIN sent /\ sent'[i] = sent[i] /\ sent'[j] = sent[j]
          BY <1>12, <2>1, <3>1
        <4> QED  BY <1>1, <2>1, <3>1, <4>1 DEF SInv, FragmentsInOrder
      <3>2. CASE j \notin DOMAIN sent
        <4>1. j = Len(sent) + 1 /\ sent'[j] = x
          BY <1>12, <3>2
        <4>2. i \in DOMAIN sent /\ sent'[i] = sent[i]
          BY <1>12, <2>1, <4>1
        <4> QED  BY <1>1, <1>9, <1>10, <4>1, <4>2
      <3> QED  BY <3>1, <3>2
    <2> QED  BY <2>1 DEF FragmentsInOrder
  <1> QED  BY <1>14, <1>15, <1>16, <1>17, <1>18, <1>19, <1>20, <1>21, <1>22 DEF SInv

\* Every step keeps the inductive invariant.
LEMMA SInvStep == SInv /\ [Next]_svars => SInv'
  <1> SUFFICES ASSUME SInv, [Next]_svars PROVE SInv'
    OBVIOUS
  <1>0. STypeOK
    BY DEF SInv
  <1>1. /\ clock \in Nat /\ clock <= MaxTime /\ passNow \in Nat /\ passNow <= MaxTime
        /\ clock \in clock .. MaxTime /\ passNow \in 0 .. MaxTime /\ clock \in 0 .. MaxTime
        /\ 0 \in 0 .. MaxTime /\ MaxTime \in Nat /\ WriteUntil \in Nat /\ WriteUntil <= MaxTime
    BY <1>0, Numbers, Constants
  <1>2. /\ run \in {"off", "sleep", "lock", "pass", "ended", "terminated"}
        /\ m_running \in BOOLEAN
    BY <1>0 DEF STypeOK
  <1>3. pc = "stamp" => clock <= WriteUntil
    BY DEF SInv, InHand, Writing
  <1>4. CASE Destroy
    BY <1>1, <1>2, <1>4, QuietStep DEF Destroy, thread, packet
  <1>5. CASE Stop
    BY <1>1, <1>2, <1>5, QuietStep DEF Stop, thread, packet
  <1>6. CASE Join
    BY <1>1, <1>2, <1>6, QuietStep DEF Join, thread, packet
  <1>7. CASE RunTest
    BY <1>1, <1>2, <1>3, <1>7, QuietStep DEF RunTest, main, packet
  <1>8. CASE RunLock
    BY <1>1, <1>2, <1>3, <1>8, QuietStep DEF RunLock, main, packet
  <1>9. CASE RunThrows
    BY <1>1, <1>2, <1>9, QuietStep DEF RunThrows, packet
  <1>10. CASE RunUnlock
    BY <1>1, <1>2, <1>3, <1>10, QuietStep DEF RunUnlock, main, packet
  <1>11. CASE Tick
    <2>1. clock' = clock + 1 /\ pc' = pc /\ clock' \in clock .. MaxTime
          /\ (pc' = "stamp" => clock' <= WriteUntil)
      BY <1>1, <1>11 DEF Tick, main
    <2> QED  BY <1>1, <1>2, <1>11, <2>1, QuietStep DEF Tick, main, thread, packet
  <1>12. CASE UNCHANGED svars
    BY <1>1, <1>2, <1>3, <1>12, QuietStep DEF svars, main, thread, packet
  <1> QED
    BY <1>4, <1>5, <1>6, <1>7, <1>8, <1>9, <1>10, <1>11, <1>12, WritePFTStep, WriteAFStep,
       WriteThrowsStep, StampStep, InsertStep, RunSendStep DEF Next
-----------------------------------------------------------------------------
\* Whatever main and the thread run() do, and however many AF packets there are:
\* no fragment is due later than Spread after its packet was stamped; without FEC
\* every fragment that write() inserted is pending or sent, and never both, although
\* write() reads the time before it takes the mutex and stores over what has the
\* same time; and the destinations get the fragments of a packet in order.
THEOREM SenderKeepsFragments == Spec => []PendingInv
  <1>1. SInv => PendingInv
    BY DEF SInv, PendingInv
  <1> QED  BY <1>1, SInvInit, SInvStep, PTL DEF Spec

\* For every configuration, and every m up to five: PFT puts each byte of the AF
\* packet, or of its RS block, into exactly one fragment, and the loss of any m
\* fragments costs no chunk more bytes than it has parity.
THEOREM SenderPacketsRecoverable == Spec => []Recoverable
  <1>1. SInv => Recoverable
    <2>1. SUFFICES ASSUME SInv PROVE Recoverable
      OBVIOUS
    <2>2. conf \in Confs
      BY <2>1 DEF SInv, MoreTypes
    <2>3. pc = "stamp" => af \in PacketsOf(conf)
      BY <2>1 DEF SInv, InHand, Writing
    <2> QED  BY <2>2, <2>3, PacketRecoverable
  <1> QED  BY <1>1, SInvInit, SInvStep, PTL DEF Spec
=============================================================================
