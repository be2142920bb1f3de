--------------------------- MODULE SzNumberProofs ---------------------------
(***************************************************************************)
(* Proofs about SzNumber: the reader of the LZMA SDK stays in step with    *)
(* putNum whatever the numbers are, and reads numbers of up to 14 bits as  *)
(* they were written.                                                      *)
(***************************************************************************)
EXTENDS SzNumber, FiniteSetTheorems, SequenceTheorems, TLAPS

-----------------------------------------------------------------------------
(* Arithmetic of the first byte.                                           *)

\* A name for the powers of two, which the solver treats badly.
Two(k) == 2^k

LEMMA Powers ==
  ASSUME NEW k \in 0..8
  PROVE  /\ k = 0 => Two(k) = 1
         /\ k = 1 => Two(k) = 2
         /\ k = 2 => Two(k) = 4
         /\ k = 3 => Two(k) = 8
         /\ k = 4 => Two(k) = 16
         /\ k = 5 => Two(k) = 32
         /\ k = 6 => Two(k) = 64
         /\ k = 7 => Two(k) = 128
         /\ k = 8 => Two(k) = 256
<1>0. ASSUME k = 0 PROVE Two(k) = 1
  BY <1>0, SMT DEF Two
<1>1. ASSUME k = 1 PROVE Two(k) = 2
  BY <1>1, SMT DEF Two
<1>2. ASSUME k = 2 PROVE Two(k) = 4
  BY <1>2, SMT DEF Two
<1>3. ASSUME k = 3 PROVE Two(k) = 8
  BY <1>3, SMT DEF Two
<1>4. ASSUME k = 4 PROVE Two(k) = 16
  BY <1>4, SMT DEF Two
<1>5. ASSUME k = 5 PROVE Two(k) = 32
  BY <1>5, SMT DEF Two
<1>6. ASSUME k = 6 PROVE Two(k) = 64
  BY <1>6, SMT DEF Two
<1>7. ASSUME k = 7 PROVE Two(k) = 128
  BY <1>7, SMT DEF Two
<1>8. ASSUME k = 8 PROVE Two(k) = 256
  BY <1>8, SMT DEF Two
<1> QED
  BY <1>0, <1>1, <1>2, <1>3, <1>4, <1>5, <1>6, <1>7, <1>8

LEMMA PowersArePositive ==
  ASSUME NEW k \in 0..8
  PROVE  Two(k) \in Nat \ {0}
<1>1. k = 0 \/ k = 1 \/ k = 2 \/ k = 3 \/ k = 4 \/ k = 5 \/ k = 6 \/ k = 7 \/ k = 8
  OBVIOUS
<1> QED
  BY <1>1, Powers

\* n ones and a zero, with anything behind, are as many ones as n.
LEMMA Leading ==
  ASSUME NEW n \in 0..7, NEW x \in Nat, x < 2^(7 - n), NEW m \in 1..8
  PROVE  /\ (256 - 2^(8 - n)) + x >= 256 - 2^(8 - m) <=> m <= n
         /\ (256 - 2^(8 - n)) + x \in 0..255
<1> DEFINE a == Two(8 - n)
           b == Two(7 - n)
           c == Two(8 - m)
<1>1. 8 - n \in 0..8 /\ 7 - n \in 0..8 /\ 8 - m \in 0..8
  OBVIOUS
<1>2. /\ n = 0 => a = 256 /\ b = 128
      /\ n = 1 => a = 128 /\ b = 64
      /\ n = 2 => a = 64 /\ b = 32
      /\ n = 3 => a = 32 /\ b = 16
      /\ n = 4 => a = 16 /\ b = 8
      /\ n = 5 => a = 8 /\ b = 4
      /\ n = 6 => a = 4 /\ b = 2
      /\ n = 7 => a = 2 /\ b = 1
  BY <1>1, Powers
<1>3. /\ m = 1 => c = 128
      /\ m = 2 => c = 64
      /\ m = 3 => c = 32
      /\ m = 4 => c = 16
      /\ m = 5 => c = 8
      /\ m = 6 => c = 4
      /\ m = 7 => c = 2
      /\ m = 8 => c = 1
  BY <1>1, Powers
<1>4. a = 2^(8 - n) /\ b = 2^(7 - n) /\ c = 2^(8 - m)
  BY Zenon DEF Two
<1>5. x < b
  BY <1>4, Zenon
<1> HIDE DEF a, b, c
<1>6. (256 - a) + x >= 256 - c <=> m <= n
  BY <1>2, <1>3, <1>5
<1>7. (256 - a) + x \in 0..255
  BY <1>2, <1>5
<1> QED
  BY <1>4, <1>6, <1>7, Zenon

\* A byte that begins with n ones and a zero.
LEMMA OnesIs ==
  ASSUME NEW n \in 0..8, NEW byte,
         \A m \in 1..8 : byte >= 256 - 2^(8 - m) <=> m <= n
  PROVE  Ones(byte) = n
<1>1. ASSUME NEW m PROVE m \in 1..8 /\ m <= n <=> m \in 1..n
  OBVIOUS
<1>2. {m \in 1..8 : byte >= 256 - 2^(8 - m)} = 1..n
  BY <1>1, Zenon
<1>3. Cardinality(1..n) = IF 1 > n THEN 0 ELSE n - 1 + 1
  BY FS_Interval
<1>4. Cardinality(1..n) = n
  BY <1>3
<1> QED
  BY <1>2, <1>4 DEF Ones

LEMMA Slices ==
  ASSUME NEW v \in Nat, NEW n \in 0..Most
  PROVE  v \div 256^n \in Nat /\ 0 \div 256^n = 0
<1> DEFINE w == 256^n
<1>1. w \in Nat \ {0}
  BY NumbersOK
<1> HIDE DEF w
<1>2. v \div w \in Nat /\ 0 \div w = 0
  BY <1>1
<1> QED
  BY <1>2 DEF w

\* The first byte tells how many follow, whatever comes after its zero.
LEMMA FirstTells ==
  ASSUME NEW v \in Nat, NEW n \in 0..Most
  PROVE  First(v, n) \in Byte /\ Ones(First(v, n)) = n
<1>0. n \in 0..8
  BY NumbersOK
<1>1. CASE n = 8
  <2>1. First(v, n) = 255
    BY <1>1 DEF First
  <2>2. ASSUME NEW m \in 1..8 PROVE 255 >= 256 - 2^(8 - m) <=> m <= 8
    <3> DEFINE k == 8 - m
    <3>1. k \in 0..8
      OBVIOUS
    <3> HIDE DEF k
    <3>2. 2^k \in Nat \ {0}
      BY <3>1, PowersArePositive, Zenon DEF Two
    <3>3. 255 >= 256 - 2^k
      BY <3>2
    <3> QED
      BY <3>3 DEF k
  <2>3. Ones(255) = 8
    BY <2>2, OnesIs
  <2> QED
    BY <1>1, <2>1, <2>3 DEF Byte
<1>2. CASE n < 8
  <2> DEFINE top == v \div 256^n
             wide == 2^(7 - n)
             x == top % wide
  <2>1. First(v, n) = (256 - 2^(8 - n)) + x
    BY <1>0, <1>2 DEF First
  <2>2. top \in Nat
    BY Slices
  <2>3. wide \in Nat \ {0}
    <3> DEFINE k == 7 - n
    <3>1. k \in 0..8
      BY <1>0, <1>2
    <3> HIDE DEF k
    <3>2. 2^k \in Nat \ {0}
      BY <3>1, PowersArePositive, Zenon DEF Two
    <3> QED
      BY <3>2 DEF k
  <2>4. x \in Nat /\ x < wide
    <3> HIDE DEF top, wide
    <3> QED
      BY <2>2, <2>3
  <2> HIDE DEF x
  <2>5. n \in 0..7
    BY <1>0, <1>2
  <2>6. ASSUME NEW m \in 1..8
        PROVE  /\ First(v, n) >= 256 - 2^(8 - m) <=> m <= n
               /\ First(v, n) \in 0..255
    <3>1. /\ (256 - 2^(8 - n)) + x >= 256 - 2^(8 - m) <=> m <= n
          /\ (256 - 2^(8 - n)) + x \in 0..255
      BY <2>4, <2>5, Leading, Zenon
    <3> QED
      BY <2>1, <3>1, Zenon
  <2>7. First(v, n) \in Byte
    BY <2>6 DEF Byte
  <2> QED
    BY <1>0, <2>6, <2>7, OnesIs
<1> QED
  BY <1>0, <1>1, <1>2

-----------------------------------------------------------------------------
(* What putNum writes of a number, and what ReadNumber makes of it.        *)

LEMMA FollowingIn ==
  ASSUME NEW v \in Nat
  PROVE  Following(v) \in 0..Most
<1> DEFINE rounds == {i \in 0..Most - 1 : (v \div 128) \div 256^i # 0}
<1>1. IsFiniteSet(0..Most - 1) /\ Cardinality(0..Most - 1) = Most
  BY NumbersOK, FS_Interval
<1>2. rounds \in SUBSET (0..Most - 1)
  OBVIOUS
<1> HIDE DEF rounds
<1>3. IsFiniteSet(rounds) /\ Cardinality(rounds) <= Most
  <2>1. IsFiniteSet(rounds) /\ Cardinality(rounds) <= Cardinality(0..Most - 1)
    BY <1>1, <1>2, FS_Subset
  <2> QED
    BY <1>1, <2>1
<1>4. Cardinality(rounds) \in Nat
  BY <1>3, FS_CardinalityType
<1>5. Following(v) = Cardinality(rounds)
  BY Zenon DEF Following, rounds
<1> QED
  BY <1>3, <1>4, <1>5, NumbersOK

\* One element in front of a sequence.
LEMMA InFront ==
  ASSUME NEW S, NEW x \in S, NEW f \in Seq(S)
  PROVE  /\ <<x>> \o f \in Seq(S)
         /\ Len(<<x>> \o f) = Len(f) + 1
         /\ (<<x>> \o f)[1] = x
         /\ \A j \in 1..Len(f) : (<<x>> \o f)[j + 1] = f[j]
<1>1. <<x>> \in Seq(S) /\ Len(<<x>>) = 1 /\ <<x>>[1] = x
  OBVIOUS
<1> DEFINE head == <<x>>
<1> HIDE DEF head
<1>2. /\ head \o f \in Seq(S)
      /\ Len(head \o f) = 1 + Len(f)
      /\ \A i \in 1..1 + Len(f) : (head \o f)[i] = IF i <= 1 THEN head[1] ELSE f[i - 1]
  <2>1. head \in Seq(S) /\ Len(head) = 1
    BY <1>1 DEF head
  <2>2. /\ head \o f \in Seq(S)
        /\ Len(head \o f) = Len(head) + Len(f)
        /\ \A i \in 1..Len(head) + Len(f) :
             (head \o f)[i] = IF i <= Len(head) THEN head[i] ELSE f[i - Len(head)]
    BY <2>1, ConcatProperties
  <2> QED
    BY <2>1, <2>2
<1>3. (head \o f)[1] = x
  BY <1>1, <1>2 DEF head
<1>4. ASSUME NEW j \in 1..Len(f) PROVE (head \o f)[j + 1] = f[j]
  BY <1>2
<1> QED
  BY <1>2, <1>3, <1>4 DEF head

LEMMA PutNumIs ==
  ASSUME NEW v \in Nat
  PROVE  /\ PutNum(v) \in Seq(Byte)
         /\ Len(PutNum(v)) = Following(v) + 1
         /\ PutNum(v)[1] = First(v, Following(v))
         /\ \A j \in 1..Following(v) : PutNum(v)[j + 1] = (v \div 256^(Following(v) - j)) % 256
<1> DEFINE n == Following(v)
           low == [i \in 1..n |-> (v \div 256^(n - i)) % 256]
<1>1. n \in 0..Most /\ n \in Nat
  BY FollowingIn, NumbersOK
<1>2. ASSUME NEW i \in 1..n PROVE (v \div 256^(n - i)) % 256 \in Byte
  <2>1. n - i \in 0..Most
    BY <1>1, NumbersOK
  <2>2. v \div 256^(n - i) \in Nat
    BY <2>1, Slices
  <2> QED
    BY <2>2 DEF Byte
<1>3. low \in Seq(Byte) /\ Len(low) = n
  <2> HIDE DEF n
  <2>1. low \in [1..n -> Byte]
    BY <1>2
  <2>2. low \in Seq(Byte)
    BY <1>1, <2>1
  <2>3. DOMAIN low = 1..n
    OBVIOUS
  <2> QED
    BY <1>1, <2>2, <2>3
<1>4. First(v, n) \in Byte
  BY <1>1, FirstTells
<1>5. ASSUME NEW j \in 1..n PROVE low[j] = (v \div 256^(n - j)) % 256
  OBVIOUS
<1>6. PutNum(v) = <<First(v, n)>> \o low
  BY Zenon DEF PutNum
<1> HIDE DEF low, n
<1>7. /\ PutNum(v) \in Seq(Byte)
      /\ Len(PutNum(v)) = Len(low) + 1
      /\ PutNum(v)[1] = First(v, n)
      /\ \A j \in 1..Len(low) : PutNum(v)[j + 1] = low[j]
  BY <1>3, <1>4, <1>6, InFront
<1> QED
  BY <1>3, <1>5, <1>7, ZenonT(60) DEF n

\* ReadNumber's result is a number, when the bytes it wants are there.
LEMMA NumberIn ==
  ASSUME NEW h \in Seq(Byte), NEW p \in 1..Len(h),
         Ones(h[p]) \in 0..Most, p + Ones(h[p]) <= Len(h)
  PROVE  Number(h, p) \in Nat
<1>0. ASSUME NEW q \in 1..Len(h) PROVE h[q] \in Nat
  <2>1. h[q] \in Byte
    OBVIOUS
  <2>2. ASSUME NEW b \in Byte PROVE b \in Nat
    BY <2>2 DEF Byte
  <2> QED
    BY <2>1, <2>2, Zenon
<1> DEFINE k == Ones(h[p])
           Low(i) == IF i <= k THEN h[p + i] * 256^(i - 1) ELSE 0
           top == IF k >= 8 THEN 0 ELSE (h[p] % 2^(7 - k)) * 256^k
<1>1. ASSUME NEW i \in 1..8 PROVE Low(i) \in Nat
  <2>1. CASE i <= k
    <3>1. i - 1 \in 0..Most /\ p + i \in 1..Len(h)
      BY <2>1, NumbersOK
    <3>2. 256^(i - 1) \in Nat
      BY <3>1, NumbersOK
    <3>3. h[p + i] \in Nat
      BY <1>0, <3>1, Zenon
    <3> QED
      BY <2>1, <3>2, <3>3
  <2>2. CASE ~(i <= k)
    BY <2>2
  <2> QED
    BY <2>1, <2>2
<1>2. top \in Nat
  <2>1. CASE k >= 8
    BY <2>1
  <2>2. CASE k < 8
    <3>1. 7 - k \in 0..8
      BY <2>2
    <3> DEFINE m == 7 - k
    <3>2. 2^m \in Nat \ {0}
      <4> HIDE DEF m
      <4> QED
        BY <3>1, PowersArePositive, Zenon DEF Two, m
    <3>3. 256^k \in Nat
      BY NumbersOK
    <3>4. h[p] \in Nat
      BY <1>0, Zenon
    <3> HIDE DEF m, k
    <3>5. h[p] % 2^m \in Nat
      BY <3>2, <3>4
    <3>6. (h[p] % 2^m) * 256^k \in Nat
      BY <3>3, <3>5
    <3> QED
      BY <2>2, <3>6 DEF m, k
  <2> QED
    BY <2>1, <2>2
<1>3. Number(h, p) = Low(1) + Low(2) + Low(3) + Low(4) + Low(5) + Low(6) + Low(7) + Low(8) + top
  BY Zenon DEF Number
<1>4. /\ Low(1) \in Nat /\ Low(2) \in Nat /\ Low(3) \in Nat /\ Low(4) \in Nat
      /\ Low(5) \in Nat /\ Low(6) \in Nat /\ Low(7) \in Nat /\ Low(8) \in Nat
  <2> HIDE DEF Low
  <2> QED
    BY <1>1
<1> HIDE DEF Low, top, k
<1>5. Low(1) + Low(2) + Low(3) + Low(4) + Low(5) + Low(6) + Low(7) + Low(8) + top \in Nat
  <2> DEFINE a == Low(1)  b == Low(2)  c == Low(3)  d == Low(4)
             e == Low(5)  f == Low(6)  g == Low(7)  i == Low(8)
  <2>1. /\ a \in Nat /\ b \in Nat /\ c \in Nat /\ d \in Nat
        /\ e \in Nat /\ f \in Nat /\ g \in Nat /\ i \in Nat
    BY <1>4, Zenon
  <2> HIDE DEF a, b, c, d, e, f, g, i
  <2>2. a + b + c + d + e + f + g + i + top \in Nat
    BY <1>2, <2>1
  <2> QED
    BY <2>2, Zenon DEF a, b, c, d, e, f, g, i
<1> QED
  BY <1>3, <1>5, Zenon

\* One byte is enough for 7 bits, and two for 14.
LEMMA FewFollow ==
  ASSUME NEW v \in Nat
  PROVE  /\ v < 128 => Following(v) = 0
         /\ v >= 128 /\ v < 16384 => Following(v) = 1
<1> DEFINE left == v \div 128
           rounds == {i \in 0..Most - 1 : left \div 256^i # 0}
<1>1. Following(v) = Cardinality(rounds)
  BY Zenon DEF Following
<1>2. left \in Nat /\ (v < 128 => left = 0) /\ (v >= 128 /\ v < 16384 => left \in 1..127)
  OBVIOUS
<1> HIDE DEF left
<1>3. ASSUME v < 128 PROVE rounds = {}
  <2>1. ASSUME NEW i \in 0..Most - 1 PROVE left \div 256^i = 0
    <3>1. i \in 0..Most
      BY NumbersOK
    <3>2. 0 \div 256^i = 0
      BY <3>1, Slices
    <3>3. left = 0
      BY <1>2, <1>3
    <3> QED
      BY <3>2, <3>3, Zenon
  <2> QED
    BY <2>1, Zenon
<1>4. ASSUME v >= 128, v < 16384 PROVE rounds = {0}
  <2>1. left \in 1..127
    BY <1>2, <1>4
  <2>2. left \div 256^0 # 0
    BY <2>1, SMT
  <2>3. ASSUME NEW i \in 0..Most - 1, i # 0 PROVE left \div 256^i = 0
    <3> DEFINE w == 256^i
    <3>1. w \in Nat /\ w >= 256
      BY <2>3, NumbersOK
    <3> HIDE DEF w
    <3>2. left \div w = 0
      BY <2>1, <3>1
    <3> QED
      BY <3>2, Zenon DEF w
  <2>4. 0 \in 0..Most - 1
    BY NumbersOK
  <2> QED
    BY <2>2, <2>3, <2>4, ZenonT(60)
<1>5. Cardinality({}) = 0 /\ Cardinality({0}) = 1
  BY FS_EmptySet, FS_Singleton
<1> HIDE DEF rounds
<1>6. ASSUME v < 128 PROVE Following(v) = 0
  BY <1>1, <1>3, <1>5, <1>6
<1>7. ASSUME v >= 128, v < 16384 PROVE Following(v) = 1
  BY <1>1, <1>4, <1>5, <1>7
<1> QED
  BY <1>6, <1>7

\* A number of at most 14 bits is read as it was written.
LEMMA SmallNumber ==
  ASSUME NEW v \in Nat, v < 2^14, NEW h \in Seq(Byte), NEW p \in 1..Len(h),
         p + Following(v) <= Len(h),
         \A j \in 1..Following(v) + 1 : h[p + j - 1] = PutNum(v)[j]
  PROVE  Number(h, p) = v
<1> DEFINE k == Ones(h[p])
           Low(i) == IF i <= k THEN h[p + i] * 256^(i - 1) ELSE 0
           top == IF k >= 8 THEN 0 ELSE (h[p] % 2^(7 - k)) * 256^k
<1>0. v < 16384
  BY SMT
<1>1. Number(h, p) = Low(1) + Low(2) + Low(3) + Low(4) + Low(5) + Low(6) + Low(7) + Low(8) + top
  BY Zenon DEF Number
<1>2. Following(v) \in 0..Most /\ Following(v) \in Nat
  BY FollowingIn, NumbersOK
<1>3. h[p] = First(v, Following(v)) /\ k = Following(v)
  <2>1. 1 \in 1..Following(v) + 1 /\ p + 1 - 1 = p
    BY <1>2
  <2>2. h[p] = PutNum(v)[1]
    BY <2>1, Zenon
  <2>3. PutNum(v)[1] = First(v, Following(v))
    BY PutNumIs
  <2>4. Ones(First(v, Following(v))) = Following(v)
    BY <1>2, FirstTells
  <2> QED
    BY <2>2, <2>3, <2>4, Zenon
<1>4. ASSUME v < 128 PROVE Number(h, p) = v
  <2>1. Following(v) = 0 /\ k = 0
    BY <1>3, <1>4, FewFollow
  <2>2. h[p] = v
    <3>1. First(v, 0) = (256 - 2^8) + ((v \div 256^0) % 2^7)
      BY SMT DEF First
    <3>2. First(v, 0) = v
      BY <1>4, <3>1, SMT
    <3> QED
      BY <1>3, <2>1, <3>2
  <2>3. top = v
    <3>0. ~(k >= 8)
      BY <2>1
    <3>1. top = (v % 2^(7 - 0)) * 256^0
      BY <2>1, <2>2, <3>0, Zenon
    <3> QED
      BY <1>4, <3>1, SMT
  <2>4. /\ Low(1) = 0 /\ Low(2) = 0 /\ Low(3) = 0 /\ Low(4) = 0
        /\ Low(5) = 0 /\ Low(6) = 0 /\ Low(7) = 0 /\ Low(8) = 0
    BY <2>1
  <2> HIDE DEF Low, top
  <2> QED
    BY <1>1, <2>3, <2>4
<1>5. ASSUME v >= 128 PROVE Number(h, p) = v
  <2>1. Following(v) = 1 /\ k = 1
    BY <1>0, <1>3, <1>5, FewFollow
  <2>2. h[p] = 128 + v \div 256
    <3>1. First(v, 1) = (256 - 2^7) + ((v \div 256^1) % 2^6)
      BY SMT DEF First
    <3>2. First(v, 1) = 128 + v \div 256
      BY <1>0, <3>1, SMT
    <3> QED
      BY <1>3, <2>1, <3>2
  <2>3. h[p + 1] = v % 256
    <3>1. 2 \in 1..Following(v) + 1 /\ p + 2 - 1 = p + 1 /\ 1 \in 1..Following(v) /\ 1 + 1 = 2
      BY <2>1
    <3>2. h[p + 1] = PutNum(v)[2]
      BY <3>1
    <3>3. PutNum(v)[2] = (v \div 256^(Following(v) - 1)) % 256
      BY <3>1, PutNumIs
    <3>4. (v \div 256^(1 - 1)) % 256 = v % 256
      BY SMT
    <3> QED
      BY <2>1, <3>2, <3>3, <3>4, ZenonT(30)
  <2>4. top = (v \div 256) * 256
    <3>0. ~(k >= 8)
      BY <2>1
    <3>1. top = ((128 + v \div 256) % 2^(7 - 1)) * 256^1
      BY <2>1, <2>2, <3>0, Zenon
    <3> QED
      BY <1>0, <1>5, <3>1, SMT
  <2>5. Low(1) = v % 256
    <3>1. 1 <= k
      BY <2>1
    <3>2. Low(1) = (v % 256) * 256^(1 - 1)
      BY <2>3, <3>1, Zenon
    <3> QED
      BY <3>2, SMT
  <2>6. /\ Low(2) = 0 /\ Low(3) = 0 /\ Low(4) = 0
        /\ Low(5) = 0 /\ Low(6) = 0 /\ Low(7) = 0 /\ Low(8) = 0
    BY <2>1
  <2> HIDE DEF Low, top
  <2> QED
    BY <1>1, <2>4, <2>5, <2>6
<1> QED
  BY <1>4, <1>5

-----------------------------------------------------------------------------
(* The invariant.                                                          *)

LEMMA ValueNat == ASSUME NEW v \in Value PROVE v \in Nat
BY NumbersOK

LEMMA InitHolds == Init => NInv
<1> SUFFICES ASSUME Init PROVE NInv
  OBVIOUS
<1>1. TypeOK
  <2>1. sealed \in BOOLEAN /\ broken \in BOOLEAN
    BY Zenon DEF Init
  <2>2. /\ written \in Seq(Value) /\ header \in Seq(Byte) /\ read \in Seq(Nat)
        /\ at \in 1..Len(header) + 1
    BY DEF Init
  <2> QED
    BY <2>1, <2>2, Zenon DEF TypeOK
<1> DEFINE first == [i \in 1..1 |-> 1]
<1>2. first \in [1..Len(written) + 1 -> Nat] /\ Framed(first) /\ at = first[Len(read) + 1]
  BY DEF Init, Framed
<1>3. \E start \in [1..Len(written) + 1 -> Nat] : Framed(start) /\ at = start[Len(read) + 1]
  BY <1>2, Zenon
<1>4. SmallNumbersReadBack
  BY DEF Init, SmallNumbersReadBack
<1> QED
  BY <1>1, <1>3, <1>4 DEF NInv, Init

LEMMA PutKeeps ==
  ASSUME NInv, NEW v \in Value, Put(v)
  PROVE  NInv'
<1>1. PICK start \in [1..Len(written) + 1 -> Nat] : Framed(start) /\ at = start[Len(read) + 1]
  BY DEF NInv
<1> DEFINE n == Len(written)
           m == Len(header)
           f == Following(v)
<1>2. /\ written \in Seq(Value) /\ header \in Seq(Byte) /\ n \in Nat /\ m \in Nat
      /\ written' = Append(written, v) /\ header' = header \o PutNum(v)
      /\ read = <<>> /\ at = 1 /\ ~sealed /\ ~broken
      /\ sealed' = sealed /\ read' = read /\ at' = at /\ broken' = broken
  BY DEF NInv, TypeOK, Put
<1>3. /\ f \in Nat /\ PutNum(v) \in Seq(Byte) /\ Len(PutNum(v)) = f + 1
  BY ValueNat, FollowingIn, PutNumIs, NumbersOK
<1>4. /\ header' \in Seq(Byte) /\ Len(header') = m + f + 1
      /\ \A i \in 1..m : header'[i] = header[i]
      /\ \A j \in 1..f + 1 : header'[m + j] = PutNum(v)[j]
  <2>1. /\ header \o PutNum(v) \in Seq(Byte)
        /\ Len(header \o PutNum(v)) = Len(header) + Len(PutNum(v))
        /\ \A i \in 1..Len(header) + Len(PutNum(v)) : (header \o PutNum(v))[i] =
             IF i <= Len(header) THEN header[i] ELSE PutNum(v)[i - Len(header)]
    BY <1>2, <1>3, ConcatProperties
  <2> HIDE DEF f
  <2> QED
    BY <1>2, <1>3, <2>1
<1>5. /\ written' \in Seq(Value) /\ Len(written') = n + 1
      /\ \A i \in 1..n : written'[i] = written[i]
      /\ written'[n + 1] = v
  BY <1>2
<1>6. TypeOK'
  <2> HIDE DEF f
  <2>1. sealed' \in BOOLEAN /\ broken' \in BOOLEAN
    BY <1>2, Zenon DEF NInv, TypeOK
  <2>2. read' \in Seq(Nat) /\ at' \in 1..Len(header') + 1
    BY <1>2, <1>3, <1>4
  <2> QED
    BY <1>4, <1>5, <2>1, <2>2, Zenon DEF TypeOK
<1>7. /\ start[1] = 1 /\ start[n + 1] = m + 1
      /\ \A i \in 1..n : /\ start[i + 1] = start[i] + Following(written[i]) + 1
                         /\ start[i] >= 1 /\ start[i + 1] <= m + 1
                         /\ \A j \in 1..Following(written[i]) + 1 :
                              header[start[i] + j - 1] = PutNum(written[i])[j]
  BY <1>1 DEF Framed
<1>8. PICK next \in [1..Len(written') + 1 -> Nat] :
        next = [i \in 1..n + 2 |-> IF i <= n + 1 THEN start[i] ELSE m + f + 2]
  <2> DEFINE next == [i \in 1..n + 2 |-> IF i <= n + 1 THEN start[i] ELSE m + f + 2]
  <2>1. ASSUME NEW i \in 1..n + 2
        PROVE  (IF i <= n + 1 THEN start[i] ELSE m + f + 2) \in Nat
    <3> HIDE DEF f
    <3>1. m + f + 2 \in Nat
      BY <1>2, <1>3
    <3>2. i <= n + 1 => i \in 1..Len(written) + 1
      BY <1>2
    <3> QED
      BY <3>1, <3>2
  <2>2. next \in [1..n + 2 -> Nat]
    BY <2>1, Zenon
  <2>3. n + 2 = Len(written') + 1
    BY <1>2, <1>5
  <2> QED
    BY <2>2, <2>3, Zenon
<1>9. /\ \A i \in 1..n + 1 : next[i] = start[i]
      /\ next[n + 2] = m + f + 2
  <2> HIDE DEF f
  <2> QED
    BY <1>2, <1>3, <1>8
<1>10. ASSUME NEW i \in 1..n + 1
       PROVE  /\ next[i + 1] = next[i] + Following(written'[i]) + 1
              /\ next[i] >= 1 /\ next[i + 1] <= Len(header') + 1
              /\ \A j \in 1..Following(written'[i]) + 1 :
                   header'[next[i] + j - 1] = PutNum(written'[i])[j]
  <2>1. CASE i \in 1..n
    <3>1. written'[i] = written[i] /\ next[i] = start[i] /\ next[i + 1] = start[i + 1]
      BY <1>2, <1>5, <1>9, <2>1
    <3>2. Following(written[i]) \in Nat
      <4>1. written[i] \in Value
        BY <1>2, <2>1
      <4>2. written[i] \in Nat
        BY <4>1, ValueNat, Zenon
      <4>3. Following(written[i]) \in 0..Most
        BY <4>2, FollowingIn
      <4> QED
        BY <4>3, NumbersOK
    <3>3. start[i] \in Nat
      BY <2>1
    <3>4. ASSUME NEW j \in 1..Following(written[i]) + 1
          PROVE  header'[start[i] + j - 1] = PutNum(written[i])[j]
      <4>1. start[i] + j - 1 \in 1..m
        BY <1>2, <1>7, <2>1, <3>2, <3>3, SMTT(30)
      <4> QED
        BY <1>4, <1>7, <2>1, <4>1
    <3>5. start[i + 1] <= Len(header') + 1
      <4> HIDE DEF f
      <4>1. start[i + 1] <= m + 1 /\ start[i + 1] \in Nat
        BY <1>7, <2>1
      <4> QED
        BY <1>2, <1>3, <1>4, <4>1
    <3> QED
      BY <1>7, <2>1, <3>1, <3>4, <3>5
  <2>2. CASE i = n + 1
    <3> HIDE DEF f
    <3>1. next[i] = m + 1 /\ next[i + 1] = m + f + 2
      <4>1. n + 1 \in 1..n + 1 /\ n + 1 + 1 = n + 2
        BY <1>2
      <4> QED
        BY <1>7, <1>9, <2>2, <4>1, Zenon
    <3>2. written'[i] = v
      BY <1>5, <2>2
    <3>3. ASSUME NEW j \in 1..f + 1 PROVE header'[m + 1 + j - 1] = PutNum(v)[j]
      <4>1. m + 1 + j - 1 = m + j
        BY <1>2, <1>3
      <4> QED
        BY <1>4, <4>1
    <3>4. /\ m + f + 2 = m + 1 + f + 1 /\ m + 1 >= 1
          /\ m + f + 2 <= Len(header') + 1
      BY <1>2, <1>3, <1>4
    <3> QED
      BY <3>1, <3>2, <3>3, <3>4, Zenon DEF f
  <2>3. i \in 1..n \/ i = n + 1
    BY <1>2
  <2> QED
    BY <2>1, <2>2, <2>3, Zenon
<1>11. Framed(next)'
  <2> HIDE DEF f
  <2>1. next[1] = 1 /\ next[Len(written') + 1] = Len(header') + 1
    BY <1>2, <1>3, <1>4, <1>5, <1>7, <1>9
  <2>2. Len(written') = n + 1
    BY <1>5
  <2>3. ASSUME NEW i \in 1..Len(written')
        PROVE  /\ next[i + 1] = next[i] + Following(written'[i]) + 1
               /\ next[i] >= 1 /\ next[i + 1] <= Len(header') + 1
               /\ \A j \in 1..Following(written'[i]) + 1 :
                    header'[next[i] + j - 1] = PutNum(written'[i])[j]
    <3>1. i \in 1..n + 1
      BY <2>2, <2>3, Zenon
    <3> QED
      BY <1>10, <3>1, Zenon
  <2> QED
    BY <2>1, <2>3, Zenon DEF Framed
<1>12. at' = next[Len(read') + 1]
  BY <1>2, <1>7, <1>9
<1>13. SmallNumbersReadBack'
  BY <1>2 DEF SmallNumbersReadBack
<1>14. \E s \in [1..Len(written') + 1 -> Nat] : Framed(s)' /\ at' = s[Len(read') + 1]
  BY <1>8, <1>11, <1>12, Zenon
<1>15. Len(read') <= Len(written')
  BY <1>2, <1>5
<1> QED
  BY <1>2, <1>6, <1>13, <1>14, <1>15 DEF NInv

\* Where the reader is, while numbers are left and when none is.
LEMMA Place ==
  ASSUME NInv, NEW start \in [1..Len(written) + 1 -> Nat],
         Framed(start), at = start[Len(read) + 1]
  PROVE  /\ at <= Len(header) => Len(read) < Len(written)
         /\ Len(read) < Len(written) =>
              LET i == Len(read) + 1
                  f == Following(written[i])
              IN  /\ i \in 1..Len(written) /\ written[i] \in Nat /\ f \in 0..Most
                  /\ Ones(header[at]) = f
                  /\ at \in 1..Len(header) /\ at + f <= Len(header)
                  /\ start[i + 1] = at + f + 1
                  /\ \A j \in 1..f + 1 : header[at + j - 1] = PutNum(written[i])[j]
<1> DEFINE i == Len(read) + 1
           f == Following(written[i])
<1>1. /\ written \in Seq(Value) /\ header \in Seq(Byte) /\ read \in Seq(Nat)
      /\ Len(read) <= Len(written) /\ Len(written) \in Nat /\ Len(read) \in Nat
      /\ Len(header) \in Nat /\ at \in Nat
  BY DEF NInv, TypeOK
<1>2. at <= Len(header) => Len(read) < Len(written)
  <2>1. start[Len(written) + 1] = Len(header) + 1
    BY Zenon DEF Framed
  <2> QED
    BY <1>1, <2>1
<1>3. ASSUME Len(read) < Len(written)
      PROVE  /\ i \in 1..Len(written) /\ written[i] \in Nat /\ f \in 0..Most
             /\ Ones(header[at]) = f
             /\ at \in 1..Len(header) /\ at + f <= Len(header)
             /\ start[i + 1] = at + f + 1
             /\ \A j \in 1..f + 1 : header[at + j - 1] = PutNum(written[i])[j]
  <2>1. i \in 1..Len(written)
    BY <1>1, <1>3
  <2>2. written[i] \in Nat
    <3>1. written[i] \in Value
      BY <1>1, <2>1
    <3> QED
      BY <3>1, ValueNat, Zenon
  <2>3. f \in 0..Most /\ f \in Nat
    <3>1. f \in 0..Most
      BY <2>2, FollowingIn, Zenon
    <3> QED
      BY <3>1, NumbersOK
  <2>4. /\ start[i + 1] = start[i] + f + 1
        /\ start[i] >= 1 /\ start[i + 1] <= Len(header) + 1
        /\ \A j \in 1..f + 1 : header[start[i] + j - 1] = PutNum(written[i])[j]
    BY <2>1, Zenon DEF Framed
  <2>5. at = start[i]
    OBVIOUS
  <2> HIDE DEF f, i
  <2>6. at \in 1..Len(header) /\ at + f <= Len(header)
    BY <1>1, <2>3, <2>4, <2>5, SMTT(30)
  <2>7. header[at] = PutNum(written[i])[1]
    <3>1. 1 \in 1..f + 1 /\ at + 1 - 1 = at
      BY <1>1, <2>3
    <3> QED
      BY <2>4, <2>5, <3>1, Zenon
  <2>8. Ones(header[at]) = f
    <3>1. PutNum(written[i])[1] = First(written[i], f)
      BY <2>2, PutNumIs DEF f
    <3>2. Ones(First(written[i], f)) = f
      BY <2>2, <2>3, FirstTells
    <3> QED
      BY <2>7, <3>1, <3>2, Zenon
  <2> QED
    BY <2>1, <2>2, <2>3, <2>4, <2>5, <2>6, <2>8, Zenon
<1> QED
  BY <1>2, <1>3, Zenon

LEMMA GetKeeps ==
  ASSUME NInv, Get
  PROVE  NInv'
<1>1. PICK start \in [1..Len(written) + 1 -> Nat] : Framed(start) /\ at = start[Len(read) + 1]
  BY Zenon DEF NInv
<1>2. /\ sealed /\ ~broken /\ at <= Len(header)
      /\ written' = written /\ header' = header /\ sealed' = sealed
  BY Zenon DEF Get
<1> DEFINE i == Len(read) + 1
           f == Following(written[i])
<1>3. /\ i \in 1..Len(written) /\ written[i] \in Nat /\ f \in 0..Most
      /\ Ones(header[at]) = f
      /\ at \in 1..Len(header) /\ at + f <= Len(header)
      /\ start[i + 1] = at + f + 1
      /\ \A j \in 1..f + 1 : header[at + j - 1] = PutNum(written[i])[j]
  BY <1>1, <1>2, Place, Zenon
<1>4. /\ read' = Append(read, Number(header, at))
      /\ at' = at + f + 1
      /\ broken' = broken
  <2>1. at + Ones(header[at]) <= Len(header)
    BY <1>3, Zenon
  <2> QED
    BY <1>3, <2>1, Zenon DEF Get
<1>5. /\ header \in Seq(Byte) /\ read \in Seq(Nat) /\ Len(read) \in Nat
      /\ Len(header) \in Nat /\ written \in Seq(Value) /\ Len(written) \in Nat
      /\ sealed \in BOOLEAN /\ broken \in BOOLEAN /\ Len(read) <= Len(written)
  BY DEF NInv, TypeOK
<1>6. Number(header, at) \in Nat
  BY <1>3, <1>5, NumberIn
<1>7. written[i] < 2^14 => Number(header, at) = written[i]
  BY <1>3, <1>5, SmallNumber, Zenon
<1> HIDE DEF f
<1>8. /\ read' \in Seq(Nat) /\ Len(read') = i
      /\ \A k \in 1..Len(read) : read'[k] = read[k]
      /\ read'[i] = Number(header, at)
  <2> DEFINE x == Number(header, at)
  <2> HIDE DEF x
  <2>1. x \in Nat /\ read' = Append(read, x)
    BY <1>4, <1>6 DEF x
  <2>2. /\ read' \in Seq(Nat) /\ Len(read') = i
        /\ \A k \in 1..Len(read) : read'[k] = read[k]
        /\ read'[i] = x
    BY <1>5, <2>1
  <2> QED
    BY <2>2 DEF x
<1>9. at' \in 1..Len(header) + 1
  <2>1. f \in Nat /\ at \in Nat /\ at >= 1
    BY <1>3, <1>5, NumbersOK
  <2> QED
    BY <1>3, <1>4, <1>5, <2>1
<1>10. TypeOK'
  BY <1>2, <1>4, <1>5, <1>8, <1>9, Zenon DEF TypeOK
<1>11. at' = start[Len(read') + 1]
  BY <1>3, <1>4, <1>8, Zenon
<1>12. Framed(start)'
  BY <1>1, <1>2, Zenon DEF Framed
<1>13. SmallNumbersReadBack'
  <2>1. ASSUME NEW k \in 1..Len(read'), written'[k] < 2^14
        PROVE  read'[k] = written'[k]
    <3>1. CASE k = i
      BY <1>2, <1>7, <1>8, <2>1, <3>1, Zenon
    <3>2. CASE k # i
      <4>1. k \in 1..Len(read)
        BY <1>5, <1>8, <3>2
      <4>2. SmallNumbersReadBack
        BY Zenon DEF NInv
      <4>3. read[k] = written[k]
        BY <1>2, <2>1, <4>1, <4>2, Zenon DEF SmallNumbersReadBack
      <4> QED
        BY <1>2, <1>8, <4>1, <4>3, Zenon
    <3> QED
      BY <3>1, <3>2, Zenon
  <2> QED
    BY <2>1, Zenon DEF SmallNumbersReadBack
<1>14. Len(read') <= Len(written')
  BY <1>2, <1>3, <1>5, <1>8
<1>15. \E s \in [1..Len(written') + 1 -> Nat] : Framed(s)' /\ at' = s[Len(read') + 1]
  BY <1>2, <1>11, <1>12, Zenon
<1> QED
  BY <1>2, <1>4, <1>10, <1>13, <1>14, <1>15, Zenon DEF NInv

LEMMA SealKeeps ==
  ASSUME NInv, Seal
  PROVE  NInv'
<1>1. /\ sealed' = TRUE
      /\ written' = written /\ header' = header /\ read' = read
      /\ at' = at /\ broken' = broken
  BY Zenon DEF Seal
<1>2. TypeOK'
  BY <1>1, Zenon DEF NInv, TypeOK
<1>3. SmallNumbersReadBack'
  BY <1>1, Zenon DEF NInv, SmallNumbersReadBack
<1>4. \E s \in [1..Len(written') + 1 -> Nat] : Framed(s)' /\ at' = s[Len(read') + 1]
  BY <1>1, Zenon DEF NInv, Framed
<1> QED
  BY <1>1, <1>2, <1>3, <1>4, Zenon DEF NInv

LEMMA StutterKeeps ==
  ASSUME NInv, UNCHANGED vars
  PROVE  NInv'
BY Zenon DEF NInv, TypeOK, SmallNumbersReadBack, Framed, vars

LEMMA NInvHolds == Spec => []NInv
<1>1. ASSUME NInv, [Next]_vars PROVE NInv'
  <2>1. CASE Seal
    BY <1>1, <2>1, SealKeeps
  <2>2. CASE Get
    BY <1>1, <2>2, GetKeeps
  <2>3. ASSUME NEW v \in Value, Put(v) PROVE NInv'
    BY <1>1, <2>3, PutKeeps
  <2>4. CASE UNCHANGED vars
    BY <1>1, <2>4, StutterKeeps
  <2> QED
    BY <1>1, <2>1, <2>2, <2>3, <2>4, Zenon DEF Next
<1> QED
  BY <1>1, InitHolds, PTL DEF Spec

-----------------------------------------------------------------------------
(* The theorems.                                                           *)

\* The bytes that putNum appends are bytes, and ReadNumber's position stays
\* in the header (AaeSevenZ.cpp putNum, 7zArcIn.c ReadNumber).
THEOREM TypeCorrect == Spec => []TypeOK
<1>1. NInv => TypeOK
  BY DEF NInv
<1> QED
  BY <1>1, NInvHolds, PTL

\* ReadNumber takes as many bytes for each number as putNum wrote, for any
\* numbers and whatever it makes of their values: the fields of the header
\* stay in step.
THEOREM StaysInStep == Spec => []ReaderInStep
<1>1. NInv => ReaderInStep
  <2> SUFFICES ASSUME NInv PROVE ReaderInStep
    OBVIOUS
  <2>1. PICK start \in [1..Len(written) + 1 -> Nat] : Framed(start) /\ at = start[Len(read) + 1]
    BY Zenon DEF NInv
  <2>2. ~broken /\ Len(read) <= Len(written) /\ Len(read) \in Nat /\ Len(written) \in Nat
    BY DEF NInv, TypeOK
  <2>3. at > Len(header) => ~(Len(read) < Len(written))
    <3>1. Len(read) < Len(written) => at \in 1..Len(header)
      BY <2>1, Place, Zenon
    <3> QED
      BY <3>1 DEF NInv, TypeOK
  <2> QED
    BY <2>2, <2>3 DEF ReaderInStep
<1> QED
  BY <1>1, NInvHolds, PTL

\* The counts and sizes below 2^14 that buildHeader writes are read back as
\* they are, whatever stands around them in the header.
THEOREM SmallReadBack == Spec => []SmallNumbersReadBack
<1>1. NInv => SmallNumbersReadBack
  BY DEF NInv
<1> QED
  BY <1>1, NInvHolds, PTL
=============================================================================
