------------------------- MODULE RtpAudioQueueProofs -------------------------
(***************************************************************************)
(* Theorems about RtpAudioQueue, for any size of a block, any modulus its  *)
(* half of which holds more than the blocks in reach, any number of blocks *)
(* and any choice of the first one the host sends.                         *)
(*                                                                         *)
(* The code only sees numbers modulo 2^16 and compares them by half the    *)
(* range.  The argument says which block of the host each number stands    *)
(* for: there is an o, the block the queue has advanced to, from which     *)
(* oldest, nextSeq and the base of every listed block are what truncation  *)
(* makes of o and of the blocks that follow it (QueueAt), and no listed    *)
(* block is half the range from o (InReach).  Within that reach the        *)
(* comparisons of truncated numbers are those of the numbers of the host   *)
(* (SeqBefore, BaseBefore, EndAfter), and the rest is order on Nat.        *)
(***************************************************************************)
EXTENDS RtpAudioQueue, SequenceTheorems, WellFoundedInduction, TLAPS


-----------------------------------------------------------------------------
(* Numbers that wrap. *)

\* A set of numbers has a least one.
LEMMA Least ==
  ASSUME NEW S, S \subseteq Nat, S # {}
  PROVE  \E m \in S : \A x \in S : m <= x
<1>1. PICK m \in S : \A y \in S : ~ (<<y, m>> \in OpToRel(<, Nat))
  BY WFMin, NatLessThanWellFounded, Zenon
<1>2. \A y \in S : ~(y < m) BY <1>1 DEF OpToRel
<1> QED BY <1>2

\* Different multiples are a multiple apart.
LEMMA Multiple ==
  ASSUME NEW R \in Nat \ {0}, NEW k \in Int, NEW j \in Int, k < j
  PROVE  R * k \in Int /\ R * j \in Int /\ R * k + R <= R * j
<1>1. j - k >= 1 OBVIOUS
<1>2. R * (j - k) >= R BY <1>1
<1>3. R * (j - k) = R * j - R * k OBVIOUS
<1> QED BY <1>2, <1>3

\* Division with remainder; the remainder is the only one, shifts and differences.
LEMMA ModRange ==
  ASSUME NEW R \in Nat \ {0}, NEW x \in Int
  PROVE  x % R \in 0 .. R - 1 /\ x \div R \in Int /\ x = R * (x \div R) + (x % R)
OBVIOUS

LEMMA ModOf ==
  ASSUME NEW R \in Nat \ {0}, NEW k \in Int, NEW r \in 0 .. R - 1
  PROVE  (R * k + r) % R = r
<1> DEFINE x == R * k + r
           j == x \div R
<1>1. x \in Int /\ R * k \in Int OBVIOUS
<1>2. x % R \in 0 .. R - 1 /\ j \in Int /\ x = R * j + (x % R) BY <1>1, ModRange
<1> HIDE DEF j
<1>3. R * j \in Int BY <1>2
<1>4. ~(k < j)
  <2> SUFFICES ASSUME k < j PROVE FALSE OBVIOUS
  <2>1. R * k + R <= R * j BY <1>2, Multiple
  <2> QED BY <2>1, <1>1, <1>2, <1>3
<1>5. ~(j < k)
  <2> SUFFICES ASSUME j < k PROVE FALSE OBVIOUS
  <2>1. R * j + R <= R * k BY <1>2, Multiple
  <2> QED BY <2>1, <1>1, <1>2, <1>3
<1>6. j = k BY <1>2, <1>4, <1>5
<1> QED BY <1>2, <1>6

LEMMA ModShift ==
  ASSUME NEW R \in Nat \ {0}, NEW k \in Int, NEW x \in Int
  PROVE  (x + R * k) % R = x % R
<1> DEFINE j == x \div R
           m == x % R
<1>1. m \in 0 .. R - 1 /\ j \in Int /\ x = R * j + m BY ModRange
<1> HIDE DEF j, m
<1>2. R * (j + k) = R * j + R * k /\ R * j \in Int /\ R * k \in Int BY <1>1
<1>3. x + R * k = R * (j + k) + m BY <1>1, <1>2
<1>4. (R * (j + k) + m) % R = m BY <1>1, ModOf
<1> QED BY <1>3, <1>4 DEF m

LEMMA ModDifference ==
  ASSUME NEW R \in Nat \ {0}, NEW x \in Int, NEW y \in Int
  PROVE  ((x % R) - (y % R)) % R = (x - y) % R
<1> DEFINE j == x \div R
           k == y \div R
           m == x % R
           n == y % R
<1>1. m \in 0 .. R - 1 /\ j \in Int /\ x = R * j + m BY ModRange
<1>2. n \in 0 .. R - 1 /\ k \in Int /\ y = R * k + n BY ModRange
<1> HIDE DEF j, k, m, n
<1>3. R * (j - k) = R * j - R * k /\ R * j \in Int /\ R * k \in Int BY <1>1, <1>2
<1>4. x - y = (m - n) + R * (j - k) BY <1>1, <1>2, <1>3
<1>5. m - n \in Int /\ j - k \in Int BY <1>1, <1>2
<1>8. ((m - n) + R * (j - k)) % R = (m - n) % R BY <1>5, ModShift
<1>6. (x - y) % R = (m - n) % R BY <1>4, <1>8, Zenon
<1>7. (m - n) % R = (x - y) % R BY <1>6, Zenon
<1> QED BY <1>7, Zenon DEF m, n

\* Round has an even number of blocks; what is in the queue, and what arrives, is
\* within half of them.
H == Round \div (2 * DataShards)

\* The assumption on the constants, as the proofs use it.
LEMMA Halves ==
  /\ DataShards \in Nat \ {0} /\ H \in Nat \ {0} /\ Round \in Nat \ {0}
  /\ DataShards * H \in Nat \ {0} /\ Round = 2 * (DataShards * H)
  /\ Late \in Nat /\ MaxSkipped \in Nat /\ Late + 2 * MaxSkipped + 3 <= H
<1> DEFINE D == DataShards
           d == 2 * D
           reach == Late + 2 * MaxSkipped + 3
<1>1. /\ D \in Nat \ {0} /\ Round \in Nat \ {0} /\ Round % d = 0
      /\ Late \in Nat /\ MaxSkipped \in Nat /\ d * reach <= Round
  BY AudioAssumption
<1>2. d \in Nat \ {0} /\ reach \in Nat \ {0} BY <1>1
<1> HIDE DEF d
<1>3. Round \div d \in Int /\ Round = d * (Round \div d) + (Round % d) BY <1>1, <1>2, ModRange
<1> DEFINE h == Round \div d
<1> HIDE DEF h
<1>8. h \in Int /\ Round = d * h + 0 BY <1>1, <1>3, Zenon DEF h
<1>9. h = H BY Zenon DEF H, d, h
<1>4. H \in Int /\ Round = d * H BY <1>2, <1>8, <1>9
<1> USE DEF d
<1> HIDE DEF reach, H
<1>5. d * H = 2 * (D * H) /\ D * H \in Int BY <1>1, <1>4
<1>6. H \in Nat \ {0}
  <2>1. H > 0
    <3> SUFFICES ASSUME ~(H > 0) PROVE FALSE OBVIOUS
    <3>1. d * H <= 0 BY <1>2, <1>4
    <3> QED BY <3>1, <1>1, <1>4
  <2> QED BY <2>1, <1>4
<1>7. reach <= H
  <2> SUFFICES ASSUME H < reach PROVE FALSE BY <1>2, <1>4
  <2>1. d * H \in Int /\ d * reach \in Int /\ d * H + d <= d * reach BY <1>2, <1>4, Multiple
  <2> QED BY <2>1, <1>1, <1>2, <1>4
<1> QED BY <1>1, <1>4, <1>5, <1>6, <1>7 DEF reach

\* A truncated number is a sequence number.
LEMMA Wrapped == \A x \in Int : U16(x) \in Seq16 /\ U16(x) \in Int
BY Halves, ModRange DEF U16, Seq16

\* isBefore16 compares two numbers that are less than half a round apart.
LEMMA BeforeIf ==
  ASSUME NEW x \in Int, NEW y \in Int, NEW n \in Int, U16(x - y) = U16(n),
         -Round <= 2 * n, 2 * n < Round
  PROVE  isBefore16(x, y) <=> n < 0
<1> DEFINE m == DataShards * H
<1>1. m \in Nat \ {0} /\ Round = 2 * m BY Halves
<1> HIDE DEF m
<1>2. (Round - 1) \div 2 = m - 1 BY <1>1
<1>3. CASE n >= 0
  <2>1. (Round * 0 + n) % Round = n BY <1>1, <1>3, ModOf
  <2>2. U16(n) = n BY <2>1, <1>1 DEF U16
  <2> QED BY <1>1, <1>2, <1>3, <2>2 DEF isBefore16
<1>4. CASE n < 0
  <2>1. n + Round \in 0 .. Round - 1 BY <1>1, <1>4
  <2>2. (Round * (-1) + (n + Round)) % Round = n + Round BY <1>1, <2>1, ModOf
  <2>3. U16(n) = n + Round BY <2>2, <1>1 DEF U16
  <2> QED BY <1>1, <1>2, <1>4, <2>3 DEF isBefore16
<1> QED BY <1>3, <1>4

\* D * k is between the ends if k is.
LEMMA InBlocks ==
  ASSUME NEW k \in Int, NEW m \in Int, k <= m
  PROVE  DataShards * k \in Int /\ DataShards * m \in Int /\ DataShards * k <= DataShards * m
<1>1. CASE k = m BY <1>1, Halves
<1>2. CASE k < m
  <2>1. DataShards * k + DataShards <= DataShards * m BY <1>2, Halves, Multiple
  <2> QED BY <2>1, Halves
<1> QED BY <1>1, <1>2

\* Number n, in or after the block b, against the beginning and the end of block c.
LEMMA SeqBefore ==
  ASSUME NEW b \in Int, NEW c \in Int, NEW i \in Data, -H <= b - c, b - c < H
  PROVE  isBefore16(U16(b * DataShards + i), Base(c)) <=> b < c
<1> DEFINE D == DataShards
           n == D * (b - c) + i
<1>1. D \in Nat \ {0} /\ H \in Nat \ {0} /\ i \in 0 .. D - 1 /\ Round = 2 * (D * H) /\ D * H \in Nat
  BY Halves DEF Data
<1> HIDE DEF D
<1>2. D * (b - c) \in Int /\ D * (b - c) = b * D - c * D /\ b * D \in Int /\ c * D \in Int BY <1>1
<1>3. D * (-H) = -(D * H) BY <1>1
<1>4. -(D * H) <= D * (b - c)
  <2>1. D * (-H) <= D * (b - c) BY <1>1, InBlocks DEF D
  <2> QED BY <2>1, <1>3
<1>5. D * (b - c) + D <= D * H BY <1>1, Multiple
<1>6. n \in Int /\ -Round <= 2 * n /\ 2 * n < Round BY <1>1, <1>2, <1>4, <1>5
<1>7. U16(U16(b * D + i) - Base(c)) = U16(n)
  <2>1. Base(c) = (c * D) % Round BY DEF Base, U16, D
  <2>2. b * D + i \in Int /\ n = (b * D + i) - c * D BY <1>1, <1>2
  <2>3. Round \in Nat \ {0} BY Halves
  <2> HIDE DEF n
  <2>4. (((b * D + i) % Round) - ((c * D) % Round)) % Round = ((b * D + i) - c * D) % Round
    BY <1>2, <2>2, <2>3, ModDifference
  <2> QED BY <2>1, <2>2, <2>4 DEF U16
<1>8. isBefore16(U16(b * D + i), Base(c)) <=> n < 0
  <2>1. Base(c) \in Int BY <1>2, Wrapped DEF Base, D
  <2>2. U16(b * D + i) \in Int BY <1>1, <1>2, Wrapped
  <2> HIDE DEF n
  <2> QED BY <1>6, <1>7, <2>1, <2>2, BeforeIf
<1>9. n < 0 <=> b < c
  <2>1. CASE b < c
    <3>1. D * (b - c) + D <= D * 0 BY <1>1, <2>1, Multiple
    <3>2. D * 0 = 0 BY <1>1
    <3> QED BY <3>1, <3>2, <1>1, <1>2, <2>1
  <2>2. CASE ~(b < c)
    <3>1. D * 0 <= D * (b - c) BY <1>1, <2>2, InBlocks DEF D
    <3>2. D * 0 = 0 BY <1>1
    <3> QED BY <3>1, <3>2, <1>1, <1>2, <2>2
  <2> QED BY <2>1, <2>2
<1> QED BY <1>8, <1>9 DEF D

LEMMA BaseBefore ==
  ASSUME NEW b \in Int, NEW c \in Int, -H <= b - c, b - c < H
  PROVE  isBefore16(Base(b), Base(c)) <=> b < c
<1>1. 0 \in Data BY Halves DEF Data
<1>2. b * DataShards + 0 = b * DataShards BY Halves
<1>3. U16(b * DataShards + 0) = Base(b) BY <1>2 DEF Base
<1> QED BY <1>1, <1>3, SeqBefore

LEMMA EndAfter ==
  ASSUME NEW b \in Int, NEW c \in Int, NEW i \in Data, -H < b - c, b - c <= H
  PROVE  isBefore16(U16(b * DataShards + i), Base(c) + DataShards) <=> b <= c
<1> DEFINE x == U16(b * DataShards + i)
           e == c + 1
<1>0. e \in Int /\ -H <= b - e /\ b - e < H /\ (b < e <=> b <= c) BY Halves
<1> HIDE DEF e
<1>1. isBefore16(x, Base(e)) <=> b < e BY <1>0, SeqBefore
<1> USE DEF e
<1>2. U16(x - (Base(c) + DataShards)) = U16(x - Base(e))
  <2> DEFINE D == DataShards
             p == c * D
             r == p + D
  <2>1. D \in Nat /\ p \in Int /\ e * D = r /\ r \in Int /\ Round \in Nat \ {0} /\ x \in Int
    <3>1. b * D + i \in Int BY Halves DEF Data
    <3>2. x \in Int BY <3>1, Wrapped DEF D
    <3> QED BY <3>2, Halves
  <2>2. Base(c) = p % Round /\ Base(e) = r % Round BY <2>1, Zenon DEF Base, U16, D
  <2> HIDE DEF D, p, r, x
  <2> DEFINE j == p \div Round
             k == r \div Round
             v == p % Round
             w == r % Round
  <2>3. j \in Int /\ v \in Int /\ p = Round * j + v BY <2>1, ModRange
  <2>4. k \in Int /\ w \in Int /\ r = Round * k + w BY <2>1, ModRange
  <2> HIDE DEF j, k, v, w
  <2>5. r = p + D BY DEF r
  <2>6. Round * (k - j) = Round * k - Round * j /\ Round * k \in Int /\ Round * j \in Int
    BY <2>1, <2>3, <2>4
  <2>7. x - (v + D) = (x - w) + Round * (j - k) BY <2>1, <2>3, <2>4, <2>5, <2>6
  <2>10. x - w \in Int /\ j - k \in Int BY <2>1, <2>3, <2>4
  <2>8. ((x - w) + Round * (j - k)) % Round = (x - w) % Round BY <2>1, <2>10, ModShift
  <2>9. (x - (v + D)) % Round = (x - w) % Round BY <2>7, <2>8
  <2> QED BY <2>2, <2>9, Zenon DEF U16, D, v, w
<1>3. isBefore16(x, Base(c) + DataShards) <=> isBefore16(x, Base(e)) BY <1>2, Zenon DEF isBefore16
<1> QED BY <1>0, <1>1, <1>3

\* Numbers of one block do not wrap in between, and two that are the same on the
\* wire are the same if they are near.
LEMMA WithinBlock ==
  ASSUME NEW b \in Int, NEW i \in Data
  PROVE  /\ b % (2 * H) \in 0 .. 2 * H - 1 /\ Base(b) = DataShards * (b % (2 * H))
         /\ U16(b * DataShards + i) = Base(b) + i
<1> DEFINE D == DataShards
           R == 2 * H
<1>1. /\ D \in Nat \ {0} /\ R \in Nat \ {0} /\ Round \in Nat \ {0} /\ Round = D * R
      /\ i \in 0 .. D - 1
  BY Halves DEF Data
<1> DEFINE j == b \div R
           m == b % R
<1> HIDE DEF D, R
<1>2. m \in 0 .. R - 1 /\ j \in Int /\ b = R * j + m BY <1>1, ModRange
<1> HIDE DEF j, m
<1>3. b * D = Round * j + D * m /\ D * m \in Int
  <2>1. (R * j) * D = (D * R) * j BY <1>1, <1>2
  <2>2. (R * j + m) * D = (R * j) * D + D * m BY <1>1, <1>2
  <2> QED BY <2>1, <2>2, <1>1, <1>2
<1>4. D * m + D <= Round /\ D * m >= 0
  <2>1. D * m + D <= D * R BY <1>1, <1>2, Multiple
  <2> QED BY <2>1, <1>1, <1>2
<1>5. \A a \in 0 .. D - 1 : (b * D + a) % Round = D * m + a
  <2> TAKE a \in 0 .. D - 1
  <2>1. D * m + a \in 0 .. Round - 1 BY <1>1, <1>3, <1>4
  <2>2. (Round * j + (D * m + a)) % Round = D * m + a BY <1>1, <1>2, <2>1, ModOf
  <2>3. b * D + a = Round * j + (D * m + a) BY <1>1, <1>2, <1>3
  <2> QED BY <2>2, <2>3
<1>6. Base(b) = D * m
  <2>1. (b * D + 0) % Round = D * m + 0 BY <1>1, <1>5
  <2>2. b * D + 0 = b * D /\ D * m + 0 = D * m BY <1>1, <1>3
  <2> QED BY <2>1, <2>2 DEF Base, U16, D
<1>7. U16(b * D + i) = D * m + i BY <1>1, <1>5 DEF U16
<1> QED BY <1>2, <1>6, <1>7 DEF D, R, m

LEMMA SameNumber ==
  ASSUME NEW b \in Int, NEW c \in Int, NEW i \in Data, NEW j \in Data, b - c < 2 * H, c - b < 2 * H,
         Base(b) + i = Base(c) + j
  PROVE  b = c /\ i = j
<1> DEFINE R == 2 * H
           m == b % R
           n == c % R
           k == b \div R
           l == c \div R
<1>1. R \in Nat \ {0} /\ DataShards \in Nat \ {0} /\ i \in 0 .. DataShards - 1 /\ j \in 0 .. DataShards - 1
  BY Halves DEF Data
<1>2. Base(b) = DataShards * m /\ Base(c) = DataShards * n BY WithinBlock
<1>3. m \in 0 .. R - 1 /\ k \in Int /\ b = R * k + m BY <1>1, ModRange
<1>4. n \in 0 .. R - 1 /\ l \in Int /\ c = R * l + n BY <1>1, ModRange
<1>5. b - c < R /\ c - b < R OBVIOUS
<1> HIDE DEF R, m, n, k, l
<1>6. DataShards * m + i = DataShards * n + j BY <1>2
<1>7. ~(m < n)
  <2> SUFFICES ASSUME m < n PROVE FALSE OBVIOUS
  <2>1. DataShards * m \in Int /\ DataShards * n \in Int /\ DataShards * m + DataShards <= DataShards * n
    BY <1>1, <1>3, <1>4, Multiple
  <2> QED BY <2>1, <1>1, <1>6
<1>8. ~(n < m)
  <2> SUFFICES ASSUME n < m PROVE FALSE OBVIOUS
  <2>1. DataShards * n \in Int /\ DataShards * m \in Int /\ DataShards * n + DataShards <= DataShards * m
    BY <1>1, <1>3, <1>4, Multiple
  <2> QED BY <2>1, <1>1, <1>6
<1>9. m = n BY <1>3, <1>4, <1>7, <1>8
<1>10. i = j
  <2>1. DataShards * m \in Int BY <1>1, <1>3
  <2> QED BY <2>1, <1>1, <1>6, <1>9
<1>11. ~(k < l)
  <2> SUFFICES ASSUME k < l PROVE FALSE OBVIOUS
  <2>1. R * k \in Int /\ R * l \in Int /\ R * k + R <= R * l BY <1>1, <1>3, <1>4, Multiple
  <2> QED BY <2>1, <1>1, <1>3, <1>4, <1>5, <1>9
<1>12. ~(l < k)
  <2> SUFFICES ASSUME l < k PROVE FALSE OBVIOUS
  <2>1. R * l \in Int /\ R * k \in Int /\ R * l + R <= R * k BY <1>1, <1>3, <1>4, Multiple
  <2> QED BY <2>1, <1>1, <1>3, <1>4, <1>5, <1>9
<1>13. k = l BY <1>3, <1>4, <1>11, <1>12
<1> QED BY <1>3, <1>4, <1>9, <1>10, <1>13

-----------------------------------------------------------------------------
(* The list of blocks. *)

\* The block whose packets blk has, and a record with packets of block b.
No(blk) == CHOOSE b \in {blk.shard[s] : s \in Received(blk)} : TRUE

Of(blk, b) ==
  /\ b \in Block /\ blk.base = Base(b)
  /\ \A s \in Shards : blk.shard[s] \in {b, NONE}
  /\ \E s \in Shards : blk.shard[s] = b

\* The list is of one block each, in the order of the host.
Listed(bs) ==
  /\ \A k \in 1 .. Len(bs) : Of(bs[k], No(bs[k]))
  /\ \A j, k \in 1 .. Len(bs) : j < k => No(bs[j]) < No(bs[k])

LEMMA OfNo ==
  ASSUME NEW blk, NEW b, Of(blk, b)
  PROVE  No(blk) = b
<1>1. NONE \notin Block /\ b \in Block BY AudioAssumption DEF Of
<1>2. {blk.shard[s] : s \in Received(blk)} = {b} BY <1>1 DEF Received, Of
<1> QED BY <1>2 DEF No

\* An entry inserted into a list.
LEMMA InsertFacts ==
  ASSUME NEW S, NEW bs \in Seq(S), NEW e \in S, NEW k \in 1 .. Len(bs) + 1
  PROVE  /\ InsertAt(bs, k, e) \in Seq(S) /\ Len(InsertAt(bs, k, e)) = Len(bs) + 1
         /\ \A j \in 1 .. Len(bs) + 1 :
              InsertAt(bs, k, e)[j] = IF j < k THEN bs[j] ELSE IF j = k THEN e ELSE bs[j - 1]
<1> DEFINE front == SubSeq(bs, 1, k - 1)
           back == SubSeq(bs, k, Len(bs))
<1>1. front \in Seq(S) /\ Len(front) = k - 1 /\ \A j \in 1 .. k - 1 : front[j] = bs[j] OBVIOUS
<1>2. back \in Seq(S) /\ Len(back) = Len(bs) + 1 - k /\ \A j \in 1 .. Len(bs) + 1 - k : back[j] = bs[k + j - 1]
  OBVIOUS
<1>3. InsertAt(bs, k, e) = (front \o <<e>>) \o back BY DEF InsertAt
<1> HIDE DEF front, back
<1> DEFINE mid == front \o <<e>>
<1>4. mid \in Seq(S) /\ Len(mid) = k /\ \A j \in 1 .. k : mid[j] = IF j < k THEN bs[j] ELSE e
  BY <1>1
<1> HIDE DEF mid
<1>5. /\ mid \o back \in Seq(S) /\ Len(mid \o back) = Len(mid) + Len(back)
      /\ \A j \in 1 .. Len(mid) + Len(back) :
           (mid \o back)[j] = IF j <= Len(mid) THEN mid[j] ELSE back[j - Len(mid)]
  BY <1>2, <1>4, ConcatProperties
<1>6. /\ Len(bs) \in Nat /\ k \in 1 .. Len(bs) + 1
      /\ Len(mid) = k /\ Len(back) = Len(bs) + 1 - k /\ Len(mid) + Len(back) = Len(bs) + 1
  BY <1>2, <1>4
<1>7. \A j \in 1 .. Len(bs) + 1 :
        (mid \o back)[j] = IF j < k THEN bs[j] ELSE IF j = k THEN e ELSE bs[j - 1]
  <2> TAKE j \in 1 .. Len(bs) + 1
  <2>1. (mid \o back)[j] = IF j <= k THEN mid[j] ELSE back[j - k] BY <1>5, <1>6
  <2>2. CASE j <= k BY <2>1, <2>2, <1>4, <1>6
  <2>3. CASE ~(j <= k)
    <3>1. j - k \in 1 .. Len(bs) + 1 - k /\ k + (j - k) - 1 = j - 1 BY <2>3, <1>6
    <3>2. back[j - k] = bs[j - 1] BY <3>1, <1>2
    <3> QED BY <3>2, <2>1, <2>3, <1>6
  <2> QED BY <2>2, <2>3
<1>8. Len(mid \o back) = Len(bs) + 1 BY <1>5, <1>6
<1> QED BY <1>3, <1>5, <1>7, <1>8 DEF mid

\* The place of a block in the list.
LEMMA PlaceFacts ==
  ASSUME NEW u, u.blocks \in Seq(BlockRecord), Listed(u.blocks), NEW b \in Block,
         \A k \in 1 .. Len(u.blocks) : No(u.blocks[k]) - b < H /\ b - No(u.blocks[k]) < H
  PROVE  /\ Place(u, Base(b)) \in 1 .. Len(u.blocks) + 1
         /\ \A j \in 1 .. Len(u.blocks) : /\ No(u.blocks[j]) \in Block
                                          /\ j < Place(u, Base(b)) <=> No(u.blocks[j]) < b
         /\ Has(u, Base(b)) <=> /\ Place(u, Base(b)) \in 1 .. Len(u.blocks)
                                /\ No(u.blocks[Place(u, Base(b))]) = b
<1> DEFINE bs == u.blocks
           n == Len(bs)
           after == {k \in 1 .. n : b <= No(bs[k])}
           place == Place(u, Base(b))
<1>1. b \in Int /\ H \in Nat \ {0} /\ n \in Nat BY Halves, AudioAssumption DEF Block
<1>2. \A k \in 1 .. n : No(bs[k]) \in Block /\ No(bs[k]) \in Int /\ bs[k].base = Base(No(bs[k]))
  BY AudioAssumption DEF Listed, Of, Block
<1>3. \A k \in 1 .. n : bs[k].base = Base(b) <=> No(bs[k]) = b
  <2> TAKE k \in 1 .. n
  <2>1. bs[k].base = Base(No(bs[k])) BY <1>2
  <2>2. ASSUME Base(No(bs[k])) = Base(b) PROVE No(bs[k]) = b
    <3>1. 0 \in Data BY Halves DEF Data
    <3>2. Base(No(bs[k])) + 0 = Base(b) + 0 BY <2>2
    <3>3. No(bs[k]) - b < 2 * H /\ b - No(bs[k]) < 2 * H BY <1>1, <1>2
    <3> QED BY <3>1, <3>2, <3>3, <1>1, <1>2, SameNumber
  <2> QED BY <2>1, <2>2
<1>4. \A k \in 1 .. n : isBefore16(Base(b), bs[k].base) <=> b < No(bs[k])
  <2> TAKE k \in 1 .. n
  <2>1. -H <= b - No(bs[k]) /\ b - No(bs[k]) < H BY <1>1, <1>2
  <2> QED BY <2>1, <1>1, <1>2, BaseBefore
<1>5. after = {k \in DOMAIN bs : bs[k].base = Base(b) \/ isBefore16(Base(b), bs[k].base)}
  <2>1. DOMAIN bs = 1 .. n OBVIOUS
  <2>2. \A k \in 1 .. n : b <= No(bs[k]) <=> b < No(bs[k]) \/ No(bs[k]) = b BY <1>1, <1>2
  <2> HIDE DEF bs, n
  <2> QED BY <2>1, <2>2, <1>3, <1>4
<1> HIDE DEF after
<1>6. place = IF after = {} THEN n + 1 ELSE CHOOSE k \in after : \A j \in after : k <= j
  BY <1>5 DEF Place
<1> HIDE DEF place
<1>7. \A j, k \in 1 .. n : j \in after /\ j <= k => k \in after
  <2> SUFFICES ASSUME NEW j \in 1 .. n, NEW k \in 1 .. n, j \in after, j < k PROVE k \in after OBVIOUS
  <2>1. No(bs[j]) < No(bs[k]) BY DEF Listed
  <2> QED BY <2>1, <1>1, <1>2 DEF after
<1>8. place \in 1 .. n + 1 /\ \A j \in 1 .. n : j \in after <=> place <= j
  <2>1. CASE after = {} BY <2>1, <1>1, <1>6
  <2>2. CASE after # {}
    <3>1. after \subseteq Nat /\ after \subseteq 1 .. n BY DEF after
    <3>2. PICK m \in after : \A x \in after : m <= x BY <3>1, <2>2, Least
    <3>3. place = CHOOSE k \in after : \A j \in after : k <= j BY <1>6, <2>2
    <3>4. place \in after /\ \A j \in after : place <= j BY <3>2, <3>3
    <3> QED BY <3>1, <3>4, <1>1, <1>7
  <2> QED BY <2>1, <2>2
<1>9. \A j \in 1 .. n : j < place <=> No(bs[j]) < b
  <2> TAKE j \in 1 .. n
  <2>1. j \in after <=> b <= No(bs[j]) BY DEF after
  <2> QED BY <2>1, <1>1, <1>2, <1>8
<1>10. Has(u, Base(b)) <=> place \in 1 .. n /\ No(bs[place]) = b
  <2>1. Has(u, Base(b)) <=> \E k \in 1 .. n : k = place /\ bs[k].base = Base(b) BY DEF Has, place
  <2> QED BY <2>1, <1>3
<1> QED BY <1>2, <1>8, <1>9, <1>10 DEF place

-----------------------------------------------------------------------------
(* What a packet does to the list of blocks. *)

\* Block b is less than half a round from every block of the list.
Near(bs, b) == \A k \in 1 .. Len(bs) : No(bs[k]) - b < H /\ b - No(bs[k]) < H

\* No packet of new that old has is lost, and nothing was handed out.
Grown(old, new) ==
  /\ new.nextDataPacketIndex = old.nextDataPacketIndex
  /\ new.allowDiscontinuity = old.allowDiscontinuity
  /\ \A s \in Shards : old.shard[s] # NONE => new.shard[s] = old.shard[s]

\* The list cs is bs with more packets of block b, at place k.
Filled(bs, cs, k, b) ==
  /\ cs \in Seq(BlockRecord) /\ k \in 1 .. Len(cs) /\ Of(cs[k], b)
  /\ \/ /\ Len(cs) = Len(bs) /\ No(bs[k]) = b /\ Grown(bs[k], cs[k])
        /\ \A j \in 1 .. Len(bs) : j # k => cs[j] = bs[j]
     \/ /\ Len(cs) = Len(bs) + 1
        /\ cs[k].nextDataPacketIndex = 0 /\ ~cs[k].allowDiscontinuity
        /\ \A j \in 1 .. Len(bs) : IF j < k THEN cs[j] = bs[j] /\ No(bs[j]) < b
                                   ELSE cs[j + 1] = bs[j] /\ b < No(bs[j])

LEMMA FilledListed ==
  ASSUME NEW bs \in Seq(BlockRecord), NEW cs, NEW k, NEW b, Listed(bs), Filled(bs, cs, k, b)
  PROVE  Listed(cs) /\ No(cs[k]) = b
<1>1. No(cs[k]) = b BY OfNo DEF Filled
<1>2. Len(bs) \in Nat /\ cs \in Seq(BlockRecord) /\ k \in 1 .. Len(cs) /\ Of(cs[k], No(cs[k])) BY <1>1 DEF Filled
<1>3. \A j \in 1 .. Len(bs) : Of(bs[j], No(bs[j])) /\ No(bs[j]) \in Int
  BY AudioAssumption DEF Listed, Of, Block
<1>4. b \in Int BY AudioAssumption DEF Filled, Of, Block
<1>5. CASE Len(cs) = Len(bs)
  <2>1. No(bs[k]) = b /\ \A j \in 1 .. Len(bs) : j # k => cs[j] = bs[j] BY <1>2, <1>5 DEF Filled
  <2>2. \A j \in 1 .. Len(bs) : No(cs[j]) = No(bs[j]) BY <1>1, <2>1
  <2>3. \A j \in 1 .. Len(cs) : Of(cs[j], No(cs[j])) BY <1>2, <1>3, <1>5, <2>1
  <2> QED BY <1>1, <1>5, <2>2, <2>3 DEF Listed
<1>6. CASE Len(cs) # Len(bs)
  <2>1. /\ Len(cs) = Len(bs) + 1
        /\ \A j \in 1 .. Len(bs) : IF j < k THEN cs[j] = bs[j] /\ No(bs[j]) < b
                                   ELSE cs[j + 1] = bs[j] /\ b < No(bs[j])
    BY <1>6 DEF Filled
  <2> DEFINE From(j) == IF j < k THEN j ELSE j - 1
  <2>2. \A j \in 1 .. Len(cs) : j # k => From(j) \in 1 .. Len(bs) /\ cs[j] = bs[From(j)]
                                          /\ (j < k <=> No(bs[From(j)]) < b) /\ No(bs[From(j)]) # b
    <3> SUFFICES ASSUME NEW j \in 1 .. Len(cs), j # k
                 PROVE  From(j) \in 1 .. Len(bs) /\ cs[j] = bs[From(j)]
                          /\ (j < k <=> No(bs[From(j)]) < b) /\ No(bs[From(j)]) # b
      OBVIOUS
    <3>1. CASE j < k
      <4>1. j \in 1 .. Len(bs) BY <1>2, <2>1, <3>1
      <4> QED BY <4>1, <3>1, <2>1, <1>3, <1>4
    <3>2. CASE ~(j < k)
      <4>1. j - 1 \in 1 .. Len(bs) /\ ~(j - 1 < k) /\ (j - 1) + 1 = j BY <1>2, <2>1, <3>2
      <4> QED BY <4>1, <3>2, <2>1, <1>3, <1>4
    <3> QED BY <3>1, <3>2
  <2>3. \A i, j \in 1 .. Len(cs) : i # k /\ j # k /\ i < j => From(i) < From(j) BY <1>2, <2>1
  <2> HIDE DEF From
  <2>4. \A j \in 1 .. Len(cs) : Of(cs[j], No(cs[j])) BY <1>2, <1>3, <2>2
  <2>5. \A i, j \in 1 .. Len(cs) : i < j => No(cs[i]) < No(cs[j])
    <3> SUFFICES ASSUME NEW i \in 1 .. Len(cs), NEW j \in 1 .. Len(cs), i < j PROVE No(cs[i]) < No(cs[j])
      OBVIOUS
    <3>1. CASE i = k BY <3>1, <1>1, <1>2, <1>3, <1>4, <2>2
    <3>2. CASE j = k BY <3>2, <1>1, <1>2, <1>3, <1>4, <2>2
    <3>3. CASE i # k /\ j # k BY <3>3, <2>2, <2>3 DEF Listed
    <3> QED BY <3>1, <3>2, <3>3
  <2> QED BY <1>1, <2>4, <2>5 DEF Listed
<1> QED BY <1>5, <1>6

LEMMA CompleteFacts ==
  ASSUME NEW blk \in BlockRecord, NEW b, Of(blk, b)
  PROVE  /\ completeFecBlock(blk) \in BlockRecord /\ Of(completeFecBlock(blk), b)
         /\ Grown(blk, completeFecBlock(blk))
<1>1. CASE Cardinality(Received(blk)) < DataShards
  BY <1>1 DEF completeFecBlock, Grown
<1>2. CASE ~(Cardinality(Received(blk)) < DataShards)
  <2> DEFINE new == [blk EXCEPT !.fullyReassembled = TRUE,
                       !.shard = [s \in Shards |-> IF s \in Data /\ @[s] = NONE THEN No(blk) ELSE @[s]]]
  <2>1. completeFecBlock(blk) = new BY <1>2 DEF completeFecBlock, No
  <2>2. No(blk) = b /\ b \in Block BY OfNo DEF Of
  <2>3. new \in BlockRecord BY <2>2 DEF BlockRecord
  <2>4. Of(new, b) /\ Grown(blk, new) BY <2>2 DEF Of, Grown, BlockRecord
  <2> QED BY <2>1, <2>3, <2>4
<1> QED BY <1>1, <1>2

LEMMA NotedFacts ==
  ASSUME TypeOK, NEW b \in Block, NEW s \in Shards
  PROVE  /\ Noted(b, s) \in QueueRecord
         /\ Noted(b, s).blocks = q.blocks /\ Noted(b, s).nextSeq = q.nextSeq
         /\ Noted(b, s).oldest = q.oldest /\ Noted(b, s).synchronizing = q.synchronizing
         /\ Noted(b, s).incompatibleServer = q.incompatibleServer
<1>1. q \in QueueRecord BY DEF TypeOK
<1>2. \A x, y : isBefore16(x, y) \in BOOLEAN BY DEF isBefore16
<1>3. s \in Data => U16(b * DataShards + s) \in Seq16
  BY Wrapped, Halves, AudioAssumption DEF Block, Data
<1> QED BY <1>1, <1>2, <1>3 DEF Noted, NoteSequence, QueueRecord

\* A block that is in the list is at its place.
LEMMA PlaceIs ==
  ASSUME NEW u, u.blocks \in Seq(BlockRecord), Listed(u.blocks), NEW b \in Block, Near(u.blocks, b),
         NEW k \in 1 .. Len(u.blocks), No(u.blocks[k]) = b
  PROVE  Place(u, Base(b)) = k
<1> DEFINE p == Place(u, Base(b))
<1>1. p \in 1 .. Len(u.blocks) + 1 /\ \A j \in 1 .. Len(u.blocks) : j < p <=> No(u.blocks[j]) < b
  BY PlaceFacts DEF Near
<1> HIDE DEF p
<1>2. b \in Int /\ Len(u.blocks) \in Nat BY AudioAssumption DEF Block
<1>3. ~(k < p) BY <1>1, <1>2
<1>4. ~(p < k)
  <2> SUFFICES ASSUME p < k PROVE FALSE OBVIOUS
  <2>1. p \in 1 .. Len(u.blocks) /\ No(u.blocks[p]) < No(u.blocks[k]) BY <1>1, <1>2 DEF Listed
  <2> QED BY <2>1, <1>1
<1>5. p = k BY <1>1, <1>2, <1>3, <1>4
<1> QED BY <1>5 DEF p

LEMMA NewBlockFacts ==
  ASSUME NEW b \in Block, NEW s \in Shards
  PROVE  /\ NewBlock(Base(b)) \in BlockRecord
         /\ LET new == [NewBlock(Base(b)) EXCEPT !.shard[s] = b] IN
              /\ new \in BlockRecord /\ Of(new, b) /\ new.shard[s] = b
              /\ new.nextDataPacketIndex = 0 /\ ~new.allowDiscontinuity
              /\ \A i \in Shards : i # s => new.shard[i] = NONE
<1>1. 0 \in Data BY Halves DEF Data
<1> QED BY <1>1 DEF NewBlock, BlockRecord, Of

\* The list with the packet, and nothing else changed but what is noted of its number.
LEMMA WithPacketFacts ==
  ASSUME TypeOK, NEW b \in Block, NEW s \in Shards, Listed(q.blocks), Near(q.blocks, b),
         Has(q, Base(b)) => q.blocks[Place(q, Base(b))].shard[s] = NONE
  PROVE  LET u == WithPacket(b, s)
             k == Place(u, Base(b))
         IN  /\ u \in QueueRecord /\ Filled(q.blocks, u.blocks, k, b) /\ u.blocks[k].shard[s] = b
             /\ k = Place(q, Base(b))
             /\ u.nextSeq = q.nextSeq /\ u.oldest = q.oldest /\ u.synchronizing = q.synchronizing
             /\ u.incompatibleServer = q.incompatibleServer
             /\ \A i \in Shards : u.blocks[k].shard[i] # NONE =>
                  i = s \/ (Has(q, Base(b)) /\ q.blocks[k].shard[i] # NONE)
<1> DEFINE n == Noted(b, s)
           k == Place(n, Base(b))
           bs == q.blocks
           list == IF Has(n, Base(b)) THEN n.blocks ELSE InsertAt(n.blocks, k, NewBlock(Base(b)))
           cs == [list EXCEPT ![k].shard[s] = b]
           u == WithPacket(b, s)
<1>1. /\ n \in QueueRecord /\ n.blocks = bs /\ n.nextSeq = q.nextSeq /\ n.oldest = q.oldest
      /\ n.synchronizing = q.synchronizing /\ n.incompatibleServer = q.incompatibleServer
  BY NotedFacts
<1> HIDE DEF n
<1>2. bs \in Seq(BlockRecord) /\ Len(bs) \in Nat BY DEF TypeOK, QueueRecord
<1>3. k = Place(q, Base(b)) /\ (Has(n, Base(b)) <=> Has(q, Base(b))) BY <1>1 DEF Place, Has
<1> HIDE DEF bs, k
<1>4. /\ k \in 1 .. Len(bs) + 1
      /\ \A j \in 1 .. Len(bs) : No(bs[j]) \in Block /\ (j < k <=> No(bs[j]) < b)
      /\ Has(q, Base(b)) <=> k \in 1 .. Len(bs) /\ No(bs[k]) = b
  BY <1>2, <1>3, PlaceFacts DEF Near, bs
<1>5. b \in Nat /\ \A c \in Block : c \in Nat BY AudioAssumption DEF Block
<1>6. /\ cs \in Seq(BlockRecord) /\ Filled(bs, cs, k, b) /\ cs[k].shard[s] = b
      /\ \A i \in Shards : cs[k].shard[i] # NONE => i = s \/ (Has(q, Base(b)) /\ bs[k].shard[i] # NONE)
  <2>1. CASE Has(q, Base(b))
    <3>1. list = bs /\ k \in 1 .. Len(bs) /\ No(bs[k]) = b BY <2>1, <1>1, <1>3, <1>4
    <3>2. Of(bs[k], b) /\ bs[k] \in BlockRecord /\ bs[k].shard[s] = NONE
      BY <2>1, <3>1, <1>2, <1>3 DEF Listed, bs
    <3> DEFINE new == [bs[k] EXCEPT !.shard[s] = b]
    <3>3. new \in BlockRecord /\ Of(new, b) /\ Grown(bs[k], new) /\ new.shard[s] = b
          /\ \A i \in Shards : new.shard[i] # NONE => i = s \/ bs[k].shard[i] # NONE
      BY <3>2 DEF BlockRecord, Of, Grown
    <3>4. cs = [bs EXCEPT ![k] = new] BY <3>1
    <3> HIDE DEF new, cs
    <3>5. /\ cs \in Seq(BlockRecord) /\ Len(cs) = Len(bs) /\ cs[k] = new
          /\ \A j \in 1 .. Len(bs) : j # k => cs[j] = bs[j]
      BY <3>1, <3>3, <3>4, <1>2
    <3> QED BY <2>1, <3>1, <3>3, <3>5 DEF Filled
  <2>2. CASE ~Has(q, Base(b))
    <3>1. list = InsertAt(bs, k, NewBlock(Base(b))) BY <2>2, <1>1, <1>3
    <3>2. NewBlock(Base(b)) \in BlockRecord BY NewBlockFacts
    <3>3. /\ list \in Seq(BlockRecord) /\ Len(list) = Len(bs) + 1
          /\ \A j \in 1 .. Len(bs) + 1 :
               list[j] = IF j < k THEN bs[j] ELSE IF j = k THEN NewBlock(Base(b)) ELSE bs[j - 1]
      <4> DEFINE e == NewBlock(Base(b))
      <4> HIDE DEF e, list
      <4>1. e \in BlockRecord BY <3>2, Zenon DEF e
      <4>2. list = InsertAt(bs, k, e) BY <3>1, Zenon DEF e
      <4>3. /\ InsertAt(bs, k, e) \in Seq(BlockRecord) /\ Len(InsertAt(bs, k, e)) = Len(bs) + 1
            /\ \A j \in 1 .. Len(bs) + 1 :
                 InsertAt(bs, k, e)[j] = IF j < k THEN bs[j] ELSE IF j = k THEN e ELSE bs[j - 1]
        BY <4>1, <1>2, <1>4, InsertFacts
      <4> QED BY <4>2, <4>3, Zenon DEF e
    <3> DEFINE new == [NewBlock(Base(b)) EXCEPT !.shard[s] = b]
    <3>4. /\ new \in BlockRecord /\ Of(new, b) /\ new.shard[s] = b
          /\ new.nextDataPacketIndex = 0 /\ ~new.allowDiscontinuity
          /\ \A i \in Shards : i # s => new.shard[i] = NONE
      BY NewBlockFacts
    <3>5. list[k] = NewBlock(Base(b)) BY <3>3, <1>4
    <3> HIDE DEF list
    <3>6. cs = [list EXCEPT ![k] = new] BY <3>5
    <3> HIDE DEF new, cs
    <3>7. /\ cs \in Seq(BlockRecord) /\ Len(cs) = Len(bs) + 1 /\ cs[k] = new /\ k \in 1 .. Len(cs)
          /\ \A j \in 1 .. Len(list) : j # k => cs[j] = list[j]
      BY <3>3, <3>4, <3>6, <1>4
    <3>8. \A j \in 1 .. Len(bs) : IF j < k THEN cs[j] = bs[j] /\ No(bs[j]) < b
                                  ELSE cs[j + 1] = bs[j] /\ b < No(bs[j])
      <4> TAKE j \in 1 .. Len(bs)
      <4>1. CASE j < k BY <4>1, <3>3, <3>7, <1>2, <1>4
      <4>2. CASE ~(j < k)
        <5>1. j + 1 \in 1 .. Len(bs) + 1 /\ j + 1 # k /\ ~(j + 1 < k) /\ (j + 1) - 1 = j
          BY <4>2, <1>2, <1>4
        <5>4. list[j + 1] = bs[(j + 1) - 1] BY <5>1, <3>3
        <5>5. cs[j + 1] = list[j + 1] BY <5>1, <3>3, <3>7
        <5>2. cs[j + 1] = bs[j] BY <5>1, <5>4, <5>5
        <5>3. No(bs[j]) # b
          <6> SUFFICES ASSUME No(bs[j]) = b PROVE FALSE OBVIOUS
          <6>1. k < j \/ k = j BY <4>2, <1>2, <1>4
          <6>2. CASE k = j BY <6>2, <2>2, <1>4
          <6>3. CASE k < j
            <7>1. k \in 1 .. Len(bs) /\ No(bs[k]) < No(bs[j]) BY <6>3, <1>2, <1>4 DEF Listed, bs
            <7> QED BY <7>1, <1>4, <1>5
          <6> QED BY <6>1, <6>2, <6>3
        <5>7. No(bs[j]) \in Block /\ ~(No(bs[j]) < b) BY <4>2, <1>4
        <5>8. No(bs[j]) \in Nat /\ b \in Nat BY <5>7, <1>5
        <5>6. b < No(bs[j]) BY <5>3, <5>7, <5>8
        <5> QED BY <4>2, <5>2, <5>6
      <4> QED BY <4>1, <4>2
    <3> QED BY <3>4, <3>7, <3>8 DEF Filled
  <2> QED BY <2>1, <2>2
<1> HIDE DEF cs
<1>7. u = [n EXCEPT !.blocks = cs] BY DEF WithPacket, n, k, cs, list
<1>8. u \in QueueRecord /\ u.blocks = cs /\ u.nextSeq = q.nextSeq /\ u.oldest = q.oldest
      /\ u.synchronizing = q.synchronizing /\ u.incompatibleServer = q.incompatibleServer
  BY <1>1, <1>6, <1>7 DEF QueueRecord
<1> HIDE DEF u
<1>9. Listed(cs) /\ No(cs[k]) = b /\ k \in 1 .. Len(cs)
  <2>1. Listed(bs) BY DEF bs
  <2>2. Listed(cs) /\ No(cs[k]) = b BY <2>1, <1>2, <1>6, FilledListed
  <2> QED BY <2>2, <1>6 DEF Filled
<1>10. Near(cs, b)
  <2> SUFFICES ASSUME NEW j \in 1 .. Len(cs) PROVE No(cs[j]) - b < H /\ b - No(cs[j]) < H BY DEF Near
  <2>1. CASE j = k BY <2>1, <1>9, <1>5, Halves
  <2>2. CASE j # k
    <3>1. \E i \in 1 .. Len(bs) : cs[j] = bs[i]
      <4>1. CASE Len(cs) = Len(bs) BY <4>1, <2>2, <1>6, <1>2 DEF Filled
      <4>2. CASE Len(cs) # Len(bs) /\ j < k
        <5>1. j \in 1 .. Len(bs) /\ Len(cs) = Len(bs) + 1 BY <4>2, <1>2, <1>4, <1>6 DEF Filled
        <5> QED BY <5>1, <4>2, <1>6 DEF Filled
      <4>3. CASE Len(cs) # Len(bs) /\ ~(j < k)
        <5>1. j - 1 \in 1 .. Len(bs) /\ Len(cs) = Len(bs) + 1 /\ ~(j - 1 < k) /\ (j - 1) + 1 = j
          BY <4>3, <2>2, <1>2, <1>4, <1>6 DEF Filled
        <5> QED BY <5>1, <4>3, <1>6 DEF Filled
      <4> QED BY <4>1, <4>2, <4>3
    <3> QED BY <3>1 DEF Near, bs
  <2> QED BY <2>1, <2>2
<1>11. Place(u, Base(b)) = k BY <1>6, <1>8, <1>9, <1>10, PlaceIs
<1> QED BY <1>3, <1>6, <1>8, <1>11 DEF u, bs

-----------------------------------------------------------------------------
(* The state of the queue. *)

\* The queue u waits for block o, of a stream of which new is the newest: the blocks
\* before it are done with, and only of the first in the list packets were handed out.
At(u, o, new) ==
  /\ u.oldest = Base(o)
  /\ IF u.blocks = <<>> THEN o = new + 1 /\ u.nextSeq = Base(o)
     ELSE /\ o <= No(u.blocks[1]) /\ No(u.blocks[Len(u.blocks)]) = new
          /\ IF o = No(u.blocks[1]) THEN u.nextSeq = Base(o) + u.blocks[1].nextDataPacketIndex
             ELSE /\ u.nextSeq = Base(o) /\ u.blocks[1].nextDataPacketIndex = 0
                  /\ ~u.blocks[1].allowDiscontinuity
          /\ \A k \in 2 .. Len(u.blocks) :
               u.blocks[k].nextDataPacketIndex = 0 /\ ~u.blocks[k].allowDiscontinuity

LEMMA ListedFacts ==
  ASSUME NEW u \in QueueRecord, Listed(u.blocks)
  PROVE  /\ u.blocks \in Seq(BlockRecord) /\ Len(u.blocks) \in Nat
         /\ u.blocks # <<>> <=> Len(u.blocks) >= 1
         /\ u.blocks # <<>> => Head(u.blocks) = u.blocks[1] /\ 1 \in 1 .. Len(u.blocks)
                                 /\ Len(u.blocks) \in 1 .. Len(u.blocks)
         /\ \A k \in 1 .. Len(u.blocks) :
              /\ u.blocks[k] \in BlockRecord /\ Of(u.blocks[k], No(u.blocks[k]))
              /\ No(u.blocks[k]) \in Block /\ No(u.blocks[k]) \in Nat
              /\ u.blocks[k].base = Base(No(u.blocks[k])) /\ u.blocks[k].nextDataPacketIndex \in Data
<1>1. u.blocks \in Seq(BlockRecord) BY DEF QueueRecord
<1>2. Len(u.blocks) \in Nat /\ (u.blocks # <<>> <=> Len(u.blocks) >= 1) BY <1>1
<1>3. u.blocks # <<>> => Head(u.blocks) = u.blocks[1] BY <1>1
<1>4. \A k \in 1 .. Len(u.blocks) : u.blocks[k] \in BlockRecord BY <1>1
<1>5. \A k \in 1 .. Len(u.blocks) : u.blocks[k].nextDataPacketIndex \in Data BY <1>4 DEF BlockRecord
<1>6. \A k \in 1 .. Len(u.blocks) : /\ Of(u.blocks[k], No(u.blocks[k]))
                                    /\ No(u.blocks[k]) \in Block /\ u.blocks[k].base = Base(No(u.blocks[k]))
  BY DEF Listed, Of
<1>7. Block \subseteq Nat BY AudioAssumption DEF Block
<1>8. u.blocks # <<>> => 1 \in 1 .. Len(u.blocks) /\ Len(u.blocks) \in 1 .. Len(u.blocks) BY <1>2
<1>9. \A k \in 1 .. Len(u.blocks) : No(u.blocks[k]) \in Nat BY <1>6, <1>7
<1> QED BY <1>1, <1>2, <1>3, <1>4, <1>5, <1>6, <1>8, <1>9, Zenon

\* All blocks of the list are between the first and the last.
LEMMA ListedEnds ==
  ASSUME NEW u \in QueueRecord, Listed(u.blocks), NEW k \in 1 .. Len(u.blocks)
  PROVE  No(u.blocks[1]) <= No(u.blocks[k]) /\ No(u.blocks[k]) <= No(u.blocks[Len(u.blocks)])
         /\ (k # 1 => No(u.blocks[1]) < No(u.blocks[k]))
<1>1. Len(u.blocks) \in Nat /\ \A j \in 1 .. Len(u.blocks) : No(u.blocks[j]) \in Nat BY ListedFacts
<1> QED BY <1>1 DEF Listed

\* Packets of block b are put in the list: the queue is where it was.
LEMMA FilledAt ==
  ASSUME NEW u \in QueueRecord, NEW v \in QueueRecord, Listed(u.blocks),
         NEW o \in Nat, NEW new \in Nat, At(u, o, new),
         NEW k, NEW b \in Block, o <= b, Filled(u.blocks, v.blocks, k, b),
         v.nextSeq = u.nextSeq, v.oldest = u.oldest
  PROVE  /\ Listed(v.blocks) /\ No(v.blocks[k]) = b /\ v.blocks # <<>>
         /\ At(v, o, IF b > new THEN b ELSE new)
         /\ No(v.blocks[1]) = IF u.blocks = <<>> \/ b < No(u.blocks[1]) THEN b ELSE No(u.blocks[1])
<1> DEFINE bs == u.blocks
           cs == v.blocks
           newer == IF b > new THEN b ELSE new
<1>1. Listed(cs) /\ No(cs[k]) = b
  <2>1. bs \in Seq(BlockRecord) BY DEF QueueRecord
  <2> QED BY <2>1, FilledListed
<1>2. /\ Len(bs) \in Nat /\ Len(cs) \in Nat /\ k \in 1 .. Len(cs) /\ b \in Nat
      /\ bs # <<>> <=> Len(bs) >= 1
      /\ cs # <<>> /\ \A j \in 1 .. Len(bs) : No(bs[j]) \in Nat
  BY <1>1, ListedFacts, AudioAssumption DEF Filled, Block
<1> HIDE DEF newer
<1>3. CASE Len(cs) = Len(bs)
  <2>1. /\ No(bs[k]) = b /\ Grown(bs[k], cs[k]) /\ \A j \in 1 .. Len(bs) : j # k => cs[j] = bs[j]
    <3>1. Len(cs) # Len(bs) + 1 BY <1>2, <1>3
    <3> QED BY <3>1, Zenon DEF Filled
  <2>2. \A j \in 1 .. Len(bs) : No(cs[j]) = No(bs[j])
                                  /\ cs[j].nextDataPacketIndex = bs[j].nextDataPacketIndex
                                  /\ cs[j].allowDiscontinuity = bs[j].allowDiscontinuity
    BY <1>1, <2>1 DEF Grown
  <2>3. bs # <<>> /\ 1 \in 1 .. Len(bs) /\ Len(bs) \in 1 .. Len(bs) /\ k \in 1 .. Len(bs) BY <1>2, <1>3
  <2>4. No(bs[Len(bs)]) = new /\ No(bs[1]) <= b /\ b <= new
    <3>1. No(bs[1]) <= No(bs[k]) /\ No(bs[k]) <= No(bs[Len(bs)]) BY <2>3, ListedEnds
    <3> QED BY <3>1, <2>1, <2>3 DEF At
  <2>5. newer = new BY <2>4, <1>2 DEF newer
  <2>6. At(v, o, new)
    <3>1. /\ u.oldest = Base(o) /\ o <= No(bs[1])
          /\ IF o = No(bs[1]) THEN u.nextSeq = Base(o) + bs[1].nextDataPacketIndex
             ELSE u.nextSeq = Base(o) /\ bs[1].nextDataPacketIndex = 0 /\ ~bs[1].allowDiscontinuity
          /\ \A j \in 2 .. Len(bs) : bs[j].nextDataPacketIndex = 0 /\ ~bs[j].allowDiscontinuity
      BY <2>3 DEF At
    <3>2. \A j \in 2 .. Len(bs) : j \in 1 .. Len(bs) OBVIOUS
    <3>3. \A j \in 2 .. Len(cs) : cs[j].nextDataPacketIndex = 0 /\ ~cs[j].allowDiscontinuity
      BY <1>3, <2>2, <3>1, <3>2
    <3>4. No(cs[Len(cs)]) = new BY <1>3, <2>2, <2>3, <2>4
    <3> QED BY <1>2, <2>2, <2>3, <3>1, <3>3, <3>4 DEF At
  <2>7. No(cs[1]) = No(bs[1]) /\ ~(b < No(bs[1])) BY <1>2, <2>2, <2>3, <2>4
  <2> QED BY <1>1, <1>2, <2>3, <2>5, <2>6, <2>7 DEF newer
<1>4. CASE Len(cs) # Len(bs)
  <2>1. /\ Len(cs) = Len(bs) + 1
        /\ cs[k].nextDataPacketIndex = 0 /\ ~cs[k].allowDiscontinuity
        /\ \A j \in 1 .. Len(bs) : IF j < k THEN cs[j] = bs[j] /\ No(bs[j]) < b
                                   ELSE cs[j + 1] = bs[j] /\ b < No(bs[j])
    BY <1>4 DEF Filled
  <2>2. CASE bs = <<>>
    <3>1. k = 1 /\ Len(cs) = 1 BY <1>2, <2>1, <2>2
    <3>2. o = new + 1 /\ u.nextSeq = Base(o) BY <2>2 DEF At
    <3>3. newer = b BY <3>2, <1>2 DEF newer
    <3>4. Base(o) + 0 = Base(o) BY Wrapped, Halves DEF Base
    <3>5. v.nextSeq = Base(o) + cs[1].nextDataPacketIndex BY <2>1, <3>1, <3>2, <3>4
    <3>6. At(v, o, newer) BY <1>1, <1>2, <2>1, <3>1, <3>2, <3>3, <3>5 DEF At
    <3> QED BY <1>1, <1>2, <2>2, <3>1, <3>6 DEF newer
  <2>3. CASE bs # <<>> /\ k = 1
    <3>1. /\ 1 \in 1 .. Len(bs) /\ Len(bs) \in 1 .. Len(bs) /\ \A j \in 1 .. Len(bs) : ~(j < k)
      BY <1>2, <2>3
    <3>2. b < No(bs[1]) /\ b < No(bs[Len(bs)]) /\ cs[Len(bs) + 1] = bs[Len(bs)] BY <2>1, <3>1
    <3>3. No(bs[Len(bs)]) = new /\ newer = new BY <3>2, <2>3, <1>2 DEF At, newer
    <3>4. o < No(bs[1]) BY <3>2, <1>2, <3>1
    <3>5. u.nextSeq = Base(o) /\ bs[1].nextDataPacketIndex = 0 /\ ~bs[1].allowDiscontinuity
          /\ \A j \in 2 .. Len(bs) : bs[j].nextDataPacketIndex = 0 /\ ~bs[j].allowDiscontinuity
      BY <2>3, <3>4, <1>2, <3>1 DEF At
    <3>6. \A j \in 2 .. Len(cs) : cs[j].nextDataPacketIndex = 0 /\ ~cs[j].allowDiscontinuity
      <4> TAKE j \in 2 .. Len(cs)
      <4>1. j - 1 \in 1 .. Len(bs) /\ (j - 1) + 1 = j /\ (j - 1 = 1 \/ j - 1 \in 2 .. Len(bs)) BY <1>2, <2>1
      <4>2. cs[j] = bs[j - 1] BY <4>1, <2>1, <3>1
      <4> QED BY <4>1, <4>2, <3>5
    <3>7. Base(o) + 0 = Base(o) BY Wrapped, Halves DEF Base
    <3>8. v.nextSeq = Base(o) /\ cs[1].nextDataPacketIndex = 0 /\ v.oldest = Base(o)
      BY <2>1, <2>3, <3>5 DEF At
    <3>9. No(cs[1]) = b BY <1>1, <2>3
    <3>10. No(cs[Len(cs)]) = new BY <2>1, <3>2, <3>3
    <3>11. At(v, o, newer) BY <1>2, <2>1, <2>3, <3>3, <3>6, <3>7, <3>8, <3>9, <3>10 DEF At
    <3> QED BY <1>1, <1>2, <2>3, <3>2, <3>9, <3>11 DEF newer
  <2>4. CASE bs # <<>> /\ k # 1
    <3>1. 1 \in 1 .. Len(bs) /\ Len(bs) \in 1 .. Len(bs) /\ 1 < k BY <1>2, <2>4
    <3>2. cs[1] = bs[1] /\ No(bs[1]) < b BY <2>1, <3>1
    <3>3. No(cs[Len(cs)]) = newer
      <4>1. CASE Len(bs) < k
        <5>1. k = Len(cs) BY <4>1, <1>2, <2>1
        <5>2. No(bs[Len(bs)]) < b BY <4>1, <2>1, <3>1
        <5> QED BY <5>1, <5>2, <1>1, <1>2, <2>4 DEF At, newer
      <4>2. CASE ~(Len(bs) < k)
        <5>1. cs[Len(bs) + 1] = bs[Len(bs)] /\ b < No(bs[Len(bs)]) BY <4>2, <2>1, <3>1
        <5> QED BY <5>1, <1>2, <2>1, <2>4 DEF At, newer
      <4> QED BY <4>1, <4>2
    <3>4. \A j \in 2 .. Len(cs) : cs[j].nextDataPacketIndex = 0 /\ ~cs[j].allowDiscontinuity
      <4> TAKE j \in 2 .. Len(cs)
      <4>1. CASE j < k
        <5>1. j \in 1 .. Len(bs) /\ j \in 2 .. Len(bs) BY <4>1, <1>2, <2>1
        <5>2. cs[j] = bs[j] BY <4>1, <5>1, <2>1
        <5> QED BY <5>1, <5>2, <2>4 DEF At
      <4>2. CASE j = k BY <4>2, <2>1
      <4>3. CASE j > k
        <5>1. j - 1 \in 1 .. Len(bs) /\ (j - 1) + 1 = j /\ ~(j - 1 < k) /\ j - 1 \in 2 .. Len(bs)
          <6>1. \A m \in Nat : \A x \in 2 .. m + 1, y \in 1 .. m + 1 : x > y /\ 1 < y =>
                  x - 1 \in 1 .. m /\ (x - 1) + 1 = x /\ ~(x - 1 < y) /\ x - 1 \in 2 .. m
            OBVIOUS
          <6> QED BY <6>1, <4>3, <1>2, <2>1, <3>1
        <5>2. cs[j] = bs[j - 1] BY <5>1, <2>1
        <5> QED BY <5>1, <5>2, <2>4 DEF At
      <4> QED BY <4>1, <4>2, <4>3, <1>2
    <3>5. At(v, o, newer)
      <4>1. /\ u.oldest = Base(o) /\ o <= No(bs[1])
            /\ IF o = No(bs[1]) THEN u.nextSeq = Base(o) + bs[1].nextDataPacketIndex
               ELSE u.nextSeq = Base(o) /\ bs[1].nextDataPacketIndex = 0 /\ ~bs[1].allowDiscontinuity
        BY <2>4 DEF At
      <4> QED BY <4>1, <1>2, <3>2, <3>3, <3>4 DEF At
    <3>6. ~(b < No(bs[1])) BY <3>1, <3>2, <1>2
    <3> QED BY <1>1, <1>2, <2>4, <3>2, <3>5, <3>6 DEF newer
  <2> QED BY <2>2, <2>3, <2>4
<1> QED BY <1>3, <1>4

LEMMA BaseFacts ==
  ASSUME NEW b \in Int
  PROVE  Base(b) \in Seq16 /\ Base(b) \in Int /\ Base(b) + 0 = Base(b)
<1>1. b * DataShards \in Int BY Halves
<1>2. Base(b) \in Seq16 /\ Base(b) \in Int BY <1>1, Wrapped DEF Base
<1> QED BY <1>2

\* A packet of the queue is ready if the queue waits for no block before its first and
\* this has the next packet, or is given up.
LEMMA ReadyIf ==
  ASSUME NEW u \in QueueRecord, Listed(u.blocks), NEW o \in Nat, NEW new \in Nat, At(u, o, new),
         u.blocks # <<>>, new - o < H
  PROVE  queueHasPacketReady(u) <=>
           \/ o = No(u.blocks[1]) /\ u.blocks[1].shard[u.blocks[1].nextDataPacketIndex] # NONE
           \/ u.blocks[1].allowDiscontinuity
<1> DEFINE blk == u.blocks[1]
           h == No(blk)
           i == blk.nextDataPacketIndex
<1>1. /\ Head(u.blocks) = blk /\ 1 \in 1 .. Len(u.blocks) /\ h \in Nat /\ blk.base = Base(h) /\ i \in Data
      /\ 0 \in Data
  BY ListedFacts, Halves DEF Data
<1>2. o <= h /\ h <= new
  <2>1. Len(u.blocks) \in 1 .. Len(u.blocks) BY ListedFacts
  <2> QED BY <2>1, <1>1, ListedEnds DEF At
<1>3. u.nextSeq = IF o = h THEN Base(o) + i ELSE Base(o) BY DEF At
<1>4. CASE o = h BY <1>1, <1>3, <1>4 DEF queueHasPacketReady
<1>5. CASE o # h
  <2>1. i = 0 /\ u.nextSeq = Base(o) BY <1>3, <1>5 DEF At
  <2>2. Base(h) + i # Base(o)
    <3>1. Base(o) + 0 = Base(o) BY BaseFacts
    <3>2. h - o < 2 * H /\ o - h < 2 * H BY <1>1, <1>2, Halves
    <3> QED BY <1>1, <1>5, <3>1, <3>2, SameNumber
  <2> QED BY <1>1, <1>5, <2>1, <2>2 DEF queueHasPacketReady
<1> QED BY <1>4, <1>5

\* While the first block is not ready, the queue is moved up to it, or gives it up.
LEMMA HandleMissingFacts ==
  ASSUME NEW u \in QueueRecord, Listed(u.blocks), NEW o \in Nat, NEW new \in Nat, At(u, o, new),
         u.blocks # <<>>, new - o < H, NEW overdue \in BOOLEAN
  PROVE  LET w == handleMissingPackets(u, overdue)
         IN  /\ w \in QueueRecord /\ Listed(w.blocks) /\ w.blocks # <<>>
             /\ No(w.blocks[1]) = No(u.blocks[1]) /\ At(w, No(u.blocks[1]), new)
             /\ w.synchronizing = u.synchronizing /\ w.incompatibleServer = u.incompatibleServer
             /\ o = No(u.blocks[1]) => w.nextSeq = u.nextSeq
             /\ o # No(u.blocks[1]) => w.blocks = u.blocks
             /\ o = No(u.blocks[1]) /\ Len(u.blocks) > 1 /\ overdue => w.blocks[1].allowDiscontinuity
             /\ \/ w.blocks = u.blocks
                \/ w.blocks = [u.blocks EXCEPT ![1].allowDiscontinuity = TRUE]
<1> DEFINE bs == u.blocks
           h == No(bs[1])
           i == bs[1].nextDataPacketIndex
           w == handleMissingPackets(u, overdue)
<1>1. /\ Head(bs) = bs[1] /\ 1 \in 1 .. Len(bs) /\ h \in Nat /\ bs[1].base = Base(h) /\ i \in Data
      /\ 0 \in Data /\ bs \in Seq(BlockRecord) /\ Len(bs) \in Nat /\ Len(bs) \in 1 .. Len(bs)
      /\ \A k \in 1 .. Len(bs) : bs[k] \in BlockRecord
  BY ListedFacts, Halves DEF Data
<1>2. o <= h /\ h <= new BY <1>1, ListedEnds DEF At
<1>3. u.oldest = Base(o) /\ No(bs[Len(bs)]) = new /\ (u.nextSeq = IF o = h THEN Base(o) + i ELSE Base(o))
      /\ \A k \in 2 .. Len(bs) : bs[k].nextDataPacketIndex = 0 /\ ~bs[k].allowDiscontinuity
  BY DEF At
<1>4. Base(h) \in Seq16 /\ Base(h) + 0 = Base(h) /\ Base(o) + 0 = Base(o) BY BaseFacts, <1>1
<1>5. isBefore16(u.nextSeq, Base(h)) <=> o < h
  <2>1. -H <= o - h /\ o - h < H
    <3>1. \A a, c, d \in Nat : a <= c /\ c <= d /\ d - a < H => -H <= a - c /\ a - c < H BY Halves
    <3> QED BY <3>1, <1>1, <1>2
  <2>2. \A j \in Data : isBefore16(Base(o) + j, Base(h)) <=> o < h BY <1>1, <2>1, SeqBefore, WithinBlock
  <2> QED BY <2>2, <1>1, <1>3, <1>4
<1>6. CASE o # h
  <2>1. w = [u EXCEPT !.nextSeq = Base(h), !.oldest = Base(h)]
    <3>1. o < h BY <1>1, <1>2, <1>6
    <3>2. isBefore16(u.nextSeq, Head(bs).base) /\ Head(bs).base = Base(h) BY <3>1, <1>1, <1>5
    <3> QED BY <3>2 DEF handleMissingPackets
  <2>2. i = 0 /\ ~bs[1].allowDiscontinuity BY <1>6 DEF At
  <2>3. w \in QueueRecord /\ w.blocks = bs /\ w.nextSeq = Base(h) /\ w.oldest = Base(h)
        /\ w.synchronizing = u.synchronizing /\ w.incompatibleServer = u.incompatibleServer
    BY <2>1, <1>4 DEF QueueRecord
  <2> HIDE DEF w
  <2>4. At(w, h, new) BY <2>2, <2>3, <1>1, <1>3, <1>4 DEF At
  <2> QED BY <2>3, <2>4, <1>6 DEF w
<1>7. CASE o = h /\ Len(bs) > 1 /\ (~u.receivedOosData \/ overdue)
  <2> DEFINE blk == [bs[1] EXCEPT !.allowDiscontinuity = TRUE]
             cs == [bs EXCEPT ![1].allowDiscontinuity = TRUE]
  <2>1. w = [u EXCEPT !.blocks = cs] BY <1>1, <1>5, <1>7 DEF handleMissingPackets
  <2>2. /\ blk \in BlockRecord /\ Of(blk, h) /\ blk.nextDataPacketIndex = i /\ blk.allowDiscontinuity
    BY <1>1, ListedFacts DEF BlockRecord, Of
  <2>3. cs = [bs EXCEPT ![1] = blk] OBVIOUS
  <2> HIDE DEF blk, cs
  <2>4. /\ cs \in Seq(BlockRecord) /\ Len(cs) = Len(bs) /\ cs[1] = blk
        /\ \A k \in 1 .. Len(bs) : k # 1 => cs[k] = bs[k]
    <3>1. cs \in Seq(BlockRecord) /\ Len(cs) = Len(bs) BY <2>2, <2>3, <1>1
    <3>2. DOMAIN bs = 1 .. Len(bs) BY <1>1
    <3> QED BY <3>1, <3>2, <2>3, <1>1
  <2>5. No(blk) = h /\ cs # <<>> BY <2>2, <2>4, <1>1, OfNo
  <2>6. w \in QueueRecord /\ w.blocks = cs /\ w.nextSeq = u.nextSeq /\ w.oldest = u.oldest
        /\ w.synchronizing = u.synchronizing /\ w.incompatibleServer = u.incompatibleServer
    BY <2>1, <2>4 DEF QueueRecord
  <2>7. w.blocks = [bs EXCEPT ![1].allowDiscontinuity = TRUE] BY <2>6 DEF cs
  <2> HIDE DEF w
  <2>8. \A k \in 1 .. Len(bs) : No(cs[k]) = No(bs[k]) BY <2>4, <2>5
  <2>9. Listed(cs) BY <2>2, <2>4, <2>5, <2>8 DEF Listed
  <2>10. At(w, h, new)
    <3>1. \A k \in 2 .. Len(cs) : cs[k].nextDataPacketIndex = 0 /\ ~cs[k].allowDiscontinuity
      BY <1>1, <1>3, <2>4
    <3> QED BY <3>1, <2>2, <2>4, <2>5, <2>6, <2>8, <1>1, <1>3, <1>7 DEF At
  <2> QED BY <2>2, <2>4, <2>5, <2>6, <2>7, <2>9, <2>10, <1>7 DEF w
<1>8. CASE o = h /\ ~(Len(bs) > 1 /\ (~u.receivedOosData \/ overdue))
  <2>1. w = u BY <1>1, <1>5, <1>8 DEF handleMissingPackets
  <2> QED BY <2>1, <1>8
<1> QED BY <1>6, <1>7, <1>8

\* The number after that of packet i of a block.
LEMMA NextNumber ==
  ASSUME NEW b \in Nat, NEW i \in Data
  PROVE  /\ U16(Base(b) + i + 1) = IF i + 1 = DataShards THEN Base(b + 1) ELSE Base(b) + (i + 1)
         /\ U16(Base(b) + i + 1) = Base(b + 1) <=> i + 1 = DataShards
         /\ i + 1 # DataShards => i + 1 \in Data
         /\ U16(Base(b) + DataShards) = Base(b + 1)
<1> DEFINE D == DataShards
           n == b * D
           c == b + 1
<1>1. D \in Nat \ {0} /\ i \in 0 .. D - 1 /\ Round \in Nat \ {0} BY Halves DEF Data
<1>2. n \in Int /\ c \in Int /\ c * D = n + D BY <1>1
<1>3. \A x \in Int : U16(Base(b) + x) = U16(n + x)
  <2> TAKE x \in Int
  <2>1. n % Round \in Int /\ n \div Round \in Int /\ n = Round * (n \div Round) + (n % Round) BY <1>1, <1>2, ModRange
  <2> DEFINE k == n \div Round
             m == n % Round
  <2> HIDE DEF n, m, k
  <2>2. n + x = (m + x) + Round * k /\ m + x \in Int /\ k \in Int BY <2>1, <1>1 DEF m, k
  <2>3. ((m + x) + Round * k) % Round = (m + x) % Round BY <2>2, <1>1, ModShift
  <2>4. (n + x) % Round = (m + x) % Round BY <2>2, <2>3, Zenon
  <2> QED BY <2>4 DEF U16, Base, m, n
<1>4. U16(Base(b) + D) = Base(c) BY <1>1, <1>2, <1>3 DEF Base
<1>5. Base(b) \in Int /\ (Base(b) + i) + 1 = Base(b) + (i + 1) BY <1>1, BaseFacts
<1>6. CASE i + 1 = D BY <1>4, <1>5, <1>6
<1>7. CASE i + 1 # D
  <2>1. i + 1 \in Data BY <1>1, <1>7 DEF Data
  <2>2. U16(Base(b) + (i + 1)) = Base(b) + (i + 1)
    <3>1. U16(n + (i + 1)) = Base(b) + (i + 1) BY <2>1, WithinBlock
    <3> QED BY <3>1, <1>1, <1>3
  <2>3. Base(b) + (i + 1) # Base(c)
    <3>1. Base(c) + 0 = Base(c) /\ 0 \in Data BY <1>1, <1>2, BaseFacts DEF Data
    <3>2. b - c < 2 * H /\ c - b < 2 * H /\ b # c BY Halves
    <3> QED BY <2>1, <3>1, <3>2, <1>2, SameNumber
  <2> QED BY <1>5, <1>7, <2>1, <2>2, <2>3, <1>4
<1> QED BY <1>6, <1>7

\* The next packet, of the first block, is handed out or skipped, and the block done
\* with if this was its last.
LEMMA AdvanceFacts ==
  ASSUME NEW u \in QueueRecord, Listed(u.blocks), NEW o \in Nat, NEW new \in Nat, At(u, o, new),
         u.blocks # <<>>, o = No(u.blocks[1])
  PROVE  LET v == Advance(u)
             i == u.blocks[1].nextDataPacketIndex
         IN  /\ v \in QueueRecord /\ Listed(v.blocks)
             /\ v.incompatibleServer = u.incompatibleServer
             /\ v.nextSeq = IF i + 1 = DataShards THEN Base(o + 1) ELSE Base(o) + (i + 1)
             /\ i + 1 = DataShards => /\ At(v, o + 1, new) /\ v.blocks = Tail(u.blocks) /\ ~v.synchronizing
             /\ i + 1 # DataShards => /\ At(v, o, new) /\ v.blocks # <<>> /\ No(v.blocks[1]) = o
                                      /\ v.synchronizing = u.synchronizing
                                      /\ v.blocks[1].allowDiscontinuity = u.blocks[1].allowDiscontinuity
                                      /\ v.blocks = [u.blocks EXCEPT ![1].nextDataPacketIndex = @ + 1]
<1> DEFINE bs == u.blocks
           i == bs[1].nextDataPacketIndex
           ahead == [u EXCEPT !.blocks[1].nextDataPacketIndex = @ + 1, !.nextSeq = U16(@ + 1)]
           cs == [bs EXCEPT ![1].nextDataPacketIndex = @ + 1]
           v == Advance(u)
<1>1. /\ Head(bs) = bs[1] /\ 1 \in 1 .. Len(bs) /\ bs[1].base = Base(o) /\ i \in Data
      /\ 0 \in Data /\ bs \in Seq(BlockRecord) /\ Len(bs) \in Nat /\ Len(bs) \in 1 .. Len(bs)
      /\ \A k \in 1 .. Len(bs) : bs[k] \in BlockRecord /\ No(bs[k]) \in Nat
  BY ListedFacts, Halves DEF Data
<1>2. u.oldest = Base(o) /\ No(bs[Len(bs)]) = new /\ u.nextSeq = Base(o) + i
      /\ \A k \in 2 .. Len(bs) : bs[k].nextDataPacketIndex = 0 /\ ~bs[k].allowDiscontinuity
  BY DEF At
<1>3. /\ U16(u.nextSeq + 1) = IF i + 1 = DataShards THEN Base(o + 1) ELSE Base(o) + (i + 1)
      /\ i + 1 # DataShards => i + 1 \in Data
      /\ U16(Base(o) + DataShards) = Base(o + 1)
      /\ U16(u.nextSeq + 1) \in Seq16 /\ Base(o + 1) \in Seq16
  <2>1. U16(Base(o) + i + 1) \in Seq16
    <3>1. Base(o) \in Int BY BaseFacts
    <3>2. Base(o) + i + 1 \in Int BY <3>1, <1>1, Halves DEF Data
    <3> QED BY <3>2, Wrapped
  <2>2. Base(o + 1) \in Seq16 BY BaseFacts
  <2> QED BY <1>1, <1>2, <2>1, <2>2, NextNumber
<1>4. DOMAIN bs = 1 .. Len(bs) /\ DOMAIN cs = 1 .. Len(bs) BY <1>1
<1>5. ahead = [u EXCEPT !.blocks = cs, !.nextSeq = U16(u.nextSeq + 1)] BY DEF QueueRecord
<1>6. /\ cs[1] = [bs[1] EXCEPT !.nextDataPacketIndex = i + 1]
      /\ cs[1].nextDataPacketIndex = i + 1 /\ cs[1].base = bs[1].base
      /\ \A k \in 2 .. Len(bs) : cs[k] = bs[k]
  <2>1. cs[1] = [bs[1] EXCEPT !.nextDataPacketIndex = i + 1] BY <1>1, <1>4
  <2> QED BY <2>1, <1>1, <1>4 DEF BlockRecord
<1>7. CASE i + 1 = DataShards
  <2>1. Tail(cs) = Tail(bs) /\ Head(cs) = cs[1]
    <3> DEFINE blk == [bs[1] EXCEPT !.nextDataPacketIndex = i + 1]
    <3>1. cs = [bs EXCEPT ![1] = blk] OBVIOUS
    <3>2. bs \in Seq({bs[k] : k \in 1 .. Len(bs)} \union {blk}) /\ bs # <<>> BY <1>1
    <3> HIDE DEF blk, cs, bs
    <3>3. cs \in Seq({bs[k] : k \in 1 .. Len(bs)} \union {blk}) /\ Len(cs) = Len(bs) /\ cs # <<>>
      BY <3>1, <3>2, <1>1, <1>4
    <3>4. Len(Tail(cs)) = Len(bs) - 1 /\ Len(Tail(bs)) = Len(bs) - 1
          /\ \A k \in 1 .. Len(bs) - 1 : Tail(cs)[k] = cs[k + 1] /\ Tail(bs)[k] = bs[k + 1]
      BY <3>2, <3>3
    <3>5. \A k \in 1 .. Len(bs) - 1 : Tail(cs)[k] = Tail(bs)[k]
      <4> TAKE k \in 1 .. Len(bs) - 1
      <4>1. k + 1 \in 2 .. Len(bs) BY <1>1
      <4>2. cs[k + 1] = bs[k + 1] BY <4>1, <1>6
      <4> QED BY <3>4, <4>2
    <3>6. Tail(cs) \in Seq({bs[k] : k \in 1 .. Len(bs)} \union {blk})
          /\ Tail(bs) \in Seq({bs[k] : k \in 1 .. Len(bs)} \union {blk})
      BY <3>2, <3>3
    <3>7. Tail(cs) = Tail(bs) BY <3>4, <3>5, <3>6
    <3> QED BY <3>3, <3>7
  <2>2. v = [ahead EXCEPT !.blocks = Tail(bs), !.oldest = Base(o + 1), !.synchronizing = FALSE]
    <3>1. ahead.blocks = cs BY <1>5 DEF QueueRecord
    <3> QED BY <3>1, <2>1, <1>1, <1>3, <1>6, <1>7 DEF Advance, freeFecBlockHead
  <2>3. Tail(bs) \in Seq(BlockRecord) /\ Len(Tail(bs)) = Len(bs) - 1
        /\ \A k \in 1 .. Len(bs) - 1 : Tail(bs)[k] = bs[k + 1]
    BY <1>1
  <2>4. /\ v \in QueueRecord /\ v.blocks = Tail(bs) /\ v.oldest = Base(o + 1) /\ ~v.synchronizing
        /\ v.nextSeq = Base(o + 1) /\ v.incompatibleServer = u.incompatibleServer
    BY <2>2, <2>3, <1>3, <1>5, <1>7 DEF QueueRecord
  <2>5. Listed(Tail(bs))
    <3>1. \A k \in 1 .. Len(bs) - 1 : k + 1 \in 1 .. Len(bs) BY <1>1
    <3>2. \A k \in 1 .. Len(Tail(bs)) : Of(Tail(bs)[k], No(Tail(bs)[k])) BY <3>1, <2>3 DEF Listed
    <3>3. \A j, k \in 1 .. Len(Tail(bs)) : j < k => No(Tail(bs)[j]) < No(Tail(bs)[k])
      <4> SUFFICES ASSUME NEW j \in 1 .. Len(bs) - 1, NEW k \in 1 .. Len(bs) - 1, j < k
                   PROVE  No(bs[j + 1]) < No(bs[k + 1])
        BY <2>3
      <4>1. j + 1 \in 1 .. Len(bs) /\ k + 1 \in 1 .. Len(bs) /\ j + 1 < k + 1 BY <1>1
      <4> QED BY <4>1 DEF Listed
    <3> QED BY <3>2, <3>3 DEF Listed
  <2> HIDE DEF v
  <2>6. At(v, o + 1, new)
    <3>1. CASE Tail(bs) = <<>>
      <4>1. Len(bs) = 1
        <5> DEFINE rest == Tail(bs)
        <5>2. rest = <<>> BY <3>1
        <5> HIDE DEF rest
        <5>3. Len(rest) = 0 BY <5>2
        <5>1. Len(Tail(bs)) = 0 BY <5>3 DEF rest
        <5> QED BY <5>1, <2>3, <1>1
      <4> QED BY <4>1, <3>1, <2>4, <1>2 DEF At
    <3>2. CASE Tail(bs) # <<>>
      <4>1. Len(bs) > 1 BY <3>2, <2>3, <1>1
      <4>2. /\ Tail(bs)[1] = bs[2] /\ 2 \in 1 .. Len(bs) /\ Len(Tail(bs)) + 1 = Len(bs)
            /\ Tail(bs)[Len(Tail(bs))] = bs[Len(bs)]
        <5>1. 1 \in 1 .. Len(bs) - 1 /\ Len(bs) - 1 \in 1 .. Len(bs) - 1 /\ 1 + 1 = 2
              /\ (Len(bs) - 1) + 1 = Len(bs)
          BY <4>1, <1>1
        <5>2. Tail(bs)[1] = bs[1 + 1] /\ Tail(bs)[Len(bs) - 1] = bs[(Len(bs) - 1) + 1] BY <5>1, <2>3
        <5> QED BY <5>1, <5>2, <2>3, <4>1, <1>1
      <4>3. o < No(bs[2]) BY <4>1, <4>2, <1>1 DEF Listed
      <4>4. o + 1 <= No(bs[2]) BY <4>2, <4>3, <1>1
      <4>5. bs[2].nextDataPacketIndex = 0 /\ ~bs[2].allowDiscontinuity BY <4>1, <1>1, <1>2
      <4>6. \A k \in 2 .. Len(Tail(bs)) :
              Tail(bs)[k].nextDataPacketIndex = 0 /\ ~Tail(bs)[k].allowDiscontinuity
        <5> TAKE k \in 2 .. Len(Tail(bs))
        <5>1. k \in 1 .. Len(bs) - 1 /\ k + 1 \in 2 .. Len(bs) BY <2>3, <1>1
        <5> QED BY <5>1, <2>3, <1>2
      <4>7. Base(o + 1) + 0 = Base(o + 1) BY BaseFacts
      <4> QED BY <3>2, <4>2, <4>4, <4>5, <4>6, <4>7, <2>4, <1>2 DEF At
    <3> QED BY <3>1, <3>2
  <2> QED BY <2>4, <2>5, <2>6, <1>7 DEF v
<1>8. CASE i + 1 # DataShards
  <2> DEFINE blk == [bs[1] EXCEPT !.nextDataPacketIndex = i + 1]
  <2>1. v = ahead
    <3>1. ahead.blocks = cs BY <1>5 DEF QueueRecord
    <3>2. Head(cs) = cs[1]
      BY <1>1, <1>4
    <3> QED BY <3>1, <3>2, <1>6, <1>8 DEF Advance
  <2>2. blk \in BlockRecord /\ Of(blk, o) /\ blk.nextDataPacketIndex = i + 1
        /\ blk.allowDiscontinuity = bs[1].allowDiscontinuity
    BY <1>1, <1>3, <1>8, ListedFacts DEF BlockRecord, Of
  <2>3. cs = [bs EXCEPT ![1] = blk] OBVIOUS
  <2>4. v.blocks = [bs EXCEPT ![1].nextDataPacketIndex = @ + 1] BY <2>1, <1>5 DEF QueueRecord
  <2> HIDE DEF blk, cs
  <2>5. /\ cs \in Seq(BlockRecord) /\ Len(cs) = Len(bs) /\ cs[1] = blk /\ cs # <<>>
        /\ \A k \in 1 .. Len(bs) : k # 1 => cs[k] = bs[k]
    <3>1. cs \in Seq(BlockRecord) /\ Len(cs) = Len(bs) BY <2>2, <2>3, <1>1
    <3> QED BY <3>1, <2>3, <1>1, <1>4
  <2>6. No(blk) = o BY <2>2, OfNo
  <2>7. /\ v \in QueueRecord /\ v.blocks = cs /\ v.nextSeq = Base(o) + (i + 1) /\ v.oldest = Base(o)
        /\ v.synchronizing = u.synchronizing /\ v.incompatibleServer = u.incompatibleServer
    <3>1. v = [u EXCEPT !.blocks = cs, !.nextSeq = U16(u.nextSeq + 1)] BY <2>1, <1>5
    <3>2. cs \in Seq(BlockRecord) /\ U16(u.nextSeq + 1) \in Seq16 BY <2>5, <1>3
    <3>3. /\ v \in QueueRecord /\ v.blocks = cs /\ v.nextSeq = U16(u.nextSeq + 1)
          /\ v.oldest = u.oldest /\ v.synchronizing = u.synchronizing
          /\ v.incompatibleServer = u.incompatibleServer
      BY <3>1, <3>2 DEF QueueRecord
    <3> QED BY <3>3, <1>2, <1>3, <1>8
  <2> HIDE DEF v
  <2>8. \A k \in 1 .. Len(bs) : No(cs[k]) = No(bs[k]) BY <2>5, <2>6
  <2>9. Listed(cs) BY <2>2, <2>5, <2>6, <2>8 DEF Listed
  <2>10. At(v, o, new)
    <3>1. \A k \in 2 .. Len(cs) : cs[k].nextDataPacketIndex = 0 /\ ~cs[k].allowDiscontinuity
      BY <1>1, <1>2, <2>5
    <3>2. No(cs[Len(cs)]) = new /\ No(cs[1]) = o BY <2>5, <2>8, <1>1, <1>2
    <3> QED BY <3>1, <3>2, <2>2, <2>5, <2>7, <1>1 DEF At
  <2> QED BY <2>2, <2>4, <2>5, <2>6, <2>7, <2>9, <2>10, <1>8 DEF v
<1> QED BY <1>7, <1>8

-----------------------------------------------------------------------------
(* The inductive invariant. *)

\* How far the stream is ahead of the block u waits for: what was late or passed over, one
\* more block if the first is being given up, and nothing that is ready is left behind.
InReach(u, o, new, skip, p) ==
  u.blocks # <<>> =>
    LET giving == IF p = "draining" /\ u.blocks[1].allowDiscontinuity THEN 1 ELSE 0
    IN  /\ new - o <= Late + 1 + MaxSkipped + giving
        /\ new > No(u.blocks[1]) + Late =>
             /\ new - o <= Late + 1 + skip + giving
             /\ p = "receiving" /\ ~u.incompatibleServer => ~queueHasPacketReady(u)

\* Until a block is done with, the queue is near the beginning.
Begins(u, o, new) ==
  u.synchronizing =>
    \E f \in FirstBlocks : /\ o \in f + 1 .. f + 1 + MaxSkipped
                           /\ IF u.blocks = <<>> THEN new = f /\ o = f + 1
                              ELSE o = No(u.blocks[1])

\* The queue waits for block o of the host.
QueueAt(o) ==
  /\ Listed(q.blocks) /\ At(q, o, newest)
  /\ InReach(q, o, newest, skipped, pc) /\ Begins(q, o, newest)

\* The inductive invariant.
AudioInv ==
  /\ TypeOK
  /\ newest = NONE => q = RtpaInitializeQueue /\ pc = "receiving"
  /\ newest # NONE => \E o \in Nat : QueueAt(o)

\* What it says between packets, and of a block that is given up or not.
LEMMA ReachIs ==
  ASSUME NEW u, NEW o, NEW new \in Nat, NEW skip \in Nat, o \in Nat
  PROVE  /\ InReach(u, o, new, skip, "receiving") <=>
              (u.blocks # <<>> =>
                 /\ new - o <= Late + 1 + MaxSkipped
                 /\ new > No(u.blocks[1]) + Late =>
                      /\ new - o <= Late + 1 + skip
                      /\ ~u.incompatibleServer => ~queueHasPacketReady(u))
         /\ InReach(u, o, new, skip, "draining") <=>
              (u.blocks # <<>> =>
                 LET giving == IF u.blocks[1].allowDiscontinuity THEN 1 ELSE 0
                 IN  /\ new - o <= Late + 1 + MaxSkipped + giving
                     /\ new > No(u.blocks[1]) + Late => new - o <= Late + 1 + skip + giving)
<1>1. "receiving" # "draining" OBVIOUS
<1>2. Late + 1 + MaxSkipped + 0 = Late + 1 + MaxSkipped /\ Late + 1 + skip + 0 = Late + 1 + skip BY Halves
<1>3. /\ (IF "receiving" = "draining" /\ u.blocks[1].allowDiscontinuity THEN 1 ELSE 0) = 0
      /\ (IF "draining" = "draining" /\ u.blocks[1].allowDiscontinuity THEN 1 ELSE 0)
           = IF u.blocks[1].allowDiscontinuity THEN 1 ELSE 0
  BY <1>1
<1> QED BY <1>1, <1>2, <1>3, Zenon DEF InReach

\* What the invariant says of the state between packets.
LEMMA StateFacts ==
  ASSUME TypeOK, newest # NONE, NEW o \in Nat, QueueAt(o)
  PROVE  /\ q \in QueueRecord /\ newest \in Nat /\ newest \in Block /\ skipped \in 0 .. MaxSkipped
         /\ newest - o < H /\ o <= newest + 1 /\ newest - o <= Late + 2 + MaxSkipped
         /\ q.blocks # <<>> => /\ No(q.blocks[1]) \in Nat /\ o <= No(q.blocks[1]) /\ No(q.blocks[1]) <= newest
         /\ q.blocks = <<>> => o = newest + 1
         /\ Behind <=> q.blocks # <<>> /\ newest > No(q.blocks[1]) + Late
         /\ ~Starting
<1>1. q \in QueueRecord /\ newest \in Block /\ skipped \in 0 .. MaxSkipped BY DEF TypeOK
<1>2. newest \in Nat /\ FirstBlocks \subseteq Nat BY <1>1, AudioAssumption DEF Block
<1>3. Listed(q.blocks) /\ At(q, o, newest) /\ Begins(q, o, newest) BY DEF QueueAt
<1>4. q.blocks = <<>> => o = newest + 1 BY <1>3 DEF At
<1>5. q.blocks # <<>> => /\ No(q.blocks[1]) \in Nat /\ o <= No(q.blocks[1]) /\ No(q.blocks[1]) <= newest
                         /\ newest - o <= Late + 2 + MaxSkipped
  <2> SUFFICES ASSUME q.blocks # <<>>
               PROVE  /\ No(q.blocks[1]) \in Nat /\ o <= No(q.blocks[1]) /\ No(q.blocks[1]) <= newest
                      /\ newest - o <= Late + 2 + MaxSkipped
    OBVIOUS
  <2>1. Len(q.blocks) \in 1 .. Len(q.blocks) /\ 1 \in 1 .. Len(q.blocks) /\ No(q.blocks[1]) \in Nat
    BY <1>1, <1>3, ListedFacts
  <2>2. o <= No(q.blocks[1]) /\ No(q.blocks[Len(q.blocks)]) = newest BY <1>3 DEF At
  <2>3. No(q.blocks[1]) <= newest BY <2>1, <2>2, <1>1, <1>3, ListedEnds
  <2> DEFINE giving == IF pc = "draining" /\ q.blocks[1].allowDiscontinuity THEN 1 ELSE 0
  <2>4. giving \in 0 .. 1 OBVIOUS
  <2>5. newest - o <= Late + 1 + MaxSkipped + giving BY DEF QueueAt, InReach
  <2> HIDE DEF giving
  <2> QED BY <2>1, <2>2, <2>3, <2>4, <2>5, <1>2, Halves
<1>6. newest - o < H /\ o <= newest + 1 /\ newest - o <= Late + 2 + MaxSkipped
  <2>1. CASE q.blocks = <<>> BY <2>1, <1>2, <1>4, Halves
  <2>2. CASE q.blocks # <<>> BY <2>2, <1>2, <1>5, Halves
  <2> QED BY <2>1, <2>2
<1>7. Behind <=> q.blocks # <<>> /\ newest > No(q.blocks[1]) + Late
  <2>1. q.blocks # <<>> => Head(q.blocks) = q.blocks[1] BY <1>1, <1>3, ListedFacts
  <2> QED BY <2>1 DEF Behind, headBlock, No
<1>8. ~Starting
  <2> SUFFICES ASSUME q.synchronizing PROVE q.oldest # 0 BY DEF Starting
  <2>1. PICK f \in FirstBlocks : o \in f + 1 .. f + 1 + MaxSkipped BY <1>3 DEF Begins
  <2>2. (o * DataShards) % Round # 0 BY <2>1, FirstBlocksAssumption
  <2> QED BY <2>2, <1>3 DEF At, Base, U16
<1> QED BY <1>1, <1>2, <1>4, <1>5, <1>6, <1>7, <1>8

\* A packet that is received, against the queue.
LEMMA ReceiveRange ==
  ASSUME TypeOK, newest # NONE, NEW o \in Nat, QueueAt(o), pc = "receiving",
         NEW b \in Block, b \in newest - Late .. newest + 1 + MaxSkipped - NotCaughtUp
  PROVE  /\ b \in Nat /\ NotCaughtUp \in 0 .. MaxSkipped /\ b - o < H /\ o - b < H
         /\ PassedOver(b) = IF b > newest + 1 THEN b - newest - 1 ELSE 0
         /\ NotCaughtUp + PassedOver(b) \in 0 .. MaxSkipped
         /\ TooOld(b) <=> b < o
         /\ Near(q.blocks, b)
<1>1. /\ newest \in Nat /\ o <= newest + 1 /\ skipped \in 0 .. MaxSkipped /\ q \in QueueRecord
      /\ q.blocks # <<>> => No(q.blocks[1]) \in Nat /\ o <= No(q.blocks[1]) /\ No(q.blocks[1]) <= newest
      /\ q.blocks = <<>> => o = newest + 1
      /\ Behind <=> q.blocks # <<>> /\ newest > No(q.blocks[1]) + Late
  BY StateFacts
<1>2. b \in Nat BY AudioAssumption DEF Block
<1>3. NotCaughtUp \in 0 .. MaxSkipped BY <1>1, Halves DEF NotCaughtUp
<1>4. PassedOver(b) = IF b > newest + 1 THEN b - newest - 1 ELSE 0 BY <1>1, <1>2 DEF PassedOver
<1>5. newest - Late <= b /\ b <= newest + 1 + MaxSkipped - NotCaughtUp
  BY <1>1, <1>2, <1>3, Halves
<1>6. NotCaughtUp + PassedOver(b) \in 0 .. MaxSkipped BY <1>1, <1>2, <1>3, <1>4, <1>5, Halves
<1>0. q.blocks # <<>> =>
        /\ newest - o <= Late + 1 + MaxSkipped
        /\ newest > No(q.blocks[1]) + Late => newest - o <= Late + 1 + skipped
  <2>1. InReach(q, o, newest, skipped, "receiving") BY DEF QueueAt
  <2>2. skipped \in Nat BY <1>1, Halves
  <2> QED BY <2>1, <2>2, <1>1, ReachIs
<1>7. b - o < H /\ o - b < H
  <2>1. CASE q.blocks = <<>> BY <2>1, <1>1, <1>2, <1>3, <1>5, Halves
  <2>2. CASE q.blocks # <<>> /\ Behind
    <3>1. newest - o <= Late + 1 + skipped BY <2>2, <1>0, <1>1
    <3>2. NotCaughtUp = skipped BY <2>2 DEF NotCaughtUp
    <3> QED BY <3>1, <3>2, <1>1, <1>2, <1>5, Halves
  <2>3. CASE q.blocks # <<>> /\ ~Behind
    <3>1. newest - o <= Late + 1 + MaxSkipped BY <2>3, <1>0
    <3>2. \A n, p, c \in Nat : \A y \in 0 .. MaxSkipped :
            p <= n + 1 /\ n - p <= Late + 1 + MaxSkipped /\ n - Late <= c /\ c <= n + 1 + MaxSkipped - y
              => c - p < H /\ p - c < H
      BY Halves
    <3> QED BY <3>1, <3>2, <1>1, <1>2, <1>3, <1>5
  <2> QED BY <2>1, <2>2, <2>3
<1>8. TooOld(b) <=> b < o
  <2>1. q.oldest = Base(o) BY DEF QueueAt, At
  <2>2. -H <= b - o BY <1>2, <1>7, Halves
  <2> QED BY <2>1, <2>2, <1>2, <1>7, BaseBefore DEF TooOld
<1>9. Near(q.blocks, b)
  <2> SUFFICES ASSUME NEW k \in 1 .. Len(q.blocks) PROVE No(q.blocks[k]) - b < H /\ b - No(q.blocks[k]) < H
    BY DEF Near
  <2>1. Listed(q.blocks) /\ At(q, o, newest) BY DEF QueueAt
  <2>2. No(q.blocks[1]) <= No(q.blocks[k]) /\ No(q.blocks[k]) <= No(q.blocks[Len(q.blocks)])
    BY <1>1, <2>1, ListedEnds
  <2>3. Len(q.blocks) \in Nat /\ No(q.blocks[k]) \in Nat BY <1>1, <2>1, ListedFacts
  <2>4. q.blocks # <<>> BY <2>3, <2>1, <1>1, ListedFacts
  <2>5. No(q.blocks[Len(q.blocks)]) = newest BY <2>1, <2>4 DEF At
  <2>6. \A x, p, n, c \in Nat : p <= x /\ x <= n /\ n - Late <= c /\ c - p < H => x - c < H /\ c - x < H
    BY Halves
  <2>7. o <= No(q.blocks[k]) /\ No(q.blocks[k]) <= newest
    <3>1. o <= No(q.blocks[1]) /\ No(q.blocks[1]) \in Nat BY <2>4, <1>1
    <3> QED BY <3>1, <2>2, <2>3, <2>5
  <2> QED BY <2>3, <2>6, <2>7, <1>1, <1>2, <1>5, <1>7
<1> QED BY <1>2, <1>3, <1>4, <1>6, <1>7, <1>8, <1>9

\* A step that leaves the list and the numbers alone.
LEMMA KeptAt ==
  ASSUME TypeOK, newest # NONE, NEW o \in Nat, QueueAt(o), NEW u, NEW skip,
         u.blocks = q.blocks, u.nextSeq = q.nextSeq, u.oldest = q.oldest, u.synchronizing = q.synchronizing,
         q.incompatibleServer => u.incompatibleServer, Behind => skip = skipped, pc = "receiving"
  PROVE  /\ Listed(u.blocks) /\ At(u, o, newest) /\ InReach(u, o, newest, skip, "receiving")
         /\ Begins(u, o, newest)
<1>1. Listed(u.blocks) BY DEF QueueAt
<1>2. At(u, o, newest) BY DEF QueueAt, At
<1>3. Begins(u, o, newest) BY DEF QueueAt, Begins
<1>4. queueHasPacketReady(u) <=> queueHasPacketReady(q) BY DEF queueHasPacketReady
<1>5. Behind <=> q.blocks # <<>> /\ newest > No(q.blocks[1]) + Late BY StateFacts
<1>6. InReach(u, o, newest, skip, "receiving") BY <1>4, <1>5 DEF QueueAt, InReach
<1> QED BY <1>1, <1>2, <1>3, <1>6

\* A packet that is accepted is put in the list, and the queue is where it was.
LEMMA ReceivedFacts ==
  ASSUME TypeOK, newest # NONE, NEW o \in Nat, QueueAt(o), pc = "receiving",
         NEW b \in Block, b \in newest - Late .. newest + 1 + MaxSkipped - NotCaughtUp,
         NEW s \in Shards, Accepts(b, s)
  PROVE  LET u == WithPacket(b, s)
             k == Place(u, Base(b))
             newer == IF b > newest THEN b ELSE newest
         IN  /\ o <= b /\ newer \in Nat /\ newer \in Block /\ newer - o < H
             /\ u \in QueueRecord /\ Listed(u.blocks) /\ u.blocks # <<>> /\ At(u, o, newer)
             /\ Filled(q.blocks, u.blocks, k, b) /\ No(u.blocks[k]) = b
             /\ No(u.blocks[1]) = (IF q.blocks = <<>> \/ b < No(q.blocks[1]) THEN b ELSE No(q.blocks[1]))
             /\ u.nextSeq = q.nextSeq /\ u.oldest = q.oldest /\ u.synchronizing = q.synchronizing
             /\ u.incompatibleServer = q.incompatibleServer
<1> DEFINE u == WithPacket(b, s)
           k == Place(u, Base(b))
           newer == IF b > newest THEN b ELSE newest
<1>1. /\ newest \in Nat /\ newest \in Block /\ newest - o < H /\ q \in QueueRecord
      /\ b \in Nat /\ b - o < H /\ (TooOld(b) <=> b < o) /\ Near(q.blocks, b)
  BY StateFacts, ReceiveRange
<1>2. o <= b BY <1>1 DEF Accepts
<1>3. newer \in Nat /\ newer \in Block /\ newer - o < H BY <1>1
<1>4. Listed(q.blocks) /\ At(q, o, newest) BY DEF QueueAt
<1>5. Has(q, Base(b)) => q.blocks[Place(q, Base(b))].shard[s] = NONE BY DEF Accepts
<1>6. /\ u \in QueueRecord /\ Filled(q.blocks, u.blocks, k, b)
      /\ u.nextSeq = q.nextSeq /\ u.oldest = q.oldest /\ u.synchronizing = q.synchronizing
      /\ u.incompatibleServer = q.incompatibleServer
  BY <1>1, <1>4, <1>5, WithPacketFacts
<1> HIDE DEF u, k
<1>7. /\ Listed(u.blocks) /\ No(u.blocks[k]) = b /\ u.blocks # <<>> /\ At(u, o, newer)
      /\ No(u.blocks[1]) = IF q.blocks = <<>> \/ b < No(q.blocks[1]) THEN b ELSE No(q.blocks[1])
  BY <1>1, <1>2, <1>4, <1>6, FilledAt
<1> QED BY <1>2, <1>3, <1>6, <1>7 DEF u, k

\* What completes a block changes no more of the list.
LEMMA CompletedFilled ==
  ASSUME NEW bs, NEW us, NEW k, NEW b, Filled(bs, us, k, b)
  PROVE  Filled(bs, [us EXCEPT ![k] = completeFecBlock(@)], k, b)
<1> DEFINE new == completeFecBlock(us[k])
           cs == [us EXCEPT ![k] = completeFecBlock(@)]
<1>1. us \in Seq(BlockRecord) /\ k \in 1 .. Len(us) /\ Of(us[k], b) /\ us[k] \in BlockRecord BY DEF Filled
<1>2. new \in BlockRecord /\ Of(new, b) /\ Grown(us[k], new) BY <1>1, CompleteFacts
<1>3. cs = [us EXCEPT ![k] = new] OBVIOUS
<1> HIDE DEF new, cs
<1>4. /\ cs \in Seq(BlockRecord) /\ Len(cs) = Len(us) /\ cs[k] = new
      /\ \A j \in 1 .. Len(us) : j # k => cs[j] = us[j]
  <2>1. cs \in Seq(BlockRecord) /\ Len(cs) = Len(us) BY <1>1, <1>2, <1>3
  <2>2. DOMAIN us = 1 .. Len(us) BY <1>1
  <2> QED BY <2>1, <2>2, <1>1, <1>3
<1>5. CASE Len(us) = Len(bs)
  <2>1. No(bs[k]) = b /\ Grown(bs[k], us[k]) /\ \A j \in 1 .. Len(bs) : j # k => us[j] = bs[j]
    BY <1>5 DEF Filled
  <2>2. Grown(bs[k], new) BY <2>1, <1>2 DEF Grown
  <2>3. \A j \in 1 .. Len(bs) : j # k => cs[j] = bs[j] BY <2>1, <1>4, <1>5
  <2> QED BY <1>1, <1>2, <1>4, <1>5, <2>1, <2>2, <2>3 DEF Filled, cs
<1>6. CASE Len(us) # Len(bs)
  <2>1. /\ Len(us) = Len(bs) + 1 /\ us[k].nextDataPacketIndex = 0 /\ ~us[k].allowDiscontinuity
        /\ \A j \in 1 .. Len(bs) : IF j < k THEN us[j] = bs[j] /\ No(bs[j]) < b
                                   ELSE us[j + 1] = bs[j] /\ b < No(bs[j])
    BY <1>6 DEF Filled
  <2>2. new.nextDataPacketIndex = 0 /\ ~new.allowDiscontinuity BY <2>1, <1>2 DEF Grown
  <2>3. \A j \in 1 .. Len(bs) : IF j < k THEN cs[j] = bs[j] /\ No(bs[j]) < b
                                ELSE cs[j + 1] = bs[j] /\ b < No(bs[j])
    <3> TAKE j \in 1 .. Len(bs)
    <3>0. Len(bs) \in Int
      <4>1. Len(us) \in Nat BY <1>1
      <4> QED BY <4>1, <2>1
    <3>1. CASE j < k
      <4>1. j \in 1 .. Len(us) /\ j # k BY <3>1, <2>1, <1>1, <3>0
      <4> QED BY <4>1, <3>1, <2>1, <1>4
    <3>2. CASE ~(j < k)
      <4>1. j + 1 \in 1 .. Len(us) /\ j + 1 # k BY <3>2, <2>1, <1>1, <3>0
      <4> QED BY <4>1, <3>2, <2>1, <1>4
    <3> QED BY <3>1, <3>2
  <2> QED BY <1>1, <1>2, <1>4, <2>1, <2>2, <2>3 DEF Filled, cs
<1> QED BY <1>5, <1>6

\* The packet that is due is one of the first block.
LEMMA DueFacts ==
  ASSUME TypeOK, newest # NONE, NEW o \in Nat, QueueAt(o), pc = "receiving",
         NEW b \in Block, b \in newest - Late .. newest + 1 + MaxSkipped - NotCaughtUp,
         NEW s \in Data, U16(b * DataShards + s) = q.nextSeq
  PROVE  /\ b = o
         /\ s = IF q.blocks # <<>> /\ o = No(q.blocks[1]) THEN q.blocks[1].nextDataPacketIndex ELSE 0
<1> DEFINE j == IF q.blocks # <<>> /\ o = No(q.blocks[1]) THEN q.blocks[1].nextDataPacketIndex ELSE 0
<1>1. b \in Nat /\ b - o < H /\ o - b < H BY ReceiveRange
<1>2. q.nextSeq = Base(b) + s BY <1>1, WithinBlock
<1>3. q \in QueueRecord BY DEF TypeOK
<1>4. 0 \in Data BY Halves DEF Data
<1>5. j \in Data BY <1>3, <1>4, ListedFacts DEF QueueAt
<1>6. q.nextSeq = Base(o) + j
  <2>1. Base(o) + 0 = Base(o) BY BaseFacts
  <2> QED BY <2>1 DEF QueueAt, At
<1> HIDE DEF j
<1>7. b - o < 2 * H /\ o - b < 2 * H BY <1>1, Halves
<1>8. Base(b) + s = Base(o) + j BY <1>2, <1>6
<1>9. b = o /\ s = j BY <1>1, <1>5, <1>7, <1>8, SameNumber
<1> QED BY <1>9 DEF j

LEMMA HandleNowIsAdvance ==
  ASSUME TypeOK, newest # NONE, NEW o \in Nat, QueueAt(o), pc = "receiving",
         NEW b \in Block, b \in newest - Late .. newest + 1 + MaxSkipped - NotCaughtUp,
         NEW s \in Shards, HandleNow(b, s)
  PROVE  /\ q' = Advance(WithPacket(b, s)) /\ b = o /\ No(WithPacket(b, s).blocks[1]) = o
         /\ Place(WithPacket(b, s), Base(b)) = 1
<1> DEFINE u == WithPacket(b, s)
           k == Place(u, Base(b))
           newer == IF b > newest THEN b ELSE newest
<1>1. Accepts(b, s) /\ s \in Data /\ U16(b * DataShards + s) = q.nextSeq BY DEF HandleNow
<1>2. /\ o <= b /\ newer \in Nat
      /\ u \in QueueRecord /\ Listed(u.blocks) /\ u.blocks # <<>> /\ At(u, o, newer)
      /\ Filled(q.blocks, u.blocks, k, b) /\ No(u.blocks[k]) = b
      /\ No(u.blocks[1]) = (IF q.blocks = <<>> \/ b < No(q.blocks[1]) THEN b ELSE No(q.blocks[1]))
  BY <1>1, ReceivedFacts
<1>3. b = o /\ b \in Nat BY <1>1, DueFacts
<1>4. q.blocks # <<>> => No(q.blocks[1]) \in Nat /\ o <= No(q.blocks[1]) BY StateFacts
<1>5. q' = LET v == [u EXCEPT !.nextSeq = U16(@ + 1), !.blocks[k].nextDataPacketIndex = @ + 1]
           IN  IF v.nextSeq = Base(b + 1) THEN freeFecBlockHead(v) ELSE v
  BY DEF HandleNow
<1> HIDE DEF u, k, newer
<1>6. No(u.blocks[1]) = o BY <1>2, <1>3, <1>4
<1>7. k \in 1 .. Len(u.blocks) /\ Len(u.blocks) \in Nat BY <1>2, ListedFacts DEF Filled
<1>8. k = 1
  <2>1. k # 1 => No(u.blocks[1]) < No(u.blocks[k]) BY <1>2, <1>7, ListedEnds
  <2> QED BY <2>1, <1>2, <1>3, <1>6
<1> DEFINE i == u.blocks[1].nextDataPacketIndex
           v == [u EXCEPT !.nextSeq = U16(@ + 1), !.blocks[1].nextDataPacketIndex = @ + 1]
           w == [u EXCEPT !.blocks[1].nextDataPacketIndex = @ + 1, !.nextSeq = U16(@ + 1)]
<1>9. v = w BY <1>2 DEF QueueRecord
<1>10. i \in Data /\ u.nextSeq = Base(o) + i /\ 1 \in 1 .. Len(u.blocks) /\ u.blocks[1] \in BlockRecord
       /\ u.blocks \in Seq(BlockRecord)
  BY <1>2, <1>6, ListedFacts DEF At
<1>11. v.nextSeq = U16(Base(o) + i + 1) BY <1>10, <1>2 DEF QueueRecord
<1>12. v.nextSeq = Base(b + 1) <=> i + 1 = DataShards BY <1>3, <1>10, <1>11, NextNumber
<1>13. Head(w.blocks).nextDataPacketIndex = i + 1
  <2> DEFINE cs == [u.blocks EXCEPT ![1].nextDataPacketIndex = @ + 1]
  <2>1. w.blocks = cs BY <1>2 DEF QueueRecord
  <2>2. DOMAIN u.blocks = 1 .. Len(u.blocks) BY <1>10
  <2>3. cs[1] = [u.blocks[1] EXCEPT !.nextDataPacketIndex = i + 1] BY <2>2, <1>10
  <2>4. cs[1].nextDataPacketIndex = i + 1 BY <2>3, <1>10 DEF BlockRecord
  <2>5. Head(cs) = cs[1] BY <1>10, <2>2
  <2> QED BY <2>1, <2>4, <2>5
<1>14. q' = IF v.nextSeq = Base(b + 1) THEN freeFecBlockHead(v) ELSE v BY <1>5, <1>8
<1>15. Advance(u) = IF i + 1 = DataShards THEN freeFecBlockHead(w) ELSE w BY <1>13 DEF Advance
<1>16. q' = Advance(u)
  <2> HIDE DEF v, w, i
  <2> QED BY <1>9, <1>12, <1>14, <1>15
<1> QED BY <1>3, <1>6, <1>8, <1>16 DEF u, k

LEMMA HandleNowKeeps ==
  ASSUME TypeOK, newest # NONE, NEW o \in Nat, QueueAt(o), pc = "receiving",
         NEW b \in Block, b \in newest - Late .. newest + 1 + MaxSkipped - NotCaughtUp,
         NEW s \in Shards, HandleNow(b, s),
         newest' = (IF b > newest THEN b ELSE newest), skipped' = NotCaughtUp + PassedOver(b)
  PROVE  TypeOK' /\ newest' # NONE /\ \E p \in Nat : QueueAt(p)'
<1> DEFINE u == WithPacket(b, s)
           newer == IF b > newest THEN b ELSE newest
           i == u.blocks[1].nextDataPacketIndex
<1>1. /\ u \in QueueRecord /\ Listed(u.blocks) /\ u.blocks # <<>> /\ At(u, o, newer)
      /\ newer \in Nat /\ newer \in Block /\ u.synchronizing = q.synchronizing
  BY ReceivedFacts DEF HandleNow
<1>2. q' = Advance(u) /\ b = o /\ No(u.blocks[1]) = o BY HandleNowIsAdvance
<1>3. /\ newest \in Nat /\ b \in Nat /\ skipped' \in 0 .. MaxSkipped /\ newest - Late <= b /\ s \in Nat
  <2>1. newest \in Nat BY StateFacts
  <2>2. b \in Nat /\ NotCaughtUp + PassedOver(b) \in 0 .. MaxSkipped BY ReceiveRange
  <2>3. s \in Nat BY Halves, AudioAssumption DEF Shards
  <2> QED BY <2>1, <2>2, <2>3
<1>4. newest' = newer /\ pc' = pc /\ given' = b * DataShards + s BY DEF HandleNow
<1>5. newest' \in Nat /\ newest' \in Block /\ newest' # NONE BY <1>1, <1>4, AudioAssumption
<1> HIDE DEF u, newer
<1>7. PICK p \in {o, o + 1} : p = IF i + 1 = DataShards THEN o + 1 ELSE o OBVIOUS
<1>6. /\ q' \in QueueRecord /\ Listed(q'.blocks) /\ At(q', p, newer)
      /\ q'.synchronizing => q.synchronizing /\ p = o /\ q'.blocks # <<>> /\ No(q'.blocks[1]) = o
  BY <1>1, <1>2, <1>7, AdvanceFacts
<1>11. p \in Nat /\ o <= p BY <1>7
<1>8. TypeOK'
  <2>1. given' \in Nat BY <1>3, <1>4, Halves
  <2> QED BY <1>3, <1>4, <1>5, <1>6, <2>1 DEF TypeOK
<1>9. InReach(q', p, newest', skipped', pc')
  <2>1. newest' <= o + Late BY <1>2, <1>3, <1>4, Halves DEF newer
  <2>2. p \in Nat /\ skipped' \in Nat BY <1>7, <1>3, Halves
  <2>3. q'.blocks # <<>> => p <= No(q'.blocks[1]) /\ No(q'.blocks[1]) \in Nat
    BY <1>6, ListedFacts DEF At
  <2>4. newest' - p <= Late + 1 + MaxSkipped
    <3>1. \A a, c, x \in Nat : a <= c + Late /\ c <= x => a - x <= Late + 1 + MaxSkipped BY Halves
    <3> QED BY <3>1, <2>1, <1>11, <1>5
  <2>5. q'.blocks # <<>> => ~(newest' > No(q'.blocks[1]) + Late)
    <3>1. \A n, c, x, y \in Nat : n <= c + Late /\ c <= x /\ x <= y => ~(n > y + Late) BY Halves
    <3> QED BY <3>1, <2>1, <2>3, <1>11, <1>5
  <2> QED BY <2>2, <2>4, <2>5, <1>4, <1>5, ReachIs
<1>10. Begins(q', p, newest')
  <2> SUFFICES ASSUME q'.synchronizing
               PROVE  \E f \in FirstBlocks : /\ p \in f + 1 .. f + 1 + MaxSkipped
                                             /\ IF q'.blocks = <<>> THEN newest' = f /\ p = f + 1
                                                ELSE p = No(q'.blocks[1])
    BY DEF Begins
  <2>1. q.synchronizing /\ p = o /\ q'.blocks # <<>> /\ No(q'.blocks[1]) = o BY <1>6
  <2>2. PICK f \in FirstBlocks : o \in f + 1 .. f + 1 + MaxSkipped BY <2>1 DEF QueueAt, Begins
  <2> QED BY <2>1, <2>2
<1>12. QueueAt(p)' BY <1>4, <1>6, <1>9, <1>10 DEF QueueAt
<1> QED BY <1>5, <1>8, <1>11, <1>12

\* Steps that leave the list and the numbers alone.
LEMMA KeptKeeps ==
  ASSUME TypeOK, newest # NONE, NEW o \in Nat, QueueAt(o), pc = "receiving", q' \in QueueRecord,
         q'.blocks = q.blocks, q'.nextSeq = q.nextSeq, q'.oldest = q.oldest,
         q'.synchronizing = q.synchronizing, q.incompatibleServer => q'.incompatibleServer,
         newest' = newest, skipped' \in 0 .. MaxSkipped, Behind => skipped' = skipped,
         pc' = pc, given' = given
  PROVE  TypeOK' /\ newest' # NONE /\ \E p \in Nat : QueueAt(p)'
<1>1. TypeOK' BY DEF TypeOK
<1>2. /\ Listed(q'.blocks) /\ At(q', o, newest) /\ InReach(q', o, newest, skipped', "receiving")
      /\ Begins(q', o, newest)
  BY KeptAt
<1>3. QueueAt(o)' BY <1>2 DEF QueueAt
<1> QED BY <1>1, <1>3

\* A packet that is rejected is of a block that was heard of.
LEMMA RejectedIsKnown ==
  ASSUME TypeOK, newest # NONE, NEW o \in Nat, QueueAt(o), pc = "receiving",
         NEW b \in Block, b \in newest - Late .. newest + 1 + MaxSkipped - NotCaughtUp,
         NEW s \in Shards, Reject(b, s) \/ RejectOddSize(b, s)
  PROVE  b <= newest /\ (IF b > newest THEN b ELSE newest) = newest
<1>1. newest \in Nat /\ o <= newest + 1 /\ b \in Nat /\ (TooOld(b) <=> b < o) BY StateFacts, ReceiveRange
<1>2. TooOld(b) \/ Has(q, Base(b)) BY DEF Reject, RejectOddSize
<1>3. Has(q, Base(b)) => b <= newest
  <2> SUFFICES ASSUME Has(q, Base(b)) PROVE b <= newest OBVIOUS
  <2>1. q.blocks \in Seq(BlockRecord) /\ Listed(q.blocks) /\ Near(q.blocks, b) /\ q \in QueueRecord
    BY ReceiveRange DEF TypeOK, QueueRecord, QueueAt
  <2>2. PICK k \in 1 .. Len(q.blocks) : No(q.blocks[k]) = b BY <2>1, PlaceFacts DEF Near
  <2>3. No(q.blocks[k]) <= No(q.blocks[Len(q.blocks)]) BY <2>1, ListedEnds
  <2>4. q.blocks # <<>>
    <3>1. Len(q.blocks) \in Nat BY <2>1
    <3> QED BY <3>1, <2>1, ListedFacts
  <2> QED BY <2>2, <2>3, <2>4 DEF QueueAt, At
<1> QED BY <1>1, <1>2, <1>3

LEMMA RejectKeeps ==
  ASSUME TypeOK, newest # NONE, NEW o \in Nat, QueueAt(o), pc = "receiving",
         NEW b \in Block, b \in newest - Late .. newest + 1 + MaxSkipped - NotCaughtUp,
         NEW s \in Shards,
         \/ /\ Reject(b, s) \/ RejectOddSize(b, s)
            /\ newest' = IF b > newest THEN b ELSE newest
            /\ skipped' = NotCaughtUp + PassedOver(b)
         \/ RejectForMemory(b, s) /\ UNCHANGED <<newest, skipped>>
  PROVE  TypeOK' /\ newest' # NONE /\ \E p \in Nat : QueueAt(p)'
<1>1. /\ Noted(b, s) \in QueueRecord
      /\ Noted(b, s).blocks = q.blocks /\ Noted(b, s).nextSeq = q.nextSeq
      /\ Noted(b, s).oldest = q.oldest /\ Noted(b, s).synchronizing = q.synchronizing
      /\ Noted(b, s).incompatibleServer = q.incompatibleServer
  BY NotedFacts
<1>2. /\ newest \in Nat /\ o <= newest + 1 /\ skipped \in 0 .. MaxSkipped /\ b \in Nat
      /\ NotCaughtUp + PassedOver(b) \in 0 .. MaxSkipped /\ (TooOld(b) <=> b < o)
      /\ NotCaughtUp \in 0 .. MaxSkipped
  BY StateFacts, ReceiveRange
<1>4. CASE RejectForMemory(b, s) /\ UNCHANGED <<newest, skipped>>
  <2>1. q' = Noted(b, s) /\ pc' = pc /\ given' = given /\ newest' = newest /\ skipped' = skipped
    BY <1>4 DEF RejectForMemory
  <2> QED BY <2>1, <1>1, <1>2, KeptKeeps
<1>5. CASE /\ Reject(b, s) \/ RejectOddSize(b, s)
           /\ newest' = IF b > newest THEN b ELSE newest
           /\ skipped' = NotCaughtUp + PassedOver(b)
  <2>1. pc' = pc /\ given' = given BY <1>5 DEF Reject, RejectOddSize
  <2>2. b <= newest BY <1>5, RejectedIsKnown
  <2>3. newest' = newest BY <2>2, <1>2, <1>5
  <2>4. PassedOver(b) = 0 BY <2>2, <1>2 DEF PassedOver
  <2>5. Behind => skipped' = skipped BY <2>4, <1>2, <1>5, Halves DEF NotCaughtUp
  <2>6. skipped' \in 0 .. MaxSkipped BY <1>2, <1>5
  <2>7. /\ q' \in QueueRecord /\ q'.blocks = q.blocks /\ q'.nextSeq = q.nextSeq /\ q'.oldest = q.oldest
        /\ q'.synchronizing = q.synchronizing
        /\ q.incompatibleServer => q'.incompatibleServer
    <3>1. CASE Reject(b, s) BY <3>1, <1>1 DEF Reject
    <3>2. CASE RejectOddSize(b, s)
      <4>1. q' = [Noted(b, s) EXCEPT !.incompatibleServer = TRUE] BY <3>2 DEF RejectOddSize
      <4> QED BY <4>1, <1>1 DEF QueueRecord
    <3> QED BY <3>1, <3>2, <1>5
  <2> QED BY <2>1, <2>3, <2>5, <2>6, <2>7, KeptKeeps
<1> QED BY <1>4, <1>5

\* The list with a packet that is not due, its block completed if it can be.
LEMMA EnqueuedFacts ==
  ASSUME TypeOK, newest # NONE, NEW o \in Nat, QueueAt(o), pc = "receiving",
         NEW b \in Block, b \in newest - Late .. newest + 1 + MaxSkipped - NotCaughtUp,
         NEW s \in Shards, Accepts(b, s)
  PROVE  LET u == WithPacket(b, s)
             k == Place(u, Base(b))
             v == [u EXCEPT !.blocks[k] = completeFecBlock(@)]
             newer == IF b > newest THEN b ELSE newest
         IN  /\ v \in QueueRecord /\ Listed(v.blocks) /\ v.blocks # <<>> /\ At(v, o, newer)
             /\ Filled(q.blocks, v.blocks, k, b) /\ No(v.blocks[k]) = b
             /\ No(v.blocks[1]) = (IF q.blocks = <<>> \/ b < No(q.blocks[1]) THEN b ELSE No(q.blocks[1]))
             /\ v.nextSeq = q.nextSeq /\ v.synchronizing = q.synchronizing
             /\ v.incompatibleServer = q.incompatibleServer
<1> DEFINE u == WithPacket(b, s)
           k == Place(u, Base(b))
           v == [u EXCEPT !.blocks[k] = completeFecBlock(@)]
           cs == [u.blocks EXCEPT ![k] = completeFecBlock(@)]
           newer == IF b > newest THEN b ELSE newest
<1>1. /\ o <= b /\ u \in QueueRecord /\ Filled(q.blocks, u.blocks, k, b)
      /\ u.nextSeq = q.nextSeq /\ u.oldest = q.oldest /\ u.synchronizing = q.synchronizing
      /\ u.incompatibleServer = q.incompatibleServer
  BY ReceivedFacts
<1> HIDE DEF u, k
<1>2. Filled(q.blocks, cs, k, b) /\ cs \in Seq(BlockRecord)
  <2>1. Filled(q.blocks, cs, k, b) BY <1>1, CompletedFilled
  <2> QED BY <2>1 DEF Filled
<1>3. v = [u EXCEPT !.blocks = cs] BY <1>1 DEF QueueRecord
<1> HIDE DEF cs
<1>4. /\ v \in QueueRecord /\ v.blocks = cs /\ v.nextSeq = q.nextSeq /\ v.oldest = q.oldest
      /\ v.synchronizing = q.synchronizing /\ v.incompatibleServer = q.incompatibleServer
  BY <1>1, <1>2, <1>3 DEF QueueRecord
<1> HIDE DEF v
<1>5. q \in QueueRecord /\ newest \in Nat /\ Listed(q.blocks) /\ At(q, o, newest)
  BY StateFacts DEF QueueAt
<1>6. Filled(q.blocks, v.blocks, k, b) BY <1>2, <1>4
<1>7. /\ Listed(v.blocks) /\ No(v.blocks[k]) = b /\ v.blocks # <<>> /\ At(v, o, newer)
      /\ No(v.blocks[1]) = IF q.blocks = <<>> \/ b < No(q.blocks[1]) THEN b ELSE No(q.blocks[1])
  <2>1. v \in QueueRecord /\ v.nextSeq = q.nextSeq /\ v.oldest = q.oldest BY <1>4
  <2>2. o <= b BY <1>1
  <2> QED BY <2>1, <2>2, <1>5, <1>6, FilledAt
<1> QED BY <1>4, <1>6, <1>7 DEF u, k, v

\* A packet of a newer block than any makes nothing ready that was not.
LEMMA NotReadyYet ==
  ASSUME TypeOK, newest # NONE, NEW o \in Nat, QueueAt(o), pc = "receiving", ~q.incompatibleServer, Behind,
         NEW b \in Nat, b > newest, NEW v \in QueueRecord, NEW k, Listed(v.blocks), At(v, o, b), b - o < H,
         Filled(q.blocks, v.blocks, k, b), No(v.blocks[k]) = b, No(v.blocks[1]) = No(q.blocks[1]),
         v.nextSeq = q.nextSeq, v.blocks # <<>>
  PROVE  ~queueHasPacketReady(v)
<1>1. /\ q \in QueueRecord /\ q.blocks # <<>> /\ newest \in Nat /\ newest > No(q.blocks[1]) + Late
      /\ No(q.blocks[1]) \in Nat /\ No(q.blocks[1]) <= newest /\ Listed(q.blocks) /\ skipped \in 0 .. MaxSkipped
  BY StateFacts DEF QueueAt
<1>2. ~queueHasPacketReady(q)
  <2>1. InReach(q, o, newest, skipped, "receiving") BY DEF QueueAt
  <2>2. skipped \in Nat BY <1>1, Halves
  <2> QED BY <2>1, <2>2, <1>1, ReachIs
<1>3. /\ Len(q.blocks) \in Nat /\ 1 \in 1 .. Len(q.blocks) /\ Head(q.blocks) = q.blocks[1]
      /\ Head(v.blocks) = v.blocks[1]
  BY <1>1, ListedFacts
<1>4. k # 1 /\ k \in 1 .. Len(v.blocks) /\ Len(v.blocks) \in Nat
  <2>1. k \in 1 .. Len(v.blocks) /\ Len(v.blocks) \in Nat BY ListedFacts DEF Filled
  <2>2. k # 1 BY <1>1
  <2> QED BY <2>1, <2>2
<1>5. v.blocks[1] = q.blocks[1]
  <2>1. CASE Len(v.blocks) = Len(q.blocks) BY <2>1, <1>3, <1>4 DEF Filled
  <2>2. CASE Len(v.blocks) # Len(q.blocks)
    <3>1. 1 < k BY <1>4
    <3> QED BY <3>1, <2>2, <1>3 DEF Filled
  <2> QED BY <2>1, <2>2
<1> QED BY <1>1, <1>2, <1>3, <1>5 DEF queueHasPacketReady

\* How far ahead the stream is when b is heard of.
LEMMA AheadFacts ==
  ASSUME TypeOK, newest # NONE, NEW o \in Nat, QueueAt(o), pc = "receiving",
         NEW b \in Block, b \in newest - Late .. newest + 1 + MaxSkipped - NotCaughtUp, o <= b
  PROVE  LET newer == IF b > newest THEN b ELSE newest
             skip == NotCaughtUp + PassedOver(b)
             h == IF q.blocks = <<>> \/ b < No(q.blocks[1]) THEN b ELSE No(q.blocks[1])
         IN  /\ skip \in 0 .. MaxSkipped /\ newer \in Nat /\ newer \in Block /\ h \in Nat /\ o <= h /\ h <= newer
             /\ ~Behind => newer - h <= Late + 1 + skip
             /\ Behind => /\ newer - o <= Late + 2 + skip
                          /\ b <= newest => newer - o <= Late + 1 + skip
                          /\ b > newest => newer = b /\ h = No(q.blocks[1])
             /\ q.synchronizing => \E f \in FirstBlocks : h \in f + 1 .. f + 1 + MaxSkipped
<1>1. /\ newest \in Nat /\ newest \in Block /\ skipped \in 0 .. MaxSkipped
      /\ q.blocks # <<>> => No(q.blocks[1]) \in Nat /\ o <= No(q.blocks[1]) /\ No(q.blocks[1]) <= newest
      /\ q.blocks = <<>> => o = newest + 1
      /\ Behind <=> q.blocks # <<>> /\ newest > No(q.blocks[1]) + Late
  BY StateFacts
<1>2. /\ b \in Nat /\ NotCaughtUp \in 0 .. MaxSkipped
      /\ PassedOver(b) = IF b > newest + 1 THEN b - newest - 1 ELSE 0
      /\ NotCaughtUp + PassedOver(b) \in 0 .. MaxSkipped
  BY ReceiveRange
<1>3. newest - Late <= b /\ b <= newest + 1 + MaxSkipped - NotCaughtUp BY <1>1, <1>2, Halves
<1>4. Behind => NotCaughtUp = skipped /\ newest - o <= Late + 1 + skipped
  <2>1. InReach(q, o, newest, skipped, "receiving") BY DEF QueueAt
  <2>2. skipped \in Nat BY <1>1, Halves
  <2> QED BY <2>1, <2>2, <1>1, ReachIs DEF NotCaughtUp
<1> DEFINE newer == IF b > newest THEN b ELSE newest
           skip == NotCaughtUp + PassedOver(b)
           h == IF q.blocks = <<>> \/ b < No(q.blocks[1]) THEN b ELSE No(q.blocks[1])
<1>5. newer \in Nat /\ newer \in Block /\ h \in Nat /\ o <= h /\ h <= newer BY <1>1, <1>2
<1>6. ASSUME ~Behind PROVE newer - h <= Late + 1 + skip
  <2>1. CASE q.blocks = <<>> BY <2>1, <1>1, <1>2, Halves
  <2>2. CASE q.blocks # <<>> BY <2>2, <1>6, <1>1, <1>2, <1>3, Halves
  <2> QED BY <2>1, <2>2
<1>7. ASSUME Behind
      PROVE  /\ newer - o <= Late + 2 + skip
             /\ b <= newest => newer - o <= Late + 1 + skip
             /\ b > newest => newer = b /\ h = No(q.blocks[1])
  <2>1. /\ NotCaughtUp = skipped /\ newest - o <= Late + 1 + skipped /\ q.blocks # <<>>
        /\ No(q.blocks[1]) \in Nat /\ No(q.blocks[1]) <= newest
    BY <1>7, <1>1, <1>4
  <2>2. CASE b <= newest BY <2>1, <2>2, <1>1, <1>2, Halves
  <2>3. CASE b > newest BY <2>1, <2>3, <1>1, <1>2, Halves
  <2> QED BY <2>2, <2>3, <1>1, <1>2
<1>8. ASSUME q.synchronizing PROVE \E f \in FirstBlocks : h \in f + 1 .. f + 1 + MaxSkipped
  <2>1. PICK f \in FirstBlocks : /\ o \in f + 1 .. f + 1 + MaxSkipped
                                 /\ IF q.blocks = <<>> THEN newest = f /\ o = f + 1
                                    ELSE o = No(q.blocks[1])
    BY <1>8 DEF QueueAt, Begins
  <2>2. f \in Nat BY AudioAssumption DEF Block
  <2>3. CASE q.blocks = <<>>
    <3>1. h = b /\ newest = f /\ f + 1 <= b /\ b <= f + 1 + MaxSkipped
      BY <2>1, <2>2, <2>3, <1>1, <1>2, <1>3, Halves
    <3> QED BY <3>1, <2>2, <1>2, Halves
  <2>4. CASE q.blocks # <<>>
    <3>1. h = o BY <2>1, <2>4, <1>1, <1>2
    <3> QED BY <3>1, <2>1
  <2> QED BY <2>3, <2>4
<1> QED BY <1>2, <1>5, <1>6, <1>7, <1>8

LEMMA EnqueueKeeps ==
  ASSUME TypeOK, newest # NONE, NEW o \in Nat, QueueAt(o), pc = "receiving", ~q.incompatibleServer,
         NEW b \in Block, b \in newest - Late .. newest + 1 + MaxSkipped - NotCaughtUp,
         NEW s \in Shards, NEW overdue \in Overdue, Enqueue(b, s, overdue),
         newest' = (IF b > newest THEN b ELSE newest), skipped' = NotCaughtUp + PassedOver(b)
  PROVE  TypeOK' /\ newest' # NONE /\ \E p \in Nat : QueueAt(p)'
<1> DEFINE u == WithPacket(b, s)
           k == Place(u, Base(b))
           v == [u EXCEPT !.blocks[k] = completeFecBlock(@)]
           w == IF queueHasPacketReady(v) THEN v ELSE handleMissingPackets(v, overdue)
           newer == IF b > newest THEN b ELSE newest
           h == IF q.blocks = <<>> \/ b < No(q.blocks[1]) THEN b ELSE No(q.blocks[1])
           skip == NotCaughtUp + PassedOver(b)
<1>1. /\ Accepts(b, s) /\ q' = w /\ given' = given
      /\ pc' = IF queueHasPacketReady(w) THEN "draining" ELSE "receiving"
  BY DEF Enqueue
<1>2. /\ v \in QueueRecord /\ Listed(v.blocks) /\ v.blocks # <<>> /\ At(v, o, newer)
      /\ Filled(q.blocks, v.blocks, k, b) /\ No(v.blocks[k]) = b
      /\ No(v.blocks[1]) = h
      /\ v.nextSeq = q.nextSeq /\ v.synchronizing = q.synchronizing
      /\ v.incompatibleServer = q.incompatibleServer
  BY <1>1, EnqueuedFacts
<1>3. o <= b /\ newer - o < H BY <1>1, ReceivedFacts
<1>4. /\ skip \in 0 .. MaxSkipped /\ newer \in Nat /\ newer \in Block /\ h \in Nat /\ o <= h /\ h <= newer
      /\ ~Behind => newer - h <= Late + 1 + skip
      /\ Behind => /\ newer - o <= Late + 2 + skip
                   /\ b <= newest => newer - o <= Late + 1 + skip
                   /\ b > newest => newer = b /\ h = No(q.blocks[1])
      /\ q.synchronizing => \E f \in FirstBlocks : h \in f + 1 .. f + 1 + MaxSkipped
  BY <1>3, AheadFacts
<1>5. overdue \in BOOLEAN /\ (Behind => overdue) BY DEF Overdue
<1>6. newest \in Nat /\ b \in Nat /\ newest' = newer /\ skipped' = skip BY StateFacts, ReceiveRange
<1> HIDE DEF u, k, v, newer, h, skip
<1>7. /\ w \in QueueRecord /\ Listed(w.blocks) /\ w.blocks # <<>> /\ No(w.blocks[1]) = h /\ At(w, h, newer)
      /\ w.synchronizing = q.synchronizing
      /\ \/ newer - h <= Late + 1 + skip
         \/ w.blocks[1].allowDiscontinuity /\ newer - h <= Late + 2 + skip
  <2>1. CASE queueHasPacketReady(v)
    <3>1. w = v BY <2>1
    <3>2. o = h
      <4>1. o = h \/ v.blocks[1].allowDiscontinuity BY <2>1, <1>2, <1>3, <1>4, ReadyIf
      <4> QED BY <4>1, <1>2 DEF At
    <3>3. newer - h <= Late + 1 + skip
      <4>1. CASE ~Behind BY <4>1, <1>4
      <4>2. CASE Behind /\ b <= newest BY <4>2, <3>2, <1>4
      <4>3. CASE Behind /\ b > newest
        <5>1. newer = b /\ No(v.blocks[1]) = No(q.blocks[1]) BY <4>3, <1>2, <1>4
        <5>2. ~queueHasPacketReady(v) BY <5>1, <4>3, <1>2, <1>3, <1>6, NotReadyYet
        <5> QED BY <5>2, <2>1
      <4> QED BY <4>1, <4>2, <4>3, <1>6
    <3> QED BY <3>1, <3>2, <3>3, <1>2
  <2>2. CASE ~queueHasPacketReady(v)
    <3>1. w = handleMissingPackets(v, overdue) BY <2>2
    <3>2. /\ w \in QueueRecord /\ Listed(w.blocks) /\ w.blocks # <<>> /\ No(w.blocks[1]) = h /\ At(w, h, newer)
          /\ w.synchronizing = v.synchronizing
          /\ o = h /\ Len(v.blocks) > 1 /\ overdue => w.blocks[1].allowDiscontinuity
      <4> DEFINE x == handleMissingPackets(v, overdue)
      <4>1. /\ x \in QueueRecord /\ Listed(x.blocks) /\ x.blocks # <<>>
            /\ No(x.blocks[1]) = No(v.blocks[1]) /\ At(x, No(v.blocks[1]), newer)
            /\ x.synchronizing = v.synchronizing
            /\ o = No(v.blocks[1]) /\ Len(v.blocks) > 1 /\ overdue => x.blocks[1].allowDiscontinuity
        BY <1>2, <1>3, <1>4, <1>5, HandleMissingFacts
      <4>2. w = x BY <3>1
      <4> HIDE DEF w, x
      <4> QED BY <4>1, <4>2, <1>2, Zenon
    <3> HIDE DEF w
    <3>3. \/ newer - h <= Late + 1 + skip
          \/ w.blocks[1].allowDiscontinuity /\ newer - h <= Late + 2 + skip
      <4>1. CASE ~Behind BY <4>1, <1>4
      <4>2. CASE Behind /\ o < h BY <4>2, <1>4, Halves
      <4>3. CASE Behind /\ o = h /\ Len(v.blocks) > 1
        <5>1. w.blocks[1].allowDiscontinuity BY <4>3, <3>2, <1>5
        <5>2. newer - h <= Late + 2 + skip BY <4>3, <1>4
        <5> QED BY <5>1, <5>2
      <4>4. CASE Behind /\ o = h /\ ~(Len(v.blocks) > 1)
        <5>1. Len(v.blocks) \in Nat /\ Len(v.blocks) >= 1 BY <1>2, ListedFacts
        <5>5. \A n \in Nat : n >= 1 /\ ~(n > 1) => n = 1 OBVIOUS
        <5>2. Len(v.blocks) = 1 BY <5>1, <5>5, <4>4, Zenon
        <5>3. No(v.blocks[1]) = newer BY <5>2, <1>2 DEF At
        <5>4. newer = h BY <5>3, <1>2
        <5> QED BY <5>4, <1>4, Halves
      <4> QED BY <4>1, <4>2, <4>3, <4>4, <1>4
    <3> QED BY <3>2, <3>3, <1>2
  <2> QED BY <2>1, <2>2
<1> HIDE DEF w
<1>8. TypeOK'
  <2>1. pc' \in {"receiving", "draining"} BY <1>1
  <2> QED BY <2>1, <1>1, <1>4, <1>6, <1>7 DEF TypeOK
<1>9. newest' # NONE BY <1>4, <1>6, AudioAssumption
<1>10. PICK p \in Nat : p = h BY <1>4
<1>11. InReach(q', p, newest', skipped', pc')
  <2>1. skip \in Nat /\ skip <= MaxSkipped BY <1>4, Halves
  <2>2. q'.blocks[1].allowDiscontinuity => queueHasPacketReady(q')
    <3>1. Head(w.blocks) = w.blocks[1] BY <1>7, ListedFacts
    <3> QED BY <3>1, <1>1, <1>7 DEF queueHasPacketReady
  <2>3. CASE queueHasPacketReady(q')
    <3>1. pc' = "draining" BY <2>3, <1>1
    <3> DEFINE giving == IF q'.blocks[1].allowDiscontinuity THEN 1 ELSE 0
    <3>2. newest' - p <= Late + 1 + skip + giving BY <1>1, <1>4, <1>6, <1>7, <1>10, <2>1, Halves
    <3>3. giving \in 0 .. 1 OBVIOUS
    <3> HIDE DEF giving
    <3>4. newest' - p <= Late + 1 + MaxSkipped + giving BY <3>2, <3>3, <2>1, <1>4, <1>6, <1>10, Halves
    <3> QED BY <3>1, <3>2, <3>4, <2>1, <1>4, <1>6, ReachIs DEF giving
  <2>4. CASE ~queueHasPacketReady(q')
    <3>1. pc' = "receiving" BY <2>4, <1>1
    <3>2. newest' - p <= Late + 1 + skip BY <2>2, <2>4, <1>1, <1>6, <1>7, <1>10
    <3>3. newest' - p <= Late + 1 + MaxSkipped BY <3>2, <2>1, <1>4, <1>6, <1>10, Halves
    <3> QED BY <3>1, <3>2, <3>3, <2>1, <2>4, <1>4, <1>6, ReachIs
  <2> QED BY <2>3, <2>4
<1>12. Begins(q', p, newest') BY <1>1, <1>4, <1>7, <1>10 DEF Begins
<1>13. Listed(q'.blocks) /\ At(q', p, newest') BY <1>1, <1>6, <1>7, <1>10
<1>14. QueueAt(p)' BY <1>11, <1>12, <1>13 DEF QueueAt
<1> QED BY <1>8, <1>9, <1>14

\* The first packet that is heard of.
LEMMA SynchronizeBegins ==
  ASSUME q = RtpaInitializeQueue, newest = NONE, pc = "receiving", TypeOK, NEW b \in FirstBlocks,
         NEW s \in Shards, Synchronize(b, s), newest' = b, skipped' = 0
  PROVE  TypeOK' /\ newest' # NONE /\ \E p \in Nat : QueueAt(p)'
<1>1. b \in Block /\ b \in Nat /\ b # NONE BY AudioAssumption DEF Block
<1>2. /\ Noted(b, s) \in QueueRecord
      /\ Noted(b, s).blocks = q.blocks /\ Noted(b, s).synchronizing = q.synchronizing
  BY <1>1, NotedFacts
<1>3. Base(b + 1) \in Seq16 BY <1>1, BaseFacts
<1>4. q' = [Noted(b, s) EXCEPT !.nextSeq = Base(b + 1), !.oldest = Base(b + 1)] /\ pc' = pc /\ given' = given
  BY DEF Synchronize
<1>5. /\ q' \in QueueRecord /\ q'.blocks = <<>> /\ q'.nextSeq = Base(b + 1) /\ q'.oldest = Base(b + 1)
  BY <1>2, <1>3, <1>4 DEF QueueRecord, RtpaInitializeQueue
<1>6. TypeOK'
  <2>1. skipped' \in 0 .. MaxSkipped BY Halves
  <2> QED BY <2>1, <1>1, <1>4, <1>5 DEF TypeOK
<1>7. Listed(q'.blocks)
  <2>1. 1 .. Len(<<>>) = {} OBVIOUS
  <2> QED BY <2>1, <1>5 DEF Listed
<1>8. At(q', b + 1, newest') BY <1>5 DEF At
<1>9. InReach(q', b + 1, newest', skipped', pc') BY <1>5 DEF InReach
<1>10. Begins(q', b + 1, newest')
  <2>1. b + 1 \in b + 1 .. b + 1 + MaxSkipped BY <1>1, Halves
  <2> QED BY <2>1, <1>5 DEF Begins
<1>11. PICK p \in Nat : p = b + 1 BY <1>1
<1>12. QueueAt(p)' BY <1>7, <1>8, <1>9, <1>10, <1>11 DEF QueueAt
<1> QED BY <1>1, <1>6, <1>12

LEMMA ReceiveKeeps ==
  ASSUME AudioInv, Receive
  PROVE  AudioInv'
<1>1. TypeOK /\ pc = "receiving" BY DEF AudioInv, Receive
<1>2. CASE newest = NONE
  <2>1. q = RtpaInitializeQueue BY <1>2 DEF AudioInv
  <2>2. Starting /\ ~q.incompatibleServer /\ NotCaughtUp = 0
    BY <2>1 DEF Starting, RtpaInitializeQueue, NotCaughtUp, Behind
  <2>3. PICK b \in FirstBlocks, s \in Shards, overdue \in Overdue : RtpaAddPacket(b, s, overdue)
    BY <1>2 DEF Receive
  <2>4. Synchronize(b, s) /\ newest' = b /\ skipped' = 0 + PassedOver(b)
    BY <2>2, <2>3, <1>2
    DEF RtpaAddPacket, Reject, RejectOddSize, HandleNow, Enqueue, RejectForMemory, Accepts
  <2>5. skipped' = 0 BY <2>4, <1>2 DEF PassedOver
  <2> QED BY <1>1, <1>2, <2>1, <2>4, <2>5, SynchronizeBegins DEF AudioInv
<1>3. CASE newest # NONE
  <2>1. PICK o \in Nat : QueueAt(o) BY <1>3 DEF AudioInv
  <2>2. PICK b \in Block, s \in Shards, overdue \in Overdue :
          /\ b \in newest - Late .. newest + 1 + MaxSkipped - NotCaughtUp
          /\ RtpaAddPacket(b, s, overdue)
    BY <1>3 DEF Receive
  <2>3. ~Starting BY <1>1, <1>3, <2>1, StateFacts
  <2>4. TypeOK' /\ newest' # NONE /\ \E p \in Nat : QueueAt(p)'
    <3>1. CASE q.incompatibleServer
      <4>1. PassThrough(b, s) BY <3>1, <2>2 DEF RtpaAddPacket
      <4>2. UNCHANGED <<q, pc, newest, skipped>> /\ given' \in Nat \union {LOST}
        <5>1. b \in Nat /\ s \in Nat BY Halves, AudioAssumption DEF Block, Shards
        <5>2. b * DataShards + s \in Nat BY <5>1, Halves
        <5> QED BY <4>1, <5>2, <1>1 DEF PassThrough, TypeOK
      <4>3. TypeOK' BY <4>2, <1>1 DEF TypeOK
      <4>4. QueueAt(o)' BY <4>2, <2>1 DEF QueueAt
      <4> QED BY <4>2, <4>3, <4>4, <1>3
    <3>2. CASE ~q.incompatibleServer /\ RejectForMemory(b, s) /\ UNCHANGED <<newest, skipped>>
      BY <3>2, <1>1, <1>3, <2>1, <2>2, RejectKeeps
    <3>3. CASE /\ ~q.incompatibleServer
               /\ Synchronize(b, s) \/ Reject(b, s) \/ RejectOddSize(b, s) \/ HandleNow(b, s)
                    \/ Enqueue(b, s, overdue)
               /\ newest' = IF newest = NONE \/ b > newest THEN b ELSE newest
               /\ skipped' = NotCaughtUp + PassedOver(b)
      <4>1. newest' = IF b > newest THEN b ELSE newest BY <3>3, <1>3
      <4>2. ~Synchronize(b, s) BY <2>3 DEF Synchronize
      <4>3. CASE Reject(b, s) \/ RejectOddSize(b, s)
        BY <4>1, <4>3, <3>3, <1>1, <1>3, <2>1, <2>2, RejectKeeps
      <4>4. CASE HandleNow(b, s)
        BY <4>1, <4>4, <3>3, <1>1, <1>3, <2>1, <2>2, HandleNowKeeps
      <4>5. CASE Enqueue(b, s, overdue)
        BY <4>1, <4>5, <3>3, <1>1, <1>3, <2>1, <2>2, EnqueueKeeps
      <4> QED BY <4>2, <4>3, <4>4, <4>5, <3>3
    <3>4. \/ q.incompatibleServer
          \/ ~q.incompatibleServer /\ RejectForMemory(b, s) /\ UNCHANGED <<newest, skipped>>
          \/ /\ ~q.incompatibleServer
             /\ Synchronize(b, s) \/ Reject(b, s) \/ RejectOddSize(b, s) \/ HandleNow(b, s)
                  \/ Enqueue(b, s, overdue)
             /\ newest' = IF newest = NONE \/ b > newest THEN b ELSE newest
             /\ skipped' = NotCaughtUp + PassedOver(b)
      BY <2>2, Zenon DEF RtpaAddPacket
    <3> QED BY <3>1, <3>2, <3>3, <3>4
  <2> QED BY <2>4 DEF AudioInv
<1> QED BY <1>2, <1>3

\* Draining begins when there is something to hand out.
LEMMA AdvanceKeeps ==
  ASSUME TypeOK, newest # NONE, NEW o \in Nat, QueueAt(o), pc = "draining", q.blocks # <<>>,
         o = No(q.blocks[1]), q' = Advance(q), given' \in Nat \union {LOST},
         UNCHANGED <<pc, newest, skipped>>
  PROVE  TypeOK' /\ newest' # NONE /\ \E p \in Nat : QueueAt(p)'
<1> DEFINE i == q.blocks[1].nextDataPacketIndex
           givesUp(u) == IF u.blocks[1].allowDiscontinuity THEN 1 ELSE 0
<1>1. /\ q \in QueueRecord /\ newest \in Nat /\ skipped \in Nat /\ o <= newest
      /\ Behind <=> newest > No(q.blocks[1]) + Late
  <2>1. skipped \in 0 .. MaxSkipped BY StateFacts
  <2> QED BY <2>1, StateFacts, Halves
<1>2. Listed(q.blocks) /\ At(q, o, newest) /\ InReach(q, o, newest, skipped, "draining") BY DEF QueueAt
<1>3. /\ newest - o <= Late + 1 + MaxSkipped + givesUp(q)
      /\ newest > o + Late => newest - o <= Late + 1 + skipped + givesUp(q)
  BY <1>1, <1>2, ReachIs
<1>4. /\ q' \in QueueRecord /\ Listed(q'.blocks)
      /\ i + 1 = DataShards => At(q', o + 1, newest) /\ ~q'.synchronizing
      /\ i + 1 # DataShards => /\ At(q', o, newest) /\ q'.blocks # <<>> /\ No(q'.blocks[1]) = o
                               /\ q'.synchronizing = q.synchronizing
                               /\ q'.blocks[1].allowDiscontinuity = q.blocks[1].allowDiscontinuity
  BY <1>1, <1>2, AdvanceFacts
<1>5. TypeOK' BY <1>4 DEF TypeOK
<1>6. givesUp(q) \in 0 .. 1 /\ givesUp(q') \in 0 .. 1 OBVIOUS
<1>7. CASE i + 1 = DataShards
  <2>1. PICK p \in Nat : p = o + 1 OBVIOUS
  <2>2. At(q', p, newest) BY <1>4, <1>7, <2>1
  <2>3. q'.blocks # <<>> => No(q'.blocks[1]) \in Nat /\ p <= No(q'.blocks[1])
    BY <1>4, <2>2, ListedFacts DEF At
  <2> HIDE DEF givesUp
  <2>4. newest - p <= Late + 1 + MaxSkipped + givesUp(q') BY <1>1, <1>3, <1>6, <2>1, Halves
  <2>5. q'.blocks # <<>> /\ newest > No(q'.blocks[1]) + Late =>
          newest - p <= Late + 1 + skipped + givesUp(q')
    <3>1. \A n, h, sk \in Nat : \A x, y \in 0 .. 1 :
            /\ n > h + Late /\ p <= h
            /\ n > o + Late => n - o <= Late + 1 + sk + x
            => n - p <= Late + 1 + sk + y
      BY <2>1, Halves
    <3> QED BY <3>1, <1>1, <1>3, <1>6, <2>3
  <2>6. InReach(q', p, newest, skipped, "draining") BY <2>4, <2>5, <1>1, ReachIs DEF givesUp
  <2>7. Begins(q', p, newest) BY <1>4, <1>7 DEF Begins
  <2>8. QueueAt(p)' BY <2>2, <2>6, <2>7, <1>4 DEF QueueAt
  <2> QED BY <2>8, <1>5
<1>8. CASE i + 1 # DataShards
  <2>1. givesUp(q') = givesUp(q) BY <1>4, <1>8
  <2> HIDE DEF givesUp
  <2>2. InReach(q', o, newest, skipped, "draining") BY <2>1, <1>1, <1>3, <1>4, <1>8, ReachIs DEF givesUp
  <2>3. Begins(q', o, newest)
    <3>1. Begins(q, o, newest) BY DEF QueueAt
    <3> QED BY <3>1, <1>4, <1>8 DEF Begins
  <2>4. QueueAt(o)' BY <2>2, <2>3, <1>4, <1>8 DEF QueueAt
  <2> QED BY <2>4, <1>5
<1> QED BY <1>7, <1>8

LEMMA DrainKeeps ==
  ASSUME AudioInv, GetLost \/ GetPacket \/ GetNothing
  PROVE  AudioInv'
<1>1. TypeOK /\ pc = "draining" /\ newest # NONE
  <2>1. pc = "draining" BY DEF GetLost, GetPacket, GetNothing
  <2> QED BY <2>1 DEF AudioInv
<1>2. PICK o \in Nat : QueueAt(o) BY <1>1 DEF AudioInv
<1>3. /\ q \in QueueRecord /\ newest \in Nat /\ newest - o < H /\ skipped \in Nat
      /\ Listed(q.blocks) /\ At(q, o, newest)
      /\ Behind <=> q.blocks # <<>> /\ newest > No(q.blocks[1]) + Late
      /\ q.blocks # <<>> => No(q.blocks[1]) \in Nat
  <2>1. skipped \in 0 .. MaxSkipped BY <1>1, <1>2, StateFacts
  <2> QED BY <2>1, <1>1, <1>2, StateFacts, Halves DEF QueueAt
<1>4. q.blocks # <<>> => Head(q.blocks) = q.blocks[1] BY <1>3, ListedFacts
<1>5. CASE GetLost
  <2>1. q.blocks # <<>> /\ q.blocks[1].allowDiscontinuity BY <1>4, <1>5 DEF GetLost
  <2>2. o = No(q.blocks[1]) BY <2>1, <1>3 DEF At
  <2>3. q' = Advance(q) /\ given' \in Nat \union {LOST} /\ UNCHANGED <<pc, newest, skipped>> BY <1>5 DEF GetLost
  <2>4. TypeOK' /\ newest' # NONE /\ \E p \in Nat : QueueAt(p)' BY <2>1, <2>2, <2>3, <1>1, <1>2, AdvanceKeeps
  <2> QED BY <2>4 DEF AudioInv
<1>6. CASE GetPacket
  <2>1. q.blocks # <<>> /\ queueHasPacketReady(q) BY <1>6 DEF GetPacket, queueHasPacketReady
  <2>2. o = No(q.blocks[1])
    <3>1. o = No(q.blocks[1]) \/ q.blocks[1].allowDiscontinuity BY <2>1, <1>3, ReadyIf
    <3> QED BY <3>1, <2>1, <1>3 DEF At
  <2>3. q' = Advance(q) /\ UNCHANGED <<pc, newest, skipped>> BY <1>6 DEF GetPacket
  <2>4. given' \in Nat
    <3>1. /\ Head(q.blocks) \in BlockRecord /\ Head(q.blocks).nextDataPacketIndex \in Data
      BY <2>1, <1>3, <1>4, ListedFacts
    <3>2. Data \subseteq Shards /\ Data \subseteq Nat BY AudioAssumption DEF Data, Shards
    <3>3. NextShard(q) \in Block \union {NONE} BY <3>1, <3>2 DEF NextShard, BlockRecord
    <3>4. NextShard(q) \in Nat BY <3>3, <1>6, AudioAssumption DEF GetPacket, Block
    <3>6. \A x, y \in Nat : x * DataShards + y \in Nat BY Halves
    <3>5. NextShard(q) * DataShards + Head(q.blocks).nextDataPacketIndex \in Nat
      BY <3>1, <3>2, <3>4, <3>6
    <3> QED BY <3>5, <1>6 DEF GetPacket
  <2>5. TypeOK' /\ newest' # NONE /\ \E p \in Nat : QueueAt(p)'
    BY <2>1, <2>2, <2>3, <2>4, <1>1, <1>2, AdvanceKeeps
  <2> QED BY <2>5 DEF AudioInv
<1>7. CASE GetNothing
  <2>1. UNCHANGED <<q, given, newest, skipped>> /\ pc' = "receiving" /\ (queueHasPacketReady(q) => ~Behind)
    BY <1>7 DEF GetNothing
  <2>2. TypeOK' BY <2>1, <1>1 DEF TypeOK
  <2>3. InReach(q, o, newest, skipped, "receiving")
    <3> SUFFICES ASSUME q.blocks # <<>>
                 PROVE  InReach(q, o, newest, skipped, "receiving")
      BY DEF InReach
    <3> DEFINE giving == IF q.blocks[1].allowDiscontinuity THEN 1 ELSE 0
    <3>1. InReach(q, o, newest, skipped, "draining") BY <1>1, <1>2 DEF QueueAt
    <3>2. /\ newest - o <= Late + 1 + MaxSkipped + giving
          /\ newest > No(q.blocks[1]) + Late => newest - o <= Late + 1 + skipped + giving
      BY <3>1, <1>3, ReachIs
    <3>3. newest > No(q.blocks[1]) + Late => ~queueHasPacketReady(q) BY <2>1, <1>3
    <3>4. CASE q.blocks[1].allowDiscontinuity
      <4>1. queueHasPacketReady(q) /\ o = No(q.blocks[1]) BY <3>4, <1>3, <1>4 DEF queueHasPacketReady, At
      <4>2. ~(newest > No(q.blocks[1]) + Late) BY <4>1, <3>3
      <4>3. newest - o <= Late + 1 + MaxSkipped BY <4>1, <4>2, <1>3, Halves
      <4> QED BY <4>2, <4>3, <1>3, ReachIs
    <3>5. CASE ~q.blocks[1].allowDiscontinuity
      <4>1. giving = 0 BY <3>5
      <4> HIDE DEF giving
      <4>2. /\ newest - o <= Late + 1 + MaxSkipped
            /\ newest > No(q.blocks[1]) + Late => newest - o <= Late + 1 + skipped
        BY <4>1, <3>2, <1>3, Halves
      <4> QED BY <4>2, <3>3, <1>3, ReachIs
    <3> QED BY <3>4, <3>5
  <2>4. QueueAt(o)' BY <2>1, <2>3, <1>2 DEF QueueAt
  <2> QED BY <2>1, <2>2, <2>4, <1>1 DEF AudioInv
<1> QED BY <1>5, <1>6, <1>7

\* Every step of the receive thread preserves the invariant.
LEMMA InvariantHolds == Spec => []AudioInv
<1>1. Init => AudioInv
  <2> SUFFICES ASSUME Init PROVE AudioInv OBVIOUS
  <2>1. RtpaInitializeQueue \in QueueRecord
    <3>1. 0 \in Seq16 BY Halves DEF Seq16
    <3>2. <<>> \in Seq(BlockRecord) OBVIOUS
    <3> QED BY <3>1, <3>2 DEF RtpaInitializeQueue, QueueRecord
  <2>2. 0 \in 0 .. MaxSkipped BY Halves
  <2> QED BY <2>1, <2>2 DEF Init, AudioInv, TypeOK
<1>2. AudioInv /\ [Next]_vars => AudioInv'
  <2> SUFFICES ASSUME AudioInv, [Next]_vars PROVE AudioInv' OBVIOUS
  <2>1. CASE Receive BY <2>1, ReceiveKeeps
  <2>2. CASE GetLost \/ GetPacket \/ GetNothing BY <2>2, DrainKeeps
  <2>3. CASE UNCHANGED vars
    <3>1. \A o \in Nat : QueueAt(o) => QueueAt(o)' BY <2>3 DEF QueueAt, vars
    <3> QED BY <2>3, <3>1 DEF AudioInv, TypeOK, vars
  <2> QED BY <2>1, <2>2, <2>3 DEF Next
<1> QED BY <1>1, <1>2, PTL DEF Spec

-----------------------------------------------------------------------------
\* What follows from the invariant.

\* The queue and its blocks, as the functions of RtpAudioQueue.c leave them, keep
\* their shape: no index of a block is beyond its packets, no number beyond Round.
THEOREM AudioTypeCorrect == Spec => []TypeOK
<1>1. AudioInv => TypeOK BY DEF AudioInv
<1> QED BY <1>1, InvariantHolds, PTL

\* What validateFecBlockState asserts of the list holds whatever is lost, late or sent
\* twice, also where the sequence numbers wrap.
THEOREM AssertionsOfQueue == Spec => []ValidState
<1>1. AudioInv => ValidState
  <2> SUFFICES ASSUME AudioInv PROVE ValidState OBVIOUS
  <2>1. CASE newest = NONE
    <3>1. q = RtpaInitializeQueue BY <2>1 DEF AudioInv
    <3>2. Len(<<>>) = 0 /\ 1 .. 0 - 1 = {} OBVIOUS
    <3> QED BY <3>1, <3>2 DEF ValidState, RtpaInitializeQueue
  <2>2. CASE newest # NONE
    <3>1. TypeOK BY DEF AudioInv
    <3>2. PICK o \in Nat : QueueAt(o) BY <2>2 DEF AudioInv
    <3>3. /\ q \in QueueRecord /\ newest \in Nat /\ newest - o < H /\ o <= newest + 1
          /\ q.blocks # <<>> => /\ No(q.blocks[1]) \in Nat /\ o <= No(q.blocks[1])
                                /\ No(q.blocks[1]) <= newest
      BY <2>2, <3>1, <3>2, StateFacts
    <3>4. Listed(q.blocks) /\ At(q, o, newest) BY <3>2 DEF QueueAt
    <3> DEFINE i == IF q.blocks # <<>> /\ o = No(q.blocks[1]) THEN q.blocks[1].nextDataPacketIndex ELSE 0
    <3>5. i \in Data /\ q.nextSeq = U16(o * DataShards + i) /\ q.oldest = Base(o)
      <4>1. 0 \in Data BY Halves DEF Data
      <4>2. i \in Data BY <4>1, <3>3, <3>4, ListedFacts
      <4>3. q.nextSeq = Base(o) + i
        <5>1. Base(o) + 0 = Base(o) BY BaseFacts
        <5> QED BY <5>1, <3>4 DEF At
      <4> HIDE DEF i
      <4>4. q.nextSeq = U16(o * DataShards + i) BY <4>2, <4>3, WithinBlock
      <4> QED BY <4>2, <4>4, <3>4 DEF At
    <3> HIDE DEF i
    <3>6. ~isBefore16(q.nextSeq, q.oldest)
      <4>1. -H <= o - o /\ o - o < H /\ ~(o < o) BY Halves
      <4> QED BY <4>1, <3>5, SeqBefore
    <3>7. ASSUME q.blocks # <<>>
          PROVE  /\ isBefore16(q.nextSeq, Head(q.blocks).base + DataShards)
                 /\ ~isBefore16(Head(q.blocks).base, q.oldest)
      <4> DEFINE h == No(q.blocks[1])
      <4>1. Head(q.blocks).base = Base(h)
        <5>1. Head(q.blocks) = q.blocks[1] /\ 1 \in 1 .. Len(q.blocks) BY <3>3, <3>4, <3>7, ListedFacts
        <5> QED BY <5>1, <3>3, <3>4, ListedFacts
      <4>2. h \in Nat /\ o <= h /\ h <= newest BY <3>3, <3>7
      <4> HIDE DEF h
      <4>3. h - o < H /\ -H < o - h /\ o - h <= H /\ -H <= h - o BY <4>2, <3>3, Halves
      <4>4. isBefore16(q.nextSeq, Base(h) + DataShards) BY <4>2, <4>3, <3>5, EndAfter
      <4>5. ~isBefore16(Base(h), Base(o)) BY <4>2, <4>3, BaseBefore
      <4> QED BY <4>1, <4>4, <4>5, <3>5
    <3>8. \A k \in 1 .. Len(q.blocks) - 1 : isBefore16(q.blocks[k].base, q.blocks[k + 1].base)
      <4> TAKE k \in 1 .. Len(q.blocks) - 1
      <4>1. Len(q.blocks) \in Nat BY <3>3, <3>4, ListedFacts
      <4>2. k \in 1 .. Len(q.blocks) /\ k + 1 \in 1 .. Len(q.blocks) /\ k < k + 1 BY <4>1
      <4> DEFINE c == No(q.blocks[k])
                 d == No(q.blocks[k + 1])
      <4>3. c \in Nat /\ d \in Nat /\ q.blocks[k].base = Base(c) /\ q.blocks[k + 1].base = Base(d)
        BY <4>2, <3>3, <3>4, ListedFacts
      <4>4. c < d BY <4>2, <3>4 DEF Listed
      <4>5. No(q.blocks[1]) <= c /\ d <= No(q.blocks[Len(q.blocks)]) BY <4>2, <3>3, <3>4, ListedEnds
      <4>6. q.blocks # <<>>
        <5>1. Len(q.blocks) >= 1 BY <4>1, <4>2
        <5> QED BY <5>1, <3>3, <3>4, ListedFacts
      <4>7. No(q.blocks[Len(q.blocks)]) = newest BY <4>6, <3>4 DEF At
      <4> HIDE DEF c, d
      <4>8. d - c < H BY <4>3, <4>5, <4>6, <4>7, <3>3, Halves
      <4>9. -H <= c - d /\ c - d < H BY <4>3, <4>4, <4>8, Halves
      <4> QED BY <4>3, <4>4, <4>9, BaseBefore
    <3> QED BY <3>6, <3>7, <3>8 DEF ValidState
  <2> QED BY <2>1, <2>2
<1> QED BY <1>1, InvariantHolds, PTL

\* While it waits for a packet, the queue is behind the newest block by no more than
\* what is late, one block and those the stream passed over: handleMissingPackets
\* gives up what does not come.
THEOREM QueueCatchesUp == Spec => []WaitIsBounded
<1>1. AudioInv => WaitIsBounded
  <2> SUFFICES ASSUME AudioInv, pc = "receiving", q.blocks # <<>>
               PROVE  newest <= headBlock + Late + 1 + skipped
    BY DEF WaitIsBounded
  <2>1. newest # NONE BY DEF AudioInv, RtpaInitializeQueue
  <2>2. TypeOK BY DEF AudioInv
  <2>3. PICK o \in Nat : QueueAt(o) BY <2>1 DEF AudioInv
  <2>4. /\ newest \in Nat /\ skipped \in 0 .. MaxSkipped
        /\ No(q.blocks[1]) \in Nat /\ o <= No(q.blocks[1]) /\ q \in QueueRecord
    BY <2>1, <2>2, <2>3, StateFacts
  <2>5. headBlock = No(q.blocks[1])
    <3>1. Head(q.blocks) = q.blocks[1] BY <2>3, <2>4, ListedFacts DEF QueueAt
    <3> QED BY <3>1 DEF headBlock, No
  <2>6. newest > No(q.blocks[1]) + Late => newest - o <= Late + 1 + skipped
    <3>1. InReach(q, o, newest, skipped, "receiving") BY <2>3 DEF QueueAt
    <3>2. skipped \in Nat BY <2>4, Halves
    <3> QED BY <3>1, <3>2, <2>4, ReachIs
  <2>7. skipped \in Nat BY <2>4, Halves
  <2> QED BY <2>4, <2>5, <2>6, <2>7, Halves
<1> QED BY <1>1, InvariantHolds, PTL

-----------------------------------------------------------------------------
(* What the queue holds, as the numbers of the host. *)

\* The packet of block o that is due, and the packets that wait.
Idx(u, o) == IF u.blocks # <<>> /\ o = No(u.blocks[1]) THEN u.blocks[1].nextDataPacketIndex ELSE 0

\* Packet n of the host waits in the list.
Holds(u, n) ==
  \E k \in 1 .. Len(u.blocks), j \in Data :
    /\ j >= u.blocks[k].nextDataPacketIndex /\ u.blocks[k].shard[j] # NONE
    /\ n = No(u.blocks[k]) * DataShards + j

LEMMA IdxFacts ==
  ASSUME NEW u \in QueueRecord, Listed(u.blocks), NEW o \in Nat, NEW new, At(u, o, new)
  PROVE  Idx(u, o) \in Data /\ u.nextSeq = Base(o) + Idx(u, o) /\ u.nextSeq = U16(o * DataShards + Idx(u, o))
<1>1. 0 \in Data BY Halves DEF Data
<1>2. Idx(u, o) \in Data BY <1>1, ListedFacts DEF Idx
<1>3. u.nextSeq = Base(o) + Idx(u, o)
  <2>1. Base(o) + 0 = Base(o) BY BaseFacts
  <2> QED BY <2>1 DEF At, Idx
<1> QED BY <1>2, <1>3, WithinBlock

\* A number is read on the wire in one way only.
LEMMA ReadOnce ==
  ASSUME NEW a \in Int, NEW n \in a .. a + Round - 1, NEW m \in a .. a + Round - 1, U16(n) = U16(m)
  PROVE  n = m
<1>1. Round \in Nat \ {0} /\ n \in Int /\ m \in Int BY Halves
<1> DEFINE j == n \div Round
           k == m \div Round
           r == n % Round
           t == m % Round
<1>2. r \in 0 .. Round - 1 /\ j \in Int /\ n = Round * j + r BY <1>1, ModRange
<1>3. t \in 0 .. Round - 1 /\ k \in Int /\ m = Round * k + t BY <1>1, ModRange
<1>4. r = t BY DEF U16
<1>5. n - m < Round /\ m - n < Round BY <1>1
<1> HIDE DEF j, k, r, t
<1>6. ~(j < k)
  <2> SUFFICES ASSUME j < k PROVE FALSE OBVIOUS
  <2>1. Round * j \in Int /\ Round * k \in Int /\ Round * j + Round <= Round * k BY <1>1, <1>2, <1>3, Multiple
  <2> QED BY <2>1, <1>1, <1>2, <1>3, <1>4, <1>5
<1>7. ~(k < j)
  <2> SUFFICES ASSUME k < j PROVE FALSE OBVIOUS
  <2>1. Round * j \in Int /\ Round * k \in Int /\ Round * k + Round <= Round * j BY <1>1, <1>2, <1>3, Multiple
  <2> QED BY <2>1, <1>1, <1>2, <1>3, <1>4, <1>5
<1>8. j = k BY <1>2, <1>3, <1>6, <1>7
<1> QED BY <1>2, <1>3, <1>4, <1>8

\* The numbers of one block are before those of the next.
LEMMA InOrder ==
  ASSUME NEW b \in Nat, NEW c \in Nat, NEW i \in Data, NEW j \in Data
  PROVE  /\ b * DataShards + i \in Nat /\ c * DataShards + j \in Nat
         /\ b < c => b * DataShards + i < c * DataShards + j
         /\ b * DataShards + i = c * DataShards + j => b = c /\ i = j
<1>1. DataShards \in Nat \ {0} /\ i \in 0 .. DataShards - 1 /\ j \in 0 .. DataShards - 1 BY Halves DEF Data
<1>2. /\ b * DataShards \in Nat /\ c * DataShards \in Nat
      /\ b * DataShards = DataShards * b /\ c * DataShards = DataShards * c
  BY <1>1
<1>3. b < c => DataShards * b + DataShards <= DataShards * c BY <1>1, Multiple
<1>4. c < b => DataShards * c + DataShards <= DataShards * b BY <1>1, Multiple
<1> DEFINE m == b * DataShards
           n == c * DataShards
<1>5. m \in Nat /\ n \in Nat /\ (b < c => m + DataShards <= n) /\ (c < b => n + DataShards <= m)
  BY <1>2, <1>3, <1>4
<1> HIDE DEF m, n
<1>6. m + i \in Nat /\ n + j \in Nat /\ (b < c => m + i < n + j) /\ (c < b => n + j < m + i)
  BY <1>1, <1>5
<1>7. m + i = n + j => ~(b < c) /\ ~(c < b) BY <1>6
<1>8. m + i = n + j => b = c BY <1>7
<1>9. b = c => m = n BY DEF m, n
<1>10. m + i = n + j => i = j BY <1>1, <1>5, <1>8, <1>9
<1> QED BY <1>6, <1>8, <1>10 DEF m, n

LEMMA SamePacket ==
  ASSUME NEW b \in Nat, NEW c \in Nat, NEW i \in Data, NEW j \in Data,
         b * DataShards + i = c * DataShards + j
  PROVE  b = c /\ i = j
BY InOrder

\* The next number of the queue is that of the packet it waits for.
LEMMA NextIs ==
  ASSUME NEW u \in QueueRecord, Listed(u.blocks), NEW o \in Nat, NEW new \in Nat, At(u, o, new),
         new - o < H, o <= new + 1
  PROVE  (CHOOSE n \in (new * DataShards - Round \div 2) .. (new * DataShards + Round \div 2 - 1) :
            U16(n) = u.nextSeq) = o * DataShards + Idx(u, o)
<1> DEFINE D == DataShards
           x == new * D
           y == o * D + Idx(u, o)
           half == Round \div 2
           window == x - half .. x + half - 1
<1>1. /\ D \in Nat \ {0} /\ H \in Nat \ {0} /\ H >= 3 /\ D * H \in Nat \ {0} /\ Round = 2 * (D * H)
      /\ Idx(u, o) \in 0 .. D - 1 /\ u.nextSeq = U16(y)
  BY Halves, IdxFacts DEF Data
<1>2. half = D * H BY <1>1
<1>3. y \in window
  <2>1. D * o \in Int /\ D * new \in Int /\ o * D = D * o /\ x = D * new BY <1>1
  <2>2. D * new - D * H <= D * o
    <3>1. D * (new - H) = D * new - D * H BY <1>1
    <3>2. D * (new - H) <= D * o
      <4>1. new - H <= o /\ new - H \in Int BY <1>1
      <4> QED BY <4>1, InBlocks
    <3> QED BY <3>1, <3>2
  <2>3. D * o + D <= D * new + D * H
    <3>1. D * (new + H) = D * new + D * H BY <1>1
    <3>2. o < new + H /\ new + H \in Int BY <1>1
    <3>3. D * o + D <= D * (new + H) BY <1>1, <3>2, Multiple
    <3> QED BY <3>1, <3>3
  <2> DEFINE a == D * o
             b == D * new
             c == D * H
  <2>4. a \in Int /\ b \in Int /\ c \in Int /\ b - c <= a /\ a + D <= b + c BY <1>1, <2>1, <2>2, <2>3
  <2>5. y = a + Idx(u, o) /\ x = b /\ half = c BY <1>2, <2>1
  <2> HIDE DEF a, b, c, x, y, half
  <2>6. y \in Int /\ x - half <= y /\ y <= x + half - 1 BY <1>1, <2>4, <2>5
  <2>7. x \in Int /\ half \in Int BY <2>4, <2>5
  <2> QED BY <2>6, <2>7
<1>4. \A n \in window : U16(n) = u.nextSeq => n = y
  <2> TAKE n \in window
  <2> HAVE U16(n) = u.nextSeq
  <2>1. x \in Int /\ half \in Int /\ Round = half + half
    <3>1. x \in Int BY <1>1
    <3> QED BY <3>1, <1>1, <1>2
  <2>2. U16(n) = U16(y) BY <1>1
  <2> HIDE DEF x, y, half
  <2>3. /\ x - half \in Int /\ n \in x - half .. (x - half) + Round - 1
        /\ y \in x - half .. (x - half) + Round - 1
    BY <2>1, <1>3
  <2> QED BY <2>2, <2>3, ReadOnce
<1>5. window = (new * DataShards - Round \div 2) .. (new * DataShards + Round \div 2 - 1) OBVIOUS
<1> HIDE DEF y, window
<1>6. (CHOOSE n \in window : U16(n) = u.nextSeq) = y BY <1>1, <1>3, <1>4
<1> QED BY <1>5, <1>6 DEF y

\* What is waiting comes after what is due.
LEMMA HeldAfterDue ==
  ASSUME NEW u \in QueueRecord, Listed(u.blocks), NEW o \in Nat, NEW new \in Nat, At(u, o, new),
         NEW n, Holds(u, n)
  PROVE  n \in Nat /\ n >= o * DataShards + Idx(u, o)
<1>1. PICK k \in 1 .. Len(u.blocks), j \in Data :
        /\ j >= u.blocks[k].nextDataPacketIndex /\ u.blocks[k].shard[j] # NONE
        /\ n = No(u.blocks[k]) * DataShards + j
  BY DEF Holds
<1> DEFINE c == No(u.blocks[k])
           i == Idx(u, o)
<1>2. c \in Nat /\ Len(u.blocks) \in Nat /\ No(u.blocks[1]) <= c /\ (k # 1 => No(u.blocks[1]) < c)
      /\ No(u.blocks[1]) \in Nat
  <2>1. 1 \in 1 .. Len(u.blocks)
    <3>1. Len(u.blocks) \in Nat BY ListedFacts
    <3> QED BY <3>1
  <2> QED BY <2>1, ListedFacts, ListedEnds
<1>3. u.blocks # <<>>
  <2>1. Len(u.blocks) >= 1 BY <1>2
  <2> QED BY <2>1, ListedFacts
<1>4. o <= No(u.blocks[1]) BY <1>3 DEF At
<1>5. i \in Data BY IdxFacts
<1> HIDE DEF i
<1>6. n \in Nat /\ o * DataShards + i \in Nat /\ (o < c => o * DataShards + i < n) BY <1>1, <1>2, <1>5, InOrder
<1>9. \A x, y \in Nat : x < y => y >= x OBVIOUS
<1>7. CASE o < c BY <1>6, <1>7, <1>9 DEF i
<1>8. CASE ~(o < c)
  <2>1. o = c /\ o = No(u.blocks[1]) /\ k = 1 BY <1>2, <1>4, <1>8
  <2>2. i = u.blocks[1].nextDataPacketIndex BY <2>1, <1>3 DEF i, Idx
  <2>3. j >= i BY <2>1, <2>2, <1>1
  <2>4. o * DataShards \in Nat /\ i \in Nat /\ j \in Nat BY Halves, <1>5 DEF Data
  <2>5. n = o * DataShards + j BY <2>1, <1>1
  <2>6. \A x, y, z \in Nat : y >= z => x + y >= x + z OBVIOUS
  <2> QED BY <2>3, <2>4, <2>5, <2>6, <1>6 DEF i
<1> QED BY <1>6, <1>7, <1>8 DEF i

\* The packets that wait, as the refinement mapping says it of q.
WaitingOf(u) ==
  UNION {{u.blocks[k].shard[i] * DataShards + i :
            i \in {j \in Data : j >= u.blocks[k].nextDataPacketIndex /\ u.blocks[k].shard[j] # NONE}} :
         k \in DOMAIN u.blocks}

LEMMA WaitingIs ==
  ASSUME NEW u \in QueueRecord, Listed(u.blocks)
  PROVE  WaitingOf(u) = {n \in Nat : Holds(u, n)}
<1>1. DOMAIN u.blocks = 1 .. Len(u.blocks) BY DEF QueueRecord
<1>2. \A k \in 1 .. Len(u.blocks), j \in Data :
        u.blocks[k].shard[j] # NONE => u.blocks[k].shard[j] = No(u.blocks[k])
  <2>1. Data \subseteq Shards BY Halves, AudioAssumption DEF Data, Shards
  <2> QED BY <2>1, ListedFacts DEF Of
<1>3. \A n : n \in WaitingOf(u) <=> Holds(u, n)
  <2> TAKE n
  <2>1. n \in WaitingOf(u) <=>
          \E k \in 1 .. Len(u.blocks), j \in Data :
            /\ j >= u.blocks[k].nextDataPacketIndex /\ u.blocks[k].shard[j] # NONE
            /\ n = u.blocks[k].shard[j] * DataShards + j
    BY <1>1 DEF WaitingOf
  <2> QED BY <1>2, <2>1 DEF Holds
<1>4. \A n : Holds(u, n) => n \in Nat
  <2> TAKE n
  <2> HAVE Holds(u, n)
  <2>1. PICK k \in 1 .. Len(u.blocks), j \in Data : n = No(u.blocks[k]) * DataShards + j BY DEF Holds
  <2>2. No(u.blocks[k]) \in Nat BY ListedFacts
  <2> QED BY <2>1, <2>2, InOrder
<1> QED BY <1>3, <1>4

\* The packet that is due is handed out or passed over: the rest waits on.
LEMMA AdvanceHolds ==
  ASSUME NEW u \in QueueRecord, Listed(u.blocks), NEW o \in Nat, NEW new \in Nat, At(u, o, new),
         u.blocks # <<>>, o = No(u.blocks[1]), NEW n
  PROVE  Holds(Advance(u), n) <=>
           Holds(u, n) /\ n # o * DataShards + u.blocks[1].nextDataPacketIndex
<1> DEFINE bs == u.blocks
           i == bs[1].nextDataPacketIndex
           v == Advance(u)
           due == o * DataShards + i
           H1(k, j) == /\ j >= bs[k].nextDataPacketIndex /\ bs[k].shard[j] # NONE
                       /\ n = No(bs[k]) * DataShards + j
<1>1. /\ 1 \in 1 .. Len(bs) /\ i \in Data /\ bs \in Seq(BlockRecord) /\ Len(bs) \in Nat
      /\ \A k \in 1 .. Len(bs) : bs[k] \in BlockRecord /\ No(bs[k]) \in Nat
      /\ \A k \in 2 .. Len(bs) : k \in 1 .. Len(bs)
  BY ListedFacts
<1>2. /\ i + 1 = DataShards => v.blocks = Tail(bs)
      /\ i + 1 # DataShards => v.blocks = [bs EXCEPT ![1].nextDataPacketIndex = @ + 1]
  BY AdvanceFacts
<1>3. Holds(u, n) <=> \E k \in 1 .. Len(bs), j \in Data : H1(k, j) BY DEF Holds
<1>4. \A k \in 2 .. Len(bs), j \in Data : H1(k, j) => n # due
  <2> SUFFICES ASSUME NEW k \in 2 .. Len(bs), NEW j \in Data, H1(k, j) PROVE n # due OBVIOUS
  <2>1. o < No(bs[k])
    <3>1. k # 1 /\ k \in 1 .. Len(bs) BY <1>1
    <3> QED BY <3>1, ListedEnds
  <2>2. No(bs[k]) \in Nat BY <1>1
  <2>3. o # No(bs[k]) BY <2>1, <2>2
  <2>4. n = No(bs[k]) * DataShards + j OBVIOUS
  <2> HIDE DEF H1, i
  <2> QED BY <2>2, <2>3, <2>4, <1>1, SamePacket DEF due
<1>5. \A j \in Data : H1(1, j) => (n = due <=> j = i)
  <2> SUFFICES ASSUME NEW j \in Data, H1(1, j) PROVE n = due <=> j = i OBVIOUS
  <2>1. n = o * DataShards + j OBVIOUS
  <2> HIDE DEF H1, i
  <2> QED BY <2>1, <1>1, SamePacket DEF due
<1>6. /\ i \in 0 .. DataShards - 1 /\ DataShards \in Nat
      /\ \A k : k \in 1 .. Len(bs) <=> k = 1 \/ k \in 2 .. Len(bs)
  <2>1. \A m \in Nat : 1 \in 1 .. m => \A k : k \in 1 .. m <=> k = 1 \/ k \in 2 .. m OBVIOUS
  <2>2. i \in 0 .. DataShards - 1 /\ DataShards \in Nat BY <1>1, Halves DEF Data
  <2> QED BY <2>1, <2>2, <1>1
<1>7. CASE i + 1 = DataShards
  <2>1. \A k \in 1 .. Len(Tail(bs)) : k + 1 \in 2 .. Len(bs) /\ Tail(bs)[k] = bs[k + 1] BY <1>1
  <2>2. \A k \in 2 .. Len(bs) : k - 1 \in 1 .. Len(Tail(bs)) /\ Tail(bs)[k - 1] = bs[k]
    <3> TAKE k \in 2 .. Len(bs)
    <3>1. Len(Tail(bs)) = Len(bs) - 1 /\ k - 1 \in 1 .. Len(bs) - 1 /\ (k - 1) + 1 = k BY <1>1
    <3> QED BY <3>1, <2>1
  <2>3. Holds(v, n) <=> \E k \in 1 .. Len(Tail(bs)), j \in Data :
                          /\ j >= Tail(bs)[k].nextDataPacketIndex /\ Tail(bs)[k].shard[j] # NONE
                          /\ n = No(Tail(bs)[k]) * DataShards + j
    BY <1>2, <1>7 DEF Holds
  <2>6. ASSUME Holds(v, n) PROVE \E k \in 2 .. Len(bs), j \in Data : H1(k, j)
    <3>1. PICK k \in 1 .. Len(Tail(bs)), j \in Data :
            /\ j >= Tail(bs)[k].nextDataPacketIndex /\ Tail(bs)[k].shard[j] # NONE
            /\ n = No(Tail(bs)[k]) * DataShards + j
      BY <2>3, <2>6
    <3>2. k + 1 \in 2 .. Len(bs) /\ Tail(bs)[k] = bs[k + 1] BY <2>1
    <3>3. H1(k + 1, j) BY <3>1, <3>2
    <3> HIDE DEF H1
    <3> QED BY <3>2, <3>3
  <2>7. ASSUME NEW k \in 2 .. Len(bs), NEW j \in Data, H1(k, j) PROVE Holds(v, n)
    <3>1. k - 1 \in 1 .. Len(Tail(bs)) /\ Tail(bs)[k - 1] = bs[k] BY <2>2
    <3>2. /\ j >= Tail(bs)[k - 1].nextDataPacketIndex /\ Tail(bs)[k - 1].shard[j] # NONE
          /\ n = No(Tail(bs)[k - 1]) * DataShards + j
      BY <3>1, <2>7
    <3> QED BY <3>1, <3>2, <2>3
  <2>4. Holds(v, n) <=> \E k \in 2 .. Len(bs), j \in Data : H1(k, j)
    <3> HIDE DEF H1
    <3> QED BY <2>6, <2>7
  <2>5. \A j \in Data : H1(1, j) => j = i
    <3> SUFFICES ASSUME NEW j \in Data, j >= i PROVE j = i OBVIOUS
    <3> QED BY <1>6, <1>7 DEF Data
  <2> HIDE DEF H1, due, i
  <2> QED BY <2>4, <2>5, <1>3, <1>4, <1>5, <1>6 DEF due, i
<1>8. CASE i + 1 # DataShards
  <2> DEFINE cs == [bs EXCEPT ![1].nextDataPacketIndex = @ + 1]
             blk == [bs[1] EXCEPT !.nextDataPacketIndex = i + 1]
  <2>1. /\ Len(cs) = Len(bs) /\ cs[1] = blk /\ \A k \in 2 .. Len(bs) : cs[k] = bs[k]
    <3>1. blk \in BlockRecord
      <4>1. i + 1 \in Data BY <1>1, <1>8, NextNumber
      <4> QED BY <4>1, <1>1 DEF BlockRecord
    <3>2. cs = [bs EXCEPT ![1] = blk] OBVIOUS
    <3>3. DOMAIN bs = 1 .. Len(bs) BY <1>1
    <3> HIDE DEF blk, cs
    <3>4. Len(cs) = Len(bs) /\ cs[1] = blk BY <3>1, <3>2, <1>1
    <3>5. \A k \in 2 .. Len(bs) : k # 1 OBVIOUS
    <3> QED BY <3>2, <3>3, <3>4, <3>5, <1>1
  <2>2. blk.nextDataPacketIndex = i + 1 /\ blk.shard = bs[1].shard BY <1>1 DEF BlockRecord
  <2>3. No(blk) = No(bs[1]) BY <2>2 DEF No, Received
  <2>4. Holds(v, n) <=> \E k \in 1 .. Len(cs), j \in Data :
                          /\ j >= cs[k].nextDataPacketIndex /\ cs[k].shard[j] # NONE
                          /\ n = No(cs[k]) * DataShards + j
    BY <1>2, <1>8 DEF Holds
  <2> HIDE DEF cs, blk
  <2>5. Holds(v, n) <=> \/ \E k \in 2 .. Len(bs), j \in Data : H1(k, j)
                        \/ \E j \in Data : /\ j >= i + 1 /\ bs[1].shard[j] # NONE
                                           /\ n = No(bs[1]) * DataShards + j
    BY <2>1, <2>2, <2>3, <2>4, <1>6
  <2>6. \A j \in Data : j >= i + 1 <=> j >= i /\ j # i BY <1>6 DEF Data
  <2>7. Holds(v, n) <=> \/ \E k \in 2 .. Len(bs), j \in Data : H1(k, j)
                        \/ \E j \in Data : H1(1, j) /\ j # i
    BY <2>5, <2>6
  <2> HIDE DEF H1, due, i
  <2> QED BY <2>7, <1>3, <1>4, <1>5, <1>6 DEF due, i
<1> QED BY <1>7, <1>8

\* No packet leaves the list when others come in.
LEMMA FilledHolds ==
  ASSUME NEW u \in QueueRecord, NEW v, NEW k, NEW b, Listed(u.blocks), Filled(u.blocks, v.blocks, k, b),
         No(v.blocks[k]) = b, NEW n, Holds(u, n)
  PROVE  Holds(v, n)
<1> DEFINE bs == u.blocks
           cs == v.blocks
<1>1. PICK x \in 1 .. Len(bs), j \in Data :
        /\ j >= bs[x].nextDataPacketIndex /\ bs[x].shard[j] # NONE
        /\ n = No(bs[x]) * DataShards + j
  BY DEF Holds
<1>2. Data \subseteq Shards BY Halves, AudioAssumption DEF Data, Shards
<1>3. Len(bs) \in Nat /\ Len(cs) \in Nat /\ k \in 1 .. Len(cs) BY ListedFacts DEF Filled
<1>4. \E y \in 1 .. Len(cs) : /\ No(cs[y]) = No(bs[x])
                              /\ cs[y].nextDataPacketIndex = bs[x].nextDataPacketIndex
                              /\ cs[y].shard[j] = bs[x].shard[j]
  <2>1. CASE Len(cs) = Len(bs)
    <3>1. /\ No(bs[k]) = b /\ Grown(bs[k], cs[k])
          /\ \A y \in 1 .. Len(bs) : y # k => cs[y] = bs[y]
      BY <2>1, <1>3 DEF Filled
    <3>2. CASE x = k BY <3>1, <3>2, <1>1, <1>2, <1>3 DEF Grown
    <3>3. CASE x # k BY <3>1, <3>3, <2>1, <1>1
    <3> QED BY <3>2, <3>3
  <2>2. CASE Len(cs) # Len(bs)
    <3>1. /\ Len(cs) = Len(bs) + 1
          /\ IF x < k THEN cs[x] = bs[x] ELSE cs[x + 1] = bs[x]
      BY <2>2 DEF Filled
    <3>2. x \in 1 .. Len(cs) /\ x + 1 \in 1 .. Len(cs) BY <3>1, <1>3
    <3> QED BY <3>1, <3>2
  <2> QED BY <2>1, <2>2
<1> QED BY <1>1, <1>4 DEF Holds

LEMMA HandleMissingHolds ==
  ASSUME NEW u \in QueueRecord, u.blocks # <<>>, Listed(u.blocks), NEW w,
         w.blocks = u.blocks \/ w.blocks = [u.blocks EXCEPT ![1].allowDiscontinuity = TRUE],
         NEW n, Holds(u, n)
  PROVE  Holds(w, n)
<1>1. CASE w.blocks = u.blocks BY <1>1 DEF Holds
<1>2. CASE w.blocks = [u.blocks EXCEPT ![1].allowDiscontinuity = TRUE]
  <2> DEFINE bs == u.blocks
             blk == [bs[1] EXCEPT !.allowDiscontinuity = TRUE]
             cs == [bs EXCEPT ![1].allowDiscontinuity = TRUE]
  <2>1. bs \in Seq(BlockRecord) /\ 1 \in 1 .. Len(bs) /\ bs[1] \in BlockRecord /\ Len(bs) \in Nat BY ListedFacts
  <2>2. cs = [bs EXCEPT ![1] = blk] OBVIOUS
  <2>3. blk \in BlockRecord /\ blk.nextDataPacketIndex = bs[1].nextDataPacketIndex /\ blk.shard = bs[1].shard
    BY <2>1 DEF BlockRecord
  <2>4. No(blk) = No(bs[1]) BY <2>3 DEF No, Received
  <2>5. DOMAIN bs = 1 .. Len(bs) BY <2>1
  <2> HIDE DEF blk, cs, bs
  <2>6. Len(cs) = Len(bs) /\ \A k \in 1 .. Len(bs) : cs[k] = IF k = 1 THEN blk ELSE bs[k]
    <3>1. Len(cs) = Len(bs) BY <2>1, <2>2, <2>3
    <3> QED BY <3>1, <2>1, <2>2, <2>5
  <2>7. \A k \in 1 .. Len(bs) : /\ No(cs[k]) = No(bs[k]) /\ cs[k].shard = bs[k].shard
                                /\ cs[k].nextDataPacketIndex = bs[k].nextDataPacketIndex
    BY <2>3, <2>4, <2>6
  <2>8. w.blocks = cs /\ u.blocks = bs BY <1>2 DEF cs, bs
  <2> QED BY <2>6, <2>7, <2>8 DEF Holds
<1> QED BY <1>1, <1>2

-----------------------------------------------------------------------------
(* Each step hands out what the reorder buffer does. *)

\* The packet that is due, as the refinement mapping says it.
Due == IF Starting THEN 0 ELSE Unwrapped(q.nextSeq)

LEMMA DueIs ==
  ASSUME NEW u \in QueueRecord, Listed(u.blocks), NEW o \in Nat, NEW new \in Nat, At(u, o, new),
         new - o < H, o <= new + 1, ~(u.synchronizing /\ u.oldest = 0)
  PROVE  (IF u.synchronizing /\ u.oldest = 0 THEN 0
          ELSE CHOOSE n \in (new * DataShards - Round \div 2) .. (new * DataShards + Round \div 2 - 1) :
                 U16(n) = u.nextSeq) = o * DataShards + Idx(u, o)
BY NextIs

LEMMA HasBegun ==
  ASSUME NEW u, NEW o \in Nat, NEW new, At(u, o, new), Begins(u, o, new)
  PROVE  ~(u.synchronizing /\ u.oldest = 0)
<1> SUFFICES ASSUME u.synchronizing PROVE u.oldest # 0 OBVIOUS
<1>1. PICK f \in FirstBlocks : o \in f + 1 .. f + 1 + MaxSkipped BY DEF Begins
<1>2. (o * DataShards) % Round # 0 BY <1>1, FirstBlocksAssumption
<1> QED BY <1>2 DEF At, Base, U16

LEMMA DueNow ==
  ASSUME TypeOK, newest # NONE, NEW o \in Nat, QueueAt(o)
  PROVE  /\ Due = o * DataShards + Idx(q, o) /\ Due \in Nat
         /\ Waiting = {n \in Nat : Holds(q, n)} /\ \A n : Holds(q, n) => n \in Nat /\ n >= Due
<1>1. /\ q \in QueueRecord /\ newest \in Nat /\ newest - o < H /\ o <= newest + 1
      /\ Listed(q.blocks) /\ At(q, o, newest) /\ Begins(q, o, newest)
  BY StateFacts DEF QueueAt
<1>2. ~(q.synchronizing /\ q.oldest = 0) BY <1>1, HasBegun
<1>3. Due = o * DataShards + Idx(q, o) BY <1>1, <1>2, DueIs DEF Due, Starting, Unwrapped
<1>4. Due \in Nat
  <2>1. Idx(q, o) \in Data BY <1>1, IdxFacts
  <2> QED BY <2>1, <1>3, InOrder
<1>5. Waiting = WaitingOf(q) BY DEF Waiting, WaitingOf
<1>6. \A n : Holds(q, n) => n \in Nat /\ n >= Due BY <1>1, <1>3, HeldAfterDue
<1> QED BY <1>1, <1>3, <1>4, <1>5, <1>6, WaitingIs

LEMMA DueNext ==
  ASSUME q' \in QueueRecord, newest' \in Nat, newest' # NONE, NEW p \in Nat, Listed(q'.blocks), At(q', p, newest'),
         newest' - p < H, p <= newest' + 1, \E r \in Nat : QueueAt(r)'
  PROVE  /\ Due' = p * DataShards + Idx(q', p) /\ Due' \in Nat
         /\ Waiting' = {n \in Nat : Holds(q', n)} /\ \A n : Holds(q', n) => n \in Nat /\ n >= Due'
<1>1. ~(q'.synchronizing /\ q'.oldest = 0)
  <2>1. PICK r \in Nat : QueueAt(r)' OBVIOUS
  <2>2. At(q', r, newest') /\ Begins(q', r, newest') BY <2>1 DEF QueueAt
  <2> QED BY <2>2, HasBegun
<1>2. Due' = p * DataShards + Idx(q', p) BY <1>1, DueIs DEF Due, Starting, Unwrapped
<1>3. Due' \in Nat
  <2>1. Idx(q', p) \in Data BY IdxFacts
  <2> QED BY <2>1, <1>2, InOrder
<1>4. Waiting' = WaitingOf(q') BY DEF Waiting, WaitingOf
<1>5. \A n : Holds(q', n) => n \in Nat /\ n >= Due' BY <1>2, HeldAfterDue
<1> QED BY <1>2, <1>3, <1>4, <1>5, WaitingIs

\* The number due after that of packet i of block o.
LEMMA AdvanceDue ==
  ASSUME NEW u \in QueueRecord, Listed(u.blocks), NEW o \in Nat, NEW new \in Nat, At(u, o, new),
         u.blocks # <<>>, o = No(u.blocks[1]), new - o < H
  PROVE  \E p \in Nat : /\ At(Advance(u), p, new) /\ p <= new + 1 /\ new - p < H
                        /\ p * DataShards + Idx(Advance(u), p) =
                             o * DataShards + u.blocks[1].nextDataPacketIndex + 1
<1> DEFINE i == u.blocks[1].nextDataPacketIndex
           v == Advance(u)
<1>1. /\ v \in QueueRecord /\ Listed(v.blocks)
      /\ v.nextSeq = IF i + 1 = DataShards THEN Base(o + 1) ELSE Base(o) + (i + 1)
      /\ i + 1 = DataShards => At(v, o + 1, new)
      /\ i + 1 # DataShards => At(v, o, new)
  BY AdvanceFacts
<1>2. i \in Data /\ o <= new
  <2>1. 1 \in 1 .. Len(u.blocks) /\ Len(u.blocks) \in 1 .. Len(u.blocks) BY ListedFacts
  <2> QED BY <2>1, ListedFacts, ListedEnds DEF At
<1>3. i \in 0 .. DataShards - 1 /\ DataShards \in Nat BY <1>2, Halves DEF Data
<1> HIDE DEF v, i
<1>4. CASE i + 1 = DataShards
  <2>1. At(v, o + 1, new) BY <1>1, <1>4
  <2>2. Idx(v, o + 1) \in Nat /\ v.nextSeq = Base(o + 1) + Idx(v, o + 1)
    <3>1. Idx(v, o + 1) \in Data /\ v.nextSeq = Base(o + 1) + Idx(v, o + 1) BY <1>1, <2>1, IdxFacts
    <3> QED BY <3>1, Halves DEF Data
  <2>3. Base(o + 1) \in Int BY BaseFacts
  <2>4. Idx(v, o + 1) = 0 BY <2>2, <2>3, <1>1, <1>4
  <2>5. (o + 1) * DataShards = o * DataShards + DataShards /\ o * DataShards \in Nat BY <1>3
  <2>6. (o + 1) * DataShards + 0 = o * DataShards + i + 1
    <3> DEFINE m == o * DataShards
               x == (o + 1) * DataShards
    <3>1. m \in Nat /\ x = m + DataShards BY <2>5
    <3> HIDE DEF m, x
    <3>2. x + 0 = m + i + 1 BY <3>1, <1>3, <1>4
    <3> QED BY <3>2 DEF m, x
  <2>7. o + 1 \in Nat /\ o + 1 <= new + 1 /\ new - (o + 1) < H BY <1>2, Halves
  <2> QED BY <2>1, <2>4, <2>6, <2>7 DEF v, i
<1>5. CASE i + 1 # DataShards
  <2>1. At(v, o, new) BY <1>1, <1>5
  <2>2. Idx(v, o) \in Nat /\ v.nextSeq = Base(o) + Idx(v, o)
    <3>1. Idx(v, o) \in Data /\ v.nextSeq = Base(o) + Idx(v, o) BY <1>1, <2>1, IdxFacts
    <3> QED BY <3>1, Halves DEF Data
  <2>3. Base(o) \in Int BY BaseFacts
  <2>4. Idx(v, o) = i + 1 BY <2>2, <2>3, <1>1, <1>3, <1>5
  <2>5. o * DataShards \in Nat BY <1>3
  <2>6. o * DataShards + Idx(v, o) = o * DataShards + i + 1 BY <2>4, <2>5, <1>3
  <2>7. o <= new + 1 BY <1>2
  <2> QED BY <2>1, <2>6, <2>7 DEF v, i
<1> QED BY <1>4, <1>5

\* A packet that is not due joins those that wait, and numbers may be passed over.
LEMMA EnqueueAfter ==
  ASSUME TypeOK, newest # NONE, NEW o \in Nat, QueueAt(o), pc = "receiving", ~q.incompatibleServer,
         NEW b \in Block, b \in newest - Late .. newest + 1 + MaxSkipped - NotCaughtUp,
         NEW s \in Shards, NEW overdue \in Overdue, Enqueue(b, s, overdue),
         newest' = (IF b > newest THEN b ELSE newest)
  PROVE  /\ q' \in QueueRecord /\ Listed(q'.blocks) /\ newest' \in Nat /\ ~q'.incompatibleServer
         /\ \E p \in Nat : /\ o <= p /\ p <= newest' + 1 /\ newest' - p < H /\ At(q', p, newest')
                           /\ p = o => q'.nextSeq = q.nextSeq
         /\ \A n : Holds(q, n) => Holds(q', n)
<1> DEFINE u == WithPacket(b, s)
           k == Place(u, Base(b))
           v == [u EXCEPT !.blocks[k] = completeFecBlock(@)]
           w == IF queueHasPacketReady(v) THEN v ELSE handleMissingPackets(v, overdue)
           newer == IF b > newest THEN b ELSE newest
           h == IF q.blocks = <<>> \/ b < No(q.blocks[1]) THEN b ELSE No(q.blocks[1])
<1>1. Accepts(b, s) /\ q' = w BY DEF Enqueue
<1>2. /\ v \in QueueRecord /\ Listed(v.blocks) /\ v.blocks # <<>> /\ At(v, o, newer)
      /\ Filled(q.blocks, v.blocks, k, b) /\ No(v.blocks[k]) = b /\ No(v.blocks[1]) = h
      /\ v.nextSeq = q.nextSeq /\ v.incompatibleServer = q.incompatibleServer
  BY <1>1, EnqueuedFacts
<1>3. o <= b /\ newer - o < H BY <1>1, ReceivedFacts
<1>4. newer \in Nat /\ h \in Nat /\ o <= h /\ h <= newer BY <1>3, AheadFacts
<1>5. overdue \in BOOLEAN BY DEF Overdue
<1>6. newest' = newer OBVIOUS
<1>7. \A n : Holds(q, n) => Holds(v, n)
  <2>1. q \in QueueRecord /\ Listed(q.blocks) BY DEF TypeOK, QueueAt
  <2> HIDE DEF v, k
  <2> QED BY <2>1, <1>2, FilledHolds
<1> HIDE DEF u, k, v, newer, h
<1>8. CASE queueHasPacketReady(v)
  <2>1. w = v BY <1>8
  <2> HIDE DEF w
  <2>2. o <= newer + 1 BY <1>4
  <2> QED BY <2>1, <2>2, <1>1, <1>2, <1>3, <1>4, <1>6, <1>7
<1>9. CASE ~queueHasPacketReady(v)
  <2> DEFINE x == handleMissingPackets(v, overdue)
  <2>1. /\ x \in QueueRecord /\ Listed(x.blocks) /\ At(x, No(v.blocks[1]), newer)
        /\ x.incompatibleServer = v.incompatibleServer
        /\ o = No(v.blocks[1]) => x.nextSeq = v.nextSeq
        /\ x.blocks = v.blocks \/ x.blocks = [v.blocks EXCEPT ![1].allowDiscontinuity = TRUE]
    BY <1>2, <1>3, <1>4, <1>5, HandleMissingFacts
  <2>2. q' = x BY <1>1, <1>9
  <2> HIDE DEF w, x
  <2>3. \A n : Holds(v, n) => Holds(x, n) BY <2>1, <1>2, HandleMissingHolds
  <2>4. \A n : Holds(q, n) => Holds(x, n) BY <2>3, <1>7
  <2>5. h <= newer + 1 /\ newer - h < H BY <1>3, <1>4, Halves
  <2>6. At(x, h, newer) /\ (o = h => x.nextSeq = q.nextSeq) BY <2>1, <1>2
  <2>7. x \in QueueRecord /\ Listed(x.blocks) /\ ~x.incompatibleServer BY <2>1, <1>2
  <2>8. \E p \in Nat : /\ o <= p /\ p <= newer + 1 /\ newer - p < H /\ At(x, p, newer)
                       /\ p = o => x.nextSeq = q.nextSeq
    BY <2>5, <2>6, <1>4
  <2> QED BY <2>2, <2>4, <2>7, <2>8, <1>4, <1>6
<1> QED BY <1>8, <1>9

\* Once the order is given up nothing is drained any more.
Settled == q.incompatibleServer => pc = "receiving"

LEMMA SettledKept ==
  ASSUME AudioInv, Settled, [Next]_vars
  PROVE  Settled'
<1>1. TypeOK BY DEF AudioInv
<1>2. CASE Receive
  <2>1. pc = "receiving" BY <1>2 DEF Receive
  <2>2. CASE newest = NONE
    <3>1. q = RtpaInitializeQueue BY <2>2 DEF AudioInv
    <3>2. Starting /\ ~q.incompatibleServer BY <3>1 DEF Starting, RtpaInitializeQueue
    <3>3. PICK b \in FirstBlocks, s \in Shards, overdue \in Overdue : RtpaAddPacket(b, s, overdue)
      BY <1>2, <2>2 DEF Receive
    <3>4. Synchronize(b, s)
      BY <3>2, <3>3
      DEF RtpaAddPacket, Reject, RejectOddSize, HandleNow, Enqueue, RejectForMemory, Accepts
    <3> QED BY <3>4, <2>1 DEF Synchronize, Settled
  <2>3. CASE newest # NONE
    <3>1. PICK o \in Nat : QueueAt(o) BY <2>3 DEF AudioInv
    <3>2. PICK b \in Block, s \in Shards, overdue \in Overdue :
            /\ b \in newest - Late .. newest + 1 + MaxSkipped - NotCaughtUp
            /\ RtpaAddPacket(b, s, overdue)
      BY <1>2, <2>3 DEF Receive
    <3>3. pc' = pc \/ (~q.incompatibleServer /\ Enqueue(b, s, overdue)
                        /\ newest' = IF b > newest THEN b ELSE newest)
      BY <3>2, <2>3, Zenon
      DEF RtpaAddPacket, PassThrough, Synchronize, Reject, RejectOddSize, HandleNow, RejectForMemory
    <3>4. CASE pc' = pc BY <3>4, <2>1 DEF Settled
    <3>5. CASE ~q.incompatibleServer /\ Enqueue(b, s, overdue) /\ newest' = IF b > newest THEN b ELSE newest
      <4>1. ~q'.incompatibleServer BY <3>1, <3>2, <3>5, <1>1, <2>1, <2>3, EnqueueAfter
      <4> QED BY <4>1 DEF Settled
    <3> QED BY <3>3, <3>4, <3>5
  <2> QED BY <2>2, <2>3
<1>3. CASE GetLost \/ GetPacket
  <2>1. /\ pc = "draining" /\ q' = Advance(q) /\ q.blocks # <<>>
    BY <1>3 DEF GetLost, GetPacket, queueHasPacketReady
  <2>2. ~q.incompatibleServer BY <2>1 DEF Settled
  <2>3. Advance(q).incompatibleServer = q.incompatibleServer
    BY <1>1 DEF Advance, freeFecBlockHead, TypeOK, QueueRecord
  <2> QED BY <2>1, <2>2, <2>3 DEF Settled
<1>4. CASE GetNothing BY <1>4 DEF GetNothing, Settled
<1>5. CASE UNCHANGED vars BY <1>5 DEF vars, Settled
<1> QED BY <1>2, <1>3, <1>4, <1>5 DEF Next

\* A step that hands out or conceals the packet that is due, of the first block.
LEMMA AdvanceAs ==
  ASSUME TypeOK, newest # NONE, NEW o \in Nat, QueueAt(o), NEW u \in QueueRecord, NEW new \in Nat,
         Listed(u.blocks), At(u, o, new), u.blocks # <<>>, o = No(u.blocks[1]), new - o < H,
         u.nextSeq = q.nextSeq, q' = Advance(u), newest' = new, new # NONE, \E r \in Nat : QueueAt(r)',
         \A n : n # Due => (Holds(u, n) <=> Holds(q, n))
  PROVE  /\ Due \in Nat /\ Due = o * DataShards + u.blocks[1].nextDataPacketIndex
         /\ Due' = Due + 1 /\ Waiting' = Waiting \ {Due}
<1> DEFINE i == u.blocks[1].nextDataPacketIndex
<1>1. /\ Due = o * DataShards + Idx(q, o) /\ Due \in Nat /\ Waiting = {n \in Nat : Holds(q, n)}
  BY DueNow
<1>2. Idx(q, o) = i
  <2>1. Idx(q, o) \in Data /\ q.nextSeq = Base(o) + Idx(q, o) BY IdxFacts DEF TypeOK, QueueAt
  <2>2. Idx(u, o) \in Data /\ u.nextSeq = Base(o) + Idx(u, o) BY IdxFacts
  <2>3. Base(o) \in Int /\ Data \subseteq Int BY BaseFacts, Halves DEF Data
  <2>5. \A x, y, z \in Int : x + y = x + z => y = z OBVIOUS
  <2>6. Base(o) + Idx(q, o) = Base(o) + Idx(u, o) BY <2>1, <2>2
  <2>4. Idx(q, o) = Idx(u, o) BY <2>1, <2>2, <2>3, <2>5, <2>6
  <2> QED BY <2>4 DEF Idx
<1>3. PICK p \in Nat : /\ At(q', p, newest') /\ p <= newest' + 1 /\ newest' - p < H
                       /\ p * DataShards + Idx(q', p) = o * DataShards + i + 1
  BY AdvanceDue
<1>4. q' \in QueueRecord /\ Listed(q'.blocks) BY AdvanceFacts
<1>5. Due' = p * DataShards + Idx(q', p) /\ Waiting' = {n \in Nat : Holds(q', n)}
  BY <1>3, <1>4, DueNext
<1>6. \A n : Holds(q', n) <=> Holds(u, n) /\ n # o * DataShards + i BY AdvanceHolds
<1>7. Due = o * DataShards + i BY <1>1, <1>2
<1>8. Due' = Due + 1 BY <1>3, <1>5, <1>7
<1> HIDE DEF i
<1>9. Waiting' = Waiting \ {Due} BY <1>1, <1>5, <1>6, <1>7
<1> QED BY <1>1, <1>7, <1>8, <1>9 DEF i

LEMMA HandleNowHandsOut ==
  ASSUME TypeOK, newest # NONE, NEW o \in Nat, QueueAt(o), pc = "receiving", ~q.incompatibleServer,
         NEW b \in Block, b \in newest - Late .. newest + 1 + MaxSkipped - NotCaughtUp,
         NEW s \in Shards, HandleNow(b, s),
         newest' = (IF b > newest THEN b ELSE newest), \E r \in Nat : QueueAt(r)'
  PROVE  Abstract!HandOut
<1> DEFINE u == WithPacket(b, s)
           k == Place(u, Base(b))
           newer == IF b > newest THEN b ELSE newest
<1>1. Accepts(b, s) /\ s \in Data /\ U16(b * DataShards + s) = q.nextSeq /\ given' = b * DataShards + s
  BY DEF HandleNow
<1>2. /\ newer \in Nat /\ newer \in Block /\ newer - o < H
      /\ u \in QueueRecord /\ Listed(u.blocks) /\ u.blocks # <<>> /\ At(u, o, newer)
      /\ Filled(q.blocks, u.blocks, k, b) /\ No(u.blocks[k]) = b
      /\ u.nextSeq = q.nextSeq /\ u.incompatibleServer = q.incompatibleServer
  BY <1>1, ReceivedFacts
<1>3. q' = Advance(u) /\ b = o /\ No(u.blocks[1]) = o /\ k = 1 BY HandleNowIsAdvance
<1>4. s = Idx(q, o) BY <1>1, DueFacts DEF Idx
<1>5. Due = o * DataShards + s /\ Due \in Nat BY <1>4, DueNow
<1>6. /\ q \in QueueRecord /\ Listed(q.blocks) /\ Near(q.blocks, b)
      /\ Has(q, Base(b)) => q.blocks[Place(q, Base(b))].shard[s] = NONE
  BY <1>1, ReceiveRange DEF TypeOK, QueueAt, Accepts
<1>7. \A i \in Shards : u.blocks[k].shard[i] # NONE =>
        i = s \/ (Has(q, Base(b)) /\ q.blocks[k].shard[i] # NONE)
  BY <1>6, WithPacketFacts
<1>8. Has(q, Base(b)) => k \in 1 .. Len(q.blocks) /\ No(q.blocks[k]) = b
  <2>1. k = Place(q, Base(b)) BY <1>6, WithPacketFacts
  <2>2. q.blocks \in Seq(BlockRecord) BY <1>6 DEF QueueRecord
  <2> HIDE DEF k
  <2> QED BY <2>1, <2>2, <1>6, PlaceFacts DEF Near
<1> HIDE DEF u, k, newer
<1>9. \A n : n # Due => (Holds(u, n) <=> Holds(q, n))
  <2> TAKE n
  <2> HAVE n # Due
  <2>1. Holds(q, n) => Holds(u, n) BY <1>2, <1>6, FilledHolds
  <2>2. ASSUME Holds(u, n) PROVE Holds(q, n)
    <3>1. PICK x \in 1 .. Len(u.blocks), j \in Data :
            /\ j >= u.blocks[x].nextDataPacketIndex /\ u.blocks[x].shard[j] # NONE
            /\ n = No(u.blocks[x]) * DataShards + j
      BY <2>2 DEF Holds
    <3>2. Data \subseteq Shards BY Halves, AudioAssumption DEF Data, Shards
    <3>3. Len(u.blocks) \in Nat /\ Len(q.blocks) \in Nat BY <1>2, <1>6, ListedFacts
    <3>4. CASE x = 1
      <4>1. n = o * DataShards + j BY <3>1, <3>4, <1>3
      <4>2. j # s BY <4>1, <1>5
      <4>3. Has(q, Base(b)) /\ q.blocks[1].shard[j] # NONE BY <4>2, <3>1, <3>2, <3>4, <1>3, <1>7
      <4>4. 1 \in 1 .. Len(q.blocks) /\ No(q.blocks[1]) = o BY <4>3, <1>3, <1>8
      <4>5. u.blocks[1].nextDataPacketIndex = q.blocks[1].nextDataPacketIndex
        <5>1. CASE Len(u.blocks) = Len(q.blocks) BY <5>1, <1>2, <1>3 DEF Filled, Grown
        <5>2. CASE Len(u.blocks) # Len(q.blocks)
          <6>1. ~(1 < k) /\ b < No(q.blocks[1]) BY <5>2, <4>4, <1>2, <1>3 DEF Filled
          <6> QED BY <6>1, <4>4, <1>3
        <5> QED BY <5>1, <5>2
      <4> QED BY <4>1, <4>3, <4>4, <4>5, <3>1, <3>4 DEF Holds
    <3>5. CASE x # 1
      <4>1. \E y \in 1 .. Len(q.blocks) : q.blocks[y] = u.blocks[x]
        <5>1. CASE Len(u.blocks) = Len(q.blocks) BY <5>1, <3>5, <1>2, <1>3 DEF Filled
        <5>2. CASE Len(u.blocks) # Len(q.blocks)
          <6>1. /\ Len(u.blocks) = Len(q.blocks) + 1
                /\ \A j1 \in 1 .. Len(q.blocks) : ~(j1 < 1) => u.blocks[j1 + 1] = q.blocks[j1]
            BY <5>2, <1>2, <1>3 DEF Filled
          <6>2. x - 1 \in 1 .. Len(q.blocks) /\ ~(x - 1 < 1) /\ (x - 1) + 1 = x BY <6>1, <3>3, <3>5
          <6> QED BY <6>1, <6>2
        <5> QED BY <5>1, <5>2
      <4> QED BY <4>1, <3>1 DEF Holds
    <3> QED BY <3>4, <3>5
  <2> QED BY <2>1, <2>2
<1>10. newest' = newer /\ newer # NONE BY <1>2, AudioAssumption DEF newer
<1>11. Due' = Due + 1 /\ Waiting' = Waiting \ {Due}
  BY <1>2, <1>3, <1>9, <1>10, AdvanceAs
<1>12. q'.incompatibleServer = q.incompatibleServer
  <2>1. Advance(u).incompatibleServer = u.incompatibleServer
    BY <1>2 DEF Advance, freeFecBlockHead, QueueRecord
  <2> QED BY <2>1, <1>2, <1>3
<1>13. given' = Due BY <1>1, <1>3, <1>5
<1> QED BY <1>11, <1>12, <1>13 DEF Abstract!HandOut, Due

LEMMA EnqueueArrives ==
  ASSUME TypeOK, newest # NONE, NEW o \in Nat, QueueAt(o), pc = "receiving", ~q.incompatibleServer,
         NEW b \in Block, b \in newest - Late .. newest + 1 + MaxSkipped - NotCaughtUp,
         NEW s \in Shards, NEW overdue \in Overdue, Enqueue(b, s, overdue),
         newest' = (IF b > newest THEN b ELSE newest), newest' # NONE, \E r \in Nat : QueueAt(r)'
  PROVE  Abstract!Arrive
<1>1. /\ q' \in QueueRecord /\ Listed(q'.blocks) /\ newest' \in Nat /\ ~q'.incompatibleServer
      /\ \A n : Holds(q, n) => Holds(q', n)
  BY EnqueueAfter
<1>2. PICK p \in Nat : /\ o <= p /\ p <= newest' + 1 /\ newest' - p < H /\ At(q', p, newest')
                       /\ p = o => q'.nextSeq = q.nextSeq
  BY EnqueueAfter
<1>3. /\ Due' = p * DataShards + Idx(q', p) /\ Due' \in Nat
      /\ Waiting' = {n \in Nat : Holds(q', n)} /\ \A n : Holds(q', n) => n \in Nat /\ n >= Due'
  BY <1>1, <1>2, DueNext
<1>4. /\ Due = o * DataShards + Idx(q, o) /\ Due \in Nat /\ Waiting = {n \in Nat : Holds(q, n)}
  BY DueNow
<1>5. Idx(q', p) \in Data /\ q'.nextSeq = Base(p) + Idx(q', p) BY <1>1, <1>2, IdxFacts
<1>6. Idx(q, o) \in Data /\ q.nextSeq = Base(o) + Idx(q, o) BY IdxFacts DEF TypeOK, QueueAt
<1>7. Due' >= Due
  <2>1. CASE p = o
    <3>1. Base(o) \in Int /\ Data \subseteq Int BY BaseFacts, Halves DEF Data
    <3>4. \A x, y, z \in Int : x + y = x + z => y = z OBVIOUS
    <3>5. Base(o) + Idx(q', p) = Base(o) + Idx(q, o) BY <2>1, <1>2, <1>5, <1>6
    <3>2. Idx(q', p) = Idx(q, o) BY <3>1, <3>4, <3>5, <1>5, <1>6
    <3>3. Due' = Due BY <3>2, <2>1, <1>3, <1>4
    <3> QED BY <3>3, <1>4
  <2>2. CASE p # o
    <3>1. o < p BY <2>2, <1>2
    <3>2. Due < Due' BY <3>1, <1>3, <1>4, <1>5, <1>6, InOrder
    <3> QED BY <3>2, <1>3, <1>4
  <2> QED BY <2>1, <2>2
<1>8. Waiting \subseteq Waiting' BY <1>1, <1>3, <1>4
<1>9. \A n \in Waiting' : n \in Nat /\ n >= Due' BY <1>3
<1>10. given' = given BY DEF Enqueue
<1> QED BY <1>1, <1>3, <1>7, <1>8, <1>9, <1>10 DEF Abstract!Arrive, Due

\* The first packet: what is due jumps to the block after its own.
LEMMA SynchronizeArrives ==
  ASSUME TypeOK, newest = NONE, q = RtpaInitializeQueue, NEW b \in FirstBlocks, NEW s \in Shards,
         Synchronize(b, s), newest' = b, \E r \in Nat : QueueAt(r)'
  PROVE  Abstract!Arrive
<1>1. b \in Block /\ b \in Nat /\ b # NONE BY AudioAssumption DEF Block
<1>2. /\ Noted(b, s) \in QueueRecord
      /\ Noted(b, s).blocks = <<>> /\ ~Noted(b, s).incompatibleServer
  BY <1>1, NotedFacts DEF RtpaInitializeQueue
<1>3. Base(b + 1) \in Seq16 BY <1>1, BaseFacts
<1>4. q' = [Noted(b, s) EXCEPT !.nextSeq = Base(b + 1), !.oldest = Base(b + 1)] /\ given' = given
  BY DEF Synchronize
<1>5. /\ q' \in QueueRecord /\ q'.blocks = <<>> /\ q'.nextSeq = Base(b + 1) /\ q'.oldest = Base(b + 1)
      /\ ~q'.incompatibleServer
  BY <1>2, <1>3, <1>4 DEF QueueRecord
<1>6. Listed(q'.blocks) /\ At(q', b + 1, newest')
  <2>1. 1 .. Len(<<>>) = {} OBVIOUS
  <2> QED BY <2>1, <1>5 DEF Listed, At
<1>7. Due' \in Nat /\ \A n \in Waiting' : n \in Nat /\ n >= Due'
  <2>1. PICK p \in Nat : p = b + 1 BY <1>1
  <2>2. newest' - p < H /\ p <= newest' + 1 BY <2>1, <1>1, Halves
  <2> QED BY <2>1, <2>2, <1>1, <1>5, <1>6, DueNext
<1>8. Due = 0 /\ Waiting = {} /\ ~q.incompatibleServer
  BY DEF Due, Starting, Waiting, RtpaInitializeQueue
<1>9. Due' >= 0 BY <1>7
<1> QED BY <1>4, <1>5, <1>7, <1>8, <1>9 DEF Abstract!Arrive, Due

\* The state of the buffer depends on the list and the numbers only.
LEMMA KeptIsKept ==
  ASSUME q'.blocks = q.blocks, q'.nextSeq = q.nextSeq, q'.oldest = q.oldest,
         q'.synchronizing = q.synchronizing, newest' = newest
  PROVE  Waiting' = Waiting /\ Due' = Due
BY DEF Waiting, Due, Starting, Unwrapped

LEMMA RejectAs ==
  ASSUME TypeOK, newest # NONE, NEW o \in Nat, QueueAt(o), pc = "receiving", ~q.incompatibleServer,
         NEW b \in Block, b \in newest - Late .. newest + 1 + MaxSkipped - NotCaughtUp,
         NEW s \in Shards,
         Reject(b, s) \/ RejectOddSize(b, s) \/ RejectForMemory(b, s),
         newest' = newest
  PROVE  [Abstract!Next]_(Abstract!vars)
<1>1. /\ Noted(b, s) \in QueueRecord
      /\ Noted(b, s).blocks = q.blocks /\ Noted(b, s).nextSeq = q.nextSeq
      /\ Noted(b, s).oldest = q.oldest /\ Noted(b, s).synchronizing = q.synchronizing
      /\ Noted(b, s).incompatibleServer = q.incompatibleServer
  BY NotedFacts
<1>2. CASE RejectOddSize(b, s)
  <2>1. q' = [Noted(b, s) EXCEPT !.incompatibleServer = TRUE] /\ given' = given BY <1>2 DEF RejectOddSize
  <2>2. /\ q'.blocks = q.blocks /\ q'.nextSeq = q.nextSeq /\ q'.oldest = q.oldest
        /\ q'.synchronizing = q.synchronizing /\ q'.incompatibleServer
    BY <2>1, <1>1 DEF QueueRecord
  <2>3. Waiting' = Waiting /\ Due' = Due BY <2>2, KeptIsKept
  <2>4. Abstract!GiveUpOrder BY <2>1, <2>2, <2>3 DEF Abstract!GiveUpOrder, Due
  <2> QED BY <2>4 DEF Abstract!Next
<1>3. CASE Reject(b, s) \/ RejectForMemory(b, s)
  <2>1. q' = Noted(b, s) /\ given' = given BY <1>3 DEF Reject, RejectForMemory
  <2>2. Waiting' = Waiting /\ Due' = Due BY <2>1, <1>1, KeptIsKept
  <2> QED BY <2>1, <2>2, <1>1 DEF Abstract!vars, Due
<1> QED BY <1>2, <1>3

LEMMA ReceiveAs ==
  ASSUME AudioInv, AudioInv', Receive
  PROVE  [Abstract!Next]_(Abstract!vars)
<1>1. TypeOK /\ pc = "receiving" BY DEF AudioInv, Receive
<1>2. CASE newest = NONE
  <2>1. q = RtpaInitializeQueue BY <1>2 DEF AudioInv
  <2>2. Starting /\ ~q.incompatibleServer
    BY <2>1 DEF Starting, RtpaInitializeQueue
  <2>3. PICK b \in FirstBlocks, s \in Shards, overdue \in Overdue : RtpaAddPacket(b, s, overdue)
    BY <1>2 DEF Receive
  <2>4. Synchronize(b, s) /\ newest' = b
    BY <2>2, <2>3, <1>2
    DEF RtpaAddPacket, Reject, RejectOddSize, HandleNow, Enqueue, RejectForMemory, Accepts
  <2>5. newest' # NONE /\ \E r \in Nat : QueueAt(r)'
    <3>1. newest' # NONE BY <2>4, AudioAssumption
    <3> QED BY <3>1 DEF AudioInv
  <2>6. Abstract!Arrive BY <1>1, <1>2, <2>1, <2>4, <2>5, SynchronizeArrives
  <2> QED BY <2>6 DEF Abstract!Next
<1>3. CASE newest # NONE
  <2>1. PICK o \in Nat : QueueAt(o) BY <1>3 DEF AudioInv
  <2>2. PICK b \in Block, s \in Shards, overdue \in Overdue :
          /\ b \in newest - Late .. newest + 1 + MaxSkipped - NotCaughtUp
          /\ RtpaAddPacket(b, s, overdue)
    BY <1>3 DEF Receive
  <2>3. CASE q.incompatibleServer
    <3>1. PassThrough(b, s) BY <2>2, <2>3 DEF RtpaAddPacket
    <3>2. UNCHANGED <<q, newest>> BY <3>1 DEF PassThrough
    <3>3. Waiting' = Waiting /\ Due' = Due BY <3>2, KeptIsKept
    <3>4. CASE s \in Data
      <4>1. b \in Nat BY AudioAssumption DEF Block
      <4>2. given' = b * DataShards + s BY <3>1, <3>4 DEF PassThrough
      <4>3. given' \in Nat BY <4>1, <4>2, <3>4, InOrder
      <4>4. Abstract!PassThrough BY <4>3, <3>2, <3>3, <2>3 DEF Abstract!PassThrough, Due
      <4> QED BY <4>4 DEF Abstract!Next
    <3>5. CASE s \notin Data
      <4>1. given' = given BY <3>1, <3>5 DEF PassThrough
      <4> QED BY <4>1, <3>2, <3>3 DEF Abstract!vars, Due
    <3> QED BY <3>4, <3>5
  <2>4. CASE ~q.incompatibleServer
    <3>1. ~Synchronize(b, s)
      <4>1. ~Starting BY <1>1, <1>3, <2>1, StateFacts
      <4> QED BY <4>1 DEF Synchronize
    <3>2. newest' # NONE /\ \E r \in Nat : QueueAt(r)'
      <4>1. newest' # NONE
        <5>1. newest' = newest \/ newest' = b BY <2>2, <2>4 DEF RtpaAddPacket
        <5> QED BY <5>1, <1>3, AudioAssumption
      <4> QED BY <4>1 DEF AudioInv
    <3>3. \/ RejectForMemory(b, s) /\ newest' = newest
          \/ /\ Reject(b, s) \/ RejectOddSize(b, s) \/ HandleNow(b, s) \/ Enqueue(b, s, overdue)
             /\ newest' = IF b > newest THEN b ELSE newest
      BY <2>2, <2>4, <3>1, <1>3, Zenon DEF RtpaAddPacket
    <3>4. CASE RejectForMemory(b, s) /\ newest' = newest
      BY <3>4, <1>1, <1>3, <2>1, <2>2, <2>4, RejectAs
    <3>5. CASE (Reject(b, s) \/ RejectOddSize(b, s)) /\ newest' = IF b > newest THEN b ELSE newest
      <4>1. newest' = newest BY <3>5, <1>1, <1>3, <2>1, <2>2, RejectedIsKnown
      <4> QED BY <3>5, <4>1, <1>1, <1>3, <2>1, <2>2, <2>4, RejectAs
    <3>6. CASE HandleNow(b, s) /\ newest' = IF b > newest THEN b ELSE newest
      <4>1. Abstract!HandOut BY <3>2, <3>6, <1>1, <1>3, <2>1, <2>2, <2>4, HandleNowHandsOut
      <4> QED BY <4>1 DEF Abstract!Next
    <3>7. CASE Enqueue(b, s, overdue) /\ newest' = IF b > newest THEN b ELSE newest
      <4>1. Abstract!Arrive BY <3>2, <3>7, <1>1, <1>3, <2>1, <2>2, <2>4, EnqueueArrives
      <4> QED BY <4>1 DEF Abstract!Next
    <3> QED BY <3>3, <3>4, <3>5, <3>6, <3>7
  <2> QED BY <2>3, <2>4
<1> QED BY <1>2, <1>3

LEMMA DrainAs ==
  ASSUME AudioInv, AudioInv', Settled, GetLost \/ GetPacket \/ GetNothing
  PROVE  [Abstract!Next]_(Abstract!vars)
<1>1. TypeOK /\ pc = "draining" /\ newest # NONE /\ ~q.incompatibleServer
  <2>1. pc = "draining" BY DEF GetLost, GetPacket, GetNothing
  <2> QED BY <2>1 DEF AudioInv, Settled
<1>2. PICK o \in Nat : QueueAt(o) BY <1>1 DEF AudioInv
<1>3. /\ q \in QueueRecord /\ newest \in Nat /\ newest - o < H /\ Listed(q.blocks) /\ At(q, o, newest)
  BY <1>1, <1>2, StateFacts DEF QueueAt
<1>4. CASE GetNothing
  <2>1. UNCHANGED <<q, given, newest>> BY <1>4 DEF GetNothing
  <2>2. Waiting' = Waiting /\ Due' = Due BY <2>1, KeptIsKept
  <2> QED BY <2>1, <2>2 DEF Abstract!vars, Due
<1>5. CASE GetLost \/ GetPacket
  <2> DEFINE i == q.blocks[1].nextDataPacketIndex
  <2>1. q.blocks # <<>> /\ q' = Advance(q) /\ UNCHANGED newest
    BY <1>5 DEF GetLost, GetPacket, queueHasPacketReady
  <2>2. Head(q.blocks) = q.blocks[1] /\ 1 \in 1 .. Len(q.blocks) /\ i \in Data
    BY <2>1, <1>3, ListedFacts
  <2>3. o = No(q.blocks[1])
    <3>1. CASE GetLost BY <3>1, <2>1, <2>2, <1>3 DEF GetLost, At
    <3>2. CASE GetPacket
      <4>1. queueHasPacketReady(q) BY <3>2 DEF GetPacket
      <4>2. o = No(q.blocks[1]) \/ q.blocks[1].allowDiscontinuity BY <4>1, <2>1, <1>3, ReadyIf
      <4> QED BY <4>2, <2>1, <1>3 DEF At
    <3> QED BY <3>1, <3>2, <1>5
  <2>4. \E r \in Nat : QueueAt(r)' BY <2>1, <1>1 DEF AudioInv
  <2>5. /\ Due \in Nat /\ Due = o * DataShards + i
        /\ Due' = Due + 1 /\ Waiting' = Waiting \ {Due}
    BY <2>1, <2>3, <2>4, <1>1, <1>2, <1>3, AdvanceAs
  <2>6. ~q'.incompatibleServer
    <3>1. Advance(q).incompatibleServer = q.incompatibleServer
      BY <1>3 DEF Advance, freeFecBlockHead, QueueRecord
    <3> QED BY <3>1, <2>1, <1>1
  <2>7. CASE GetPacket
    <3>1. NextShard(q) # NONE /\ given' = NextShard(q) * DataShards + Head(q.blocks).nextDataPacketIndex
      BY <2>7 DEF GetPacket
    <3>2. NextShard(q) = o
      <4>1. Data \subseteq Shards BY Halves, AudioAssumption DEF Data, Shards
      <4>2. Of(q.blocks[1], No(q.blocks[1])) BY <2>2, <1>3, ListedFacts
      <4>3. q.blocks[1].shard[i] # NONE BY <3>1, <2>2 DEF NextShard
      <4>4. q.blocks[1].shard[i] = o BY <4>1, <4>2, <4>3, <2>2, <2>3 DEF Of
      <4> QED BY <4>4, <2>2 DEF NextShard
    <3>3. given' = Due BY <3>1, <3>2, <2>2, <2>5
    <3>4. Abstract!HandOut BY <3>3, <2>5, <2>6, <1>1 DEF Abstract!HandOut, Due
    <3> QED BY <3>4 DEF Abstract!Next
  <2>8. CASE GetLost
    <3>1. q.blocks[1].shard[i] = NONE /\ given' = LOST BY <2>8, <2>2 DEF GetLost, NextShard
    <3>2. ~Holds(q, Due)
      <4> SUFFICES ASSUME Holds(q, Due) PROVE FALSE OBVIOUS
      <4>1. PICK k \in 1 .. Len(q.blocks), j \in Data :
              q.blocks[k].shard[j] # NONE /\ Due = No(q.blocks[k]) * DataShards + j
        BY DEF Holds
      <4>2. No(q.blocks[k]) \in Nat BY <1>3, ListedFacts
      <4>5. No(q.blocks[k]) * DataShards + j = o * DataShards + i BY <4>1, <2>5, Zenon
      <4> HIDE DEF i
      <4>3. No(q.blocks[k]) = o /\ j = i BY <4>2, <4>5, <2>2, SamePacket
      <4>4. k = 1
        <5>1. k # 1 => No(q.blocks[1]) < No(q.blocks[k]) BY <1>3, ListedEnds
        <5> QED BY <5>1, <4>3, <2>3
      <4> QED BY <4>1, <4>3, <4>4, <3>1
    <3>3. Waiting = {n \in Nat : Holds(q, n)} BY <1>1, <1>2, DueNow
    <3>4. Due \notin Waiting BY <3>2, <3>3
    <3>5. Waiting' = Waiting BY <3>4, <2>5
    <3>6. Abstract!Conceal BY <3>1, <3>4, <3>5, <2>5, <2>6, <1>1 DEF Abstract!Conceal, Due
    <3> QED BY <3>6 DEF Abstract!Next
  <2> QED BY <2>7, <2>8, <1>5
<1> QED BY <1>4, <1>5

\* The decoder is given what a reorder buffer on the numbers of the host would give it:
\* no packet twice, none before an earlier one, and LOST only for one that is not there,
\* until the packets of a block differ in size.  Truncation, the comparisons modulo 2^16
\* and the recovery of packets from parity change nothing of that (RtpaAddPacket and
\* RtpaGetQueuedPacket).
THEOREM HandsOutInHostOrder == Spec => HandsOutInOrder
<1>1. Init => Abstract!Init
  BY DEF Init, Abstract!Init, Starting, Waiting, RtpaInitializeQueue
<1>2. AudioInv /\ AudioInv' /\ Settled /\ [Next]_vars => [Abstract!Next]_(Abstract!vars)
  <2> SUFFICES ASSUME AudioInv, AudioInv', Settled, [Next]_vars PROVE [Abstract!Next]_(Abstract!vars)
    OBVIOUS
  <2>1. CASE Receive BY <2>1, ReceiveAs
  <2>2. CASE GetLost \/ GetPacket \/ GetNothing BY <2>2, DrainAs
  <2>3. CASE UNCHANGED vars
    <3>1. Waiting' = Waiting /\ Due' = Due BY <2>3, KeptIsKept DEF vars
    <3> QED BY <3>1, <2>3 DEF vars, Abstract!vars, Due
  <2> QED BY <2>1, <2>2, <2>3 DEF Next
<1>3. Init => Settled BY DEF Init, Settled
<1>4. AudioInv /\ Settled /\ [Next]_vars => Settled' BY SettledKept
<1> QED BY <1>1, <1>2, <1>3, <1>4, InvariantHolds, PTL DEF Spec, HandsOutInOrder, Abstract!Spec
=============================================================================
