--------------------------- MODULE MiniSsdpProofs ---------------------------
(***************************************************************************)
(* What can stop the bridge through its MiniSSDP socket, and what its      *)
(* answers are for those who read them, for any clients, caches and        *)
(* lengths.                                                                *)
(***************************************************************************)
EXTENDS MiniSsdp, WellFoundedInduction, SequenceTheorems, FiniteSetTheorems, TLAPS

-----------------------------------------------------------------------------
(* Lengths. *)

LEMMA SeptetIs == Septet \in Nat /\ Septet > 4
  BY IpcAssumption DEF Submit

\* The seven bits of a byte, and those above them.
LEMMA SeptetDiv ==
  ASSUME NEW n \in Nat
  PROVE  /\ n \div Septet \in Nat /\ n % Septet \in 0..(Septet - 1)
         /\ n = (n \div Septet) * Septet + (n % Septet)
  BY SeptetIs

\* A shift leaves less than the bits that are left.
LEMMA SeptetBound ==
  ASSUME NEW n \in Nat, NEW c \in Nat, n < c * Septet
  PROVE  n \div Septet < c
<1> DEFINE q == n \div Septet
<1>1. q \in Nat /\ n >= q * Septet
  BY SeptetDiv, SeptetIs
<1> HIDE DEF q
<1>2. ASSUME q >= c PROVE FALSE
  <2>1. PICK d \in Nat : q = c + d
    BY <1>1, <1>2
  <2>2. q * Septet = c * Septet + d * Septet /\ d * Septet >= 0
    BY <2>1, SeptetIs
  <2> QED
    BY <1>1, <2>2, SeptetIs
<1> QED
  BY <1>1, <1>2 DEF q

LEMMA SevenBits ==
  ASSUME NEW x \in 0..(Septet - 1)
  PROVE  x % Septet = x /\ (Septet + x) % Septet = x
<1>1. ASSUME NEW n \in Nat, NEW q \in Nat, n = q * Septet + x PROVE n % Septet = x
  BY <1>1, SeptetIs
<1> QED
  BY <1>1, SeptetIs

High == Septet..(2 * Septet - 1)

\* What has been read after each byte of c: in the end q.
Reads(v, c, q) ==
    /\ \A k \in 1..Len(c) : v[k] = (IF k = 1 THEN 0 ELSE v[k - 1] * Septet) + (c[k] % Septet)
    /\ c # <<>> => v[Len(c)] = q
    /\ c = <<>> => q = 0

MoreBytes(q) == IF q > 0 THEN <<Septet + (q % Septet)>> ELSE <<>>

\* Every byte but the last one is written with its top bit.
LEMMA HighByte ==
  ASSUME NEW q \in Nat
  PROVE  /\ Septet + (q % Septet) \in High
         /\ (Septet + (q % Septet)) % Septet = q % Septet
<1>1. q % Septet \in 0..(Septet - 1)
  BY SeptetDiv
<1> DEFINE r == q % Septet
<1> HIDE DEF r
<1>2. r \in 0..(Septet - 1) => Septet + r \in High /\ (Septet + r) % Septet = r
  BY SevenBits, SeptetIs DEF High
<1> QED
  BY <1>1, <1>2 DEF r

\* A byte more shifts what was read by seven bits.
LEMMA ByteMore ==
  ASSUME NEW c \in Seq(Nat), NEW x \in Nat, NEW q \in Nat, NEW v, Reads(v, c, q)
  PROVE  \E w : Reads(w, Append(c, x), q * Septet + (x % Septet))
<1> DEFINE d == Append(c, x)
           w == [k \in 1..Len(d) |-> IF k = Len(d) THEN q * Septet + (x % Septet) ELSE v[k]]
<1>1. /\ Len(c) \in Nat /\ Len(d) = Len(c) + 1 /\ d[Len(d)] = x
      /\ \A k \in 1..Len(c) : d[k] = c[k]
  BY AppendProperties
<1>2. /\ \A k \in 1..Len(c) : w[k] = v[k]
      /\ w[Len(d)] = q * Septet + (x % Septet)
  BY <1>1
<1>3. Len(c) = 0 => q = 0
  BY EmptySeq DEF Reads
<1>4. Len(c) # 0 => v[Len(c)] = q
  BY DEF Reads
<1> HIDE DEF d, w
<1>5. ASSUME NEW k \in 1..Len(d)
      PROVE  w[k] = (IF k = 1 THEN 0 ELSE w[k - 1] * Septet) + (d[k] % Septet)
  <2>1. CASE k \in 1..Len(c)
    <3>1. v[k] = (IF k = 1 THEN 0 ELSE v[k - 1] * Septet) + (c[k] % Septet)
      BY <2>1 DEF Reads
    <3>2. k # 1 => k - 1 \in 1..Len(c)
      BY <1>1, <2>1
    <3>3. w[k] = v[k] /\ d[k] = c[k] /\ (k # 1 => w[k - 1] = v[k - 1])
      BY <1>1, <1>2, <2>1, <3>2
    <3> QED
      BY <3>1, <3>3
  <2>2. CASE k = Len(d) /\ Len(c) = 0
    <3>1. q * Septet = 0
      BY <1>3, <2>2, SeptetIs
    <3> QED
      BY <1>1, <1>2, <2>2, <3>1
  <2>3. CASE k = Len(d) /\ Len(c) # 0
    <3>1. k - 1 = Len(c) /\ Len(c) \in 1..Len(c) /\ k # 1
      BY <1>1, <2>3
    <3>2. w[k - 1] = q
      BY <1>2, <1>4, <2>3, <3>1
    <3> QED
      BY <1>1, <1>2, <2>3, <3>1, <3>2
  <2> QED
    BY <1>1, <2>1, <2>2, <2>3
<1>6. d # <<>> /\ w[Len(d)] = q * Septet + (x % Septet)
  BY <1>1, <1>2 DEF d
<1>7. Reads(w, d, q * Septet + (x % Septet))
  BY <1>5, <1>6 DEF Reads
<1> QED
  BY <1>7, Zenon DEF d

\* The bytes before the last one, one shift after the other.
LEMMA HighMore ==
  ASSUME NEW q \in Nat, NEW c \in Seq(High), NEW m \in Nat, Len(c) <= m
  PROVE  c \o MoreBytes(q) \in Seq(High) /\ Len(c \o MoreBytes(q)) <= m + 1
<1> DEFINE x == Septet + (q % Septet)
           d == MoreBytes(q)
<1>1. x \in High
  BY HighByte
<1>2. d = <<x>> \/ d = <<>>
  BY DEF MoreBytes
<1> HIDE DEF x, d
<1>3. d \in Seq(High) /\ Len(d) \in Nat /\ Len(d) <= 1
  <2>1. /\ <<x>> \in Seq(High) /\ Len(<<x>>) \in Nat /\ Len(<<x>>) <= 1
        /\ <<>> \in Seq(High) /\ Len(<<>>) \in Nat /\ Len(<<>>) <= 1
    BY <1>1
  <2> QED
    BY <1>2, <2>1, Zenon
<1>4. c \o d \in Seq(High) /\ Len(c \o d) = Len(c) + Len(d)
  BY <1>3, ConcatProperties
<1>5. Len(c) \in Nat
  OBVIOUS
<1>6. c \o d \in Seq(High) /\ Len(c \o d) <= m + 1
  BY <1>3, <1>4, <1>5
<1> QED
  BY <1>6, Zenon DEF d

\* What has been read of a length, a byte later.
LEMMA ReadMore ==
  ASSUME NEW q \in Nat, NEW c \in Seq(High), \E v : Reads(v, c, q \div Septet),
         q = 0 => c = <<>>
  PROVE  \E v : Reads(v, c \o MoreBytes(q), q)
<1>1. CASE q = 0
  <2>1. c \o MoreBytes(q) = c /\ q \div Septet = q
    BY <1>1, SeptetIs DEF MoreBytes
  <2> QED
    BY <2>1
<1>2. CASE q > 0
  <2> DEFINE x == Septet + (q % Septet)
  <2>1. x \in High /\ x % Septet = q % Septet /\ q \div Septet \in Nat
        /\ q = (q \div Septet) * Septet + (q % Septet)
    BY HighByte, SeptetDiv
  <2>2. MoreBytes(q) = <<x>>
    BY <1>2 DEF MoreBytes
  <2> HIDE DEF x
  <2>3. c \o <<x>> = Append(c, x)
    BY <2>1
  <2>4. c \in Seq(Nat) /\ x \in Nat
    BY <2>1, SeptetIs DEF High
  <2>5. \E w : Reads(w, Append(c, x), (q \div Septet) * Septet + (x % Septet))
    BY <2>1, <2>4, ByteMore
  <2>6. (q \div Septet) * Septet + (x % Septet) = q
    BY <2>1
  <2> QED
    BY <2>2, <2>3, <2>5, <2>6, Zenon
<1> QED
  BY <1>1, <1>2

\* Four shifts leave nothing of a length in the range.
LEMMA FourShifts ==
  ASSUME NEW n \in Nat, n < CodeRange
  PROVE  (((n \div Septet) \div Septet) \div Septet) \div Septet < Septet
<1> DEFINE n1 == n \div Septet
           n2 == n1 \div Septet
           n3 == n2 \div Septet
           n4 == n3 \div Septet
           S2 == Septet * Septet
           S3 == S2 * Septet
           S4 == S3 * Septet
<1>1. S2 \in Nat /\ S3 \in Nat /\ S4 \in Nat
  BY SeptetIs
<1>2. n1 \in Nat /\ n2 \in Nat /\ n3 \in Nat
  BY SeptetDiv
<1>3. n < S4 * Septet
  BY DEF CodeRange
<1> HIDE DEF n1, n2, n3, n4
<1>4. n1 < S4
  BY <1>1, <1>3, SeptetBound DEF n1
<1>5. n2 < S3
  BY <1>1, <1>2, <1>4, SeptetBound DEF n2
<1>6. n3 < S2
  BY <1>1, <1>2, <1>5, SeptetBound DEF n3
<1>7. n4 < Septet
  BY <1>2, <1>6, SeptetBound, SeptetIs DEF n4
<1> QED
  BY <1>7, Zenon DEF n1, n2, n3, n4

\* Only the last byte of a code has no top bit; five bytes hold what they should.
Spells(c, n) ==
    /\ c \in Seq(Byte) /\ Len(c) \in Nat \ {0} /\ Len(c) <= 5 /\ c[Len(c)] < Septet
    /\ \A k \in 1..(Len(c) - 1) : c[k] >= Septet
    /\ n < CodeRange => \E v : Reads(v, c, n)

\* What AddCodelength writes.
LEMMA LengthSpelled ==
  ASSUME NEW n \in Nat
  PROVE  Spells(CodeLength(n), n)
<1> DEFINE n1 == n \div Septet
           n2 == n1 \div Septet
           n3 == n2 \div Septet
           n4 == n3 \div Septet
           c4 == <<>> \o MoreBytes(n4)
           c3 == c4 \o MoreBytes(n3)
           c2 == c3 \o MoreBytes(n2)
           c1 == c2 \o MoreBytes(n1)
           x == n % Septet
           c == Append(c1, x)
<1>1. n1 \in Nat /\ n2 \in Nat /\ n3 \in Nat /\ n4 \in Nat
  BY SeptetDiv
<1>2. /\ n = n1 * Septet + x /\ x \in 0..(Septet - 1) /\ x % Septet = x
  BY <1>1, SeptetDiv, SevenBits
<1>3. /\ n4 = 0 => n4 \div Septet = 0
      /\ n3 = 0 => n4 = 0
      /\ n2 = 0 => n3 = 0
      /\ n1 = 0 => n2 = 0
  BY SeptetIs
<1>4. n < CodeRange => n4 \div Septet = 0
  <2>1. n < CodeRange => n4 < Septet
    BY FourShifts
  <2>2. n4 < Septet => n4 \div Septet < 1
    BY <1>1, SeptetIs, SeptetBound
  <2> QED
    BY <1>1, <2>1, <2>2, SeptetDiv
<1>5. CodeLength(n) = MoreBytes(n4) \o MoreBytes(n3) \o MoreBytes(n2) \o MoreBytes(n1) \o <<x>>
  BY Zenon DEF CodeLength, MoreBytes
<1>6. c4 = MoreBytes(n4)
  BY <1>1, HighByte DEF MoreBytes
<1> HIDE DEF n1, n2, n3, n4, x
<1>7. /\ c4 \in Seq(High) /\ c3 \in Seq(High) /\ c2 \in Seq(High) /\ c1 \in Seq(High)
      /\ Len(c1) \in Nat /\ Len(c1) <= 4
  <2>1. <<>> \in Seq(High) /\ Len(<<>>) <= 0 /\ 0 \in Nat /\ 0 + 1 \in Nat
        /\ 0 + 1 + 1 \in Nat /\ 0 + 1 + 1 + 1 \in Nat
    OBVIOUS
  <2>2. c4 \in Seq(High) /\ Len(c4) <= 0 + 1
    BY <1>1, <2>1, HighMore, Zenon
  <2> HIDE DEF c4
  <2>3. c3 \in Seq(High) /\ Len(c3) <= 0 + 1 + 1
    BY <1>1, <2>1, <2>2, HighMore, Zenon
  <2> HIDE DEF c3
  <2>4. c2 \in Seq(High) /\ Len(c2) <= 0 + 1 + 1 + 1
    BY <1>1, <2>1, <2>3, HighMore, Zenon
  <2> HIDE DEF c2
  <2>5. c1 \in Seq(High) /\ Len(c1) <= 0 + 1 + 1 + 1 + 1
    BY <1>1, <2>1, <2>4, HighMore, Zenon
  <2> HIDE DEF c1
  <2>6. Len(c1) \in Nat /\ Len(c1) <= 4
    BY <2>5
  <2> QED
    BY <2>2, <2>3, <2>4, <2>5, <2>6, Zenon
<1>8. CodeLength(n) = c
  BY <1>5, <1>6, <1>7
<1>9. ASSUME n < CodeRange
      PROVE  \E v : Reads(v, c1, n1)
  <2>1. \E v : Reads(v, c4, n4)
    <3>1. \E v : Reads(v, <<>>, n4 \div Septet)
      BY <1>4, <1>9 DEF Reads
    <3>2. <<>> \in Seq(High)
      OBVIOUS
    <3> QED
      BY <1>1, <3>1, <3>2, ReadMore, Zenon
  <2>2. n3 = 0 => c4 = <<>>
    BY <1>3, <1>6 DEF MoreBytes
  <2>3. n2 = 0 => c3 = <<>>
    BY <1>3, <2>2 DEF MoreBytes
  <2>4. n1 = 0 => c2 = <<>>
    BY <1>3, <2>3 DEF MoreBytes
  <2>5. \E v : Reads(v, c4, n3 \div Septet)
    BY <2>1 DEF n4
  <2> HIDE DEF c4
  <2>6. \E v : Reads(v, c3, n2 \div Septet)
    BY <1>1, <1>7, <2>2, <2>5, ReadMore, Zenon DEF n3
  <2> HIDE DEF c3
  <2>7. \E v : Reads(v, c2, n1 \div Septet)
    BY <1>1, <1>7, <2>3, <2>6, ReadMore, Zenon DEF n2
  <2> HIDE DEF c2
  <2> QED
    BY <1>1, <1>7, <2>4, <2>7, ReadMore, Zenon
<1> HIDE DEF c1
<1>10. ASSUME n < CodeRange
       PROVE  \E v : Reads(v, c, n)
  <2>1. c1 \in Seq(Nat) /\ x \in Nat
    BY <1>2, <1>7, SeptetIs DEF High
  <2>2. n1 * Septet + (x % Septet) = n
    BY <1>1, <1>2
  <2> QED
    BY <1>1, <1>9, <1>10, <2>1, <2>2, ByteMore, Zenon
<1>11. /\ c \in Seq(Byte) /\ Len(c) = Len(c1) + 1 /\ c[Len(c)] = x
       /\ \A k \in 1..Len(c1) : c[k] = c1[k] /\ c1[k] \in High
  <2>1. c1 \in Seq(Byte) /\ x \in Byte
    BY <1>2, <1>7, SeptetIs DEF High, Byte
  <2> QED
    BY <1>7, <2>1
<1>12. x < Septet /\ \A k \in 1..Len(c1) : c[k] >= Septet
  BY <1>2, <1>11, SeptetIs DEF High
<1> HIDE DEF c
<1>13. Spells(c, n)
  <2>1. Len(c) \in Nat \ {0} /\ Len(c) <= 5 /\ Len(c) - 1 = Len(c1)
    <3>1. Len(c1) \in Nat /\ Len(c1) <= 4 /\ Len(c) = Len(c1) + 1
      BY <1>7, <1>11, Zenon
    <3> QED
      BY <3>1
  <2> QED
    BY <1>10, <1>11, <1>12, <2>1 DEF Spells
<1> QED
  BY <1>8, <1>13, Zenon

\* What stands for induction here: the first counterexample.
LEMMA Least ==
  ASSUME NEW T, T \subseteq Nat, T # {}
  PROVE  \E n \in T : \A m \in T : n <= m
<1>1. \E n \in T : \A m \in T : ~(<<m, n>> \in OpToRel(<, Nat))
  BY WFMin, NatLessThanWellFounded, Zenon
<1>2. \A x, y \in Nat : y < x => <<y, x>> \in OpToRel(<, Nat)
  BY Zenon DEF OpToRel
<1>3. PICK n \in T : \A m \in T : ~(m < n)
  BY <1>1, <1>2, Zenon
<1> QED
  BY <1>3

\* f is the reader of the length between i and j: its definition defines it.
ReadsLength(f, b, i, j) ==
    f = [k \in i..j |-> (IF k = i THEN 0 ELSE f[k - 1] * Septet) + (b[k] % Septet)]

\* What decodeMinisspdLen makes of it.
LEMMA LengthRead ==
  ASSUME NEW b, NEW p \in Nat, NEW m \in Nat \ {0}, NEW v,
         \A k \in 1..m : v[k] = (IF k = 1 THEN 0 ELSE v[k - 1] * Septet) + (b[p + k] % Septet)
  PROVE  LengthAt(b, p + 1, p + m) = v[m]
<1> DEFINE i == p + 1
           j == p + m
           w == [k \in i..j |-> v[k - p]]
           len == CHOOSE f : ReadsLength(f, b, i, j)
<1>1. ReadsLength(w, b, i, j)
  <2>1. ASSUME NEW k \in i..j
        PROVE  w[k] = (IF k = i THEN 0 ELSE w[k - 1] * Septet) + (b[k] % Septet)
    <3>1. k - p \in 1..m /\ p + (k - p) = k /\ (k - p = 1 <=> k = i)
          /\ (k # i => k - 1 \in i..j /\ (k - 1) - p = (k - p) - 1)
      OBVIOUS
    <3> QED
      BY <3>1
  <2> HIDE DEF i, j
  <2> QED
    BY <2>1 DEF ReadsLength
<1>2. ReadsLength(len, b, i, j)
  BY <1>1, Zenon
<1>3. LengthAt(b, i, j) = len[j]
  BY Zenon DEF LengthAt, ReadsLength
<1> HIDE DEF len
<1> DEFINE T == {k \in 1..m : len[p + k] # v[k]}
<1>4. SUFFICES ASSUME T # {} PROVE FALSE
  BY <1>3
<1>5. PICK k \in T : \A h \in T : k <= h
  <2>1. T \subseteq Nat
    OBVIOUS
  <2> HIDE DEF T
  <2> QED
    BY <1>4, <2>1, Least
<1>6. k \in 1..m /\ p + k \in i..j /\ (p + k = i <=> k = 1)
  BY <1>5
<1>7. len[p + k] = (IF p + k = i THEN 0 ELSE len[(p + k) - 1] * Septet) + (b[p + k] % Septet)
  <2> HIDE DEF i, j
  <2> QED
    BY <1>2, <1>6 DEF ReadsLength
<1>8. CASE k = 1
  BY <1>5, <1>6, <1>7, <1>8
<1>9. CASE k # 1
  <2>1. k - 1 \in 1..m /\ (p + k) - 1 = p + (k - 1) /\ ~(k <= k - 1)
    BY <1>6, <1>9
  <2>2. len[(p + k) - 1] = v[k - 1]
    BY <1>5, <2>1
  <2> QED
    BY <1>5, <1>6, <1>7, <1>9, <2>2
<1> QED
  BY <1>8, <1>9

\* b has s behind the first p bytes, or the beginning of it.
Holds(b, p, s) == \A k \in 1..Len(s) : p + k <= Len(b) => b[p + k] = s[k]

\* The end of a code is found when it is there.
LEMMA EndFound ==
  ASSUME NEW b, Len(b) \in Nat, NEW p \in Nat, NEW n \in Nat, NEW c, Spells(c, n),
         Holds(b, p, c), p + Len(c) <= Len(b)
  PROVE  LengthEnds(b, p + 1) = {p + Len(c)}
<1> DEFINE e == p + Len(c)
<1>1. Len(c) \in Nat \ {0} /\ e \in (p + 1)..Len(b) /\ e \in Nat
  BY DEF Spells
<1>2. \A j \in (p + 1)..e : j - p \in 1..Len(c) /\ p + (j - p) = j
  BY <1>1
<1>3. \A j \in (p + 1)..e : b[j] = c[j - p]
  <2> SUFFICES ASSUME NEW j \in (p + 1)..e PROVE b[j] = c[j - p]
    OBVIOUS
  <2>1. j - p \in 1..Len(c) /\ p + (j - p) = j /\ j <= Len(b)
    BY <1>1, <1>2
  <2>2. b[p + (j - p)] = c[j - p]
    BY <2>1 DEF Holds
  <2> QED
    BY <2>1, <2>2
<1>4. b[e] < Septet
  <2>1. b[e] = c[Len(c)]
    BY <1>1, <1>3
  <2> QED
    BY <2>1 DEF Spells
<1>5. \A j \in (p + 1)..(e - 1) : b[j] >= Septet
  <2> SUFFICES ASSUME NEW j \in (p + 1)..(e - 1) PROVE b[j] >= Septet
    OBVIOUS
  <2>1. j \in (p + 1)..e /\ j - p \in 1..(Len(c) - 1)
    BY <1>1
  <2>2. b[j] = c[j - p]
    BY <1>3, <2>1
  <2> QED
    BY <2>1, <2>2 DEF Spells
<1>6. \A j \in (p + 1)..(e - 1) : ~(b[j] < Septet)
  <2> SUFFICES ASSUME NEW j \in (p + 1)..(e - 1), b[j] < Septet PROVE FALSE
    OBVIOUS
  <2>1. j \in (p + 1)..e /\ j - p \in 1..(Len(c) - 1) /\ j - p \in 1..Len(c)
    BY <1>1
  <2>2. b[j] = c[j - p] /\ c[j - p] >= Septet
    BY <1>3, <2>1 DEF Spells
  <2>3. c[j - p] \in Nat
    <3>1. c \in Seq(Byte)
      BY DEF Spells
    <3>2. c[j - p] \in Byte
      BY <2>1, <3>1
    <3> QED
      BY <3>2, SeptetIs DEF Byte
  <2> QED
    BY <2>2, <2>3, SeptetIs
<1> HIDE DEF e
<1>7. ASSUME NEW j \in LengthEnds(b, p + 1)
      PROVE  j = e
  <2>1. j \in (p + 1)..Len(b) /\ b[j] < Septet /\ \A k \in (p + 1)..(j - 1) : b[k] >= Septet
    BY DEF LengthEnds
  <2>2. ~(j < e)
    BY <1>1, <1>6, <2>1
  <2>3. ASSUME j > e PROVE FALSE
    <3>1. e \in (p + 1)..(j - 1)
      BY <1>1, <2>1, <2>3
    <3>2. b[e] >= Septet
      BY <2>1, <3>1
    <3>3. b[e] \in Nat
      <4>1. b[e] = c[Len(c)] /\ Len(c) \in 1..Len(c)
        BY <1>1, <1>3 DEF e
      <4> QED
        BY <4>1, SeptetIs DEF Spells, Byte
    <3> QED
      BY <1>4, <3>2, <3>3, SeptetIs
  <2> QED
    BY <1>1, <2>1, <2>2, <2>3
<1>8. e \in LengthEnds(b, p + 1)
  BY <1>1, <1>4, <1>5 DEF LengthEnds
<1>9. LengthEnds(b, p + 1) = {e}
  BY <1>7, <1>8
<1> QED
  BY <1>9, Zenon DEF e

\* And not when it is not.
LEMMA EndMissing ==
  ASSUME NEW b, Len(b) \in Nat, NEW p \in Nat, NEW n \in Nat, NEW c, Spells(c, n),
         Holds(b, p, c), p + Len(c) > Len(b)
  PROVE  LengthEnds(b, p + 1) = {}
<1> SUFFICES ASSUME NEW j \in LengthEnds(b, p + 1) PROVE FALSE
  OBVIOUS
<1>1. j \in (p + 1)..Len(b) /\ b[j] < Septet
  BY DEF LengthEnds
<1>2. Len(c) \in Nat \ {0}
  BY DEF Spells
<1>3. j - p \in 1..(Len(c) - 1) /\ j - p \in 1..Len(c) /\ p + (j - p) = j /\ j <= Len(b)
  BY <1>1, <1>2
<1>4. b[p + (j - p)] = c[j - p]
  BY <1>3 DEF Holds
<1>5. c[j - p] >= Septet /\ c[j - p] \in Nat
  <2>1. c \in Seq(Byte) /\ c[j - p] >= Septet
    BY <1>3 DEF Spells
  <2>2. c[j - p] \in Byte
    BY <1>3, <2>1
  <2> QED
    BY <2>1, <2>2, SeptetIs DEF Byte
<1> QED
  BY <1>1, <1>3, <1>4, <1>5, SeptetIs

-----------------------------------------------------------------------------
(* Texts, and where they end. *)

LEMMA TextIs ==
  ASSUME NEW t \in Text
  PROVE  t \in Seq(Byte) /\ Len(t) \in Nat /\ Len(t) < CodeRange
<1>1. t \in Seq(0..(Septet - 1)) /\ Len(t) < CodeRange
  BY DEF Text
<1>2. \A i \in 1..Len(t) : t[i] \in Byte
  BY <1>1, SeptetIs DEF Byte
<1> QED
  BY <1>1, <1>2

\* A text behind its code.
LEMMA AddStringShape ==
  ASSUME NEW t \in Text
  PROVE  LET c == CodeLength(Len(t))
             s == AddString(t)
         IN /\ s \in Seq(Byte) /\ Spells(c, Len(t)) /\ Len(s) = Len(c) + Len(t)
            /\ Len(c) \in Nat \ {0} /\ Len(t) \in Nat
            /\ \A k \in 1..Len(c) : s[k] = c[k]
            /\ \A k \in 1..Len(t) : s[Len(c) + k] = t[k]
<1> DEFINE c == CodeLength(Len(t))
           s == AddString(t)
<1>1. t \in Seq(Byte) /\ Len(t) \in Nat
  BY TextIs
<1>2. Spells(c, Len(t))
  BY <1>1, LengthSpelled
<1>3. c \in Seq(Byte) /\ Len(c) \in Nat \ {0}
  BY <1>2 DEF Spells
<1>4. s = c \o t
  BY DEF AddString
<1> HIDE DEF c, s
<1>5. /\ s \in Seq(Byte) /\ Len(s) = Len(c) + Len(t)
      /\ \A k \in 1..(Len(c) + Len(t)) : s[k] = IF k <= Len(c) THEN c[k] ELSE t[k - Len(c)]
  BY <1>1, <1>3, <1>4, ConcatProperties
<1>6. \A k \in 1..Len(c) : s[k] = c[k]
  BY <1>1, <1>3, <1>5
<1>7. ASSUME NEW k \in 1..Len(t)
      PROVE  s[Len(c) + k] = t[k]
  <2>1. Len(c) + k \in 1..(Len(c) + Len(t)) /\ ~(Len(c) + k <= Len(c)) /\ (Len(c) + k) - Len(c) = k
    BY <1>1, <1>3
  <2> QED
    BY <1>5, <2>1
<1> QED
  BY <1>1, <1>2, <1>3, <1>5, <1>6, <1>7, Zenon DEF c, s

\* Where a text behind p bytes ends.
LEMMA TextEndFound ==
  ASSUME NEW b, Len(b) \in Nat, NEW p \in Nat, NEW t \in Text, Holds(b, p, AddString(t))
  PROVE  LET c == CodeLength(Len(t))
         IN IF p + Len(c) <= Len(b)
            THEN /\ LengthEnds(b, p + 1) = {p + Len(c)} /\ Min(LengthEnds(b, p + 1)) = p + Len(c)
                 /\ TextEnd(b, p) = p + Len(AddString(t))
            ELSE LengthEnds(b, p + 1) = {} /\ TextEnd(b, p) = p
<1> DEFINE c == CodeLength(Len(t))
           s == AddString(t)
           e == p + Len(c)
<1>1. /\ Spells(c, Len(t)) /\ Len(s) = Len(c) + Len(t)
      /\ Len(c) \in Nat \ {0} /\ Len(t) \in Nat /\ Len(t) < CodeRange
      /\ \A k \in 1..Len(c) : s[k] = c[k]
  BY AddStringShape, TextIs
<1> HIDE DEF c, s
<1>2. Holds(b, p, c)
  <2>1. \A k \in 1..Len(c) : k \in 1..Len(s)
    BY <1>1
  <2> QED
    BY <1>1, <2>1 DEF Holds, s
<1>3. CASE e <= Len(b)
  <2>1. LengthEnds(b, p + 1) = {e}
    BY <1>1, <1>2, <1>3, EndFound
  <2>2. e \in Nat
    BY <1>1
  <2>3. Min({e}) = e
    BY <2>2 DEF Min
  <2>4. PICK v : Reads(v, c, Len(t))
    BY <1>1 DEF Spells
  <2>5. \A k \in 1..Len(c) : v[k] = (IF k = 1 THEN 0 ELSE v[k - 1] * Septet) + (b[p + k] % Septet)
    <3> SUFFICES ASSUME NEW k \in 1..Len(c)
                 PROVE  v[k] = (IF k = 1 THEN 0 ELSE v[k - 1] * Septet) + (b[p + k] % Septet)
      OBVIOUS
    <3>1. p + k <= Len(b)
      BY <1>1, <1>3
    <3>2. b[p + k] = c[k]
      BY <1>2, <3>1 DEF Holds
    <3>3. v[k] = (IF k = 1 THEN 0 ELSE v[k - 1] * Septet) + (c[k] % Septet)
      BY <2>4 DEF Reads
    <3> QED
      BY <3>2, <3>3, Zenon
  <2>6. LengthAt(b, p + 1, e) = v[Len(c)]
    <3> DEFINE m == Len(c)
    <3>1. m \in Nat \ {0} /\ e = p + m
      BY <1>1
    <3>2. \A k \in 1..m : v[k] = (IF k = 1 THEN 0 ELSE v[k - 1] * Septet) + (b[p + k] % Septet)
      BY <2>5
    <3> HIDE DEF m, e
    <3>3. LengthAt(b, p + 1, p + m) = v[m]
      BY <3>1, <3>2, LengthRead
    <3> QED
      BY <3>1, <3>3 DEF m
  <2>7. v[Len(c)] = Len(t)
    <3>1. c # <<>>
      BY <1>1
    <3> QED
      BY <2>4, <3>1 DEF Reads
  <2>8. TextEnd(b, p) = e + Len(t)
    <3>1. TextEnd(b, p) = Min({e}) + LengthAt(b, p + 1, Min({e}))
      BY <2>1, Zenon DEF TextEnd
    <3> QED
      BY <2>3, <2>6, <2>7, <3>1
  <2>9. e + Len(t) = p + Len(s)
    BY <1>1
  <2> QED
    BY <1>3, <2>1, <2>3, <2>8, <2>9, Zenon DEF c, s
<1>4. CASE ~(e <= Len(b))
  <2>1. e > Len(b)
    BY <1>1, <1>4
  <2>2. LengthEnds(b, p + 1) = {}
    BY <1>1, <1>2, <2>1, EndMissing
  <2>3. TextEnd(b, p) = p
    BY <2>2, Zenon DEF TextEnd
  <2> QED
    BY <1>4, <2>2, <2>3, Zenon DEF c
<1> QED
  BY <1>3, <1>4

\* The n texts of ts lie in a one behind the other; pos says where each ends.
Lies(a, base, ts, n, pos) ==
    /\ a \in Seq(Byte) /\ n \in Nat /\ pos[0] = base /\ pos[n] = Len(a)
    /\ \A i \in 0..n : pos[i] \in Nat
    /\ \A i \in 1..n : /\ ts[i] \in Text
                       /\ pos[i] = pos[i - 1] + Len(AddString(ts[i]))
                       /\ \A k \in 1..Len(AddString(ts[i])) :
                             a[pos[i - 1] + k] = AddString(ts[i])[k]

\* Even an empty text takes a byte.
LEMMA AddStringNotEmpty ==
  ASSUME NEW t \in Text
  PROVE  Len(AddString(t)) \in Nat \ {0}
<1> DEFINE c == CodeLength(Len(t))
           s == AddString(t)
<1>1. Len(s) = Len(c) + Len(t) /\ Len(c) \in Nat \ {0} /\ Len(t) \in Nat
  BY AddStringShape
<1> HIDE DEF c, s
<1>2. Len(s) \in Nat \ {0}
  BY <1>1
<1> QED
  BY <1>2 DEF s

\* No text is empty, its code counted.
LEMMA LiesGrows ==
  ASSUME NEW a, NEW base, NEW ts, NEW n, NEW pos, Lies(a, base, ts, n, pos)
  PROVE  \A i \in 0..n : pos[i] + (n - i) <= Len(a)
<1>1. a \in Seq(Byte) /\ Len(a) \in Nat /\ n \in Nat /\ pos[n] = Len(a)
  BY DEF Lies
<1>2. ASSUME NEW i \in 1..n
      PROVE  pos[i] \in Nat /\ pos[i - 1] \in Nat /\ pos[i - 1] + 1 <= pos[i]
  <2>1. i \in 0..n /\ i - 1 \in 0..n
    BY <1>1
  <2>2. pos[i] \in Nat /\ pos[i - 1] \in Nat
    BY <2>1 DEF Lies
  <2>3. pos[i] = pos[i - 1] + Len(AddString(ts[i])) /\ ts[i] \in Text
    BY DEF Lies
  <2>4. Len(AddString(ts[i])) \in Nat \ {0}
    BY <2>3, AddStringNotEmpty
  <2> QED
    BY <2>2, <2>3, <2>4
<1> DEFINE T == {d \in 0..n : ~(pos[n - d] + d <= Len(a))}
<1>3. SUFFICES ASSUME T # {} PROVE FALSE
  <2> SUFFICES ASSUME NEW i \in 0..n PROVE pos[i] + (n - i) <= Len(a)
    OBVIOUS
  <2>1. n - i \in 0..n /\ n - (n - i) = i
    BY <1>1
  <2>2. pos[n - (n - i)] + (n - i) <= Len(a)
    BY <1>3, <2>1
  <2> QED
    BY <2>1, <2>2
<1>4. PICK d \in T : \A h \in T : d <= h
  <2>1. T \subseteq Nat
    BY <1>1
  <2> HIDE DEF T
  <2> QED
    BY <1>3, <2>1, Least
<1>5. d # 0
  <2>1. d = 0 => pos[n - d] + d = Len(a)
    BY <1>1
  <2> QED
    BY <1>1, <1>4, <2>1
<1>6. d \in 0..n /\ d - 1 \in 0..n /\ ~(d <= d - 1) /\ n - (d - 1) \in 1..n
      /\ (n - (d - 1)) - 1 = n - d
  BY <1>1, <1>4, <1>5
<1>7. pos[n - (d - 1)] + (d - 1) <= Len(a)
  BY <1>4, <1>6
<1>8. pos[n - (d - 1)] \in Nat /\ pos[n - d] \in Nat /\ pos[n - d] + 1 <= pos[n - (d - 1)]
  BY <1>2, <1>6
<1>9. pos[n - d] + d <= Len(a)
  BY <1>1, <1>6, <1>7, <1>8
<1> QED
  BY <1>4, <1>9

-----------------------------------------------------------------------------
(* What a reader makes of a beginning. *)

\* b is the beginning of a.
Begins(b, a) == b \in Seq(Byte) /\ Len(b) <= Len(a) /\ \A k \in 1..Len(b) : b[k] = a[k]

Base(rq) == IF rq = Version THEN 0 ELSE 1

\* What TextEnd makes of each of the texts.
LEMMA TextEndOf ==
  ASSUME NEW a, NEW base, NEW ts, NEW n, NEW pos, Lies(a, base, ts, n, pos),
         NEW b, Begins(b, a), NEW i \in 1..n
  PROVE  /\ Len(b) \in Nat /\ pos[i - 1] \in Nat /\ pos[i] \in Nat
         /\ LET c == CodeLength(Len(ts[i]))
            IN IF pos[i - 1] + Len(c) <= Len(b)
               THEN /\ LengthEnds(b, pos[i - 1] + 1) = {pos[i - 1] + Len(c)}
                    /\ Min(LengthEnds(b, pos[i - 1] + 1)) = pos[i - 1] + Len(c)
                    /\ TextEnd(b, pos[i - 1]) = pos[i]
               ELSE LengthEnds(b, pos[i - 1] + 1) = {} /\ TextEnd(b, pos[i - 1]) = pos[i - 1]
<1> DEFINE p == pos[i - 1]
           s == AddString(ts[i])
<1>1. n \in Nat /\ a \in Seq(Byte) /\ Len(a) \in Nat /\ b \in Seq(Byte) /\ Len(b) \in Nat
  BY DEF Lies, Begins
<1>2. p \in Nat /\ pos[i] \in Nat
  <2>1. i - 1 \in 0..n /\ i \in 0..n
    BY <1>1
  <2> QED
    BY <2>1 DEF Lies
<1>3. /\ ts[i] \in Text /\ pos[i] = p + Len(s)
      /\ \A k \in 1..Len(s) : a[p + k] = s[k]
  BY DEF Lies
<1> HIDE DEF p, s
<1>4. Len(s) \in Nat
  BY <1>3, AddStringNotEmpty DEF s
<1>5. Holds(b, p, s)
  <2> SUFFICES ASSUME NEW k \in 1..Len(s), p + k <= Len(b) PROVE b[p + k] = s[k]
    BY DEF Holds
  <2>1. p + k \in 1..Len(b)
    BY <1>1, <1>2, <1>4
  <2> QED
    BY <1>3, <2>1 DEF Begins
<1>6. LET c == CodeLength(Len(ts[i]))
      IN IF p + Len(c) <= Len(b)
         THEN /\ LengthEnds(b, p + 1) = {p + Len(c)} /\ Min(LengthEnds(b, p + 1)) = p + Len(c)
              /\ TextEnd(b, p) = p + Len(s)
         ELSE LengthEnds(b, p + 1) = {} /\ TextEnd(b, p) = p
  BY <1>1, <1>2, <1>3, <1>5, TextEndFound, Zenon DEF s
<1> QED
  BY <1>1, <1>2, <1>3, <1>6, Zenon DEF p

\* f is what Ends goes by: its definition defines it.
FindsEnds(f, b, rq, m) ==
    f = [k \in 0..m |->
            IF k = 0 THEN IF rq = Version THEN 0 ELSE 1
            ELSE CHOOSE e \in {TextEnd(b, p) : p \in {f[k - 1]}} : TRUE]

LEMMA ChosenEnd ==
  ASSUME NEW b, NEW q
  PROVE  (CHOOSE e \in {TextEnd(b, p) : p \in {q}} : TRUE) = TextEnd(b, q)
<1>1. {TextEnd(b, p) : p \in {q}} = {TextEnd(b, q)}
  OBVIOUS
<1>2. \E e : e \in {TextEnd(b, q)}
  OBVIOUS
<1>3. (CHOOSE e : e \in {TextEnd(b, q)}) = TextEnd(b, q)
  BY <1>2
<1> QED
  BY <1>1, <1>3

\* e are the ends of the first m texts, as far as the first j, which can be told.
UpTo(e, b, pos, m, j) ==
    /\ \A i \in 0..(j - 1) : LengthEnds(b, pos[i] + 1) # {}
    /\ j < m => LengthEnds(b, pos[j] + 1) = {}
    /\ \A k \in 0..m : e[k + 1] = pos[IF k <= j THEN k ELSE j]

Found(e, b, pos, m) ==
    e \in Seq(Nat) /\ Len(e) = m + 1 /\ \E j \in 0..m : UpTo(e, b, pos, m, j)

\* The ends are found one after the other, up to the first that cannot be told.
LEMMA EndsFound ==
  ASSUME NEW rq, NEW a, NEW ts, NEW n, NEW pos, Lies(a, Base(rq), ts, n, pos),
         NEW b, Begins(b, a), NEW m \in 0..n, NrStrings(rq, b) = m
  PROVE  Found(Ends(rq, b), b, pos, m)
<1>1. n \in Nat /\ m \in Nat /\ m <= n /\ pos[0] = Base(rq) /\ \A i \in 0..n : pos[i] \in Nat
  BY DEF Lies
<1>2. \E j \in 0..m : /\ \A i \in 0..(j - 1) : LengthEnds(b, pos[i] + 1) # {}
                      /\ j < m => LengthEnds(b, pos[j] + 1) = {}
  <2> DEFINE T == {j \in 0..m : j = m \/ LengthEnds(b, pos[j] + 1) = {}}
  <2>1. T \subseteq Nat /\ T # {}
    BY <1>1
  <2>2. PICK j \in T : \A h \in T : j <= h
    <3> HIDE DEF T
    <3> QED
      BY <2>1, Least
  <2>3. j \in 0..m /\ (j < m => LengthEnds(b, pos[j] + 1) = {})
    BY <1>1, <2>2
  <2>4. ASSUME NEW i \in 0..(j - 1)
        PROVE  LengthEnds(b, pos[i] + 1) # {}
    <3>1. i \in 0..m /\ ~(j <= i)
      BY <1>1, <2>3
    <3> QED
      BY <2>2, <3>1
  <2> QED
    BY <2>3, <2>4
<1>3. PICK j \in 0..m : /\ \A i \in 0..(j - 1) : LengthEnds(b, pos[i] + 1) # {}
                        /\ j < m => LengthEnds(b, pos[j] + 1) = {}
  BY <1>2
<1> DEFINE At(k) == pos[IF k <= j THEN k ELSE j]
           w == [k \in 0..m |-> At(k)]
           end == CHOOSE f : FindsEnds(f, b, rq, m)
<1>4. ASSUME NEW k \in 1..m
      PROVE  TextEnd(b, At(k - 1)) = At(k)
  <2>1. k \in 1..n /\ j \in Nat /\ k \in Nat
    BY <1>1
  <2>2. CASE k <= j
    <3>1. k - 1 \in 0..(j - 1) /\ k - 1 <= j
      BY <2>1, <2>2
    <3>2. LengthEnds(b, pos[k - 1] + 1) # {}
      BY <1>3, <3>1
    <3>3. TextEnd(b, pos[k - 1]) = pos[k]
      BY <2>1, <3>2, TextEndOf, Zenon
    <3> QED
      BY <2>2, <3>1, <3>3
  <2>3. CASE ~(k <= j)
    <3>1. j < m /\ j + 1 \in 1..n /\ (j + 1) - 1 = j /\ At(k - 1) = pos[j] /\ At(k) = pos[j]
      BY <1>1, <2>1, <2>3
    <3>2. LengthEnds(b, pos[j] + 1) = {}
      BY <1>3, <3>1
    <3>3. TextEnd(b, pos[j]) = pos[j]
      BY <3>2, Zenon DEF TextEnd
    <3> QED
      BY <3>1, <3>3
  <2> QED
    BY <2>2, <2>3
<1>5. At(0) = Base(rq) /\ \A k \in 0..m : At(k) \in Nat
  BY <1>1
<1> HIDE DEF At
<1>6. FindsEnds(w, b, rq, m)
  <2>1. ASSUME NEW k \in 0..m
        PROVE  w[k] = IF k = 0 THEN Base(rq)
                      ELSE CHOOSE e \in {TextEnd(b, p) : p \in {w[k - 1]}} : TRUE
    <3>1. CASE k = 0
      BY <1>5, <3>1
    <3>2. CASE k # 0
      <4>1. k \in 1..m /\ k - 1 \in 0..m
        BY <1>1, <3>2
      <4>2. w[k - 1] = At(k - 1) /\ w[k] = At(k)
        BY <4>1
      <4>3. w[k] = TextEnd(b, w[k - 1])
        BY <1>4, <4>1, <4>2
      <4> HIDE DEF w
      <4> QED
        BY <3>2, <4>3, ChosenEnd
    <3> QED
      BY <3>1, <3>2
  <2> QED
    BY <2>1, Zenon DEF FindsEnds, Base
<1>7. FindsEnds(end, b, rq, m)
  BY <1>6, Zenon
<1>8. Ends(rq, b) = [k \in 1..(m + 1) |-> end[k - 1]]
  <2>1. Ends(rq, b) = [k \in 1..(NrStrings(rq, b) + 1) |->
                          (CHOOSE f : FindsEnds(f, b, rq, NrStrings(rq, b)))[k - 1]]
    BY Zenon DEF Ends, FindsEnds
  <2> QED
    BY <2>1
<1> HIDE DEF end, w
<1>9. ASSUME NEW k \in 0..m
      PROVE  end[k] = At(k)
  <2> DEFINE T == {i \in 0..m : end[i] # At(i)}
  <2>1. SUFFICES ASSUME T # {} PROVE FALSE
    OBVIOUS
  <2>2. PICK i \in T : \A h \in T : i <= h
    <3>1. T \subseteq Nat
      BY <1>1
    <3> HIDE DEF T
    <3> QED
      BY <2>1, <3>1, Least
  <2>3. end[i] = IF i = 0 THEN Base(rq)
                 ELSE CHOOSE e \in {TextEnd(b, p) : p \in {end[i - 1]}} : TRUE
    BY <1>7, <2>2 DEF FindsEnds, Base
  <2>4. i # 0
    BY <1>5, <2>2, <2>3
  <2>5. i \in 1..m /\ i - 1 \in 0..m /\ ~(i <= i - 1)
    BY <1>1, <2>2, <2>4
  <2>6. end[i - 1] = At(i - 1)
    BY <2>2, <2>5
  <2>7. end[i] = TextEnd(b, end[i - 1])
    BY <2>3, <2>4, ChosenEnd
  <2> QED
    BY <1>4, <2>2, <2>5, <2>6, <2>7
<1>10. \A k \in 1..(m + 1) : k - 1 \in 0..m
  BY <1>1
<1>11. \A k \in 1..(m + 1) : end[k - 1] \in Nat
  BY <1>5, <1>9, <1>10
<1>12. Ends(rq, b) \in Seq(Nat) /\ Len(Ends(rq, b)) = m + 1
  BY <1>1, <1>8, <1>11
<1>13. \A k \in 0..m : Ends(rq, b)[k + 1] = At(k)
  BY <1>1, <1>8, <1>9
<1> QED
  BY <1>3, <1>12, <1>13, Zenon DEF At, Found, UpTo

-----------------------------------------------------------------------------
(* The texts of an answer. *)

\* What lies behind a text.
LEMMA LiesMore ==
  ASSUME NEW a, NEW base, NEW ts, NEW n, NEW pos, Lies(a, base, ts, n, pos), ts[n + 1] \in Text
  PROVE  \E q : Lies(a \o AddString(ts[n + 1]), base, ts, n + 1, q)
<1> DEFINE s == AddString(ts[n + 1])
           d == a \o s
           q == [i \in 0..(n + 1) |-> IF i <= n THEN pos[i] ELSE Len(d)]
<1>1. /\ a \in Seq(Byte) /\ Len(a) \in Nat /\ n \in Nat /\ pos[0] = base /\ pos[n] = Len(a)
      /\ \A i \in 0..n : pos[i] \in Nat
  BY DEF Lies
<1>2. s \in Seq(Byte) /\ Len(s) \in Nat
  BY AddStringShape
<1>3. n + 1 \in 1..(n + 1) /\ ~(n + 1 <= n)
  BY <1>1
<1> HIDE DEF s
<1>4. /\ d \in Seq(Byte) /\ Len(d) = Len(a) + Len(s)
      /\ \A k \in 1..(Len(a) + Len(s)) : d[k] = IF k <= Len(a) THEN a[k] ELSE s[k - Len(a)]
  BY <1>1, <1>2, ConcatProperties
<1> HIDE DEF d
<1>5. /\ \A i \in 0..n : q[i] = pos[i]
      /\ q[n + 1] = Len(d)
  BY <1>1, <1>3
<1> HIDE DEF q
<1>6. \A i \in 0..(n + 1) : q[i] \in Nat
  <2> SUFFICES ASSUME NEW i \in 0..(n + 1) PROVE q[i] \in Nat
    OBVIOUS
  <2>1. i \in 0..n \/ i = n + 1
    BY <1>1
  <2>2. Len(d) \in Nat
    BY <1>1, <1>2, <1>4
  <2>3. i \in 0..n => q[i] \in Nat
    BY <1>1, <1>5
  <2> QED
    BY <1>5, <2>1, <2>2, <2>3
<1>7. ASSUME NEW i \in 1..(n + 1)
      PROVE  /\ ts[i] \in Text
             /\ q[i] = q[i - 1] + Len(AddString(ts[i]))
             /\ \A k \in 1..Len(AddString(ts[i])) : d[q[i - 1] + k] = AddString(ts[i])[k]
  <2>1. CASE i \in 1..n
    <3>1. i \in 0..n /\ i - 1 \in 0..n /\ i \in Nat
      BY <1>1, <2>1
    <3>2. q[i] = pos[i] /\ q[i - 1] = pos[i - 1]
      BY <1>5, <3>1
    <3>3. /\ ts[i] \in Text /\ pos[i] = pos[i - 1] + Len(AddString(ts[i]))
          /\ \A k \in 1..Len(AddString(ts[i])) : a[pos[i - 1] + k] = AddString(ts[i])[k]
      BY <2>1 DEF Lies
    <3>4. ASSUME NEW k \in 1..Len(AddString(ts[i]))
          PROVE  d[pos[i - 1] + k] = a[pos[i - 1] + k]
      <4>1. Len(AddString(ts[i])) \in Nat /\ pos[i - 1] \in Nat /\ pos[i] \in Nat
        BY <1>1, <3>1, <3>3, AddStringNotEmpty
      <4>2. pos[i] + (n - i) <= Len(a)
        BY <3>1, LiesGrows
      <4>3. pos[i] <= Len(a)
        BY <1>1, <2>1, <4>1, <4>2
      <4>4. pos[i - 1] + k <= pos[i] /\ pos[i - 1] + k \in Nat \ {0}
        BY <3>3, <4>1
      <4>5. pos[i - 1] + k <= Len(a) /\ pos[i - 1] + k \in 1..(Len(a) + Len(s))
        <5>1. \A p, e, l, g \in Nat :
                p <= e /\ e <= l /\ p # 0 => p <= l /\ p \in 1..(l + g)
          OBVIOUS
        <5> QED
          BY <1>1, <1>2, <4>1, <4>3, <4>4, <5>1
      <4> QED
        BY <1>4, <4>5
    <3> QED
      BY <3>2, <3>3, <3>4
  <2>2. CASE i = n + 1
    <3>1. i - 1 = n /\ n \in 0..n
      BY <1>1, <2>2
    <3>2. q[i - 1] = Len(a) /\ q[i] = Len(a) + Len(s)
      BY <1>1, <1>4, <1>5, <2>2, <3>1
    <3>3. ASSUME NEW k \in 1..Len(s)
          PROVE  d[Len(a) + k] = s[k]
      <4>1. Len(a) + k \in 1..(Len(a) + Len(s)) /\ ~(Len(a) + k <= Len(a))
            /\ (Len(a) + k) - Len(a) = k
        BY <1>1, <1>2
      <4> QED
        BY <1>4, <4>1
    <3>4. ts[i] \in Text /\ AddString(ts[i]) = s
      BY <2>2, Zenon DEF s
    <3> QED
      BY <3>2, <3>3, <3>4
  <2> QED
    BY <1>1, <2>1, <2>2
<1>8. n + 1 \in Nat /\ 0 \in 0..n
  BY <1>1
<1>9. Lies(d, base, ts, n + 1, q)
  BY <1>1, <1>4, <1>5, <1>6, <1>7, <1>8 DEF Lies
<1> QED
  BY <1>9, Zenon DEF d, s

LEMMA LiesNothing ==
  ASSUME NEW a \in Seq(Byte), NEW ts
  PROVE  \E pos : Lies(a, Len(a), ts, 0, pos)
<1>1. Lies(a, Len(a), ts, 0, [i \in 0..0 |-> Len(a)])
  BY DEF Lies
<1> QED
  BY <1>1

\* The texts of services, in the order in which they are written.
TextsOf(svcs) ==
    [i \in 1..(3 * Len(svcs)) |->
        LET s == svcs[(i + 2) \div 3]
        IN IF i % 3 = 1 THEN s.location ELSE IF i % 3 = 2 THEN s.nt ELSE s.usn]

LEMMA TextsOfService ==
  ASSUME NEW svcs \in Seq(Service), NEW k \in 1..Len(svcs)
  PROVE  LET ts == TextsOf(svcs)
         IN /\ ts[3 * k - 2] = svcs[k].location /\ ts[3 * k - 1] = svcs[k].nt
            /\ ts[3 * k] = svcs[k].usn
            /\ ts[3 * k - 2] \in Text /\ ts[3 * k - 1] \in Text /\ ts[3 * k] \in Text
<1>1. /\ 3 * k - 2 \in 1..(3 * Len(svcs)) /\ 3 * k - 1 \in 1..(3 * Len(svcs))
      /\ 3 * k \in 1..(3 * Len(svcs))
      /\ ((3 * k - 2) + 2) \div 3 = k /\ ((3 * k - 1) + 2) \div 3 = k /\ (3 * k + 2) \div 3 = k
      /\ (3 * k - 2) % 3 = 1 /\ (3 * k - 1) % 3 = 2 /\ (3 * k) % 3 = 0
  OBVIOUS
<1>2. svcs[k] \in Service
  OBVIOUS
<1>3. svcs[k].location \in Text /\ svcs[k].nt \in Text /\ svcs[k].usn \in Text
  BY <1>2 DEF Service
<1>4. /\ TextsOf(svcs)[3 * k - 2] = svcs[k].location
      /\ TextsOf(svcs)[3 * k - 1] = svcs[k].nt
      /\ TextsOf(svcs)[3 * k] = svcs[k].usn
  BY <1>1 DEF TextsOf
<1> QED
  BY <1>3, <1>4

\* f holds the texts of the first services: its definition defines it.
Writes(f, svcs, n) ==
    f = [k \in 0..n |-> IF k = 0 THEN <<>> ELSE f[k - 1] \o ServiceText(svcs[k])]

\* GetIf can go over the services.
LEMMA WriterExists ==
  ASSUME NEW svcs, NEW n \in Nat
  PROVE  \E f : Writes(f, svcs, n)
<1> DEFINE T == {m \in Nat : ~\E f : Writes(f, svcs, m)}
<1>1. SUFFICES ASSUME T # {} PROVE FALSE
  OBVIOUS
<1>2. PICK m \in T : \A k \in T : m <= k
  <2>1. T \subseteq Nat
    OBVIOUS
  <2> HIDE DEF T
  <2> QED
    BY <1>1, <2>1, Least
<1>3. m \in Nat /\ m # 0
  <2>1. Writes([k \in 0..0 |-> <<>>], svcs, 0)
    BY DEF Writes
  <2> QED
    BY <1>2, <2>1
<1>4. PICK f : Writes(f, svcs, m - 1)
  <2>1. m - 1 \in Nat /\ ~(m <= m - 1)
    BY <1>3
  <2>2. m - 1 \notin T
    BY <1>2, <2>1
  <2> QED
    BY <2>1, <2>2
<1> DEFINE g == [k \in 0..m |-> IF k < m THEN f[k] ELSE f[m - 1] \o ServiceText(svcs[m])]
<1>5. Writes(g, svcs, m)
  <2>1. \A k \in 0..(m - 1) : f[k] = IF k = 0 THEN <<>> ELSE f[k - 1] \o ServiceText(svcs[k])
    BY <1>4 DEF Writes
  <2>2. \A k \in 0..m : g[k] = IF k = 0 THEN <<>> ELSE g[k - 1] \o ServiceText(svcs[k])
    BY <1>3, <2>1
  <2> QED
    BY <2>2 DEF Writes
<1> QED
  BY <1>2, <1>5

\* And adds the texts of one after the other.
LEMMA TextsWritten ==
  ASSUME NEW svcs \in Caches
  PROVE  /\ ServiceTexts[svcs][0] = <<>>
         /\ \A k \in 1..Len(svcs) :
               ServiceTexts[svcs][k] = ServiceTexts[svcs][k - 1] \o ServiceText(svcs[k])
<1>1. svcs \in Seq(Service) /\ Len(svcs) \in Nat
  BY IpcAssumption
<1>2. ServiceTexts[svcs] = CHOOSE f : Writes(f, svcs, Len(svcs))
  BY Zenon DEF ServiceTexts, Writes
<1>3. Writes(ServiceTexts[svcs], svcs, Len(svcs))
  BY <1>1, <1>2, WriterExists, Zenon
<1>4. \A k \in 0..Len(svcs) :
        ServiceTexts[svcs][k] =
            IF k = 0 THEN <<>> ELSE ServiceTexts[svcs][k - 1] \o ServiceText(svcs[k])
  BY <1>3 DEF Writes
<1>5. 0 \in 0..Len(svcs) /\ \A k \in 1..Len(svcs) : k \in 0..Len(svcs) /\ k # 0
  BY <1>1
<1> QED
  BY <1>4, <1>5, Zenon

LEMMA Associated ==
  ASSUME NEW s \in Seq(Byte), NEW t \in Seq(Byte), NEW u \in Seq(Byte)
  PROVE  s \o (t \o u) = (s \o t) \o u
<1>1. (s \o t) \o u = s \o (t \o u)
  BY ConcatAssociative, SMTT(20)
<1> QED
  BY <1>1

\* Behind the count lie the texts of the services.
LEMMA AnswerLies ==
  ASSUME NEW svcs \in Caches, NEW x \in Byte, NEW k \in 0..Len(svcs)
  PROVE  /\ ServiceTexts[svcs][k] \in Seq(Byte)
         /\ \E pos : Lies(<<x>> \o ServiceTexts[svcs][k], 1, TextsOf(svcs), 3 * k, pos)
<1> DEFINE texts == ServiceTexts[svcs]
           ts == TextsOf(svcs)
           Good(i) == /\ texts[i] \in Seq(Byte)
                      /\ \E pos : Lies(<<x>> \o texts[i], 1, ts, 3 * i, pos)
           T == {i \in 0..Len(svcs) : ~Good(i)}
<1>1. svcs \in Seq(Service) /\ Len(svcs) \in Nat /\ texts[0] = <<>>
  <2>1. svcs \in Seq(Service)
    BY IpcAssumption
  <2>2. texts[0] = <<>>
    BY TextsWritten
  <2> QED
    BY <2>1, <2>2
<1>2. \A i \in 1..Len(svcs) : texts[i] = texts[i - 1] \o ServiceText(svcs[i])
  BY TextsWritten
<1>3. \A i \in 1..Len(svcs) :
        /\ ts[3 * i - 2] = svcs[i].location /\ ts[3 * i - 1] = svcs[i].nt /\ ts[3 * i] = svcs[i].usn
        /\ ts[3 * i - 2] \in Text /\ ts[3 * i - 1] \in Text /\ ts[3 * i] \in Text
  BY <1>1, TextsOfService
<1> HIDE DEF texts, ts
<1>4. Good(0)
  <2>1. /\ <<x>> \o <<>> = <<x>> /\ <<x>> \in Seq(Byte) /\ Len(<<x>>) = 1
        /\ <<>> \in Seq(Byte) /\ 3 * 0 = 0
    OBVIOUS
  <2>2. \E pos : Lies(<<x>>, Len(<<x>>), ts, 0, pos)
    BY <2>1, LiesNothing, Zenon
  <2> QED
    BY <1>1, <2>1, <2>2, Zenon
<1>5. ASSUME NEW i \in 1..Len(svcs), Good(i - 1)
      PROVE  Good(i)
  <2> DEFINE A == AddString(ts[3 * i - 2])
             B == AddString(ts[3 * i - 1])
             C == AddString(ts[3 * i])
             w == <<x>> \o texts[i - 1]
  <2>1. A \in Seq(Byte) /\ B \in Seq(Byte) /\ C \in Seq(Byte)
    <3>1. ts[3 * i - 2] \in Text /\ ts[3 * i - 1] \in Text /\ ts[3 * i] \in Text
      BY <1>3
    <3> QED
      BY <3>1, AddStringShape, Zenon
  <2>2. ServiceText(svcs[i]) = A \o B \o C
    <3>1. ts[3 * i - 2] = svcs[i].location /\ ts[3 * i - 1] = svcs[i].nt /\ ts[3 * i] = svcs[i].usn
      BY <1>3
    <3> QED
      BY <3>1, Zenon DEF ServiceText
  <2>3. PICK p0 : Lies(w, 1, ts, 3 * (i - 1), p0)
    BY <1>5
  <2>4. 3 * (i - 1) + 1 = 3 * i - 2 /\ (3 * i - 2) + 1 = 3 * i - 1 /\ (3 * i - 1) + 1 = 3 * i
    BY <1>1
  <2>5. \E q : Lies(w \o A, 1, ts, 3 * i - 2, q)
    <3>1. ts[3 * (i - 1) + 1] \in Text
      BY <1>3, <2>4
    <3>2. \E q : Lies(w \o AddString(ts[3 * (i - 1) + 1]), 1, ts, 3 * (i - 1) + 1, q)
      BY <2>3, <3>1, LiesMore, Zenon
    <3> QED
      BY <2>4, <3>2, Zenon
  <2>6. \E q : Lies((w \o A) \o B, 1, ts, 3 * i - 1, q)
    <3>1. ts[(3 * i - 2) + 1] \in Text
      BY <1>3, <2>4
    <3> HIDE DEF w, A
    <3>2. \E q : Lies((w \o A) \o AddString(ts[(3 * i - 2) + 1]), 1, ts, (3 * i - 2) + 1, q)
      BY <2>5, <3>1, LiesMore, Zenon
    <3> QED
      BY <2>4, <3>2, Zenon
  <2>7. \E q : Lies(((w \o A) \o B) \o C, 1, ts, 3 * i, q)
    <3>1. ts[(3 * i - 1) + 1] \in Text
      BY <1>3, <2>4
    <3> HIDE DEF w, A, B
    <3>2. \E q : Lies(((w \o A) \o B) \o AddString(ts[(3 * i - 1) + 1]), 1, ts, (3 * i - 1) + 1, q)
      BY <2>6, <3>1, LiesMore, Zenon
    <3> QED
      BY <2>4, <3>2, Zenon
  <2> HIDE DEF A, B, C
  <2>8. texts[i] = texts[i - 1] \o (A \o B \o C) /\ texts[i - 1] \in Seq(Byte)
    BY <1>2, <1>5, <2>2
  <2> DEFINE u == texts[i - 1]
  <2> HIDE DEF u
  <2>9. u \in Seq(Byte) /\ texts[i] = u \o (A \o B \o C) /\ w = <<x>> \o u /\ <<x>> \in Seq(Byte)
    BY <2>8 DEF u
  <2>10. texts[i] \in Seq(Byte)
    BY <2>1, <2>9
  <2>11. <<x>> \o texts[i] = ((w \o A) \o B) \o C
    <3> HIDE DEF w
    <3>1. A \o B \in Seq(Byte) /\ (A \o B) \o C \in Seq(Byte)
      BY <2>1
    <3>2. <<x>> \o (u \o ((A \o B) \o C)) = (<<x>> \o u) \o ((A \o B) \o C)
      <4>1. <<x>> \in Seq(Byte) /\ u \in Seq(Byte) /\ (A \o B) \o C \in Seq(Byte)
        BY <2>9, <3>1
      <4> QED
        BY <4>1, Associated
    <3>3. w \in Seq(Byte) /\ w \o A \in Seq(Byte)
      BY <2>1, <2>9
    <3>4. w \o ((A \o B) \o C) = (w \o (A \o B)) \o C
      <4>1. w \in Seq(Byte) /\ A \o B \in Seq(Byte) /\ C \in Seq(Byte)
        BY <2>1, <3>1, <3>3
      <4> QED
        BY <4>1, Associated
    <3>5. w \o (A \o B) = (w \o A) \o B
      <4>1. w \in Seq(Byte) /\ A \in Seq(Byte) /\ B \in Seq(Byte)
        BY <2>1, <3>3
      <4> QED
        BY <4>1, Associated
    <3> QED
      BY <2>9, <3>2, <3>4, <3>5, Zenon
  <2> QED
    BY <2>7, <2>10, <2>11, Zenon
<1> HIDE DEF Good
<1>6. SUFFICES ASSUME T # {} PROVE FALSE
  BY Zenon DEF Good, texts, ts
<1>7. PICK i \in T : \A h \in T : i <= h
  <2>1. T \subseteq Nat
    BY <1>1
  <2> HIDE DEF T
  <2> QED
    BY <1>6, <2>1, Least
<1>8. i # 0
  BY <1>4, <1>7
<1>9. i \in 1..Len(svcs) /\ i - 1 \in 0..Len(svcs) /\ ~(i <= i - 1)
  BY <1>1, <1>7, <1>8
<1>10. Good(i - 1)
  BY <1>7, <1>9
<1> QED
  BY <1>5, <1>7, <1>9, <1>10

-----------------------------------------------------------------------------
(* What a reader asks for, and what it returns. *)

LEMMA NotBelowZero ==
  ASSUME NEW x \in Int
  PROVE  Max({0, x}) = IF x < 0 THEN 0 ELSE x
<1> DEFINE y == IF x < 0 THEN 0 ELSE x
<1>1. y \in {0, x} /\ \A z \in {0, x} : y >= z
  OBVIOUS
<1>2. \A v \in {0, x} : (\A z \in {0, x} : v >= z) => v = y
  OBVIOUS
<1> HIDE DEF y
<1>3. Max({0, x}) \in {0, x} /\ \A z \in {0, x} : Max({0, x}) >= z
  BY <1>1, Zenon DEF Max
<1>4. Max({0, x}) = y
  BY <1>2, <1>3, Zenon
<1> QED
  BY <1>4 DEF y

\* Without an end, every byte has its top bit, the last one, too.
LEMMA EndlessLength ==
  ASSUME NEW b \in Seq(Byte), NEW p \in Nat, p < Len(b), LengthEnds(b, p + 1) = {}
  PROVE  Last(b) >= Septet
<1> DEFINE T == {j \in (p + 1)..Len(b) : b[j] < Septet}
<1>1. Len(b) \in Nat /\ \A j \in (p + 1)..Len(b) : b[j] \in Nat
  BY SeptetIs DEF Byte
<1>2. SUFFICES ASSUME T # {} PROVE FALSE
  <2>1. Len(b) \in (p + 1)..Len(b)
    BY <1>1
  <2> QED
    BY <1>1, <2>1, SeptetIs DEF Last
<1>3. PICK j \in T : \A h \in T : j <= h
  <2>1. T \subseteq Nat
    BY <1>1
  <2> HIDE DEF T
  <2> QED
    BY <1>2, <2>1, Least
<1>4. \A k \in (p + 1)..(j - 1) : b[k] >= Septet
  <2> SUFFICES ASSUME NEW k \in (p + 1)..(j - 1) PROVE b[k] >= Septet
    OBVIOUS
  <2>1. k \in (p + 1)..Len(b) /\ ~(j <= k)
    BY <1>1, <1>3
  <2>2. ~(b[k] < Septet)
    BY <1>3, <2>1
  <2> QED
    BY <1>1, <2>1, <2>2, SeptetIs
<1>5. j \in LengthEnds(b, p + 1)
  BY <1>3, <1>4 DEF LengthEnds
<1> QED
  BY <1>5

\* What a reader makes of the beginning b of a.
ReadSoFar(rq, b, a) ==
    IF Overruns(rq, b) THEN Last(b) >= Septet
    ELSE /\ Ask(rq, b) <= Len(a) - Len(b)
         /\ Ask(rq, b) = 0 <=> Len(b) = Len(a)

\* If the first text that cannot be told begins before the end of b, b ends in a
\* length; if not, its first byte is asked for.
LEMMA BeginningRead ==
  ASSUME NEW rq, NEW a, NEW ts, NEW n \in Nat \ {0}, NEW pos, Lies(a, Base(rq), ts, n, pos),
         NEW b, Begins(b, a), b # <<>>, NrStrings(rq, b) = n
  PROVE  ReadSoFar(rq, b, a)
<1> DEFINE ends == Ends(rq, b)
<1>1. /\ a \in Seq(Byte) /\ Len(a) \in Nat /\ b \in Seq(Byte) /\ Len(b) \in Nat
      /\ Len(b) <= Len(a) /\ pos[n] = Len(a) /\ \A i \in 0..n : pos[i] \in Nat
  BY DEF Lies, Begins
<1>2. n \in 0..n /\ n - 1 \in 0..n /\ (n - 1) + 1 = n /\ ~(n < 1) /\ (n + 1) - 1 = n
  OBVIOUS
<1>3. Found(ends, b, pos, n)
  BY <1>2, EndsFound
<1> HIDE DEF ends
<1>4. ends \in Seq(Nat) /\ Len(ends) = n + 1
  BY <1>3 DEF Found
<1>5. PICK j \in 0..n : UpTo(ends, b, pos, n, j)
  BY <1>3, Zenon DEF Found
<1>6. /\ \A i \in 0..(j - 1) : LengthEnds(b, pos[i] + 1) # {}
      /\ j < n => LengthEnds(b, pos[j] + 1) = {}
      /\ \A k \in 0..n : ends[k + 1] = pos[IF k <= j THEN k ELSE j]
  BY <1>5, Zenon DEF UpTo
<1>7. \A i \in 0..n : pos[i] + (n - i) <= Len(a)
  BY LiesGrows
<1>8. Last(ends) = ends[n + 1] /\ ends[Len(ends) - 1] = ends[n]
  BY <1>2, <1>4 DEF Last
<1>9. Last(ends) = pos[j] /\ ends[n] = pos[IF n - 1 <= j THEN n - 1 ELSE j]
  <2>1. ends[n + 1] = pos[IF n <= j THEN n ELSE j]
    BY <1>2, <1>6
  <2>2. ends[(n - 1) + 1] = pos[IF n - 1 <= j THEN n - 1 ELSE j]
    BY <1>2, <1>6
  <2>3. (IF n <= j THEN n ELSE j) = j
    OBVIOUS
  <2> QED
    BY <1>2, <1>8, <2>1, <2>2, <2>3
<1>10. Ask(rq, b) = Max({0, Last(ends) + (IF ends[Len(ends) - 1] < Len(b) THEN 0 ELSE 1) - Len(b)})
  BY <1>2, Zenon DEF Ask, ends
<1>11. CASE j = n
  <2>1. LengthEnds(b, pos[n - 1] + 1) # {}
    BY <1>6, <1>11
  <2>2. pos[n - 1] < Len(b)
    <3>1. n \in 1..n
      OBVIOUS
    <3>2. pos[n - 1] + Len(CodeLength(Len(ts[n]))) <= Len(b) /\ pos[n - 1] \in Nat
      BY <2>1, <3>1, TextEndOf, Zenon
    <3>3. ts[n] \in Text
      BY <3>1 DEF Lies
    <3>4. Len(CodeLength(Len(ts[n]))) \in Nat \ {0}
      BY <3>3, AddStringShape, Zenon
    <3> QED
      BY <1>1, <3>2, <3>4
  <2>3. ends[n] = pos[n - 1] /\ Last(ends) = Len(a)
    BY <1>1, <1>9, <1>11
  <2>4. Ask(rq, b) = Len(a) - Len(b)
    <3>1. Ask(rq, b) = Max({0, Len(a) - Len(b)})
      <4>1. Ask(rq, b) = Max({0, Len(a) + 0 - Len(b)})
        BY <1>8, <1>10, <2>2, <2>3
      <4>2. Len(a) + 0 - Len(b) = Len(a) - Len(b)
        BY <1>1
      <4> QED
        BY <4>1, <4>2, Zenon
    <3>2. Len(a) - Len(b) \in Int /\ ~(Len(a) - Len(b) < 0)
      BY <1>1
    <3> QED
      BY <3>1, <3>2, NotBelowZero
  <2>5. ~Overruns(rq, b)
    <3> SUFFICES ASSUME NEW k \in Begun(ends, b), LengthEnds(b, ends[k] + 1) = {}
                 PROVE  FALSE
      BY Zenon DEF Overruns, ends
    <3>1. k \in 1..n
      BY <1>4 DEF Begun
    <3>2. k - 1 \in 0..n /\ k - 1 \in 0..(j - 1) /\ (k - 1) + 1 = k /\ k - 1 <= j
      BY <1>11, <3>1
    <3>3. ends[k] = pos[k - 1]
      BY <1>6, <3>2
    <3> QED
      BY <1>6, <3>2, <3>3
  <2> QED
    BY <1>1, <2>4, <2>5 DEF ReadSoFar
<1>12. CASE j # n /\ pos[j] < Len(b)
  <2>1. LengthEnds(b, pos[j] + 1) = {} /\ pos[j] \in Nat
    BY <1>1, <1>6, <1>12
  <2>2. Last(b) >= Septet
    BY <1>1, <1>12, <2>1, EndlessLength
  <2>3. Overruns(rq, b)
    <3>1. j + 1 \in 1..n /\ j \in 0..n /\ j <= j
      BY <1>12
    <3>2. ends[j + 1] = pos[j]
      BY <1>6, <3>1
    <3>3. j + 1 \in Begun(ends, b)
      BY <1>4, <1>12, <3>1, <3>2 DEF Begun
    <3> QED
      BY <2>1, <3>2, <3>3 DEF Overruns, ends
  <2> QED
    BY <2>2, <2>3 DEF ReadSoFar
<1>13. CASE j # n /\ ~(pos[j] < Len(b))
  <2>1. pos[j] \in Nat /\ Len(b) <= pos[j] /\ pos[j] + (n - j) <= Len(a) /\ n - j >= 1
    BY <1>1, <1>7, <1>13
  <2>2. ends[n] = pos[j]
    <3>1. (IF n - 1 <= j THEN n - 1 ELSE j) = j
      BY <1>13
    <3> QED
      BY <1>9, <3>1
  <2>3. Ask(rq, b) = pos[j] + 1 - Len(b)
    <3>1. Ask(rq, b) = Max({0, pos[j] + 1 - Len(b)})
      BY <1>8, <1>9, <1>10, <1>13, <2>2
    <3>2. pos[j] + 1 - Len(b) \in Int /\ ~(pos[j] + 1 - Len(b) < 0)
      BY <1>1, <2>1
    <3> QED
      BY <3>1, <3>2, NotBelowZero
  <2>4. Len(b) < Len(a) /\ Ask(rq, b) <= Len(a) - Len(b) /\ Ask(rq, b) # 0
    BY <1>1, <2>1, <2>3
  <2>5. ~Overruns(rq, b)
    <3> SUFFICES ASSUME NEW k \in Begun(ends, b), LengthEnds(b, ends[k] + 1) = {}
                 PROVE  FALSE
      BY Zenon DEF Overruns, ends
    <3>1. k \in 1..n /\ ends[k] < Len(b)
      BY <1>4 DEF Begun
    <3>2. k - 1 \in 0..n /\ (k - 1) + 1 = k
      BY <3>1
    <3>3. ends[k] = pos[IF k - 1 <= j THEN k - 1 ELSE j]
      BY <1>6, <3>2
    <3>4. CASE k - 1 < j
      <4>1. k - 1 \in 0..(j - 1) /\ k - 1 <= j
        BY <3>1, <3>4
      <4> QED
        BY <1>6, <3>3, <4>1
    <3>5. CASE ~(k - 1 < j)
      <4>1. (IF k - 1 <= j THEN k - 1 ELSE j) = j
        BY <3>1, <3>5
      <4>2. ends[k] = pos[j]
        BY <3>3, <4>1
      <4> QED
        BY <1>13, <3>1, <4>2
    <3> QED
      BY <3>4, <3>5
  <2> QED
    BY <1>1, <2>4, <2>5 DEF ReadSoFar
<1> QED
  BY <1>11, <1>12, <1>13

\* e are the ends of the first m texts of a.
Told(e, a, ts, pos, m) ==
    /\ e \in Seq(Nat) /\ Len(e) = m + 1
    /\ \A k \in 0..m : e[k + 1] = pos[k]
    /\ \A k \in 1..m : /\ pos[k - 1] < Len(a) /\ pos[k] \in Nat /\ pos[k] <= Len(a)
                       /\ Min(LengthEnds(a, pos[k - 1] + 1))
                            = pos[k - 1] + Len(CodeLength(Len(ts[k])))

\* All ends are found when all texts are there.
LEMMA WholeFound ==
  ASSUME NEW rq, NEW a, NEW ts, NEW n, NEW pos, Lies(a, Base(rq), ts, n, pos),
         NEW m \in 0..n, NrStrings(rq, a) = m
  PROVE  Told(Ends(rq, a), a, ts, pos, m)
<1> DEFINE ends == Ends(rq, a)
<1>1. a \in Seq(Byte) /\ Len(a) \in Nat /\ n \in Nat /\ m \in Nat /\ m <= n
  BY DEF Lies
<1>2. Begins(a, a)
  BY <1>1 DEF Begins
<1>3. Found(ends, a, pos, m)
  BY <1>2, EndsFound
<1>4. ASSUME NEW k \in 1..m
      PROVE  /\ LengthEnds(a, pos[k - 1] + 1) # {}
             /\ pos[k - 1] < Len(a) /\ pos[k] \in Nat /\ pos[k] <= Len(a)
             /\ Min(LengthEnds(a, pos[k - 1] + 1)) = pos[k - 1] + Len(CodeLength(Len(ts[k])))
  <2> DEFINE c == CodeLength(Len(ts[k]))
  <2>1. k \in 1..n /\ k \in 0..n
    BY <1>1
  <2>2. ts[k] \in Text /\ pos[k] = pos[k - 1] + Len(AddString(ts[k]))
    BY <2>1 DEF Lies
  <2>3. Len(AddString(ts[k])) = Len(c) + Len(ts[k]) /\ Len(c) \in Nat \ {0} /\ Len(ts[k]) \in Nat
    BY <2>2, AddStringShape, Zenon
  <2>4. pos[k] + (n - k) <= Len(a) /\ pos[k - 1] \in Nat /\ pos[k] \in Nat
    BY <1>2, <2>1, LiesGrows, TextEndOf
  <2> HIDE DEF c
  <2>5. pos[k] <= Len(a) /\ pos[k] = pos[k - 1] + (Len(c) + Len(ts[k]))
    BY <1>1, <2>1, <2>2, <2>3, <2>4
  <2>6. pos[k - 1] + Len(c) <= Len(a) /\ pos[k - 1] < Len(a) /\ pos[k] <= Len(a)
    <3>1. \A p, e, l, g, h \in Nat :
            e <= h /\ e = p + (l + g) /\ l # 0 => p + l <= h /\ p < h
      OBVIOUS
    <3> QED
      BY <1>1, <2>3, <2>4, <2>5, <3>1
  <2>7. IF pos[k - 1] + Len(c) <= Len(a)
        THEN /\ LengthEnds(a, pos[k - 1] + 1) = {pos[k - 1] + Len(c)}
             /\ Min(LengthEnds(a, pos[k - 1] + 1)) = pos[k - 1] + Len(c)
             /\ TextEnd(a, pos[k - 1]) = pos[k]
        ELSE LengthEnds(a, pos[k - 1] + 1) = {} /\ TextEnd(a, pos[k - 1]) = pos[k - 1]
    BY <1>2, <2>1, TextEndOf, Zenon DEF c
  <2>8. /\ LengthEnds(a, pos[k - 1] + 1) = {pos[k - 1] + Len(c)}
        /\ Min(LengthEnds(a, pos[k - 1] + 1)) = pos[k - 1] + Len(c)
    BY <2>6, <2>7
  <2>9. LengthEnds(a, pos[k - 1] + 1) # {}
    BY <2>8
  <2> QED
    BY <2>4, <2>6, <2>8, <2>9, Zenon DEF c
<1> HIDE DEF ends
<1>5. PICK j \in 0..m : UpTo(ends, a, pos, m, j)
  BY <1>3, Zenon DEF Found
<1>6. j = m
  <2> SUFFICES ASSUME j < m PROVE FALSE
    BY <1>1
  <2>1. j + 1 \in 1..m /\ (j + 1) - 1 = j
    BY <1>1
  <2>2. LengthEnds(a, pos[j] + 1) # {}
    BY <1>4, <2>1
  <2> QED
    BY <1>5, <2>2 DEF UpTo
<1>7. ASSUME NEW k \in 0..m
      PROVE  ends[k + 1] = pos[k]
  <2>1. (IF k <= j THEN k ELSE j) = k
    BY <1>1, <1>6
  <2>2. ends[k + 1] = pos[IF k <= j THEN k ELSE j]
    BY <1>5 DEF UpTo
  <2> QED
    BY <2>1, <2>2
<1>8. ends \in Seq(Nat) /\ Len(ends) = m + 1
  BY <1>3 DEF Found
<1> QED
  BY <1>4, <1>7, <1>8, Zenon DEF ends, Told

\* Nobody asks for more than the whole answer.
LEMMA WholeAsks ==
  ASSUME NEW rq, NEW a, a # <<>>, NEW ts, NEW n, NEW pos, Lies(a, Base(rq), ts, n, pos),
         NrStrings(rq, a) \in Int, NrStrings(rq, a) <= n
  PROVE  Ask(rq, a) = 0
<1> DEFINE m == NrStrings(rq, a)
           ends == Ends(rq, a)
<1>1. CASE m < 1
  BY <1>1, Zenon DEF Ask
<1>2. CASE ~(m < 1)
  <2>1. n \in Nat /\ m \in 0..n /\ m \in 1..m /\ m \in 0..m /\ m - 1 \in 0..m
        /\ (m - 1) + 1 = m /\ Len(a) \in Nat
    BY <1>2 DEF Lies
  <2> HIDE DEF m
  <2>2. Told(ends, a, ts, pos, m)
    <3>1. NrStrings(rq, a) = m
      BY DEF m
    <3> QED
      BY <2>1, <3>1, WholeFound
  <2>3. /\ ends \in Seq(Nat) /\ Len(ends) = m + 1
        /\ \A k \in 0..m : ends[k + 1] = pos[k]
        /\ \A k \in 1..m : pos[k - 1] < Len(a) /\ pos[k] \in Nat /\ pos[k] <= Len(a)
    BY <2>2, Zenon DEF Told
  <2>4. Ask(rq, a) = Max({0, Last(ends) + (IF ends[Len(ends) - 1] < Len(a) THEN 0 ELSE 1) - Len(a)})
    BY <1>2, Zenon DEF Ask, ends, m
  <2> HIDE DEF ends
  <2>5. Last(ends) = pos[m] /\ ends[Len(ends) - 1] = pos[m - 1]
    <3>1. Last(ends) = ends[m + 1] /\ ends[Len(ends) - 1] = ends[(m - 1) + 1]
      BY <2>1, <2>3 DEF Last
    <3> QED
      BY <2>1, <2>3, <3>1
  <2>6. Ask(rq, a) = Max({0, pos[m] + 0 - Len(a)}) /\ pos[m] \in Nat /\ pos[m] <= Len(a)
    BY <2>1, <2>3, <2>4, <2>5
  <2> DEFINE x == pos[m] + 0 - Len(a)
  <2>7. x \in Int /\ (x < 0 \/ x = 0)
    BY <2>1, <2>6
  <2> HIDE DEF x
  <2>8. Max({0, x}) = IF x < 0 THEN 0 ELSE x
    BY <2>7, NotBelowZero
  <2> QED
    BY <2>6, <2>7, <2>8 DEF x
<1> QED
  BY <1>1, <1>2

\* The text between its code and where it ends.
LEMMA TextBetween ==
  ASSUME NEW a, NEW base, NEW ts, NEW n, NEW pos, Lies(a, base, ts, n, pos), NEW k \in 1..n
  PROVE  SubSeq(a, pos[k - 1] + Len(CodeLength(Len(ts[k]))) + 1, pos[k]) = ts[k]
<1> DEFINE t == ts[k]
           s == AddString(t)
           c == CodeLength(Len(t))
           p == pos[k - 1]
           e == p + Len(c) + 1
           u == SubSeq(a, e, pos[k])
<1>1. a \in Seq(Byte) /\ Len(a) \in Nat /\ n \in Nat /\ k \in 0..n /\ k - 1 \in 0..n
  BY DEF Lies
<1>2. /\ t \in Text /\ pos[k] = p + Len(s) /\ p \in Nat /\ pos[k] \in Nat
      /\ \A i \in 1..Len(s) : a[p + i] = s[i]
  BY <1>1 DEF Lies
<1>3. pos[k] + (n - k) <= Len(a)
  BY <1>1, LiesGrows
<1> HIDE DEF t, p, s, c
<1>4. /\ Len(s) = Len(c) + Len(t) /\ Len(c) \in Nat \ {0} /\ Len(t) \in Nat
      /\ \A i \in 1..Len(t) : s[Len(c) + i] = t[i]
  BY <1>2, AddStringShape, Zenon DEF s, c
<1>5. t \in Seq(Byte)
  BY <1>2, TextIs
<1>6. /\ e \in 1..(Len(a) + 1) /\ pos[k] \in (e - 1)..Len(a) /\ pos[k] - e + 1 = Len(t)
  BY <1>1, <1>2, <1>3, <1>4
<1> DEFINE d == pos[k]
<1> HIDE DEF e, d
<1>7. u \in Seq(Byte) /\ Len(u) = d - e + 1 /\ \A i \in 1..(d - e + 1) : u[i] = a[e + i - 1]
  <2>1. e \in 1..(Len(a) + 1) /\ d \in (e - 1)..Len(a) /\ u = SubSeq(a, e, d)
    BY <1>6 DEF d
  <2> HIDE DEF u
  <2> QED
    BY <1>1, <2>1, SubSeqProperties
<1> HIDE DEF u
<1>8. Len(u) = Len(t)
  BY <1>6, <1>7 DEF d
<1>9. ASSUME NEW i \in 1..Len(t)
      PROVE  u[i] = t[i]
  <2>1. i \in 1..(d - e + 1) /\ e + i - 1 = p + (Len(c) + i) /\ Len(c) + i \in 1..Len(s)
    BY <1>2, <1>4, <1>6 DEF d, e
  <2>2. u[i] = a[p + (Len(c) + i)]
    BY <1>7, <2>1
  <2> QED
    BY <1>2, <1>4, <2>1, <2>2
<1>10. u = t
  BY <1>5, <1>7, <1>8, <1>9
<1> QED
  BY <1>10, Zenon DEF u, t, c, p, d, e

\* Dispatch returns what was written.
LEMMA WholeStrings ==
  ASSUME NEW rq, NEW a, NEW ts, NEW n, NEW pos, Lies(a, Base(rq), ts, n, pos),
         NrStrings(rq, a) = n
  PROVE  Strings(rq, a) = [k \in 1..n |-> ts[k]]
<1> DEFINE ends == Ends(rq, a)
<1>1. n \in Nat /\ n \in 0..n
  BY DEF Lies
<1>2. Told(ends, a, ts, pos, n)
  BY <1>1, WholeFound
<1>3. /\ ends \in Seq(Nat) /\ Len(ends) = n + 1
      /\ \A k \in 0..n : ends[k + 1] = pos[k]
      /\ \A k \in 1..n : /\ pos[k - 1] < Len(a)
                         /\ Min(LengthEnds(a, pos[k - 1] + 1))
                              = pos[k - 1] + Len(CodeLength(Len(ts[k])))
  BY <1>2, Zenon DEF Told
<1> HIDE DEF ends
<1>4. \A k \in 1..n : k \in 0..n /\ k - 1 \in 0..n /\ (k - 1) + 1 = k
  BY <1>1
<1>5. \A k \in 1..n : ends[k] = pos[k - 1] /\ ends[k + 1] = pos[k]
  <2> SUFFICES ASSUME NEW k \in 1..n PROVE ends[k] = pos[k - 1] /\ ends[k + 1] = pos[k]
    OBVIOUS
  <2>1. k \in 0..n /\ k - 1 \in 0..n /\ (k - 1) + 1 = k
    BY <1>4
  <2>2. ends[(k - 1) + 1] = pos[k - 1] /\ ends[k + 1] = pos[k]
    BY <1>3, <2>1
  <2> QED
    BY <2>1, <2>2
<1>6. Begun(ends, a) = 1..n
  <2>1. (n + 1) - 1 = n
    BY <1>1
  <2> QED
    BY <1>3, <1>5, <2>1 DEF Begun
<1>7. Cardinality(1..n) = n
  BY <1>1, FS_Interval
<1>8. Strings(rq, a) =
        [k \in 1..Cardinality(Begun(ends, a)) |->
            SubSeq(a, Min(LengthEnds(a, ends[k] + 1)) + 1, ends[k + 1])]
  BY Zenon DEF Strings, ends
<1>9. ASSUME NEW k \in 1..n
      PROVE  SubSeq(a, Min(LengthEnds(a, ends[k] + 1)) + 1, ends[k + 1]) = ts[k]
  <2>1. SubSeq(a, pos[k - 1] + Len(CodeLength(Len(ts[k]))) + 1, pos[k]) = ts[k]
    BY TextBetween
  <2>2. Min(LengthEnds(a, ends[k] + 1)) = pos[k - 1] + Len(CodeLength(Len(ts[k])))
    BY <1>3, <1>5
  <2>3. ends[k + 1] = pos[k]
    BY <1>5
  <2> QED
    BY <2>1, <2>2, <2>3, Zenon
<1> QED
  BY <1>6, <1>7, <1>8, <1>9

\* Of every length that is not too long, whatever comes behind it.
LEMMA LengthsRead == LengthsSurvive
<1> SUFFICES ASSUME NEW n \in Lengths, n < CodeRange
             PROVE  LET b == CodeLength(n) \o <<n % Septet>>
                    IN \E j \in LengthEnds(b, 1) : j = Len(b) - 1 /\ LengthAt(b, 1, j) = n
  BY DEF LengthsSurvive
<1> DEFINE c == CodeLength(n)
           x == n % Septet
           b == c \o <<x>>
<1>1. n \in Nat
  BY IpcAssumption
<1>2. Spells(c, n) /\ x \in Byte
  BY <1>1, LengthSpelled, SeptetDiv, SeptetIs DEF Byte
<1> HIDE DEF c, x
<1>3. c \in Seq(Byte) /\ Len(c) \in Nat \ {0} /\ <<x>> \in Seq(Byte) /\ Len(<<x>>) = 1
  BY <1>2 DEF Spells
<1>4. /\ Len(b) = Len(c) + 1 /\ Len(b) \in Nat
      /\ \A k \in 1..Len(c) : b[k] = c[k]
  <2>1. /\ Len(b) = Len(c) + 1
        /\ \A k \in 1..(Len(c) + 1) : b[k] = IF k <= Len(c) THEN c[k] ELSE <<x>>[k - Len(c)]
    BY <1>3, ConcatProperties
  <2> QED
    BY <1>3, <2>1
<1> HIDE DEF b
<1>5. PICK p \in Nat : p = 0
  OBVIOUS
<1>6. /\ Holds(b, p, c) /\ p + Len(c) <= Len(b) /\ p + 1 = 1 /\ p + Len(c) = Len(c)
      /\ Len(c) = Len(b) - 1
  BY <1>3, <1>4, <1>5 DEF Holds
<1>7. LengthEnds(b, p + 1) = {p + Len(c)}
  BY <1>1, <1>2, <1>4, <1>6, EndFound
<1>8. PICK v : Reads(v, c, n)
  BY <1>2 DEF Spells
<1>9. \A k \in 1..Len(c) : v[k] = (IF k = 1 THEN 0 ELSE v[k - 1] * Septet) + (b[p + k] % Septet)
  <2> SUFFICES ASSUME NEW k \in 1..Len(c)
               PROVE  v[k] = (IF k = 1 THEN 0 ELSE v[k - 1] * Septet) + (b[p + k] % Septet)
    OBVIOUS
  <2>1. v[k] = (IF k = 1 THEN 0 ELSE v[k - 1] * Septet) + (c[k] % Septet)
    BY <1>8 DEF Reads
  <2>2. b[p + k] = c[k]
    BY <1>3, <1>4, <1>5
  <2> QED
    BY <2>1, <2>2, Zenon
<1>10. LengthAt(b, p + 1, p + Len(c)) = v[Len(c)]
  <2> DEFINE m == Len(c)
  <2>1. m \in Nat \ {0}
    BY <1>3
  <2>2. \A k \in 1..m : v[k] = (IF k = 1 THEN 0 ELSE v[k - 1] * Septet) + (b[p + k] % Septet)
    BY <1>9
  <2> HIDE DEF m
  <2>3. LengthAt(b, p + 1, p + m) = v[m]
    BY <2>1, <2>2, LengthRead
  <2> QED
    BY <2>3 DEF m
<1>11. v[Len(c)] = n
  <2>1. c # <<>>
    BY <1>3
  <2> QED
    BY <1>8, <2>1 DEF Reads
<1>12. Len(c) \in LengthEnds(b, 1) /\ LengthAt(b, 1, Len(c)) = n
  BY <1>6, <1>7, <1>10, <1>11
<1>13. \E j \in LengthEnds(b, 1) : j = Len(b) - 1 /\ LengthAt(b, 1, j) = n
  BY <1>6, <1>12
<1> QED
  BY <1>13, Zenon DEF b, c, x

LEMMA AllIs == All = 3 /\ Version = 0 /\ All # Version /\ Base(All) = 1 /\ Base(Version) = 0
  BY DEF All, Version, Base

\* Three texts each are the services again.
LEMMA ServicesSplit ==
  ASSUME NEW svcs \in Seq(Service), NEW strings,
         strings = [k \in 1..(3 * Len(svcs)) |-> TextsOf(svcs)[k]]
  PROVE  SplitResponses(strings) = svcs
<1>1. Len(svcs) \in Nat /\ Len(strings) = 3 * Len(svcs) /\ (3 * Len(svcs)) \div 3 = Len(svcs)
  OBVIOUS
<1>2. ASSUME NEW i \in 1..Len(svcs)
      PROVE  [location |-> strings[3 * i - 2], nt |-> strings[3 * i - 1],
              usn |-> strings[3 * i]] = svcs[i]
  <2>1. /\ 3 * i - 2 \in 1..(3 * Len(svcs)) /\ 3 * i - 1 \in 1..(3 * Len(svcs))
        /\ 3 * i \in 1..(3 * Len(svcs))
    BY <1>1
  <2>2. /\ TextsOf(svcs)[3 * i - 2] = svcs[i].location /\ TextsOf(svcs)[3 * i - 1] = svcs[i].nt
        /\ TextsOf(svcs)[3 * i] = svcs[i].usn
    BY TextsOfService
  <2>3. /\ strings[3 * i - 2] = svcs[i].location /\ strings[3 * i - 1] = svcs[i].nt
        /\ strings[3 * i] = svcs[i].usn
    BY <2>1, <2>2
  <2>4. svcs[i] \in Service
    OBVIOUS
  <2> QED
    BY <2>3, <2>4 DEF Service
<1>3. SplitResponses(strings) =
        [i \in 1..Len(svcs) |->
            [location |-> strings[3 * i - 2], nt |-> strings[3 * i - 1], usn |-> strings[3 * i]]]
  <2>1. SplitResponses(strings) =
          [i \in 1..(Len(strings) \div 3) |->
              [location |-> strings[3 * i - 2], nt |-> strings[3 * i - 1], usn |-> strings[3 * i]]]
    BY Zenon DEF SplitResponses
  <2>2. Len(strings) \div 3 = Len(svcs)
    BY <1>1, Zenon
  <2> QED
    BY <2>1, <2>2, Zenon
<1>4. SplitResponses(strings) = [i \in 1..Len(svcs) |-> svcs[i]]
  BY <1>2, <1>3, Zenon
<1>5. svcs \in [1..Len(svcs) -> Service]
  BY LenProperties
<1>6. svcs = [i \in 1..Len(svcs) |-> svcs[i]]
  BY <1>5
<1> QED
  BY <1>4, <1>6, Zenon

\* With a true count every beginning of the answer is read as it should be.
LEMMA AnswersReadable ==
  ASSUME NEW svcs \in Caches, Len(svcs) < Septet
  PROVE  svcs \in Readable
<1> DEFINE m == Len(svcs)
           texts == ServiceTexts[svcs][m]
           answer == <<m>> \o texts
<1>1. svcs \in Seq(Service) /\ m \in Nat /\ m \in 0..m /\ m \in Byte /\ 3 * m \in Nat
  <2>1. svcs \in Seq(Service)
    BY IpcAssumption
  <2> QED
    BY <2>1, SeptetIs DEF Byte
<1>2. PICK pos : Lies(answer, 1, TextsOf(svcs), 3 * m, pos)
  BY <1>1, AnswerLies
<1>3. texts \in Seq(Byte)
  BY <1>1, AnswerLies
<1>4. m = 0 => texts = <<>>
  BY TextsWritten
<1> HIDE DEF texts
<1>5. answer \in Seq(Byte) /\ Len(answer) = 1 + Len(texts) /\ answer[1] = m /\ Len(texts) \in Nat
  BY <1>1, <1>3
<1> HIDE DEF answer
<1>6. ASSUME NEW n \in 1..Len(answer)
      PROVE  LET b == SubSeq(answer, 1, n)
             IN IF Overruns(All, b) THEN Last(b) >= Septet
                ELSE /\ Ask(All, b) <= Len(answer) - n
                     /\ Ask(All, b) = 0 <=> n = Len(answer)
                     /\ n = Len(answer) => SplitResponses(Strings(All, b)) = svcs
  <2> DEFINE b == SubSeq(answer, 1, n)
  <2>1. /\ b \in Seq(Byte) /\ Len(b) = n /\ b # <<>> /\ b[1] = m
        /\ \A k \in 1..n : b[k] = answer[k]
        /\ n = Len(answer) => b = answer
    BY <1>5
  <2> HIDE DEF b
  <2>2. Begins(b, answer)
    BY <1>5, <2>1 DEF Begins
  <2>3. NrStrings(All, b) = 3 * m
    BY <1>1, <2>1, AllIs DEF NrStrings, Signed
  <2>4. CASE m = 0
    <3>1. 3 * m = 0 /\ 0 \in 0..0 /\ Len(answer) = 1 /\ n = Len(answer)
      BY <1>4, <1>5, <2>4
    <3>2. Ask(All, b) = 0
      BY <2>1, <2>3, <3>1 DEF Ask
    <3>3. ~Overruns(All, b)
      <4>1. Lies(answer, Base(All), TextsOf(svcs), 0, pos) /\ NrStrings(All, b) = 0
        BY <1>2, <2>3, <3>1, AllIs
      <4>2. Found(Ends(All, b), b, pos, 0)
        BY <2>2, <3>1, <4>1, EndsFound
      <4>3. Len(Ends(All, b)) = 1
        BY <4>2 DEF Found
      <4>4. Begun(Ends(All, b), b) = {}
        BY <4>3 DEF Begun
      <4> QED
        BY <4>4 DEF Overruns
    <3>4. n = Len(answer) => SplitResponses(Strings(All, b)) = svcs
      <4>1. Lies(answer, Base(All), TextsOf(svcs), 3 * m, pos)
        BY <1>2, AllIs
      <4>2. b = answer /\ NrStrings(All, answer) = 3 * m
        BY <2>1, <2>3, <3>1
      <4>3. Strings(All, answer) = [k \in 1..(3 * m) |-> TextsOf(svcs)[k]]
        BY <4>1, <4>2, WholeStrings
      <4> QED
        BY <1>1, <4>2, <4>3, ServicesSplit
    <3>5. IF Overruns(All, b) THEN Last(b) >= Septet
          ELSE /\ Ask(All, b) <= Len(answer) - n
               /\ Ask(All, b) = 0 <=> n = Len(answer)
               /\ n = Len(answer) => SplitResponses(Strings(All, b)) = svcs
      BY <3>1, <3>2, <3>3, <3>4
    <3> QED
      BY <3>5, Zenon DEF b
  <2>5. CASE m # 0
    <3>1. 3 * m \in Nat \ {0}
      BY <1>1, <2>5
    <3>2. Lies(answer, Base(All), TextsOf(svcs), 3 * m, pos)
      BY <1>2, AllIs
    <3>3. ReadSoFar(All, b, answer)
      <4> DEFINE q == 3 * m
      <4>1. /\ q \in Nat \ {0} /\ Lies(answer, Base(All), TextsOf(svcs), q, pos)
            /\ b # <<>> /\ NrStrings(All, b) = q
        BY <2>1, <2>3, <3>1, <3>2
      <4> HIDE DEF q
      <4> QED
        BY <2>2, <4>1, BeginningRead
    <3>4. n = Len(answer) => SplitResponses(Strings(All, b)) = svcs
      <4> SUFFICES ASSUME n = Len(answer) PROVE SplitResponses(Strings(All, b)) = svcs
        OBVIOUS
      <4>1. b = answer /\ NrStrings(All, answer) = 3 * m
        BY <2>1, <2>3
      <4>2. Strings(All, answer) = [k \in 1..(3 * m) |-> TextsOf(svcs)[k]]
        BY <3>2, <4>1, WholeStrings
      <4> QED
        BY <1>1, <4>1, <4>2, ServicesSplit
    <3>5. IF Overruns(All, b) THEN Last(b) >= Septet
          ELSE /\ Ask(All, b) <= Len(answer) - n
               /\ Ask(All, b) = 0 <=> n = Len(answer)
               /\ n = Len(answer) => SplitResponses(Strings(All, b)) = svcs
      BY <2>1, <3>3, <3>4 DEF ReadSoFar
    <3> QED
      BY <3>5, Zenon DEF b
  <2> QED
    BY <2>4, <2>5
<1> QED
  BY <1>6, Zenon DEF Readable, answer, texts

-----------------------------------------------------------------------------
(* Whole answers, and the capacity for them. *)

\* All that is sent in answer to rq.
Whole(rq, a) ==
    /\ a \in Seq(Byte) /\ a # <<>>
    /\ \E ts, n, pos : /\ Lies(a, Base(rq), ts, n, pos)
                       /\ NrStrings(rq, a) \in Int /\ NrStrings(rq, a) <= n

\* One text answers a request for the version.
LEMMA VersionWhole == Whole(Version, AddString(VersionText))
<1> DEFINE s == AddString(VersionText)
           ts == [i \in 1..1 |-> VersionText]
<1>1. VersionText \in Text /\ ts[0 + 1] = VersionText /\ <<>> \in Seq(Byte) /\ Len(<<>>) = 0
  BY IpcAssumption
<1>2. s \in Seq(Byte) /\ Len(s) \in Nat \ {0} /\ <<>> \o s = s /\ s # <<>>
  <2>1. s \in Seq(Byte) /\ Len(s) \in Nat \ {0}
    BY <1>1, AddStringShape, AddStringNotEmpty, Zenon
  <2> HIDE DEF s
  <2> QED
    BY <2>1
<1>3. PICK p0 : Lies(<<>>, Len(<<>>), ts, 0, p0)
  BY <1>1, LiesNothing, Zenon
<1>4. \E q : Lies(<<>> \o AddString(ts[0 + 1]), Len(<<>>), ts, 0 + 1, q)
  <2>1. ts[0 + 1] \in Text
    BY <1>1
  <2> HIDE DEF ts
  <2> QED
    BY <1>3, <2>1, LiesMore, Zenon
<1>5. 0 + 1 = 1 /\ Base(Version) = 0
  BY AllIs
<1>6. <<>> \o AddString(ts[0 + 1]) = s
  BY <1>1, <1>2
<1> HIDE DEF ts, s
<1>7. \E q : Lies(s, Base(Version), ts, 1, q)
  BY <1>1, <1>4, <1>5, <1>6, Zenon
<1>8. NrStrings(Version, s) = 1
  BY DEF NrStrings
<1>9. NrStrings(Version, s) \in Int /\ NrStrings(Version, s) <= 1
  BY <1>8
<1>10. Whole(Version, s)
  BY <1>2, <1>7, <1>9, Zenon DEF Whole
<1> QED
  BY <1>10, Zenon DEF s

\* The count is of some of the services, never more.
LEMMA CountBound ==
  ASSUME NEW svcs \in Caches, NEW r
  PROVE  Counted(svcs, r) \in Nat /\ Counted(svcs, r) <= Len(svcs)
<1> DEFINE S == {k \in DOMAIN svcs : Len(ServiceTexts[svcs][k]) < r}
<1>1. svcs \in Seq(Service)
  BY IpcAssumption
<1>2. DOMAIN svcs = 1..Len(svcs) /\ Len(svcs) \in Nat
  BY <1>1
<1>3. IsFiniteSet(1..Len(svcs)) /\ Cardinality(1..Len(svcs)) = Len(svcs)
  <2>1. \A n \in Nat : IsFiniteSet(1..n) /\ Cardinality(1..n) = n
    BY FS_Interval
  <2> QED
    BY <1>2, <2>1
<1>4. S \in SUBSET (1..Len(svcs))
  BY <1>2
<1> HIDE DEF S
<1>5. IsFiniteSet(S) /\ Cardinality(S) <= Len(svcs)
  BY <1>3, <1>4, FS_Subset
<1>6. Cardinality(S) \in Nat
  BY <1>5, FS_CardinalityType
<1> QED
  BY <1>5, <1>6, Zenon DEF Counted, S

\* Whatever the count has become, there are texts enough.
LEMMA AnswerWhole ==
  ASSUME NEW svcs \in Caches, NEW r
  PROVE  Whole(All, Answer(svcs, r))
<1> DEFINE k == Counted(svcs, r)
           x == Char(k)
           texts == ServiceTexts[svcs][Len(svcs)]
           a == <<x>> \o texts
<1>1. k \in Nat /\ k <= Len(svcs)
  BY CountBound
<1>2. svcs \in Seq(Service) /\ Len(svcs) \in Nat /\ Len(svcs) \in 0..Len(svcs)
  <2>1. svcs \in Seq(Service)
    BY IpcAssumption
  <2> QED
    BY <2>1
<1> HIDE DEF k
<1>3. x \in Byte /\ x <= k
  <2>1. 2 * Septet \in Nat \ {0}
    BY SeptetIs
  <2> DEFINE d == 2 * Septet
  <2> HIDE DEF d
  <2>2. ASSUME NEW e \in Nat \ {0}
        PROVE  k % e \in 0..(e - 1) /\ k % e <= k
    BY <1>1
  <2>3. k % (2 * Septet) \in 0..(2 * Septet - 1) /\ k % (2 * Septet) <= k
    BY <2>1, <2>2, Zenon
  <2> QED
    BY <2>3 DEF Char, Byte
<1> HIDE DEF x
<1>4. texts \in Seq(Byte) /\ \E pos : Lies(a, 1, TextsOf(svcs), 3 * Len(svcs), pos)
  BY <1>2, <1>3, AnswerLies
<1> HIDE DEF texts
<1>5. a \in Seq(Byte) /\ a # <<>> /\ a[1] = x
  BY <1>3, <1>4
<1>6. NrStrings(All, a) = 3 * Signed(x)
  BY <1>5, AllIs DEF NrStrings
<1>7. Signed(x) \in Int /\ Signed(x) <= x
  BY <1>3, SeptetIs DEF Signed, Byte
<1>8. NrStrings(All, a) \in Int /\ NrStrings(All, a) <= 3 * Len(svcs)
  <2>1. x \in Int
    BY <1>3, SeptetIs DEF Byte
  <2> QED
    BY <1>1, <1>2, <1>3, <1>6, <1>7, <2>1
<1> HIDE DEF a
<1>9. Whole(All, a)
  BY <1>4, <1>5, <1>8, AllIs, Zenon DEF Whole
<1>10. Answer(svcs, r) = a
  BY Zenon DEF Answer, a, texts, x, k
<1> QED
  BY <1>9, <1>10, Zenon

LEMMA WholeIsEnough ==
  ASSUME NEW rq, NEW a, Whole(rq, a)
  PROVE  Ask(rq, a) = 0
<1>1. PICK ts, n, pos : /\ Lies(a, Base(rq), ts, n, pos)
                        /\ NrStrings(rq, a) \in Int /\ NrStrings(rq, a) <= n
  BY Zenon DEF Whole
<1>2. a # <<>>
  BY Zenon DEF Whole
<1> QED
  BY <1>1, <1>2, WholeAsks

\* f doubles from c on until n fits.
Doubles(f, n, least) ==
    f = [c \in least..(2 * n) |->
            IF c >= n THEN c ELSE f[IF c = 0 THEN 1 ELSE 2 * c]]

\* A capacity that doubles fits at last.
LEMMA DoublingExists ==
  ASSUME NEW n \in Nat
  PROVE  \E f : Doubles(f, n, 0)
<1> DEFINE T == {d \in 0..n : ~\E f : Doubles(f, n, n - d)}
<1>1. SUFFICES ASSUME T # {} PROVE FALSE
  <2>1. n \in 0..n /\ n - n = 0
    OBVIOUS
  <2>2. \E f : Doubles(f, n, n - n)
    BY <1>1, <2>1
  <2> QED
    BY <2>1, <2>2
<1>2. PICK d \in T : \A k \in T : d <= k
  <2>1. T \subseteq Nat
    OBVIOUS
  <2> HIDE DEF T
  <2> QED
    BY <1>1, <2>1, Least
<1>3. d # 0
  <2>1. Doubles([c \in n..(2 * n) |-> c], n, n)
    BY DEF Doubles
  <2>2. n - 0 = n
    OBVIOUS
  <2> QED
    BY <1>2, <2>1, <2>2
<1>4. d \in 1..n /\ d - 1 \in 0..n /\ ~(d <= d - 1) /\ n - (d - 1) = (n - d) + 1
  BY <1>2, <1>3
<1>5. PICK f : Doubles(f, n, (n - d) + 1)
  <2>1. d - 1 \notin T
    BY <1>2, <1>4
  <2> QED
    BY <1>4, <2>1
<1> DEFINE l == n - d
           next == IF l = 0 THEN 1 ELSE 2 * l
           g == [c \in l..(2 * n) |-> IF c = l THEN f[next] ELSE f[c]]
<1>6. l \in Nat /\ l < n /\ next \in (l + 1)..(2 * n)
  BY <1>4
<1>7. \A c \in (l + 1)..(2 * n) : f[c] = IF c >= n THEN c ELSE f[IF c = 0 THEN 1 ELSE 2 * c]
  BY <1>5 DEF Doubles
<1> HIDE DEF l
<1>8. ASSUME NEW c \in l..(2 * n)
      PROVE  g[c] = IF c >= n THEN c ELSE g[IF c = 0 THEN 1 ELSE 2 * c]
  <2>1. CASE c = l
    <3>1. g[c] = f[next] /\ g[next] = f[next] /\ ~(c >= n)
      BY <1>6, <2>1
    <3> QED
      BY <2>1, <3>1
  <2>2. CASE c # l
    <3>1. c \in (l + 1)..(2 * n) /\ c # 0 /\ g[c] = f[c]
      BY <1>6, <2>2
    <3>2. CASE c >= n
      BY <1>7, <3>1, <3>2
    <3>3. CASE ~(c >= n)
      <4>1. 2 * c \in (l + 1)..(2 * n) /\ 2 * c # l
        BY <1>6, <3>1, <3>3
      <4>2. g[2 * c] = f[2 * c]
        <5>1. \A e \in (l + 1)..(2 * n) : e # l => g[e] = f[e]
          BY <1>6
        <5> QED
          BY <4>1, <5>1, Zenon
      <4> QED
        BY <1>7, <3>1, <3>3, <4>2
    <3> QED
      BY <3>2, <3>3
  <2> QED
    BY <2>1, <2>2
<1> HIDE DEF g
<1>9. Doubles([c \in l..(2 * n) |-> g[c]], n, l)
  <2> DEFINE h == [c \in l..(2 * n) |-> g[c]]
  <2>1. ASSUME NEW c \in l..(2 * n)
        PROVE  h[c] = IF c >= n THEN c ELSE h[IF c = 0 THEN 1 ELSE 2 * c]
    <3>1. CASE c >= n
      BY <1>8, <3>1
    <3>2. CASE ~(c >= n)
      <4>1. (IF c = 0 THEN 1 ELSE 2 * c) \in l..(2 * n)
        BY <1>6, <3>2
      <4> QED
        BY <1>8, <3>2, <4>1
    <3> QED
      BY <3>1, <3>2
  <2> QED
    BY <2>1 DEF Doubles
<1> QED
  BY <1>2, <1>9 DEF l

LEMMA GrownIsNat ==
  ASSUME NEW r \in Nat, NEW n \in Nat
  PROVE  Grown(r, n) \in Nat
<1> DEFINE from == CHOOSE f : Doubles(f, n, 0)
<1>1. Doubles(from, n, 0)
  BY DoublingExists, Zenon
<1>2. Grown(r, n) = IF n <= r THEN r ELSE from[r]
  BY Zenon DEF Grown, Doubles
<1> HIDE DEF from
<1>3. \A c \in 0..(2 * n) : from[c] = IF c >= n THEN c ELSE from[IF c = 0 THEN 1 ELSE 2 * c]
  BY <1>1 DEF Doubles
<1> DEFINE T == {d \in 0..(2 * n) : from[2 * n - d] \notin Nat}
<1>4. SUFFICES ASSUME T # {} PROVE FALSE
  <2>1. ASSUME ~(n <= r)
        PROVE  from[r] \in Nat
    <3>1. 2 * n - r \in 0..(2 * n) /\ 2 * n - (2 * n - r) = r
      BY <2>1
    <3> QED
      BY <1>4, <3>1
  <2> QED
    BY <1>2, <2>1
<1>5. PICK d \in T : \A k \in T : d <= k
  <2>1. T \subseteq Nat
    OBVIOUS
  <2> HIDE DEF T
  <2> QED
    BY <1>4, <2>1, Least
<1> DEFINE c == 2 * n - d
           next == IF c = 0 THEN 1 ELSE 2 * c
<1>6. c \in 0..(2 * n) /\ from[c] \notin Nat /\ ~(c >= n)
  <2>1. c \in 0..(2 * n) /\ from[c] \notin Nat
    BY <1>5
  <2> QED
    BY <1>3, <2>1
<1>7. next \in 0..(2 * n) /\ 2 * n - next \in 0..(2 * n) /\ 2 * n - next < d
      /\ 2 * n - (2 * n - next) = next /\ d \in Nat
  BY <1>5, <1>6
<1>8. from[next] \in Nat
  <2> HIDE DEF next
  <2>1. 2 * n - next \notin T
    BY <1>5, <1>7
  <2> QED
    BY <1>7, <2>1
<1> QED
  BY <1>3, <1>6, <1>8

-----------------------------------------------------------------------------
(* What stops the bridge. *)

\* Bytes that are not a request whose text the server waits for.
Quiet == Nat \ Searches

States == {"new", "idle", "waiting", "crashed", "closed"}

\* The functions that the steps change at one client.
Shapes ==
    /\ toServer = [c \in Clients |-> toServer[c]]
    /\ client \in [Clients -> States]
    /\ served \in Clients \cup {None} /\ backlog \in Seq(Clients)
    /\ searched \subseteq Clients

\* Until a client is served nothing is scheduled.
NobodyServed ==
    served = None =>
        waiting = 0 /\ due = 0 /\ thread = "free" /\ ~torn /\ ~again

\* No byte of a client that has not searched looks like a search, neither on
\* the way nor in m_rxBuf.
SearchesAreSearched ==
    /\ \A c \in Clients \ searched : toServer[c] \in Seq(Quiet)
    /\ first \in Searches => served \in searched

IInv == Shapes /\ NobodyServed /\ SearchesAreSearched /\ BridgeAtWork

-----------------------------------------------------------------------------
\* What a submit sends are bytes.
LEMMA SubmitTypes ==
  ASSUME NEW s \in Submits
  PROVE  SubmitBytes(s) \in Seq(Byte)
<1>1. s.nt \in Text /\ s.usn \in Text /\ s.server \in Text /\ s.location \in Text
  BY IpcAssumption
<1> DEFINE nt == AddString(s.nt)
           usn == AddString(s.usn)
           server == AddString(s.server)
           location == AddString(s.location)
<1>2. nt \in Seq(Byte) /\ usn \in Seq(Byte) /\ server \in Seq(Byte) /\ location \in Seq(Byte)
  BY <1>1, AddStringShape
<1>3. <<Submit>> \in Seq(Byte)
  BY SeptetIs DEF Submit, Byte
<1>4. SubmitBytes(s) = <<Submit>> \o nt \o usn \o server \o location
  BY Zenon DEF SubmitBytes, nt, usn, server, location
<1> HIDE DEF nt, usn, server, location
<1> QED
  BY <1>2, <1>3, <1>4

LEMMA RequestsDiffer ==
    /\ Version \notin Searches /\ All \notin Searches
    /\ {Version, All} \subseteq Quiet
  BY DEF Version, All, Searches, Type, Usn, Quiet

LEMMA IInvInit == Init => IInv
<1> SUFFICES ASSUME Init PROVE IInv
  OBVIOUS
<1>1. Shapes
  BY DEF Init, Shapes, States
<1>2. NobodyServed /\ BridgeAtWork
  BY DEF Init, NobodyServed, BridgeAtWork
<1>3. SearchesAreSearched
  BY DEF Init, SearchesAreSearched, Searches, Type, Usn
<1> QED
  BY <1>1, <1>2, <1>3 DEF IInv

\* A client that has gone stays so, whatever another does.
LEMMA GoneStays ==
  ASSUME Shapes, NEW c \in Clients, NEW s \in States, client[c] \in {"new", "idle", "waiting"},
         client' = [client EXCEPT ![c] = s]
  PROVE  \A d \in Clients : Gone(d) => Gone(d)'
  BY DEF Shapes, Gone

\* What a client does leaves the server alone.
LEMMA IInvClient ==
  ASSUME IInv, UNCHANGED <<thread, served, again, waiting, due, first, torn>>,
         backlog' \in Seq(Clients),
         searched \subseteq searched', searched' \subseteq Clients,
         client' \in [Clients -> States], \A d \in Clients : Gone(d) => Gone(d)',
         toServer' = [c \in Clients |-> toServer'[c]],
         \A d \in Clients \ searched' : toServer'[d] \in Seq(Quiet)
  PROVE  IInv'
<1>1. Shapes' /\ NobodyServed'
  BY DEF IInv, Shapes, NobodyServed
<1>2. SearchesAreSearched'
  BY DEF IInv, SearchesAreSearched
<1>3. BridgeAtWork'
  BY DEF IInv, BridgeAtWork, Shapes
<1> QED
  BY <1>1, <1>2, <1>3 DEF IInv

\* What the server does once it serves a client leaves the clients alone.
LEMMA IInvServer ==
  ASSUME IInv, served # None, UNCHANGED <<served, backlog, client, searched, toServer>>,
         torn => torn', first' = first,
         thread' \in {"reading", "ended"} =>
            thread \in {"reading", "ended"} \/ Gone(served) \/ served \in searched \/ torn'
  PROVE  IInv'
<1>1. Shapes' /\ NobodyServed'
  BY DEF IInv, Shapes, NobodyServed
<1>2. SearchesAreSearched'
  BY DEF IInv, SearchesAreSearched
<1>3. BridgeAtWork'
  BY DEF IInv, BridgeAtWork, Gone
<1> QED
  BY <1>1, <1>2, <1>3 DEF IInv

LEMMA IInvStep == IInv /\ [Next]_vars => IInv'
<1> SUFFICES ASSUME IInv, [Next]_vars PROVE IInv'
  OBVIOUS
<1>1. CASE UNCHANGED vars
  BY <1>1 DEF IInv, vars, serverVars, clientVars, wires, Shapes, NobodyServed,
     SearchesAreSearched, BridgeAtWork, Gone
<1>2. CASE BridgeCaches
  <2>1. UNCHANGED <<thread, served, backlog, again, waiting, due, first, torn,
                    client, searched, toServer>>
    BY <1>2 DEF BridgeCaches, clientVars, wires
  <2> QED
    BY <2>1 DEF IInv, Shapes, NobodyServed, SearchesAreSearched, BridgeAtWork, Gone
<1>3. CASE Accept
  <2>1. /\ served = None /\ thread = "free" /\ thread' = thread /\ first' = first
        /\ served' = Head(backlog) /\ backlog' = Tail(backlog) /\ backlog # <<>>
        /\ UNCHANGED <<client, searched, toServer, torn>>
    BY <1>3 DEF Accept, clientVars, wires
  <2>2. served' \in Clients /\ backlog' \in Seq(Clients)
    BY <2>1 DEF IInv, Shapes
  <2>3. first \notin Searches
    BY <2>1, IpcAssumption DEF IInv, Shapes, SearchesAreSearched
  <2> QED
    BY <2>1, <2>2, <2>3, IpcAssumption
       DEF IInv, Shapes, NobodyServed, SearchesAreSearched, BridgeAtWork
<1>4. CASE AcceptFails
  BY <1>4, IInvServer DEF AcceptFails, clientVars, wires, IInv, NobodyServed
<1>14. CASE OutOfMemory
  BY <1>14, IInvServer DEF OutOfMemory, clientVars, wires, IInv, NobodyServed
<1>5. ASSUME NEW n \in 0..RxSize, Receive(n) PROVE IInv'
  <2> DEFINE bytes == toServer[served]
  <2>1. /\ served \in Clients /\ n <= Len(bytes)
        /\ first' = IF n = 0 THEN first ELSE bytes[1]
        /\ toServer' = [toServer EXCEPT ![served] = SubSeq(bytes, n + 1, Len(bytes))]
        /\ UNCHANGED <<thread, served, backlog, again, torn, client, searched>>
    BY <1>5 DEF Receive, clientVars, IInv, Shapes, NobodyServed
  <2>2. Shapes'
    BY <2>1 DEF IInv, Shapes
  <2>3. ASSUME bytes \in Seq(Quiet)
        PROVE  SubSeq(bytes, n + 1, Len(bytes)) \in Seq(Quiet) /\ (n > 0 => bytes[1] \in Quiet)
    BY <2>1, <2>3, IpcAssumption
  <2>4. ASSUME NEW c \in Clients \ searched PROVE toServer'[c] \in Seq(Quiet)
    <3>1. toServer[c] \in Seq(Quiet)
      BY DEF IInv, SearchesAreSearched
    <3> QED
      BY <2>1, <2>3, <3>1 DEF IInv, Shapes
  <2>5. ASSUME first' \in Searches, served \notin searched PROVE FALSE
    <3>1. bytes \in Seq(Quiet) /\ first \notin Searches
      BY <2>1, <2>5 DEF IInv, SearchesAreSearched
    <3>2. first' = first \/ (n > 0 /\ first' = bytes[1])
      BY <2>1, IpcAssumption
    <3> QED
      BY <2>3, <2>5, <3>1, <3>2 DEF Quiet
  <2>6. SearchesAreSearched'
    BY <2>1, <2>4, <2>5 DEF SearchesAreSearched
  <2>7. NobodyServed' /\ BridgeAtWork'
    BY <2>1, IpcAssumption DEF IInv, NobodyServed, BridgeAtWork, Gone
  <2> QED
    BY <2>2, <2>6, <2>7 DEF IInv
<1>6. CASE HandleRequest
  <2>1. /\ served # None /\ first' = first
        /\ UNCHANGED <<served, backlog, client, searched, toServer>>
    BY <1>6 DEF HandleRequest, clientVars, IInv, NobodyServed
  <2>2. CASE GetVersion \/ GetAll
    <3>1. thread' \in {"free", "sending"} \/ Gone(served)
      BY <2>2, Zenon DEF GetVersion, GetAll, SendAnswer, SendFails, SendSome, SendWaits
    <3>2. torn => torn'
      BY <2>2 DEF GetVersion, GetAll
    <3> QED
      BY <2>1, <3>1, <3>2, IInvServer
  <2>3. CASE first \in Searches /\ GetByText
    <3>1. served \in searched
      BY <2>3 DEF IInv, SearchesAreSearched
    <3> QED
      BY <2>1, <2>3, <3>1, IInvServer DEF GetByText
  <2>4. CASE UNCHANGED <<thread, torn>>
    BY <2>1, <2>4, IInvServer
  <2> QED
    BY <1>6, <2>2, <2>3, <2>4 DEF HandleRequest
<1>15. CASE Send
  <2>1. /\ thread = "sending" /\ UNCHANGED <<served, backlog, first, torn, toServer>>
        /\ UNCHANGED <<client, searched>>
    BY <1>15 DEF Send, clientVars
  <2>2. thread' = "free" \/ Gone(served)
    BY <1>15 DEF Send, SendFails, SendSome
  <2>3. served # None
    BY <2>1 DEF IInv, NobodyServed
  <2> QED
    BY <2>1, <2>2, <2>3, IInvServer
<1>7. CASE ReadString
  BY <1>7, IInvServer DEF ReadString, clientVars, wires, IInv, NobodyServed
<1>8. CASE HeapAborts
  BY <1>8, IInvServer DEF HeapAborts, clientVars, wires, IInv, NobodyServed
<1>9. ASSUME NEW c \in Clients, Connect(c) PROVE IInv'
  <2>1. backlog' \in Seq(Clients) /\ client' \in [Clients -> States]
    BY <1>9 DEF Connect, IInv, Shapes, States
  <2>2. \A d \in Clients : Gone(d) => Gone(d)'
    BY <1>9, GoneStays DEF Connect, IInv, States
  <2> QED
    BY <1>9, <2>1, <2>2, IInvClient DEF Connect, wires, IInv, Shapes, SearchesAreSearched
<1>10. ASSUME NEW c \in Clients, NEW rq \in {Version, All} \cup Searches, Request(c, rq)
       PROVE  IInv'
  <2>1. client' \in [Clients -> States] /\ \A d \in Clients : Gone(d) => Gone(d)'
    BY <1>10, GoneStays DEF Request, IInv, Shapes, States
  <2>2. toServer' = [d \in Clients |-> toServer'[d]]
    BY <1>10 DEF Request, IInv, Shapes
  <2>3. \A d \in Clients \ searched' : toServer'[d] \in Seq(Quiet)
    <3> SUFFICES ASSUME NEW d \in Clients \ searched' PROVE toServer'[d] \in Seq(Quiet)
      OBVIOUS
    <3>1. d \notin searched /\ toServer[d] \in Seq(Quiet)
      BY <1>10 DEF Request, IInv, SearchesAreSearched
    <3>2. CASE d # c
      BY <1>10, <3>1, <3>2 DEF Request, IInv, Shapes
    <3>3. CASE d = c
      <4>1. rq \notin Searches /\ rq \in Quiet
        BY <1>10, <3>3, RequestsDiffer DEF Request
      <4>2. toServer'[d] = toServer[d] \o <<rq>> \o <<>>
        BY <1>10, <3>3, <4>1 DEF Request, IInv, Shapes
      <4> QED
        BY <3>1, <4>1, <4>2
    <3> QED
      BY <3>2, <3>3
  <2> QED
    BY <1>10, <2>1, <2>2, <2>3, IInvClient DEF Request, serverVars, IInv, Shapes
<1>11. ASSUME NEW c \in Clients, NEW s \in Submits, SubmitService(c, s) PROVE IInv'
  <2> DEFINE bytes == SubmitBytes(s)
             quiet == \A i \in DOMAIN bytes : bytes[i] \notin Searches
  <2>1. /\ toServer' = [toServer EXCEPT ![c] = toServer[c] \o bytes]
        /\ searched' = IF quiet THEN searched ELSE searched \cup {c}
        /\ UNCHANGED <<serverVars, client>>
    BY <1>11 DEF SubmitService
  <2>2. toServer' = [d \in Clients |-> toServer'[d]]
    BY <2>1 DEF IInv, Shapes
  <2>3. searched \subseteq searched' /\ searched' \subseteq Clients
    BY <2>1 DEF IInv, Shapes
  <2>4. bytes \in Seq(Byte)
    BY SubmitTypes
  <2> HIDE DEF bytes
  <2>5. quiet => bytes \in Seq(Quiet)
    <3> SUFFICES ASSUME quiet PROVE bytes \in Seq(Quiet)
      OBVIOUS
    <3>1. \A i \in 1..Len(bytes) : bytes[i] \in Nat /\ bytes[i] \notin Searches
      BY <2>4, IpcAssumption DEF Byte
    <3> QED
      BY <2>4, <3>1 DEF Quiet
  <2>6. \A d \in Clients \ searched' : toServer'[d] \in Seq(Quiet)
    <3> SUFFICES ASSUME NEW d \in Clients \ searched' PROVE toServer'[d] \in Seq(Quiet)
      OBVIOUS
    <3>1. toServer[d] \in Seq(Quiet)
      BY <2>3 DEF IInv, SearchesAreSearched
    <3>2. d = c => quiet
      BY <2>1
    <3> HIDE DEF quiet
    <3> QED
      BY <2>1, <2>5, <3>1, <3>2 DEF IInv, Shapes
  <2> HIDE DEF quiet
  <2> QED
    BY <2>1, <2>2, <2>3, <2>6, IInvClient DEF serverVars, IInv, Shapes, Gone
<1>12. ASSUME NEW c \in Clients, NEW n, Dispatch(c, n) PROVE IInv'
  <2>1. /\ client[c] = "waiting"
        /\ \E s \in States : client' = [client EXCEPT ![c] = s]
    <3>1. \/ client' = client \/ client' = [client EXCEPT ![c] = "crashed"]
          \/ client' = [client EXCEPT ![c] = "idle"]
      BY <1>12, Zenon DEF Dispatch
    <3>2. client = [client EXCEPT ![c] = client[c]] /\ client[c] \in States
      BY DEF IInv, Shapes
    <3>3. client[c] = "waiting"
      BY <1>12 DEF Dispatch
    <3> QED
      BY <3>1, <3>2, <3>3 DEF States
  <2>2. client' \in [Clients -> States] /\ \A d \in Clients : Gone(d) => Gone(d)'
    BY <2>1, GoneStays DEF IInv, Shapes
  <2> QED
    BY <1>12, <2>2, IInvClient
       DEF Dispatch, serverVars, IInv, Shapes, SearchesAreSearched
<1>13. ASSUME NEW c \in Clients, Close(c) PROVE IInv'
  <2>1. client' \in [Clients -> States] /\ \A d \in Clients : Gone(d) => Gone(d)'
    BY <1>13, GoneStays DEF Close, IInv, Shapes, States
  <2> QED
    BY <1>13, <2>1, IInvClient
       DEF Close, serverVars, wires, IInv, Shapes, SearchesAreSearched
<1> QED
  BY <1>1, <1>2, <1>3, <1>4, <1>5, <1>6, <1>7, <1>8, <1>9, <1>10, <1>11, <1>12,
     <1>13, <1>14, <1>15 DEF Next, Serves, Asks

\* Only a byte of the served client that is a search for a type or a USN, the end
\* of its connection, or a cache that does not fit the answer makes the bridge's
\* thread read for ever or ends its process, until the receives of the endless
\* accepts have taken its memory; and nothing does before a client is accepted.
THEOREM BridgeStaysAtWork == Spec => []BridgeAtWork
<1>1. IInv => BridgeAtWork
  BY DEF IInv
<1> QED
  BY <1>1, IInvInit, IInvStep, PTL DEF Spec

-----------------------------------------------------------------------------
(* What the variables hold. *)

Values ==
    /\ thread \in {"free", "reading", "sending", "ended", "exhausted"}
    /\ tx \in Seq(Byte) /\ served \in Clients \cup {None}
    /\ first \in Byte /\ room \in Nat /\ torn \in BOOLEAN /\ cache \in Caches
    /\ backlog \in Seq(Clients) /\ client \in [Clients -> States]
    /\ request \in [Clients -> {Version, All} \cup Searches]

\* A client waits to be accepted once, after it has connected.
Queue ==
    /\ \A i \in 1..Len(backlog) : client[backlog[i]] # "new" /\ backlog[i] # served
    /\ \A i, j \in 1..Len(backlog) : backlog[i] = backlog[j] => i = j
    /\ served # None => client[served] # "new"

Receives ==
    /\ waiting \in Nat /\ due \in Nat /\ waiting + due <= MaxReceives
    /\ again \in BOOLEAN /\ (again <=> served # None)
    /\ served = None => waiting = 0 /\ due = 0 /\ thread # "sending"

Streams ==
    /\ toServer \in [Clients -> Seq(Byte)] /\ toClient \in [Clients -> Seq(Byte)]
    /\ rx \in [Clients -> Seq(Byte)]

TInv == Values /\ Queue /\ Receives /\ Streams

LEMMA RequestIsByte == {Version, All} \cup Searches \subseteq Byte /\ Submit \in Byte
  BY SeptetIs DEF Version, All, Searches, Type, Usn, Submit, Byte

LEMMA TInvTypes == TInv => TypeOK
<1> SUFFICES ASSUME TInv PROVE TypeOK
  OBVIOUS
<1>1. Values /\ Queue /\ Receives /\ Streams
  BY DEF TInv
<1>2. DOMAIN backlog = 1..Len(backlog)
  BY <1>1 DEF Values
<1>3. \A i \in DOMAIN backlog : backlog[i] # served
  BY <1>1, <1>2 DEF Queue
<1>4. \A s \in Seq(Byte) : \A i \in DOMAIN s : s[i] \in Byte
  OBVIOUS
<1>5. \A c \in Clients : \A bytes \in {toServer[c], toClient[c], rx[c]} :
         \A i \in DOMAIN bytes : bytes[i] \in Byte
  BY <1>1, <1>4 DEF Streams
<1>6. again = (served # None)
  BY <1>1 DEF Receives
<1> QED
  BY <1>1, <1>3, <1>5, <1>6 DEF TypeOK, Values, Receives, States

LEMMA TInvInit == Init => TInv
<1> SUFFICES ASSUME Init PROVE TInv
  OBVIOUS
<1>1. Values
  <2>1. 0 \in Byte /\ <<>> \in Seq(Byte) /\ <<>> \in Seq(Clients) /\ <<>> \in Caches
    BY SeptetIs, IpcAssumption DEF Byte
  <2>2. client \in [Clients -> States] /\ request \in [Clients -> {Version, All} \cup Searches]
    BY DEF Init, States
  <2>3. /\ thread = "free" /\ tx = <<>> /\ served = None /\ backlog = <<>> /\ first = 0 /\ room = 0
        /\ torn = FALSE /\ cache = <<>>
    BY DEF Init
  <2> QED
    BY <2>1, <2>2, <2>3 DEF Values
<1>2. Queue
  BY DEF Init, Queue
<1>3. Receives
  <2>1. served = None /\ again = FALSE /\ waiting = 0 /\ due = 0 /\ thread # "sending"
    BY DEF Init
  <2>2. MaxReceives \in Nat
    BY IpcAssumption
  <2>3. waiting \in Nat /\ due \in Nat /\ waiting + due <= MaxReceives
    BY <2>1, <2>2
  <2>4. again \in BOOLEAN /\ (again <=> served # None)
    BY <2>1, Zenon
  <2> QED
    BY <2>1, <2>3, <2>4, Zenon DEF Receives
<1>4. Streams
  <2>1. <<>> \in Seq(Byte)
    OBVIOUS
  <2> QED
    BY <2>1 DEF Init, Streams
<1> QED
  BY <1>1, <1>2, <1>3, <1>4 DEF TInv

\* What is taken from the front of bytes.
LEMMA TailOfBytes ==
  ASSUME NEW s \in Seq(Byte), NEW n \in Nat, n <= Len(s)
  PROVE  /\ SubSeq(s, n + 1, Len(s)) \in Seq(Byte) /\ SubSeq(s, 1, n) \in Seq(Byte)
         /\ n # 0 => s[1] \in Byte
  OBVIOUS

\* A client that is connected stays so.
LEMMA QueueKept ==
  ASSUME TInv, NEW c \in Clients, client[c] # "new", NEW st \in States \ {"new"},
         client' = [client EXCEPT ![c] = st], UNCHANGED <<backlog, served>>
  PROVE  Queue' /\ client' \in [Clients -> States]
<1>1. client \in [Clients -> States] /\ \A i \in 1..Len(backlog) : backlog[i] \in Clients
  BY DEF TInv, Values
<1>2. \A d \in Clients : client[d] # "new" => client'[d] # "new"
  BY <1>1
<1>3. served \in Clients \cup {None}
  BY DEF TInv, Values
<1> QED
  BY <1>1, <1>2, <1>3 DEF TInv, Queue

LEMMA AnswersAreBytes ==
  /\ AddString(VersionText) \in Seq(Byte)
  /\ \A svcs \in Caches, r \in Nat : Answer(svcs, r) \in Seq(Byte)
<1>1. AddString(VersionText) \in Seq(Byte)
  BY VersionWhole DEF Whole
<1>2. \A svcs \in Caches, r \in Nat : Answer(svcs, r) \in Seq(Byte)
  BY AnswerWhole DEF Whole
<1> QED
  BY <1>1, <1>2

\* The smaller of two numbers.
LEMMA Smaller ==
  ASSUME NEW a \in Int, NEW b \in Int
  PROVE  Min({a, b}) \in {a, b} /\ Min({a, b}) <= a /\ Min({a, b}) <= b
<1>1. \E x \in {a, b} : \A y \in {a, b} : x <= y
  <2>1. CASE a <= b
    BY <2>1
  <2>2. CASE b <= a
    BY <2>2
  <2> QED
    BY <2>1, <2>2
<1>2. Min({a, b}) = CHOOSE x \in {a, b} : \A y \in {a, b} : x <= y
  BY Zenon DEF Min
<1>3. Min({a, b}) \in {a, b} /\ \A y \in {a, b} : Min({a, b}) <= y
  BY <1>1, <1>2
<1> QED
  BY <1>3

\* What m_socket.send takes of an answer.
LEMMA SendSomeTypes ==
  ASSUME TInv, served \in Clients, NEW bytes \in Seq(Byte), SendSome(bytes)
  PROVE  /\ thread' = "free" /\ tx' = <<>> /\ toClient' \in [Clients -> Seq(Byte)]
         /\ \A c \in Clients \ {served} : toClient'[c] = toClient[c]
         /\ served \notin cut' => toClient'[served] = toClient[served] \o bytes
<1>1. toClient \in [Clients -> Seq(Byte)] /\ Len(bytes) \in Nat
  BY DEF TInv, Streams
<1> DEFINE room1 == Pipe - Len(toClient[served])
           n == Min({room1, Len(bytes)})
<1>2. /\ toClient' = [toClient EXCEPT ![served] = toClient[served] \o SubSeq(bytes, 1, n)]
      /\ cut' = IF n < Len(bytes) THEN cut \cup {served} ELSE cut
      /\ Len(toClient[served]) < Pipe /\ thread' = "free" /\ tx' = <<>>
  BY DEF SendSome
<1>3. room1 \in Nat
  BY <1>1, <1>2, IpcAssumption
<1>4. n \in Nat /\ n <= Len(bytes)
  <2>1. room1 \in Int /\ Len(bytes) \in Int
    BY <1>1, <1>3
  <2> HIDE DEF room1
  <2>2. n \in {room1, Len(bytes)} /\ n <= Len(bytes)
    BY <2>1, Smaller
  <2> HIDE DEF n
  <2> QED
    BY <1>1, <1>3, <2>2
<1> HIDE DEF n
<1>5. SubSeq(bytes, 1, n) \in Seq(Byte) /\ (n = Len(bytes) => SubSeq(bytes, 1, n) = bytes)
  BY <1>1, <1>4
<1>6. toClient[served] \o SubSeq(bytes, 1, n) \in Seq(Byte)
  BY <1>1, <1>5
<1>7. toClient' \in [Clients -> Seq(Byte)]
  BY <1>1, <1>2, <1>6
<1>8. served \notin cut' => n = Len(bytes)
  BY <1>1, <1>2, <1>4
<1>9. toClient'[served] = toClient[served] \o SubSeq(bytes, 1, n)
  BY <1>1, <1>2
<1>10. \A c \in Clients \ {served} : toClient'[c] = toClient[c]
  BY <1>1, <1>2
<1> QED
  BY <1>2, <1>5, <1>7, <1>8, <1>9, <1>10

\* An answer that is sent, and the capacity it leaves.
LEMMA SendTypes ==
  ASSUME TInv, served \in Clients, NEW bytes \in Seq(Byte), SendAnswer(bytes), thread = "free"
  PROVE  /\ room' \in Nat /\ thread' \in {"free", "sending", "ended"} /\ tx' \in Seq(Byte)
         /\ toClient' \in [Clients -> Seq(Byte)]
<1>1. /\ Len(bytes) \in Nat /\ room \in Nat /\ tx \in Seq(Byte)
      /\ toClient \in [Clients -> Seq(Byte)]
  BY DEF TInv, Values, Streams
<1>2. room' \in Nat
  BY <1>1, GrownIsNat DEF SendAnswer
<1>3. CASE SendFails
  BY <1>1, <1>2, <1>3 DEF SendFails, sendVars
<1>4. CASE SendSome(bytes)
  <2>1. <<>> \in Seq(Byte)
    OBVIOUS
  <2> QED
    BY <1>2, <1>4, <2>1, SendSomeTypes
<1>5. CASE SendWaits(bytes)
  BY <1>1, <1>2, <1>5 DEF SendWaits
<1> QED
  BY <1>3, <1>4, <1>5 DEF SendAnswer

LEMMA TInvStep == TInv /\ [Next]_vars => TInv'
<1> SUFFICES ASSUME TInv, [Next]_vars PROVE TInv'
  OBVIOUS
<1>1. Values /\ Queue /\ Receives /\ Streams
  BY DEF TInv
<1>2. CASE UNCHANGED vars
  BY <1>1, <1>2 DEF TInv, vars, serverVars, clientVars, wires, Values, Queue, Receives, Streams
<1>3. CASE BridgeCaches
  <2>1. /\ cache' \in Caches
        /\ UNCHANGED <<thread, tx, served, backlog, again, waiting, due, first, room, torn>>
        /\ UNCHANGED <<client, request, rx, toServer, toClient>>
    BY <1>3 DEF BridgeCaches, clientVars, wires
  <2> QED
    BY <1>1, <2>1 DEF TInv, Values, Queue, Receives, Streams
<1>4. CASE Accept
  <2>1. /\ served = None /\ thread = "free" /\ backlog # <<>> /\ served' = Head(backlog) /\ backlog' = Tail(backlog)
        /\ waiting' = 1 /\ again' = TRUE
        /\ UNCHANGED <<thread, tx, due, first, room, torn, cache>>
        /\ UNCHANGED <<client, request, rx, toServer, toClient>>
    BY <1>4 DEF Accept, clientVars, wires
  <2>2. backlog \in Seq(Clients)
    BY <1>1 DEF Values
  <2>3. /\ served' = backlog[1] /\ served' \in Clients /\ 1 \in 1..Len(backlog)
        /\ backlog' \in Seq(Clients) /\ Len(backlog') = Len(backlog) - 1
        /\ \A i \in 1..Len(backlog') : backlog'[i] = backlog[i + 1] /\ i + 1 \in 1..Len(backlog)
                                       /\ i + 1 # 1 /\ i \in Nat
    BY <2>1, <2>2
  <2>4. Values'
    BY <1>1, <2>1, <2>3 DEF Values
  <2>5. Queue'
    <3>1. ASSUME NEW i \in 1..Len(backlog')
          PROVE  client'[backlog'[i]] # "new" /\ backlog'[i] # served'
      BY <1>1, <2>1, <2>3, <3>1 DEF Queue
    <3>2. ASSUME NEW i \in 1..Len(backlog'), NEW j \in 1..Len(backlog'), backlog'[i] = backlog'[j]
          PROVE  i = j
      <4>1. i + 1 = j + 1
        BY <1>1, <2>3, <3>2 DEF Queue
      <4> QED
        BY <2>3, <4>1
    <3>3. client'[served'] # "new"
      BY <1>1, <2>1, <2>3 DEF Queue
    <3> QED
      BY <3>1, <3>2, <3>3 DEF Queue
  <2>6. Receives'
    BY <1>1, <2>1, <2>3, IpcAssumption DEF Receives
  <2> QED
    BY <1>1, <2>1, <2>4, <2>5, <2>6 DEF TInv, Streams
<1>5. CASE AcceptFails
  <2>1. /\ again
        /\ waiting' = IF waiting + due < MaxReceives THEN waiting + 1 ELSE waiting
        /\ UNCHANGED <<thread, tx, served, backlog, again, due, first, room, torn, cache>>
        /\ UNCHANGED <<client, request, rx, toServer, toClient>>
    BY <1>5 DEF AcceptFails, clientVars, wires
  <2>2. Receives'
    BY <1>1, <2>1, IpcAssumption DEF Receives
  <2> QED
    BY <1>1, <2>1, <2>2 DEF TInv, Values, Queue, Streams
<1>6. ASSUME NEW n \in 0..RxSize, Receive(n) PROVE TInv'
  <2>1. /\ waiting > 0 /\ n <= Len(toServer[served])
        /\ first' = IF n = 0 THEN first ELSE toServer[served][1]
        /\ toServer' = [toServer EXCEPT
                          ![served] = SubSeq(toServer[served], n + 1, Len(toServer[served]))]
        /\ waiting' = waiting - 1 /\ due' = due + 1
        /\ UNCHANGED <<thread, tx, served, backlog, again, room, torn, cache, toClient>>
        /\ UNCHANGED <<client, request, rx>>
    BY <1>6 DEF Receive, clientVars, sendVars
  <2>2. served \in Clients
    BY <1>1, <2>1 DEF Values, Receives
  <2>3. toServer[served] \in Seq(Byte) /\ n \in Nat
    BY <1>1, <2>2, IpcAssumption DEF Streams
  <2>4. /\ SubSeq(toServer[served], n + 1, Len(toServer[served])) \in Seq(Byte)
        /\ n # 0 => toServer[served][1] \in Byte
    BY <2>1, <2>3, TailOfBytes
  <2>5. Values'
    BY <1>1, <2>1, <2>4 DEF Values
  <2>6. Receives'
    BY <1>1, <2>1, <2>2, IpcAssumption DEF Receives
  <2>7. Streams'
    BY <1>1, <2>1, <2>4 DEF Streams
  <2> QED
    BY <1>1, <2>1, <2>5, <2>6, <2>7 DEF TInv, Queue
<1>7. CASE HandleRequest
  <2>1. /\ thread = "free" /\ due > 0 /\ due' = due - 1
        /\ UNCHANGED <<served, backlog, again, waiting, first, cache, toServer>>
        /\ UNCHANGED <<client, request, rx>>
    BY <1>7 DEF HandleRequest, clientVars
  <2>2. served \in Clients
    BY <1>1, <2>1 DEF Values, Receives
  <2>3. Receives'
    BY <1>1, <2>1, <2>2, IpcAssumption DEF Receives
  <2>4. /\ room' \in Nat /\ thread' \in {"free", "reading", "sending", "ended"}
        /\ torn' \in BOOLEAN /\ tx' \in Seq(Byte)
        /\ toClient' \in [Clients -> Seq(Byte)]
    <3>1. CASE GetVersion
      BY <1>1, <2>1, <2>2, <3>1, AnswersAreBytes, SendTypes DEF GetVersion, Values
    <3>2. CASE GetAll
      <4>1. SendAnswer(Answer(cache, room)) /\ torn' \in BOOLEAN
        BY <1>1, <3>2 DEF GetAll, Values
      <4>2. Answer(cache, room) \in Seq(Byte)
        BY <1>1, AnswersAreBytes DEF Values
      <4> QED
        BY <2>1, <2>2, <4>1, <4>2, SendTypes
    <3>3. CASE GetByText
      BY <1>1, <3>3 DEF GetByText, sendVars, Values, Streams
    <3>4. CASE UNCHANGED <<thread, room, torn, sendVars>>
      BY <1>1, <2>1, <3>4 DEF sendVars, Values, Streams
    <3>5. GetVersion \/ GetAll \/ GetByText \/ UNCHANGED <<thread, room, torn, sendVars>>
      BY <1>7, Zenon DEF HandleRequest
    <3> QED
      BY <3>1, <3>2, <3>3, <3>4, <3>5
  <2>5. Values' /\ Streams' /\ Queue'
    BY <1>1, <2>1, <2>4 DEF Values, Streams, Queue
  <2> QED
    BY <2>3, <2>5 DEF TInv
<1>8. CASE ReadString \/ HeapAborts \/ OutOfMemory
  <2>1. /\ thread' \in {"ended", "exhausted"}
        /\ UNCHANGED <<tx, served, backlog, again, waiting, due, first, room, torn, cache>>
        /\ UNCHANGED <<client, request, rx, toServer, toClient>>
    BY <1>8 DEF ReadString, HeapAborts, OutOfMemory, clientVars, wires
  <2> QED
    BY <1>1, <2>1 DEF TInv, Values, Queue, Receives, Streams
<1>9. ASSUME NEW c \in Clients, Connect(c) PROVE TInv'
  <2>1. /\ client[c] = "new" /\ client' = [client EXCEPT ![c] = "idle"]
        /\ backlog' = Append(backlog, c)
        /\ UNCHANGED <<thread, tx, served, again, waiting, due, first, room, torn, cache>>
        /\ UNCHANGED <<request, rx, toServer, toClient>>
    BY <1>9 DEF Connect, wires
  <2>2. backlog \in Seq(Clients) /\ Len(backlog) \in Nat /\ client \in [Clients -> States]
        /\ served \in Clients \cup {None}
    BY <1>1 DEF Values
  <2>3. /\ backlog' \in Seq(Clients) /\ Len(backlog') = Len(backlog) + 1
        /\ \A i \in 1..Len(backlog') : i \in 1..Len(backlog) \/ i = Len(backlog) + 1
        /\ \A i \in 1..Len(backlog) : backlog'[i] = backlog[i] /\ backlog[i] \in Clients
        /\ backlog'[Len(backlog) + 1] = c
    BY <2>1, <2>2, AppendProperties
  <2>4. client' \in [Clients -> States] /\ client'[c] = "idle"
        /\ \A d \in Clients : d # c => client'[d] = client[d]
    BY <2>1, <2>2 DEF States
  <2>5. Queue'
    <3>1. \A i \in 1..Len(backlog) : backlog[i] # c /\ client'[backlog[i]] # "new"
      BY <1>1, <2>1, <2>3, <2>4 DEF Queue
    <3>2. c # served /\ (served # None => client'[served] # "new")
      BY <1>1, <2>1, <2>2, <2>4, IpcAssumption DEF Queue
    <3>3. ASSUME NEW i \in 1..Len(backlog')
          PROVE  client'[backlog'[i]] # "new" /\ backlog'[i] # served'
      BY <1>1, <2>1, <2>3, <2>4, <3>1, <3>2 DEF Queue
    <3>4. ASSUME NEW i \in 1..Len(backlog'), NEW j \in 1..Len(backlog'), backlog'[i] = backlog'[j]
          PROVE  i = j
      BY <1>1, <2>3, <3>1, <3>4 DEF Queue
    <3> QED
      BY <2>1, <3>2, <3>3, <3>4 DEF Queue
  <2>6. Values' /\ Receives' /\ Streams'
    BY <1>1, <2>1, <2>3, <2>4 DEF Values, Receives, Streams
  <2> QED
    BY <2>5, <2>6 DEF TInv
<1>10. ASSUME NEW c \in Clients, NEW rq \in {Version, All} \cup Searches, Request(c, rq) PROVE TInv'
  <2> DEFINE text == IF rq \in Searches THEN AddString(Wanted) ELSE <<>>
  <2>1. /\ client[c] = "idle" /\ client' = [client EXCEPT ![c] = "waiting"]
        /\ request' = [request EXCEPT ![c] = rq] /\ rx' = [rx EXCEPT ![c] = <<>>]
        /\ toServer' = [toServer EXCEPT ![c] = toServer[c] \o <<rq>> \o text]
        /\ UNCHANGED <<thread, tx, served, backlog, again, waiting, due, first, room, torn, cache>>
        /\ UNCHANGED toClient
    BY <1>10 DEF Request, serverVars
  <2>2. Queue' /\ client' \in [Clients -> States]
    BY <2>1, QueueKept DEF States
  <2>3. text \in Seq(Byte)
    BY IpcAssumption, AddStringShape
  <2>4. toServer[c] \o <<rq>> \o text \in Seq(Byte)
    <3>1. toServer[c] \in Seq(Byte) /\ <<rq>> \in Seq(Byte)
      BY <1>1, RequestIsByte DEF Streams
    <3> HIDE DEF text
    <3> QED
      BY <2>3, <3>1
  <2> HIDE DEF text
  <2>5. Values' /\ Receives'
    BY <1>1, <2>1, <2>2 DEF Values, Receives
  <2>6. Streams'
    <3>1. <<>> \in Seq(Byte)
      OBVIOUS
    <3> QED
      BY <1>1, <2>1, <2>4, <3>1 DEF Streams
  <2> QED
    BY <2>2, <2>5, <2>6 DEF TInv
<1>11. ASSUME NEW c \in Clients, NEW s \in Submits, SubmitService(c, s) PROVE TInv'
  <2> DEFINE bytes == SubmitBytes(s)
  <2>1. /\ toServer' = [toServer EXCEPT ![c] = toServer[c] \o bytes]
        /\ UNCHANGED <<thread, tx, served, backlog, again, waiting, due, first, room, torn, cache>>
        /\ UNCHANGED <<client, request, rx, toClient>>
    BY <1>11 DEF SubmitService, serverVars
  <2>2. bytes \in Seq(Byte)
    BY SubmitTypes
  <2> HIDE DEF bytes
  <2>3. toServer[c] \o bytes \in Seq(Byte)
    BY <1>1, <2>2 DEF Streams
  <2>4. Streams'
    BY <1>1, <2>1, <2>3 DEF Streams
  <2> QED
    BY <1>1, <2>1, <2>4 DEF TInv, Values, Queue, Receives
<1>12. ASSUME NEW c \in Clients, NEW k \in Pieces, Dispatch(c, k) PROVE TInv'
  <2>1. PICK n \in 1..Len(toClient[c]) :
           LET b == rx[c] \o SubSeq(toClient[c], 1, n)
           IN /\ rx' = [rx EXCEPT ![c] = b]
              /\ toClient' = [toClient EXCEPT ![c] = SubSeq(toClient[c], n + 1, Len(toClient[c]))]
    BY <1>12, Zenon DEF Dispatch
  <2> DEFINE b == rx[c] \o SubSeq(toClient[c], 1, n)
  <2>2. /\ client[c] = "waiting"
        /\ UNCHANGED <<thread, tx, served, backlog, again, waiting, due, first, room, torn, cache>>
        /\ UNCHANGED <<toServer, request>>
        /\ client' = client \/ \E st \in {"crashed", "idle"} : client' = [client EXCEPT ![c] = st]
    BY <1>12, Zenon DEF Dispatch, serverVars
  <2>3. Queue' /\ client' \in [Clients -> States]
    <3>1. CASE client' = client
      BY <1>1, <2>2, <3>1 DEF Queue, Values
    <3>2. ASSUME NEW st \in {"crashed", "idle"}, client' = [client EXCEPT ![c] = st]
          PROVE  Queue' /\ client' \in [Clients -> States]
      <4>1. st \in States \ {"new"} /\ client[c] # "new"
        BY <2>2, <3>2 DEF States
      <4> QED
        BY <2>2, <3>2, <4>1, QueueKept
    <3> QED
      BY <2>2, <3>1, <3>2
  <2>4. rx[c] \in Seq(Byte) /\ toClient[c] \in Seq(Byte)
    BY <1>1 DEF Streams
  <2>5. SubSeq(toClient[c], n + 1, Len(toClient[c])) \in Seq(Byte) /\ b \in Seq(Byte)
    BY <2>1, <2>4, TailOfBytes
  <2>6. rx' = [rx EXCEPT ![c] = b]
    BY <2>1
  <2> HIDE DEF b
  <2>7. Streams'
    BY <1>1, <2>1, <2>2, <2>5, <2>6 DEF Streams
  <2>8. Values' /\ Receives'
    BY <1>1, <2>2, <2>3 DEF Values, Receives
  <2> QED
    BY <2>3, <2>7, <2>8 DEF TInv
<1>13. ASSUME NEW c \in Clients, Close(c) PROVE TInv'
  <2> DEFINE st == "closed"
  <2>1. client' = [client EXCEPT ![c] = st]
    BY <1>13 DEF Close
  <2>2. /\ client[c] # "new" /\ st \in States \ {"new"}
        /\ UNCHANGED <<thread, tx, served, backlog, again, waiting, due, first, room, torn, cache>>
        /\ UNCHANGED <<request, rx, toServer, toClient>>
    BY <1>13 DEF Close, serverVars, wires, States
  <2>3. Queue' /\ client' \in [Clients -> States]
    BY <2>1, <2>2, QueueKept
  <2> QED
    BY <1>1, <2>2, <2>3 DEF TInv, Values, Receives, Streams
<1>14. CASE Send
  <2>1. /\ thread = "sending"
        /\ UNCHANGED <<served, backlog, again, waiting, due, first, room, torn, cache, toServer>>
        /\ UNCHANGED <<client, request, rx>>
    BY <1>14 DEF Send, clientVars
  <2>2. served \in Clients /\ tx \in Seq(Byte)
    BY <1>1, <2>1 DEF Values, Receives
  <2>3. thread' \in {"free", "ended"} /\ tx' \in Seq(Byte) /\ toClient' \in [Clients -> Seq(Byte)]
    <3>1. CASE SendFails
      BY <1>1, <3>1 DEF SendFails, sendVars, Values, Streams
    <3>2. CASE SendSome(tx)
      <4>1. <<>> \in Seq(Byte)
        OBVIOUS
      <4> QED
        BY <2>2, <3>2, <4>1, SendSomeTypes
    <3> QED
      BY <1>14, <3>1, <3>2 DEF Send
  <2> QED
    BY <1>1, <2>1, <2>3 DEF TInv, Values, Queue, Receives, Streams
<1> QED
  BY <1>2, <1>3, <1>4, <1>5, <1>6, <1>7, <1>8, <1>9, <1>10, <1>11, <1>12, <1>13, <1>14
     DEF Next, Serves, Asks

-----------------------------------------------------------------------------
(* Requests that are alone on their way. *)

\* Nothing is on the way to c, and it has read nothing.
Silent(c) == toClient[c] = <<>> /\ rx[c] = <<>>

\* The thread is not in a send to c.
NotSending(c) == served = c => thread # "sending"

\* How far a request that is alone on its way has got.
Asked(c) ==
    toServer[c] = <<request[c]>> /\ Silent(c) /\ NotSending(c) /\ (served = c => due = 0)

Taken(c) ==
    /\ served = c /\ toServer[c] = <<>> /\ due = 1 /\ first = request[c]
    /\ Silent(c) /\ NotSending(c)

Sent(c) ==
    /\ served = c /\ toServer[c] = <<>> /\ due = 0 /\ NotSending(c)
    /\ Whole(request[c], rx[c] \o toClient[c])

\* A request that is alone, and whose answer has not been sent in part.
Alone(c) ==
    /\ client[c] = "waiting" /\ inStep[c] /\ c \notin cut
    /\ request[c] \in {Version, All}

Served(c) ==
    /\ c # served => Silent(c)
    /\ client[c] = "waiting" /\ rx[c] # <<>> => Ask(request[c], rx[c]) > 0
    /\ Alone(c) => Asked(c) \/ Taken(c) \/ Sent(c)

AInv == inStep \in [Clients -> BOOLEAN] /\ \A c \in Clients : Served(c)

\* A reader that waits has not read a whole answer.
LEMMA ServedSuffices == TInv /\ AInv => AnswerSuffices
<1> SUFFICES ASSUME AInv, TInv, NEW c \in Clients, client[c] = "waiting", inStep[c],
                    request[c] \in {Version, All}, c \notin cut,
                    rx[c] # <<>>, toClient[c] = <<>>
             PROVE  FALSE
  BY Zenon DEF AnswerSuffices
<1>1. Served(c) /\ Alone(c)
  BY DEF AInv, Alone
<1>2. ~Silent(c)
  BY DEF Silent
<1>3. Sent(c)
  BY <1>1, <1>2 DEF Served, Asked, Taken
<1>4. rx[c] \o toClient[c] = rx[c]
  <2>1. rx[c] \in Seq(Byte)
    BY DEF TInv, Streams
  <2> QED
    BY <2>1
<1>5. Whole(request[c], rx[c])
  BY <1>3, <1>4, Zenon DEF Sent
<1>6. Ask(request[c], rx[c]) = 0
  BY <1>5, WholeIsEnough
<1>7. Ask(request[c], rx[c]) > 0
  BY <1>1 DEF Served
<1> QED
  BY <1>6, <1>7

LEMMA AInvInit == Init => AInv
<1> SUFFICES ASSUME Init PROVE AInv
  OBVIOUS
<1>1. inStep \in [Clients -> BOOLEAN]
  BY DEF Init
<1>2. ASSUME NEW c \in Clients PROVE Served(c)
  <2>1. client[c] = "new" /\ rx[c] = <<>> /\ toClient[c] = <<>>
    BY DEF Init
  <2> QED
    BY <2>1 DEF Served, Alone, Silent
<1> QED
  BY <1>1, <1>2 DEF AInv

\* What does not concern a client leaves it where it was.
LEMMA ServedKept ==
  ASSUME NEW c, Served(c), client'[c] = client[c] \/ client'[c] # "waiting",
         request'[c] = request[c], rx'[c] = rx[c], inStep'[c] = inStep[c],
         toServer'[c] = toServer[c], toClient'[c] = toClient[c], served' = served,
         c \in cut => c \in cut', NotSending(c) => NotSending(c)',
         served = c => due' = due /\ first' = first
  PROVE  Served(c)'
<1>1. Silent(c)' <=> Silent(c)
  BY DEF Silent
<1>2. CASE client'[c] # "waiting"
  BY <1>1, <1>2 DEF Served, Alone
<1>3. CASE client'[c] = client[c]
  <2>1. Alone(c)' => Alone(c)
    BY <1>3 DEF Alone
  <2>2. (Asked(c) => Asked(c)') /\ (Taken(c) => Taken(c)')
    BY <1>1 DEF Asked, Taken
  <2>3. ASSUME Sent(c) PROVE Sent(c)'
    <3>1. Whole(request'[c], rx'[c] \o toClient'[c])
      BY <2>3, Zenon DEF Sent
    <3>2. served' = c /\ toServer'[c] = <<>> /\ due' = 0 /\ NotSending(c)'
      BY <2>3 DEF Sent
    <3> QED
      BY <3>1, <3>2 DEF Sent
  <2> QED
    BY <1>1, <1>3, <2>1, <2>2, <2>3 DEF Served, Ask
<1> QED
  BY <1>2, <1>3

\* A client that is accepted has not been answered before.
LEMMA AcceptServes ==
  ASSUME TInv, AInv, Accept, NEW c \in Clients
  PROVE  Served(c)'
<1>1. /\ served = None /\ due' = due /\ thread = "free"
      /\ UNCHANGED <<client, request, rx, inStep, toServer, toClient, first, thread, cut>>
  BY DEF Accept, clientVars, wires
<1>2. due = 0 /\ c # served
  BY <1>1, IpcAssumption DEF TInv, Receives
<1>3. Served(c) /\ Silent(c)
  BY <1>2 DEF AInv, Served
<1>4. /\ Silent(c)' /\ (Alone(c)' <=> Alone(c)) /\ request'[c] = request[c]
      /\ NotSending(c)'
  BY <1>1, <1>3 DEF Silent, Alone, NotSending
<1>5. Alone(c) => Asked(c)'
  <2>1. Asked(c) => Asked(c)'
    BY <1>1, <1>2, <1>4 DEF Asked
  <2> QED
    BY <1>2, <1>3, <2>1 DEF Served, Taken, Sent
<1>6. rx'[c] = <<>>
  BY <1>4 DEF Silent
<1> QED
  BY <1>4, <1>5, <1>6 DEF Served

\* A receive takes the request, and no more is behind it.
LEMMA ReceiveServes ==
  ASSUME TInv, AInv, NEW n \in 0..RxSize, Receive(n), NEW c \in Clients
  PROVE  Served(c)'
<1> DEFINE bytes == toServer[served]
<1>1. /\ waiting > 0 /\ n <= Len(bytes) /\ (n = 0 => bytes = <<>> /\ Gone(served))
      /\ first' = IF n = 0 THEN first ELSE bytes[1]
      /\ toServer' = [toServer EXCEPT ![served] = SubSeq(bytes, n + 1, Len(bytes))]
      /\ due' = due + 1
      /\ UNCHANGED <<served, thread, toClient, cut, client, request, rx, inStep>>
  BY DEF Receive, clientVars, sendVars
<1>2. /\ served \in Clients /\ due \in Nat /\ n \in Nat /\ Served(c)
      /\ toServer \in [Clients -> Seq(Byte)]
  BY <1>1, IpcAssumption DEF TInv, Values, Receives, Streams, AInv
<1>3. CASE c # served
  <2>1. toServer'[c] = toServer[c]
    BY <1>1, <1>2, <1>3
  <2>2. NotSending(c) => NotSending(c)'
    BY <1>1 DEF NotSending
  <2> QED
    BY <1>1, <1>2, <1>3, <2>1, <2>2, ServedKept
<1>4. CASE c = served
  <2>1. /\ toServer'[c] = SubSeq(toServer[c], n + 1, Len(toServer[c])) /\ bytes = toServer[c]
        /\ (Silent(c)' <=> Silent(c)) /\ (Alone(c)' <=> Alone(c))
        /\ request'[c] = request[c] /\ served' = c /\ (NotSending(c)' <=> NotSending(c))
    BY <1>1, <1>2, <1>4 DEF Silent, Alone, NotSending
  <2>2. Alone(c) => n # 0
    BY <1>1, <1>4 DEF Alone, Gone
  <2> HIDE DEF bytes
  <2>3. Alone(c) => Taken(c)'
    <3> SUFFICES ASSUME Alone(c) PROVE Taken(c)'
      OBVIOUS
    <3>1. toServer[c] # <<>>
      <4>1. Len(<<>>) = 0
        OBVIOUS
      <4> QED
        BY <1>1, <1>2, <2>1, <2>2, <4>1
    <3>2. Asked(c)
      BY <1>2, <3>1 DEF Served, Taken, Sent
    <3>3. toServer[c] = <<request[c]>> /\ Silent(c) /\ due = 0 /\ NotSending(c)
      BY <1>4, <3>2 DEF Asked
    <3>4. n = 1
      BY <1>1, <1>2, <2>1, <2>2, <3>3
    <3>5. toServer'[c] = <<>> /\ first' = request[c] /\ due' = 1
      BY <1>1, <2>1, <3>3, <3>4
    <3> QED
      BY <2>1, <3>3, <3>5 DEF Taken
  <2>5. client'[c] = "waiting" /\ rx'[c] # <<>> => Ask(request[c], rx[c]) > 0
    BY <1>1, <1>2 DEF Served
  <2> QED
    BY <1>1, <2>1, <2>3, <2>5 DEF Served, Ask
<1> QED
  BY <1>3, <1>4

\* What is handled is the request, which is answered once.
LEMMA HandleServes ==
  ASSUME TInv, AInv, HandleRequest, NEW c \in Clients
  PROVE  Served(c)'
<1>1. /\ due > 0 /\ due' = due - 1
      /\ UNCHANGED <<served, first, cache, toServer, client, request, rx, inStep>>
  BY DEF HandleRequest, clientVars
<1>2. /\ served \in Clients /\ due \in Nat /\ Served(c) /\ cache \in Caches /\ room \in Nat
      /\ toClient \in [Clients -> Seq(Byte)]
  BY <1>1 DEF TInv, Values, Receives, Streams, AInv
<1>3. \/ first = Version /\ SendAnswer(AddString(VersionText))
      \/ first = All /\ SendAnswer(Answer(cache, room))
      \/ /\ first \notin {Version, All} /\ UNCHANGED sendVars
         /\ thread = "free" /\ thread' # "sending"
  BY DEF HandleRequest, GetVersion, GetAll, GetByText, Searches, Type, Usn, Version, All
<1>4. CASE c # served
  <2>1. toClient'[c] = toClient[c] /\ (c \in cut => c \in cut')
    BY <1>2, <1>3, <1>4, Zenon DEF SendAnswer, SendFails, SendSome, SendWaits, sendVars
  <2>2. NotSending(c)'
    BY <1>1, <1>4 DEF NotSending
  <2> QED
    BY <1>1, <1>2, <1>4, <2>1, <2>2, ServedKept
<1>5. CASE c = served
  <2>1. request'[c] = request[c] /\ served' = c /\ toServer'[c] = toServer[c] /\ rx'[c] = rx[c]
    BY <1>1, <1>5
  <2>2. Alone(c)' => Sent(c)'
    <3> SUFFICES ASSUME Alone(c)' PROVE Sent(c)'
      OBVIOUS
    <3>10. c \in cut => c \in cut'
      BY <1>3 DEF SendAnswer, SendFails, SendSome, SendWaits, sendVars
    <3>11. Alone(c)
      BY <1>1, <3>10 DEF Alone
    <3>1. Taken(c)
      BY <1>1, <1>2, <1>5, <3>11 DEF Served, Asked, Sent
    <3>2. toServer[c] = <<>> /\ due = 1 /\ first = request[c] /\ toClient[c] = <<>> /\ rx[c] = <<>>
      BY <3>1 DEF Taken, Silent
    <3>3. PICK a : SendAnswer(a) /\ Whole(request[c], a)
      <4>1. Whole(Version, AddString(VersionText)) /\ Whole(All, Answer(cache, room))
        BY <1>2, VersionWhole, AnswerWhole
      <4>2. CASE first = Version
        BY <1>3, <3>2, <4>1, <4>2, AllIs, Zenon
      <4>3. CASE first = All
        BY <1>3, <3>2, <4>1, <4>3, AllIs, Zenon
      <4> QED
        BY <3>2, <3>11, <4>2, <4>3 DEF Alone
    <3>4. a \in Seq(Byte)
      BY <3>3 DEF Whole
    <3>5. ~SendFails /\ ~SendWaits(a)
      <4>1. ~Gone(served)
        BY <1>5, <3>11 DEF Alone, Gone
      <4>2. Len(toClient[served]) = 0 /\ Pipe \in Nat \ {0}
        BY <1>5, <3>2, IpcAssumption
      <4> QED
        BY <4>1, <4>2 DEF SendFails, SendWaits
    <3>12. SendSome(a)
      BY <3>3, <3>5, Zenon DEF SendAnswer
    <3>6. toClient'[c] = <<>> \o a /\ thread' = "free"
      BY <1>2, <1>5, <3>2, <3>4, <3>12, SendSomeTypes DEF Alone
    <3>7. rx'[c] \o toClient'[c] = a
      BY <2>1, <3>2, <3>4, <3>6
    <3>8. due' = 0 /\ toServer'[c] = <<>> /\ NotSending(c)'
      BY <1>1, <2>1, <3>2, <3>6 DEF NotSending
    <3>9. Whole(request'[c], rx'[c] \o toClient'[c])
      BY <2>1, <3>3, <3>7, Zenon
    <3> QED
      BY <2>1, <3>8, <3>9 DEF Sent
  <2>4. client'[c] = "waiting" /\ rx'[c] # <<>> => Ask(request[c], rx[c]) > 0
    BY <1>1, <1>2 DEF Served
  <2> QED
    BY <1>1, <1>5, <2>1, <2>2, <2>4 DEF Served, Ask
<1> QED
  BY <1>4, <1>5

\* A send that goes on is to a client whose request is not alone.
LEMMA SendServes ==
  ASSUME TInv, AInv, Send, NEW c \in Clients
  PROVE  Served(c)'
<1>1. /\ thread = "sending"
      /\ UNCHANGED <<served, due, first, toServer, client, request, rx, inStep>>
  BY DEF Send, clientVars
<1>2. Served(c)
  BY DEF AInv
<1>3. toClient \in [Clients -> Seq(Byte)]
  BY DEF TInv, Streams
<1>4. CASE c # served
  <2>1. toClient'[c] = toClient[c] /\ (c \in cut => c \in cut')
    BY <1>3, <1>4, Zenon DEF Send, SendFails, SendSome, sendVars
  <2>2. NotSending(c)'
    BY <1>1, <1>4 DEF NotSending
  <2> QED
    BY <1>1, <1>2, <2>1, <2>2, <1>4, ServedKept
<1>5. CASE c = served
  <2>1. ~NotSending(c)
    BY <1>1, <1>5 DEF NotSending
  <2>2. ~Alone(c)
    BY <1>2, <2>1 DEF Served, Asked, Taken, Sent
  <2>3. c \in cut => c \in cut'
    BY DEF Send, SendFails, SendSome, sendVars
  <2>4. ~Alone(c)'
    BY <1>1, <2>2, <2>3 DEF Alone
  <2>5. client'[c] = "waiting" /\ rx'[c] # <<>> => Ask(request[c], rx[c]) > 0
    BY <1>1, <1>2 DEF Served
  <2> QED
    BY <1>1, <1>5, <2>4, <2>5 DEF Served, Ask
<1> QED
  BY <1>4, <1>5

\* A request when nothing is on the way is alone.
LEMMA RequestServes ==
  ASSUME TInv, AInv, NEW c \in Clients, NEW rq \in {Version, All} \cup Searches, Request(c, rq)
  PROVE  Served(c)'
<1> DEFINE text == IF rq \in Searches THEN AddString(Wanted) ELSE <<>>
<1>1. /\ request' = [request EXCEPT ![c] = rq] /\ rx' = [rx EXCEPT ![c] = <<>>]
      /\ toServer' = [toServer EXCEPT ![c] = toServer[c] \o <<rq>> \o text]
      /\ inStep' = [inStep EXCEPT ![c] = InStep(c)]
      /\ UNCHANGED <<served, due, first, toClient, thread>>
  BY DEF Request, serverVars
<1>2. /\ request \in [Clients -> {Version, All} \cup Searches]
      /\ toServer \in [Clients -> Seq(Byte)] /\ rx \in [Clients -> Seq(Byte)]
      /\ inStep \in [Clients -> BOOLEAN] /\ Served(c)
  BY DEF TInv, Values, Streams, AInv
<1>3. /\ request'[c] = rq /\ rx'[c] = <<>> /\ toServer'[c] = toServer[c] \o <<rq>> \o text
      /\ inStep'[c] = InStep(c)
  BY <1>1, <1>2
<1>4. c # served' => Silent(c)'
  BY <1>1, <1>2, <1>3 DEF Served, Silent
<1>5. Alone(c)' => Asked(c)'
  <2> SUFFICES ASSUME Alone(c)' PROVE Asked(c)'
    OBVIOUS
  <2>1. toServer[c] = <<>> /\ toClient[c] = <<>> /\ due = 0 /\ thread # "sending"
    BY <1>3 DEF Alone, InStep
  <2>2. text = <<>>
    BY <1>3 DEF Alone, Version, All, Searches, Type, Usn
  <2>3. toServer'[c] = <<rq>>
    <3>1. <<>> \o <<rq>> \o <<>> = <<rq>>
      OBVIOUS
    <3> HIDE DEF text
    <3> QED
      BY <1>3, <2>1, <2>2, <3>1
  <2>4. Silent(c)' /\ due' = 0 /\ NotSending(c)'
    BY <1>1, <1>3, <2>1 DEF Silent, NotSending
  <2> QED
    BY <1>3, <2>3, <2>4 DEF Asked
<1> QED
  BY <1>3, <1>4, <1>5 DEF Served

\* What is read and what is on the way stay the answer.
LEMMA DispatchServes ==
  ASSUME TInv, AInv, NEW c \in Clients, NEW k \in Pieces, Dispatch(c, k)
  PROVE  Served(c)'
<1>0. PICK n \in 1..Len(toClient[c]) :
         LET b == rx[c] \o SubSeq(toClient[c], 1, n)
         IN /\ rx' = [rx EXCEPT ![c] = b]
            /\ toClient' = [toClient EXCEPT ![c] = SubSeq(toClient[c], n + 1, Len(toClient[c]))]
            /\ \/ client' = [client EXCEPT ![c] = "crashed"]
               \/ Ask(request[c], b) > 0
               \/ client' = [client EXCEPT ![c] = "idle"]
  BY Zenon DEF Dispatch
<1> DEFINE b == rx[c] \o SubSeq(toClient[c], 1, n)
           rest == SubSeq(toClient[c], n + 1, Len(toClient[c]))
<1>1. /\ client[c] = "waiting" /\ n <= Len(toClient[c])
      /\ rx' = [rx EXCEPT ![c] = b] /\ toClient' = [toClient EXCEPT ![c] = rest]
      /\ UNCHANGED <<served, due, first, thread, toServer, request, inStep, cut>>
  <2>1. /\ client[c] = "waiting"
        /\ UNCHANGED <<served, due, first, thread, toServer, request, inStep, cut>>
    BY DEF Dispatch, serverVars
  <2>2. n <= Len(toClient[c])
    OBVIOUS
  <2> QED
    BY <1>0, <2>1, <2>2
<1>2. /\ Served(c) /\ client \in [Clients -> States]
      /\ toClient \in [Clients -> Seq(Byte)] /\ rx \in [Clients -> Seq(Byte)]
  BY DEF TInv, Values, Streams, AInv
<1>3. toClient[c] # <<>>
  <2>1. Len(<<>>) = 0 /\ n \in Nat \ {0}
    OBVIOUS
  <2> QED
    BY <1>1, <2>1
<1>4. c = served
  BY <1>2, <1>3 DEF Served, Silent
<1>5. rx'[c] = b /\ toClient'[c] = rest
  BY <1>1, <1>2
<1>6. client'[c] = "waiting" => Ask(request[c], b) > 0
  <2>1. \/ client' = [client EXCEPT ![c] = "crashed"]
        \/ Ask(request[c], b) > 0
        \/ client' = [client EXCEPT ![c] = "idle"]
    BY <1>0, Zenon
  <2> QED
    BY <1>2, <2>1
<1>7. rx'[c] \o toClient'[c] = rx[c] \o toClient[c]
  <2>1. toClient[c] \in Seq(Byte) /\ rx[c] \in Seq(Byte) /\ n \in Nat
    BY <1>2
  <2> DEFINE s == toClient[c]
             r == rx[c]
             front == SubSeq(s, 1, n)
  <2>2. front \in Seq(Byte) /\ rest \in Seq(Byte)
    BY <1>1, <2>1, TailOfBytes
  <2>3. front \o rest = s
    BY <1>1, <2>1
  <2>4. r \o (front \o rest) = (r \o front) \o rest
    <3> HIDE DEF r, front, rest
    <3>1. r \in Seq(Byte)
      BY <2>1 DEF r
    <3> QED
      BY <2>2, <3>1, Associated
  <2> QED
    BY <1>5, <2>3, <2>4, Zenon
<1>8. Alone(c)' => Alone(c)
  BY <1>1 DEF Alone
<1>9. Alone(c) => Sent(c)
  BY <1>2, <1>3 DEF Served, Asked, Taken, Silent
<1>11. ASSUME Sent(c) PROVE Sent(c)'
  <2>1. request'[c] = request[c]
    BY <1>1
  <2>2. Whole(request'[c], rx'[c] \o toClient'[c])
    BY <1>7, <1>11, <2>1, Zenon DEF Sent
  <2>3. served' = c /\ toServer'[c] = <<>> /\ due' = 0 /\ NotSending(c)'
    BY <1>1, <1>11 DEF Sent, NotSending
  <2> QED
    BY <2>2, <2>3 DEF Sent
<1> HIDE DEF b, rest
<1>12. client'[c] = "waiting" => Ask(request'[c], rx'[c]) > 0
  BY <1>1, <1>5, <1>6
<1> QED
  BY <1>1, <1>4, <1>8, <1>9, <1>11, <1>12 DEF Served, Ask

LEMMA AInvStep == TInv /\ AInv /\ [Next]_vars => AInv'
<1> SUFFICES ASSUME TInv, AInv, [Next]_vars PROVE AInv'
  OBVIOUS
<1>1. /\ inStep \in [Clients -> BOOLEAN] /\ client \in [Clients -> States]
      /\ request \in [Clients -> {Version, All} \cup Searches]
      /\ toServer \in [Clients -> Seq(Byte)] /\ toClient \in [Clients -> Seq(Byte)]
      /\ rx \in [Clients -> Seq(Byte)]
  BY DEF AInv, TInv, Values, Streams
<1>2. inStep' \in [Clients -> BOOLEAN]
  <2>1. ASSUME NEW c, NEW rq, Request(c, rq) PROVE inStep' \in [Clients -> BOOLEAN]
    BY <1>1, <2>1 DEF Request, InStep
  <2>2. \/ inStep' = inStep
        \/ \E c \in Clients : \E rq \in {Version, All} \cup Searches : Request(c, rq)
    BY DEF Next, Serves, Asks, vars, BridgeCaches, Accept, AcceptFails, OutOfMemory, Receive,
       HandleRequest, Send, ReadString, HeapAborts, Connect, SubmitService, Dispatch, Close,
       clientVars
  <2> QED
    BY <1>1, <2>1, <2>2
<1> SUFFICES ASSUME NEW c \in Clients PROVE Served(c)'
  BY <1>2 DEF AInv
<1>3. Served(c)
  BY DEF AInv
<1>4. CASE UNCHANGED vars
  BY <1>3, <1>4, ServedKept DEF vars, serverVars, clientVars, wires, NotSending
<1>5. CASE BridgeCaches \/ AcceptFails \/ OutOfMemory \/ ReadString \/ HeapAborts
  <2>1. NotSending(c) => NotSending(c)'
    BY <1>5 DEF BridgeCaches, AcceptFails, OutOfMemory, ReadString, HeapAborts, NotSending
  <2> QED
    BY <1>3, <1>5, <2>1, ServedKept
       DEF BridgeCaches, AcceptFails, OutOfMemory, ReadString, HeapAborts, clientVars, wires
<1>14. CASE Send
  BY <1>14, SendServes
<1>6. CASE Accept
  BY <1>6, AcceptServes
<1>7. ASSUME NEW n \in 0..RxSize, Receive(n) PROVE Served(c)'
  BY <1>7, ReceiveServes
<1>8. CASE HandleRequest
  BY <1>8, HandleServes
<1>9. ASSUME NEW d \in Clients, Connect(d) PROVE Served(c)'
  <2>1. /\ client'[c] = client[c] \/ client'[c] # "waiting"
        /\ UNCHANGED <<request, rx, inStep, toServer, toClient, served, due, first, thread, cut>>
    BY <1>1, <1>9 DEF Connect, wires
  <2> QED
    BY <1>3, <2>1, ServedKept DEF NotSending
<1>10. ASSUME NEW d \in Clients, NEW rq \in {Version, All} \cup Searches, Request(d, rq)
      PROVE  Served(c)'
  <2>1. CASE d = c
    BY <1>10, <2>1, RequestServes
  <2>2. CASE d # c
    <3>1. /\ client'[c] = client[c] /\ request'[c] = request[c] /\ rx'[c] = rx[c]
          /\ inStep'[c] = inStep[c] /\ toServer'[c] = toServer[c]
          /\ (c \in cut => c \in cut') /\ UNCHANGED <<toClient, served, due, first, thread>>
      BY <1>1, <1>10, <2>2 DEF Request, serverVars
    <3> QED
      BY <1>3, <3>1, ServedKept DEF NotSending
  <2> QED
    BY <2>1, <2>2
<1>11. ASSUME NEW d \in Clients, NEW s \in Submits, SubmitService(d, s)
       PROVE  Served(c)'
  <2>1. /\ client[d] = "idle"
        /\ toServer' = [toServer EXCEPT ![d] = toServer[d] \o SubmitBytes(s)]
        /\ UNCHANGED <<client, request, rx, inStep, toClient, served, due, first, thread, cut>>
    BY <1>11 DEF SubmitService, serverVars
  <2>2. CASE d # c
    <3>1. toServer'[c] = toServer[c]
      BY <1>1, <2>1, <2>2
    <3> QED
      BY <1>3, <2>1, <3>1, ServedKept DEF NotSending
  <2>3. CASE d = c
    BY <1>3, <2>1, <2>3 DEF Served, Alone, Silent
  <2> QED
    BY <2>2, <2>3
<1>12. ASSUME NEW d \in Clients, NEW k \in Pieces, Dispatch(d, k) PROVE Served(c)'
  <2>1. CASE d = c
    BY <1>12, <2>1, DispatchServes
  <2>2. CASE d # c
    <3>1. client' = client \/ \E st \in {"crashed", "idle"} : client' = [client EXCEPT ![d] = st]
      BY <1>12, Zenon DEF Dispatch
    <3>2. /\ client'[c] = client[c] /\ rx'[c] = rx[c] /\ toClient'[c] = toClient[c]
          /\ UNCHANGED <<request, inStep, toServer, served, due, first, thread, cut>>
      BY <1>1, <1>12, <2>2, <3>1 DEF Dispatch, serverVars
    <3> QED
      BY <1>3, <3>2, ServedKept DEF NotSending
  <2> QED
    BY <2>1, <2>2
<1>13. ASSUME NEW d \in Clients, Close(d) PROVE Served(c)'
  <2>1. /\ client'[c] = client[c] \/ client'[c] # "waiting"
        /\ UNCHANGED <<request, rx, inStep, toServer, toClient, served, due, first, thread, cut>>
    BY <1>1, <1>13 DEF Close, serverVars, wires
  <2> QED
    BY <1>3, <2>1, ServedKept DEF NotSending
<1> QED
  BY <1>4, <1>5, <1>6, <1>7, <1>8, <1>9, <1>10, <1>11, <1>12, <1>13, <1>14
     DEF Next, Serves, Asks

\* The variables hold what they should; the receives that wait for bytes and those
\* that are due stay in their bound, and the client that is served does not wait to
\* be accepted again.
THEOREM TypeCorrect == Spec => []TypeOK
<1>1. Spec => []TInv
  BY TInvInit, TInvStep, PTL DEF Spec
<1> QED
  BY <1>1, TInvTypes, PTL

\* What GetAll writes, Dispatch reads, however it is cut: it asks for no byte too
\* many, stops at the end and returns the services, and only a length that is cut
\* in two is read past its end.
THEOREM AnswersRead == Spec => []ReadsExactly
<1>1. TypeOK => ReadsExactly
  BY LengthsRead, AnswersReadable DEF ReadsExactly, TypeOK
<1> QED
  BY <1>1, TypeCorrect, PTL

\* A client that asks for the version or for everything when nothing earlier is on
\* its way gets all the bytes it waits for: HandleRequest sends as much as Dispatch
\* asks for, or m_socket.send has sent a part only.
THEOREM AnswersSuffice == Spec => []AnswerSuffices
<1>1. Spec => [](TInv /\ AInv)
  <2>1. Init => TInv /\ AInv
    BY TInvInit, AInvInit
  <2>2. (TInv /\ AInv) /\ [Next]_vars => (TInv /\ AInv)'
    BY TInvStep, AInvStep
  <2> QED
    BY <2>1, <2>2, PTL DEF Spec
<1> QED
  BY <1>1, ServedSuffices, PTL
=============================================================================
