-------------------------- MODULE HttpParserProofs --------------------------
(***************************************************************************)
(* What the parser makes of a buffer that begins with a packet, for any    *)
(* packet and any length of what follows it, and the invariant that each   *)
(* connection's packets are returned one after the other: what the proofs  *)
(* about the callbacks and about the calls rest on.                        *)
(***************************************************************************)
EXTENDS HttpParser, WellFoundedInduction, SequenceTheorems, TLAPS

Fields == {"CONTENT-LENGTH", "OTHER"}
CellSet == [is : {"start", "empty", "body"} \cup Fields, of : Nat, val : Nat]
Packet == [from : Peers, head : Headers, body : Bodies]

Length(p) == HeaderLength(p.head) + p.body

\* The devices put CONTENT-LENGTH on a line that is not the last of the header,
\* where ParseHeader sees it.
LengthSeen == \A h \in Headers : \E k \in 1..(Len(h) - 1) : h[k] = "CONTENT-LENGTH"

\* The cells b are the i-th packet p and what follows it, or the beginning of it.
Begins(b, i, p) == \A k \in 1..Len(b) : k <= Length(p) => b[k] = Cells(i, p)[k]

-----------------------------------------------------------------------------
\* Sequences.

LEMMA Part ==
  ASSUME NEW S, NEW s \in Seq(S), NEW m \in Nat \ {0}, NEW n \in 0..Len(s)
  PROVE  /\ SubSeq(s, m, n) \in Seq(S)
         /\ Len(SubSeq(s, m, n)) = IF m <= n THEN n - m + 1 ELSE 0
         /\ \A k \in 1..(n - m + 1) : SubSeq(s, m, n)[k] = s[m + k - 1]
<1>1. \A k \in m..n : s[k] \in S
  BY LenProperties
<1> QED
  BY <1>1, SubSeqProperties

LEMMA Behind ==
  ASSUME NEW S, NEW s \in Seq(S), NEW d \in 0..Len(s)
  PROVE  /\ SubSeq(s, d + 1, Len(s)) \in Seq(S)
         /\ Len(SubSeq(s, d + 1, Len(s))) = Len(s) - d
         /\ \A k \in 1..(Len(s) - d) : SubSeq(s, d + 1, Len(s))[k] = s[d + k]
<1> DEFINE t == SubSeq(s, d + 1, Len(s))
<1>1. Len(s) \in Nat /\ d \in Nat /\ d <= Len(s)
  OBVIOUS
<1>2. d + 1 \in Nat \ {0} /\ Len(s) \in 0..Len(s)
  BY <1>1
<1>3. /\ t \in Seq(S) /\ Len(t) = IF d + 1 <= Len(s) THEN Len(s) - (d + 1) + 1 ELSE 0
      /\ \A k \in 1..(Len(s) - (d + 1) + 1) : t[k] = s[d + 1 + k - 1]
  BY <1>2, Part
<1> HIDE DEF t
<1>4. Len(t) = Len(s) - d /\ Len(s) - (d + 1) + 1 = Len(s) - d
  BY <1>1, <1>3
<1>5. \A k \in 1..(Len(s) - d) : d + 1 + k - 1 = d + k
  BY <1>1
<1>6. \A k \in 1..(Len(s) - d) : t[k] = s[d + k]
  BY <1>3, <1>4, <1>5
<1> QED
  BY <1>3, <1>4, <1>6, Zenon DEF t

\* A set of indices has a last one: it is the smallest of its bounds.
LEMMA LastOf ==
  ASSUME NEW n \in Nat, NEW T, T \subseteq 1..n, T # {}
  PROVE  \E i \in T : \A j \in T : j <= i
<1> DEFINE B == {b \in Nat : \A j \in T : j <= b}
<1>1. n \in B
  OBVIOUS
<1>2. \E x \in B : \A y \in B : ~(<<y, x>> \in OpToRel(<, Nat))
  <2>1. B \subseteq Nat /\ B # {}
    BY <1>1
  <2> QED
    BY <2>1, WFMin, NatLessThanWellFounded, Zenon
<1>3. PICK x \in B : \A y \in B : ~(y < x)
  <2>1. \A x, y \in Nat : y < x => <<y, x>> \in OpToRel(<, Nat)
    BY Zenon DEF OpToRel
  <2> QED
    BY <1>2, <2>1
<1>4. CASE x \in T
  BY <1>3, <1>4
<1>5. CASE x \notin T
  <2>1. PICK t \in T : t \in 1..n /\ t <= x
    BY <1>3
  <2>2. x - 1 \in Nat /\ x - 1 < x
    BY <2>1
  <2>3. x - 1 \in B
    BY <1>3, <1>5, <2>2
  <2> QED
    BY <1>3, <2>2, <2>3
<1> QED
  BY <1>4, <1>5

\* Cells that are moved from one sequence to another.

LEMMA MovedCells ==
  ASSUME NEW b \in Seq(CellSet), NEW w \in Seq(CellSet), NEW n \in 0..Len(w)
  PROVE  /\ SubSeq(w, 1, n) \in Seq(CellSet) /\ SubSeq(w, n + 1, Len(w)) \in Seq(CellSet)
         /\ b \o SubSeq(w, 1, n) \in Seq(CellSet)
         /\ (b \o SubSeq(w, 1, n)) \o SubSeq(w, n + 1, Len(w)) = b \o w
<1> DEFINE a == SubSeq(w, 1, n)
           r == SubSeq(w, n + 1, Len(w))
<1>1. a \in Seq(CellSet) /\ r \in Seq(CellSet)
  <2>1. 1 \in Nat \ {0} /\ n + 1 \in Nat \ {0} /\ Len(w) \in 0..Len(w)
    OBVIOUS
  <2> QED
    BY <2>1, Part
<1>2. a \o r = w
  <2>1. 1 \in 1..(Len(w) + 1) /\ n \in (1 - 1)..Len(w) /\ Len(w) \in n..Len(w)
    OBVIOUS
  <2>2. a \o r = SubSeq(w, 1, Len(w))
    BY <2>1, ConcatAdjacentSubSeq
  <2> HIDE DEF a, r
  <2> QED
    BY <2>2, SubSeqFull
<1> HIDE DEF a, r
<1>3. (b \o a) \o r = b \o (a \o r)
  BY <1>1, ConcatAssociative, SMTT(20)
<1>4. b \o a \in Seq(CellSet)
  BY <1>1, ConcatProperties
<1>5. (b \o a) \o r = b \o w
  BY <1>2, <1>3, Zenon
<1> QED
  BY <1>1, <1>4, <1>5, Zenon DEF a, r

LEMMA DroppedCells ==
  ASSUME NEW S, NEW a \in Seq(S), NEW b \in Seq(S), NEW n \in 0..Len(a)
  PROVE  /\ SubSeq(a, n + 1, Len(a)) \in Seq(S)
         /\ SubSeq(a \o b, n + 1, Len(a \o b)) = SubSeq(a, n + 1, Len(a)) \o b
<1> DEFINE c == a \o b
           x == SubSeq(a, n + 1, Len(a))
           y == SubSeq(c, n + 1, Len(c))
           z == x \o b
<1>1. Len(a) \in Nat /\ Len(b) \in Nat /\ n \in Nat /\ n <= Len(a)
  OBVIOUS
<1>2. /\ c \in Seq(S) /\ Len(c) = Len(a) + Len(b)
      /\ \A k \in 1..(Len(a) + Len(b)) : c[k] = IF k <= Len(a) THEN a[k] ELSE b[k - Len(a)]
  BY ConcatProperties
<1> HIDE DEF c
<1>3. /\ x \in Seq(S) /\ Len(x) = Len(a) - n
      /\ \A k \in 1..(Len(a) - n) : x[k] = a[n + k]
  BY Behind
<1> HIDE DEF x
<1>4. /\ y \in Seq(S) /\ Len(y) = Len(c) - n
      /\ \A k \in 1..(Len(c) - n) : y[k] = c[n + k]
  <2>1. n \in 0..Len(c)
    BY <1>1, <1>2
  <2> QED
    BY <1>2, <2>1, Behind
<1> HIDE DEF y
<1>5. /\ z \in Seq(S) /\ Len(z) = Len(x) + Len(b)
      /\ \A k \in 1..(Len(x) + Len(b)) : z[k] = IF k <= Len(x) THEN x[k] ELSE b[k - Len(x)]
  BY <1>3, ConcatProperties
<1> HIDE DEF z
<1>6. Len(y) = Len(z)
  BY <1>1, <1>2, <1>3, <1>4, <1>5
<1>7. ASSUME NEW k \in 1..Len(y)
      PROVE  y[k] = z[k]
  <2> DEFINE l == n + k
  <2>1. k \in 1..(Len(c) - n) /\ k \in 1..(Len(x) + Len(b)) /\ k \in Nat
    BY <1>1, <1>2, <1>3, <1>4
  <2>2. l \in Nat /\ l = n + k /\ l \in 1..(Len(a) + Len(b)) /\ y[k] = c[l]
    BY <1>1, <1>2, <1>4, <2>1
  <2> HIDE DEF l
  <2>3. CASE k <= Len(x)
    <3>1. l <= Len(a) /\ k \in 1..(Len(a) - n)
      BY <1>1, <1>3, <2>1, <2>2, <2>3
    <3>2. y[k] = a[l] /\ z[k] = x[k]
      BY <1>2, <1>5, <2>1, <2>2, <2>3, <3>1
    <3>3. x[k] = a[l]
      BY <1>3, <3>1 DEF l
    <3> QED
      BY <3>2, <3>3
  <2>4. CASE ~(k <= Len(x))
    <3>1. ~(l <= Len(a)) /\ l - Len(a) = k - Len(x)
      BY <1>1, <1>3, <2>1, <2>2, <2>4
    <3>2. y[k] = b[l - Len(a)] /\ z[k] = b[k - Len(x)]
      BY <1>2, <1>5, <2>1, <2>2, <2>4, <3>1
    <3> QED
      BY <3>1, <3>2
  <2> QED
    BY <2>3, <2>4
<1>8. y = z
  BY <1>4, <1>5, <1>6, <1>7, SeqEqual
<1> QED
  BY <1>3, <1>8, Zenon DEF y, z, x, c

-----------------------------------------------------------------------------
\* Packets and their cells.

LEMMA PacketShape ==
  ASSUME NEW p \in Packet
  PROVE  /\ p.head \in Seq(Fields) /\ Len(p.head) \in Nat /\ p.body \in Nat
         /\ DOMAIN p.head = 1..Len(p.head)
         /\ \A k \in 1..Len(p.head) : p.head[k] \in Fields
         /\ HeaderLength(p.head) = Len(p.head) + 2
         /\ Length(p) = Len(p.head) + 2 + p.body
         /\ HeaderLength(p.head) \in Nat /\ Length(p) \in Nat /\ Length(p) > 1
<1>1. p.head \in Headers /\ p.body \in Bodies
  BY DEF Packet
<1>2. p.head \in Seq(Fields) /\ p.body \in Nat
  BY <1>1, ParserAssumption DEF Fields
<1>3. /\ Len(p.head) \in Nat /\ DOMAIN p.head = 1..Len(p.head)
      /\ \A k \in 1..Len(p.head) : p.head[k] \in Fields
  BY <1>2
<1> QED
  BY <1>2, <1>3 DEF HeaderLength, Length

LEMMA SameCell ==
  ASSUME NEW n, NEW i \in Nat, NEW v \in Nat, n \in {"start", "empty", "body"} \cup Fields
  PROVE  /\ Cell(n, i, v) \in CellSet /\ Cell(n, i, v).is = n
         /\ Cell(n, i, v).of = i /\ Cell(n, i, v).val = v
  BY DEF Cell, CellSet

\* The cells of a packet, one by one.
LEMMA CellsShape ==
  ASSUME NEW i \in Nat, NEW p \in Packet
  PROVE  /\ Cells(i, p) \in Seq(CellSet) /\ Len(Cells(i, p)) = Length(p)
         /\ Cells(i, p)[1] = Cell("start", i, 0)
         /\ \A k \in 1..Len(p.head) : Cells(i, p)[k + 1] = Cell(p.head[k], i, p.body)
         /\ Cells(i, p)[Len(p.head) + 2] = Cell("empty", i, 0)
         /\ \A k \in 1..p.body : Cells(i, p)[Len(p.head) + 2 + k] = Cell("body", i, k)
<1> DEFINE n == Len(p.head)
           S == <<Cell("start", i, 0)>>
           F == [k \in 1..n |-> Cell(p.head[k], i, p.body)]
           E == <<Cell("empty", i, 0)>>
           B == Body(i, p.body)
<1>1. n \in Nat /\ p.body \in Nat /\ Length(p) = n + 2 + p.body
      /\ \A k \in 1..n : p.head[k] \in Fields
  BY PacketShape
<1>2. S \in Seq(CellSet) /\ Len(S) = 1 /\ S[1] = Cell("start", i, 0)
  <2>1. Cell("start", i, 0) \in CellSet
    BY SameCell
  <2> QED
    BY <2>1
<1>3. E \in Seq(CellSet) /\ Len(E) = 1 /\ E[1] = Cell("empty", i, 0)
  <2>1. Cell("empty", i, 0) \in CellSet
    BY SameCell
  <2> QED
    BY <2>1
<1>4. F \in Seq(CellSet) /\ Len(F) = n
  <2>1. \A k \in 1..n : Cell(p.head[k], i, p.body) \in CellSet
    BY <1>1, SameCell
  <2> QED
    BY <1>1, <2>1
<1>5. B \in Seq(CellSet) /\ Len(B) = p.body
  <2>1. \A k \in 1..p.body : k \in Nat
    BY <1>1
  <2>2. \A k \in 1..p.body : Cell("body", i, k) \in CellSet
    BY <2>1, SameCell
  <2> QED
    BY <1>1, <2>2 DEF Body
<1>6. \A k \in 1..n : F[k] = Cell(p.head[k], i, p.body)
  BY DEF F
<1>7. \A k \in 1..p.body : B[k] = Cell("body", i, k)
  BY DEF B, Body
<1> DEFINE SF == S \o F
           SFE == SF \o E
           all == SFE \o B
<1>8. Cells(i, p) = all
  BY DEF Cells
<1> HIDE DEF S, F, E, B
<1>9. /\ SF \in Seq(CellSet) /\ Len(SF) = 1 + n /\ SF[1] = S[1]
      /\ \A k \in 1..n : SF[k + 1] = F[k]
  <2>1. /\ SF \in Seq(CellSet) /\ Len(SF) = Len(S) + Len(F)
        /\ \A k \in 1..(Len(S) + Len(F)) :
              SF[k] = IF k <= Len(S) THEN S[k] ELSE F[k - Len(S)]
    BY <1>2, <1>4, ConcatProperties, Zenon
  <2> QED
    BY <1>1, <1>2, <1>4, <2>1
<1> HIDE DEF SF
<1>10. /\ SFE \in Seq(CellSet) /\ Len(SFE) = n + 2 /\ SFE[n + 2] = E[1]
       /\ \A k \in 1..(n + 1) : SFE[k] = SF[k]
  <2>1. /\ SFE \in Seq(CellSet) /\ Len(SFE) = Len(SF) + Len(E)
        /\ \A k \in 1..(Len(SF) + Len(E)) :
              SFE[k] = IF k <= Len(SF) THEN SF[k] ELSE E[k - Len(SF)]
    BY <1>3, <1>9, ConcatProperties
  <2>2. Len(SF) = n + 1 /\ Len(E) = 1 /\ n \in Nat
    BY <1>1, <1>3, <1>9
  <2> QED
    BY <2>1, <2>2
<1> HIDE DEF SFE
<1>11. /\ all \in Seq(CellSet) /\ Len(all) = Len(SFE) + Len(B)
       /\ \A k \in 1..(Len(SFE) + Len(B)) :
             all[k] = IF k <= Len(SFE) THEN SFE[k] ELSE B[k - Len(SFE)]
  BY <1>5, <1>10, ConcatProperties
<1> HIDE DEF all
<1>12. \A k \in 1..(n + 2) : all[k] = SFE[k]
  BY <1>1, <1>5, <1>10, <1>11
<1>13. \A k \in 1..p.body : all[n + 2 + k] = B[k]
  <2> SUFFICES ASSUME NEW k \in 1..p.body PROVE all[n + 2 + k] = B[k]
    OBVIOUS
  <2>1. n + 2 + k \in 1..(Len(SFE) + Len(B)) /\ ~(n + 2 + k <= Len(SFE))
        /\ (n + 2 + k) - Len(SFE) = k
    BY <1>1, <1>5, <1>10
  <2> QED
    BY <1>11, <2>1
<1>14. \A k \in 1..n : all[k + 1] = F[k]
  BY <1>1, <1>9, <1>10, <1>12, SMTT(20)
<1>15. all[1] = S[1] /\ all[n + 2] = E[1]
  BY <1>1, <1>9, <1>10, <1>12
<1>16. Len(all) = n + 2 + p.body
  BY <1>1, <1>5, <1>10, <1>11
<1> QED
  BY <1>1, <1>2, <1>3, <1>6, <1>7, <1>8, <1>11, <1>13, <1>14, <1>15, <1>16

\* What tells the cells of a packet apart.
LEMMA CellsTellApart ==
  ASSUME NEW i \in Nat, NEW p \in Packet, NEW k \in 1..Length(p)
  PROVE  LET c == Cells(i, p)[k]
         IN /\ c \in CellSet /\ c.of = i
            /\ c.is = "start" <=> k = 1
            /\ c.is = "empty" <=> k = HeaderLength(p.head)
            /\ k \in 2..(HeaderLength(p.head) - 1) => c.is = p.head[k - 1] /\ c.val = p.body
            /\ k > HeaderLength(p.head) => c.is = "body"
<1> DEFINE n == Len(p.head)
           h == HeaderLength(p.head)
           c == Cells(i, p)[k]
<1> SUFFICES /\ c \in CellSet /\ c.of = i
             /\ c.is = "start" <=> k = 1
             /\ c.is = "empty" <=> k = h
             /\ k \in 2..(h - 1) => c.is = p.head[k - 1] /\ c.val = p.body
             /\ k > h => c.is = "body"
  OBVIOUS
<1>1. /\ n \in Nat /\ p.body \in Nat /\ h = n + 2
      /\ k \in Nat /\ k >= 1 /\ k <= n + 2 + p.body
      /\ \A l \in 1..n : p.head[l] \in Fields
  BY PacketShape
<1>2. ASSUME k = 1
      PROVE  c \in CellSet /\ c.of = i /\ c.is = "start"
  <2>1. c = Cell("start", i, 0)
    BY <1>2, CellsShape
  <2> HIDE DEF c
  <2>2. 0 \in Nat /\ "start" \in {"start", "empty", "body"} \cup Fields
    OBVIOUS
  <2> QED
    BY <2>1, <2>2, SameCell, SMTT(20)
<1>3. ASSUME k \in 2..(n + 1)
      PROVE  /\ c \in CellSet /\ c.of = i /\ c.is \notin {"start", "empty"}
             /\ c.is = p.head[k - 1] /\ c.val = p.body
  <2> DEFINE l == k - 1
  <2>1. l \in 1..n /\ k = l + 1
    BY <1>1, <1>3
  <2>2. c = Cell(p.head[l], i, p.body)
    BY <2>1, CellsShape
  <2>3. p.head[l] \in {"CONTENT-LENGTH", "OTHER"}
    BY <1>1, <2>1 DEF Fields
  <2>4. c \in CellSet /\ c.of = i /\ c.is = p.head[l] /\ c.val = p.body
    BY <1>1, <2>2, <2>3, SameCell DEF Fields
  <2> QED
    BY <2>3, <2>4
<1>4. ASSUME k = n + 2
      PROVE  c \in CellSet /\ c.of = i /\ c.is = "empty"
  <2>1. c = Cell("empty", i, 0)
    BY <1>4, CellsShape
  <2> HIDE DEF c
  <2> QED
    BY <2>1, SameCell
<1>5. ASSUME k > n + 2
      PROVE  c \in CellSet /\ c.of = i /\ c.is = "body"
  <2> DEFINE l == k - (n + 2)
  <2> HIDE DEF n
  <2>1. l \in 1..p.body /\ l \in Nat /\ k = n + 2 + l
    BY <1>1, <1>5
  <2> USE DEF n
  <2>2. c = Cell("body", i, l)
    BY <2>1, CellsShape
  <2>3. l \in Nat
    BY <2>1
  <2> HIDE DEF c, l
  <2> QED
    BY <2>2, <2>3, SameCell
<1> HIDE DEF n, h, c
<1> QED
  BY <1>1, <1>2, <1>3, <1>4, <1>5

-----------------------------------------------------------------------------
\* A buffer that begins with a packet, or the beginning of one.

LEMMA BeginsShape ==
  ASSUME NEW i \in Nat, NEW p \in Packet, NEW b \in Seq(CellSet), Begins(b, i, p)
  PROVE  /\ Len(b) \in Nat /\ DOMAIN b = 1..Len(b)
         /\ \A k \in 1..Len(b) : k <= Length(p) => k \in 1..Length(p) /\ b[k] = Cells(i, p)[k]
  BY PacketShape DEF Begins

\* The end of its header is that of the packet's, when it has been read.
LEMMA HeaderFound ==
  ASSUME NEW i \in Nat, NEW p \in Packet, NEW b \in Seq(CellSet), Begins(b, i, p)
  PROVE  HeaderEnd(b) = IF Len(b) < HeaderLength(p.head) THEN {} ELSE {HeaderLength(p.head)}
<1> DEFINE h == HeaderLength(p.head)
<1>1. h \in Nat /\ h > 0 /\ h <= Length(p) /\ Length(p) \in Nat
  BY PacketShape
<1>2. Len(b) \in Nat /\ DOMAIN b = 1..Len(b)
  BY BeginsShape
<1>3. \A k \in 1..Len(b) : k <= h => (b[k].is = "empty" <=> k = h)
  <2> SUFFICES ASSUME NEW k \in 1..Len(b), k <= h
               PROVE  b[k].is = "empty" <=> k = h
    OBVIOUS
  <2>1. k <= Length(p)
    BY <1>1, <1>2
  <2>2. k \in 1..Length(p) /\ b[k] = Cells(i, p)[k]
    BY <2>1, BeginsShape
  <2> QED
    BY <2>2, CellsTellApart
<1> HIDE DEF h
<1>4. ASSUME NEW e \in HeaderEnd(b)
      PROVE  e = h
  <2>1. /\ e \in 1..Len(b) /\ b[e].is = "empty"
        /\ \A j \in 1..(e - 1) : b[j].is # "empty"
    BY <1>2 DEF HeaderEnd
  <2>2. CASE e <= h
    BY <1>3, <2>1, <2>2
  <2>3. CASE e > h
    <3>1. h \in 1..(e - 1) /\ h \in 1..Len(b)
      BY <1>1, <1>2, <2>1, <2>3
    <3> QED
      BY <1>1, <1>3, <2>1, <3>1
  <2> QED
    BY <1>1, <1>2, <2>1, <2>2, <2>3
<1>5. CASE Len(b) < h
  <2>1. \A e \in HeaderEnd(b) : e \in 1..Len(b)
    BY <1>2 DEF HeaderEnd
  <2>2. HeaderEnd(b) = {}
    BY <1>1, <1>2, <1>4, <1>5, <2>1
  <2> QED
    BY <1>5, <2>2 DEF h
<1>6. CASE ~(Len(b) < h)
  <2>1. h \in 1..Len(b) /\ \A j \in 1..(h - 1) : j \in 1..Len(b) /\ j <= h /\ j # h
    BY <1>1, <1>2, <1>6
  <2>2. b[h].is = "empty" /\ \A j \in 1..(h - 1) : b[j].is # "empty"
    BY <1>1, <1>3, <2>1
  <2>3. h \in HeaderEnd(b)
    BY <1>2, <2>1, <2>2 DEF HeaderEnd
  <2>4. HeaderEnd(b) = {h}
    BY <1>4, <2>3
  <2> QED
    BY <1>6, <2>4 DEF h
<1> QED
  BY <1>5, <1>6
\* Its header is that packet's, whatever m_packet held: the last length that
\* ParseHeader sees is one of the packet's, and they are all the same.
LEMMA HeaderParsed ==
  ASSUME LengthSeen, NEW i \in Nat, NEW p \in Packet, NEW b \in Seq(CellSet),
         Begins(b, i, p), Len(b) >= HeaderLength(p.head), NEW pkt
  PROVE  LET header == SubSeq(b, 1, HeaderLength(p.head) - 1)
         IN /\ ~MethodNotFound(header)
            /\ ParseHeader(pkt, header) = [start |-> i, length |-> p.body]
<1> DEFINE n == Len(p.head)
           header == SubSeq(b, 1, HeaderLength(p.head) - 1)
           seen == Front(header)
<1>1. /\ n \in Nat /\ HeaderLength(p.head) = n + 2 /\ n + 2 <= Length(p)
      /\ Len(b) \in Nat /\ n + 2 <= Len(b) /\ Length(p) \in Nat
  BY PacketShape, BeginsShape
<1>2. \E k \in 1..(n - 1) : p.head[k] = "CONTENT-LENGTH"
  BY DEF LengthSeen, Packet
<1>3. /\ header \in Seq(CellSet) /\ Len(header) = n + 1
      /\ \A k \in 1..(n + 1) : header[k] = b[k]
  <2>1. n + 1 \in 0..Len(b) /\ 1 \in Nat \ {0} /\ HeaderLength(p.head) - 1 = n + 1
    BY <1>1
  <2>2. header = SubSeq(b, 1, n + 1)
    BY <2>1
  <2>3. /\ SubSeq(b, 1, n + 1) \in Seq(CellSet)
        /\ Len(SubSeq(b, 1, n + 1)) = IF 1 <= n + 1 THEN (n + 1) - 1 + 1 ELSE 0
        /\ \A k \in 1..((n + 1) - 1 + 1) : SubSeq(b, 1, n + 1)[k] = b[1 + k - 1]
    BY <2>1, Part
  <2> HIDE DEF n, header
  <2> QED
    BY <1>1, <2>2, <2>3
<1> HIDE DEF header
<1>4. /\ seen \in Seq(CellSet) /\ Len(seen) = n /\ DOMAIN seen = 1..n
      /\ \A k \in 1..n : seen[k] = b[k]
  <2>1. n \in 0..Len(header) /\ 1 \in Nat \ {0} /\ Len(header) - 1 = n
    BY <1>1, <1>3
  <2>2. seen = SubSeq(header, 1, n)
    BY <2>1 DEF Front
  <2>3. /\ SubSeq(header, 1, n) \in Seq(CellSet)
        /\ Len(SubSeq(header, 1, n)) = IF 1 <= n THEN n - 1 + 1 ELSE 0
        /\ \A k \in 1..(n - 1 + 1) : SubSeq(header, 1, n)[k] = header[1 + k - 1]
    BY <1>3, <2>1, Part
  <2> HIDE DEF n, seen
  <2> QED
    BY <1>1, <1>3, <2>2, <2>3
<1> HIDE DEF seen
<1>5. /\ \A k \in 2..(n + 1) : b[k].is = p.head[k - 1] /\ b[k].val = p.body
      /\ b[1].is = "start" /\ b[1].of = i
  <2>1. \A k \in 1..(n + 1) : k \in 1..Length(p) /\ b[k] = Cells(i, p)[k]
    BY <1>1, BeginsShape
  <2>2. \A k \in 2..(n + 1) : k \in 1..(n + 1) /\ k \in 2..(HeaderLength(p.head) - 1)
    BY <1>1
  <2>3. 1 \in 1..(n + 1)
    BY <1>1
  <2> HIDE DEF n
  <2> QED
    BY <2>1, <2>2, <2>3, CellsTellApart
<1> DEFINE lengths == {k \in DOMAIN seen : seen[k].is = "CONTENT-LENGTH"}
<1>6. lengths # {} /\ lengths \subseteq 1..n
  <2>1. PICK k \in 1..(n - 1) : p.head[k] = "CONTENT-LENGTH"
    BY <1>2
  <2> HIDE DEF n
  <2>2. k + 1 \in 1..n /\ k + 1 \in 2..(n + 1) /\ (k + 1) - 1 = k
    BY <1>1
  <2>3. seen[k + 1].is = "CONTENT-LENGTH"
    BY <1>4, <1>5, <2>1, <2>2
  <2> QED
    BY <1>4, <2>2, <2>3
<1>7. \A k \in lengths : seen[k].val = p.body
  <2> SUFFICES ASSUME NEW k \in lengths PROVE seen[k].val = p.body
    OBVIOUS
  <2>1. k \in 1..n /\ seen[k].is = "CONTENT-LENGTH" /\ seen[k] = b[k]
    BY <1>4, <1>6
  <2>2. k # 1
    BY <1>5, <2>1
  <2>3. k \in 2..(n + 1)
    BY <1>1, <2>1, <2>2
  <2> QED
    BY <1>5, <2>1, <2>3
<1> DEFINE last == CHOOSE k \in lengths : \A j \in lengths : j <= k
<1>8. last \in lengths
  <2>1. \E k \in lengths : \A j \in lengths : j <= k
    BY <1>1, <1>6, LastOf
  <2> HIDE DEF lengths
  <2> QED
    BY <2>1
<1>9. seen # <<>> /\ seen[1].of = i /\ header[1].is = "start"
  <2>1. 1 \in 1..n
    BY <1>1, <1>6
  <2>2. 1 \in 1..(n + 1)
    BY <1>1
  <2> HIDE DEF n, lengths
  <2> QED
    BY <1>3, <1>4, <1>5, <2>1, <2>2
<1>10. ParseHeader(pkt, header) =
          [start |-> IF seen = <<>> THEN pkt.start ELSE seen[1].of,
           length |-> IF lengths = {} THEN pkt.length ELSE seen[last].val]
  BY DEF ParseHeader, seen
<1>11. ~MethodNotFound(header)
  BY <1>9 DEF MethodNotFound
<1> HIDE DEF lengths, last
<1>12. ParseHeader(pkt, header) = [start |-> i, length |-> p.body]
  BY <1>6, <1>7, <1>8, <1>9, <1>10
<1> QED
  BY <1>11, <1>12 DEF header

\* What follows its header is its body, when that has been read, too.
LEMMA BodyTaken ==
  ASSUME NEW i \in Nat, NEW p \in Packet, NEW b \in Seq(CellSet),
         Begins(b, i, p), Len(b) >= Length(p)
  PROVE  SubSeq(b, HeaderLength(p.head) + 1, HeaderLength(p.head) + p.body) = Body(i, p.body)
<1> DEFINE n == Len(p.head)
           m == p.body
           s == SubSeq(b, n + 3, n + 2 + m)
           B == Body(i, m)
<1>1. /\ n \in Nat /\ m \in Nat /\ HeaderLength(p.head) = n + 2 /\ Length(p) = n + 2 + m
      /\ Len(b) \in Nat /\ n + 2 + m <= Len(b)
  BY PacketShape, BeginsShape
<1>2. /\ s \in Seq(CellSet) /\ Len(s) = m
      /\ \A k \in 1..m : s[k] = b[n + 2 + k]
  <2>1. n + 2 + m \in 0..Len(b) /\ n + 3 \in Nat \ {0}
    BY <1>1
  <2>2. /\ SubSeq(b, n + 3, n + 2 + m) \in Seq(CellSet)
        /\ Len(SubSeq(b, n + 3, n + 2 + m)) =
              IF n + 3 <= n + 2 + m THEN (n + 2 + m) - (n + 3) + 1 ELSE 0
        /\ \A k \in 1..((n + 2 + m) - (n + 3) + 1) :
              SubSeq(b, n + 3, n + 2 + m)[k] = b[n + 3 + k - 1]
    BY <2>1, Part, SMTT(20)
  <2>3. (n + 2 + m) - (n + 3) + 1 = m /\ (n + 3 <= n + 2 + m <=> m > 0)
        /\ \A k \in 1..m : n + 3 + k - 1 = n + 2 + k
    BY <1>1, SMTT(20)
  <2> HIDE DEF n, m
  <2> QED
    BY <1>1, <2>2, <2>3
<1> HIDE DEF s
<1>3. \A k \in 1..m : b[n + 2 + k] = Cell("body", i, k)
  <2> SUFFICES ASSUME NEW k \in 1..m PROVE b[n + 2 + k] = Cell("body", i, k)
    OBVIOUS
  <2>1. n + 2 + k \in 1..Len(b) /\ n + 2 + k <= Length(p)
    BY <1>1
  <2>2. b[n + 2 + k] = Cells(i, p)[n + 2 + k]
    BY <2>1, BeginsShape
  <2> QED
    BY <2>2, CellsShape
<1>4. B = [k \in 1..m |-> Cell("body", i, k)]
  BY DEF Body
<1>5. s = [k \in 1..m |-> s[k]]
  BY <1>2
<1>6. s = [k \in 1..m |-> Cell("body", i, k)]
  BY <1>2, <1>3, <1>5
<1>7. s = SubSeq(b, HeaderLength(p.head) + 1, HeaderLength(p.head) + p.body)
  <2>1. HeaderLength(p.head) + 1 = n + 3 /\ HeaderLength(p.head) + p.body = n + 2 + m
    BY <1>1
  <2> HIDE DEF n, m
  <2> QED
    BY <2>1 DEF s
<1> QED
  BY <1>4, <1>6, <1>7

-----------------------------------------------------------------------------
\* markRead, when the buffer begins with a packet: it returns that packet, and
\* nothing before it has been read.

LEMMA NothingReturned ==
  ASSUME LengthSeen, NEW i \in Nat, NEW p \in Packet, buf \in Seq(CellSet),
         Begins(buf, i, p), MarkReadNone
  PROVE  Len(buf) < Length(p) /\ UNCHANGED <<sent, wire, buf, out, disturbed>> /\ reading' = Nobody
<1> DEFINE h == HeaderLength(p.head)
<1>1. UNCHANGED <<sent, wire, buf, out, disturbed>> /\ reading' = Nobody
  BY DEF MarkReadNone
<1>2. h \in Nat /\ p.body \in Nat /\ Length(p) = h + p.body /\ Len(buf) \in Nat
  BY PacketShape, BeginsShape DEF Length
<1>3. CASE Len(buf) < h
  BY <1>1, <1>2, <1>3
<1>4. CASE ~(Len(buf) < h)
  <2>1. HeaderEnd(buf) = {h} /\ Len(buf) >= h
    BY <1>2, <1>4, HeaderFound
  <2>2. LET header == SubSeq(buf, 1, h - 1)
        IN /\ ~MethodNotFound(header)
           /\ ParseHeader(packet, header) = [start |-> i, length |-> p.body]
    BY <2>1, HeaderParsed
  <2>3. /\ packet' = ParseHeader(packet, SubSeq(buf, 1, h - 1))
        /\ ~Complete(packet'.length, Len(buf) - h)
    BY <2>1, <2>2 DEF MarkReadNone
  <2>4. ~Complete(p.body, Len(buf) - h)
    BY <2>2, <2>3
  <2>5. ~(Len(buf) - h >= p.body)
    BY <1>2, <2>4 DEF Complete, NoLength
  <2> QED
    BY <1>1, <1>2, <2>5
<1> QED
  BY <1>3, <1>4

LEMMA PacketReturned ==
  ASSUME LengthSeen, NEW i \in Nat, NEW p \in Packet, buf \in Seq(CellSet),
         Begins(buf, i, p), MarkRead
  PROVE  /\ Len(buf) >= Length(p)
         /\ out' = Append(out, [start |-> i, to |-> reading, body |-> Body(i, p.body)])
         /\ buf' = SubSeq(buf, Length(p) + 1, Len(buf))
         /\ reading # Nobody /\ UNCHANGED <<sent, disturbed>>
<1> DEFINE h == HeaderLength(p.head)
<1>1. h \in Nat /\ p.body \in Nat /\ Length(p) = h + p.body /\ Len(buf) \in Nat
  BY PacketShape, BeginsShape DEF Length
<1>2. Len(buf) >= h /\ HeaderEnd(buf) = {h}
  BY <1>1, HeaderFound, SMTT(20) DEF MarkRead
<1> DEFINE pkt == ParseHeader(packet, SubSeq(buf, 1, h - 1))
<1>3. pkt = [start |-> i, length |-> p.body]
  BY <1>2, HeaderParsed
<1>4. /\ Complete(pkt.length, Len(buf) - h)
      /\ out' = Append(out, [start |-> pkt.start, to |-> reading,
                             body |-> SubSeq(buf, h + 1, h + pkt.length)])
      /\ buf' = Rest(buf, h + pkt.length + 1)
  BY <1>2 DEF MarkRead
<1> HIDE DEF h, pkt
<1>5. /\ Complete(p.body, Len(buf) - h)
      /\ out' = Append(out, [start |-> i, to |-> reading,
                             body |-> SubSeq(buf, h + 1, h + p.body)])
      /\ buf' = Rest(buf, h + p.body + 1)
  <2>1. pkt.start = i /\ pkt.length = p.body
    BY <1>3
  <2> QED
    BY <1>4, <2>1
<1>6. Len(buf) >= Length(p)
  BY <1>1, <1>5 DEF Complete
<1>7. SubSeq(buf, h + 1, h + p.body) = Body(i, p.body)
  BY <1>6, BodyTaken DEF h
<1>8. buf' = SubSeq(buf, Length(p) + 1, Len(buf))
  BY <1>1, <1>5 DEF Rest
<1>9. reading # Nobody /\ UNCHANGED <<sent, disturbed>>
  BY DEF MarkRead
<1> QED
  BY <1>5, <1>6, <1>7, <1>8, <1>9

-----------------------------------------------------------------------------
\* What a peer has sent that the parser has not returned: whole packets, one
\* after the other, and none of this peer is left out.

\* The packet that begins at j, or the next to be sent.
At(snt, s, j) == IF j > Len(s) THEN Len(snt) + 1 ELSE s[j].of

After(snt, s, j) == j + Length(snt[s[j].of])

\* From j on the cells s are a packet of p, and then comes its next one.
PacketAt(snt, p, s, j) ==
    /\ s[j].of \in 1..Len(snt) /\ snt[s[j].of].from = p
    /\ After(snt, s, j) <= Len(s) + 1
    /\ \A k \in 1..Length(snt[s[j].of]) : s[j + k - 1] = Cells(s[j].of, snt[s[j].of])[k]
    /\ After(snt, s, j) <= Len(s) => s[After(snt, s, j)].is = "start"
    /\ s[j].of < At(snt, s, After(snt, s, j))
    /\ \A m \in (s[j].of + 1)..(At(snt, s, After(snt, s, j)) - 1) : snt[m].from # p

Stream(snt, p, s) ==
    /\ s # <<>> => s[1].is = "start"
    /\ \A j \in 1..Len(s) : s[j].is = "start" => PacketAt(snt, p, s, j)

LEMMA SentShape ==
  ASSUME NEW snt \in Seq(Packet), NEW pk \in Packet
  PROVE  /\ Len(snt) \in Nat /\ Append(snt, pk) \in Seq(Packet)
         /\ Len(Append(snt, pk)) = Len(snt) + 1 /\ Append(snt, pk)[Len(snt) + 1] = pk
         /\ \A m \in 1..Len(snt) : Append(snt, pk)[m] = snt[m] /\ snt[m] \in Packet
  BY ElementOfSeq

LEMMA PacketAtShape ==
  ASSUME NEW snt \in Seq(Packet), NEW p, NEW s \in Seq(CellSet), NEW j \in 1..Len(s),
         PacketAt(snt, p, s, j), Stream(snt, p, s)
  PROVE  /\ s[j].of \in Nat /\ snt[s[j].of] \in Packet /\ Length(snt[s[j].of]) \in Nat \ {0}
         /\ After(snt, s, j) \in 2..(Len(s) + 1)
         /\ At(snt, s, After(snt, s, j)) \in 1..(Len(snt) + 1)
<1> DEFINE i == s[j].of
           a == After(snt, s, j)
<1>1. i \in 1..Len(snt) /\ Len(snt) \in Nat /\ Len(s) \in Nat
  BY DEF PacketAt
<1>2. snt[i] \in Packet
  BY <1>1, ElementOfSeq
<1>3. Length(snt[i]) \in Nat /\ Length(snt[i]) > 1
  BY <1>2, PacketShape
<1>4. a = j + Length(snt[i]) /\ a <= Len(s) + 1
  BY DEF PacketAt, After
<1> HIDE DEF i, a
<1>5. a \in 2..(Len(s) + 1)
  BY <1>1, <1>3, <1>4
<1>6. CASE a > Len(s)
  BY <1>1, <1>2, <1>3, <1>5, <1>6 DEF At, i, a
<1>7. CASE ~(a > Len(s))
  <2>1. a \in 1..Len(s) /\ s[a].is = "start"
    BY <1>1, <1>5, <1>7 DEF PacketAt, a
  <2>2. s[a].of \in 1..Len(snt)
    BY <2>1 DEF Stream, PacketAt
  <2>3. At(snt, s, a) \in 1..(Len(snt) + 1)
    BY <1>1, <1>7, <2>2 DEF At
  <2> QED
    BY <1>1, <1>2, <1>3, <1>5, <2>3 DEF i, a
<1> QED
  BY <1>6, <1>7

\* Another peer's packet is not part of the stream.
LEMMA StreamOfOther ==
  ASSUME NEW snt \in Seq(Packet), NEW pk \in Packet, NEW p, NEW s \in Seq(CellSet),
         Stream(snt, p, s), pk.from # p
  PROVE  Stream(Append(snt, pk), p, s)
<1> DEFINE snt2 == Append(snt, pk)
<1> SUFFICES ASSUME NEW j \in 1..Len(s), s[j].is = "start"
             PROVE  PacketAt(snt2, p, s, j)
  BY DEF Stream
<1> DEFINE i == s[j].of
           a == After(snt, s, j)
<1>1. PacketAt(snt, p, s, j)
  BY DEF Stream
<1>2. /\ i \in Nat /\ i \in 1..Len(snt) /\ Len(snt) \in Nat /\ Len(s) \in Nat
      /\ a \in 2..(Len(s) + 1) /\ At(snt, s, a) \in 1..(Len(snt) + 1)
  BY <1>1, PacketAtShape, SMTT(20) DEF PacketAt
<1>3. snt2[i] = snt[i] /\ Len(snt2) = Len(snt) + 1 /\ snt2[Len(snt) + 1] = pk
  BY <1>2, SentShape
<1>4. \A m \in 1..Len(snt) : snt2[m] = snt[m]
  BY SentShape
<1>5. After(snt2, s, j) = a
  BY <1>3 DEF After
<1>6. i < At(snt, s, a) /\ \A m \in (i + 1)..(At(snt, s, a) - 1) : snt[m].from # p
  BY <1>1 DEF PacketAt
<1>7. i < At(snt2, s, a) /\ \A m \in (i + 1)..(At(snt2, s, a) - 1) : snt2[m].from # p
  <2> HIDE DEF i, a, snt2
  <2>1. CASE a > Len(s)
    <3>1. At(snt, s, a) = Len(snt) + 1 /\ At(snt2, s, a) = Len(snt) + 2
      BY <1>2, <1>3, <2>1 DEF At
    <3>2. \A m \in (i + 1)..(Len(snt) + 1) : m \in 1..Len(snt) \/ m = Len(snt) + 1
      BY <1>2
    <3>3. \A m \in (i + 1)..(Len(snt) + 1) : snt2[m].from # p
      BY <1>2, <1>3, <1>4, <1>6, <3>1, <3>2, SMTT(20)
    <3> QED
      BY <1>2, <3>1, <3>3
  <2>2. CASE ~(a > Len(s))
    <3>1. At(snt2, s, a) = At(snt, s, a)
      BY <2>2 DEF At
    <3>2. \A m \in (i + 1)..(At(snt, s, a) - 1) : m \in 1..Len(snt)
      BY <1>2
    <3> QED
      BY <1>4, <1>6, <3>1, <3>2
  <2> QED
    BY <2>1, <2>2
<1>8. i \in 1..Len(snt2)
  BY <1>2, <1>3
<1> HIDE DEF snt2, a
<1> QED
  BY <1>1, <1>3, <1>5, <1>7, <1>8 DEF PacketAt, a

\* A packet that is sent follows the others.
LEMMA StreamExtended ==
  ASSUME NEW snt \in Seq(Packet), NEW pk \in Packet, NEW p, NEW s \in Seq(CellSet),
         Stream(snt, p, s), pk.from = p
  PROVE  LET s2 == s \o Cells(Len(snt) + 1, pk)
         IN /\ s2 \in Seq(CellSet) /\ s2 # <<>>
            /\ Stream(Append(snt, pk), p, s2)
            /\ At(Append(snt, pk), s2, 1) = At(snt, s, 1)
<1> DEFINE snt2 == Append(snt, pk)
           N == Len(snt) + 1
           c == Cells(N, pk)
           L == Len(s)
           s2 == s \o c
<1>1. N \in Nat /\ Len(snt) \in Nat /\ Len(snt) + 1 = N /\ L \in Nat
  OBVIOUS
<1>2. /\ c \in Seq(CellSet) /\ Len(c) = Length(pk) /\ Length(pk) \in Nat \ {0}
  BY <1>1, CellsShape, PacketShape
<1>3. \A k \in 1..Len(c) : (c[k].is = "start") <=> (k = 1)
  <2> SUFFICES ASSUME NEW k \in 1..Len(c) PROVE (c[k].is = "start") <=> (k = 1)
    OBVIOUS
  <2>1. k \in 1..Length(pk)
    BY <1>2
  <2> QED
    BY <1>1, <2>1, CellsTellApart
<1>4. c[1].of = N /\ c[1].is = "start"
  <2>1. 1 \in 1..Length(pk)
    BY <1>2
  <2> QED
    BY <1>1, <2>1, CellsTellApart
<1> HIDE DEF c
<1>5. /\ s2 \in Seq(CellSet) /\ Len(s2) = L + Len(c)
      /\ \A k \in 1..(L + Len(c)) : s2[k] = IF k <= L THEN s[k] ELSE c[k - L]
  BY <1>2, ConcatProperties
<1> HIDE DEF L, N, snt2, s2
<1>6. \A k \in 1..L : s2[k] = s[k]
  BY <1>1, <1>2, <1>5
<1>7. \A k \in 1..Len(c) : s2[L + k] = c[k]
  <2> SUFFICES ASSUME NEW k \in 1..Len(c) PROVE s2[L + k] = c[k]
    OBVIOUS
  <2>1. L + k \in 1..(L + Len(c)) /\ ~(L + k <= L) /\ (L + k) - L = k
    BY <1>1, <1>2
  <2> QED
    BY <1>5, <2>1
<1>8. /\ Len(snt2) = N /\ snt2[N] = pk
      /\ \A m \in 1..Len(snt) : snt2[m] = snt[m]
  BY SentShape DEF snt2, N
<1>9. s2[L + 1] = c[1] /\ Len(s2) >= L + 1
  BY <1>1, <1>2, <1>5, <1>7
\* Where s has a packet or ends, s2 has the same, or the new one.
<1>10. ASSUME NEW k \in 1..(L + 1)
       PROVE  At(snt2, s2, k) = At(snt, s, k)
  <2>1. CASE k <= L
    BY <1>1, <1>5, <1>6, <1>9, <2>1 DEF At, L
  <2>2. CASE k = L + 1
    BY <1>1, <1>4, <1>9, <2>2 DEF At, L
  <2> QED
    BY <1>1, <2>1, <2>2
<1>11. ASSUME NEW j \in 1..L, s[j].is = "start"
       PROVE  PacketAt(snt2, p, s2, j)
  <2> DEFINE i == s[j].of
             a == After(snt, s, j)
  <2>1. PacketAt(snt, p, s, j)
    BY <1>11 DEF Stream, L
  <2>2. /\ i \in Nat /\ i \in 1..Len(snt) /\ snt[i] \in Packet
        /\ a \in 2..(L + 1) /\ At(snt, s, a) \in 1..(Len(snt) + 1)
    BY <2>1, PacketAtShape DEF PacketAt, L
  <2>3. s2[j] = s[j] /\ snt2[i] = snt[i]
    BY <1>6, <1>8, <2>2
  <2>4. After(snt2, s2, j) = a
    BY <2>3 DEF After
  <2>5. \A k \in 1..Length(snt[i]) : s2[j + k - 1] = Cells(i, snt[i])[k]
    <3> SUFFICES ASSUME NEW k \in 1..Length(snt[i])
                 PROVE  s2[j + k - 1] = Cells(i, snt[i])[k]
      OBVIOUS
    <3>1. j + Length(snt[i]) <= L + 1 /\ Length(snt[i]) \in Nat
      BY <2>2, PacketShape, SMTT(20) DEF After
    <3>2. j + k - 1 \in 1..L
      BY <1>1, <3>1
    <3>3. s[j + k - 1] = Cells(i, snt[i])[k]
      BY <2>1 DEF PacketAt
    <3> QED
      BY <1>6, <3>2, <3>3
  <2>6. s2[a].is = "start"
    <3>1. CASE a <= L
      <4>1. a \in 1..L
        BY <1>1, <2>2, <3>1
      <4> QED
        BY <1>6, <2>1, <3>1, <4>1 DEF PacketAt, L
    <3>2. CASE a = L + 1
      BY <1>4, <1>9, <3>2
    <3>3. a <= L \/ a = L + 1
      BY <1>1, <2>2, SMTT(20)
    <3> QED
      BY <3>1, <3>2, <3>3, Zenon
  <2>7. At(snt2, s2, a) = At(snt, s, a)
    BY <1>10, <2>2, <1>1
  <2>8. i < At(snt, s, a) /\ \A m \in (i + 1)..(At(snt, s, a) - 1) : snt[m].from # p
    BY <2>1 DEF PacketAt
  <2>9. \A m \in (i + 1)..(At(snt, s, a) - 1) : m \in 1..Len(snt)
    <3> DEFINE t == At(snt, s, a)
    <3> HIDE DEF i, a, t
    <3>1. \A m \in (i + 1)..(t - 1) : m \in 1..Len(snt)
      BY <1>1, <2>2 DEF t
    <3> QED
      BY <3>1 DEF t
  <2>10. \A m \in (i + 1)..(At(snt, s, a) - 1) : snt2[m].from # p
    BY <1>8, <2>8, <2>9
  <2>11. a <= Len(s2) + 1 /\ i \in 1..Len(snt2) /\ snt[i].from = p
    <3>1. snt[i].from = p
      BY <2>1 DEF PacketAt
    <3> HIDE DEF i, a
    <3> QED
      BY <1>1, <1>2, <1>5, <1>8, <2>2, <3>1
  <2> HIDE DEF a
  <2> QED
    BY <2>3, <2>4, <2>5, <2>6, <2>7, <2>8, <2>10, <2>11 DEF PacketAt
<1>12. PacketAt(snt2, p, s2, L + 1)
  <2> DEFINE a == After(snt2, s2, L + 1)
  <2>1. s2[L + 1].of = N /\ snt2[N] = pk /\ N \in 1..Len(snt2) /\ Len(snt2) = N
    BY <1>1, <1>4, <1>8, <1>9
  <2>2. a = L + 1 + Length(pk) /\ a = Len(s2) + 1 /\ ~(a <= Len(s2)) /\ a > Len(s2)
    <3>1. a = L + 1 + Length(pk)
      BY <2>1 DEF After
    <3>2. Len(s2) = L + Length(pk)
      BY <1>2, <1>5
    <3> HIDE DEF a
    <3> QED
      BY <1>1, <1>2, <3>1, <3>2
  <2>3. \A k \in 1..Length(pk) : s2[L + 1 + k - 1] = Cells(N, pk)[k]
    <3> SUFFICES ASSUME NEW k \in 1..Length(pk)
                 PROVE  s2[L + 1 + k - 1] = Cells(N, pk)[k]
      OBVIOUS
    <3>1. L + 1 + k - 1 = L + k
      BY <1>1, <1>2
    <3> QED
      BY <1>2, <1>7, <3>1 DEF c
  <2>4. At(snt2, s2, a) = N + 1
    BY <2>1, <2>2 DEF At
  <2>5. N < N + 1 /\ \A m \in (N + 1)..(N + 1 - 1) : FALSE
    BY <1>1
  <2>6. a <= Len(s2) + 1 /\ ~(a <= Len(s2))
    BY <1>1, <1>5, <2>2
  <2> DEFINE i == s2[L + 1].of
  <2>7. i = N /\ snt2[i] = pk
    BY <2>1
  <2>8. i \in 1..Len(snt2) /\ snt2[i].from = p /\ i < At(snt2, s2, a)
    BY <2>1, <2>4, <2>5, <2>7
  <2>9. \A k \in 1..Length(snt2[i]) : s2[L + 1 + k - 1] = Cells(i, snt2[i])[k]
    <3> HIDE DEF i
    <3> QED
      BY <2>3, <2>7, Zenon
  <2>10. \A m \in (i + 1)..(At(snt2, s2, a) - 1) : snt2[m].from # p
    <3> HIDE DEF i, a
    <3> DEFINE t == At(snt2, s2, a)
    <3> HIDE DEF t
    <3>1. t = N + 1
      BY <2>4 DEF t
    <3>2. \A m \in (i + 1)..(t - 1) : FALSE
      BY <1>1, <2>7, <3>1
    <3> QED
      BY <3>2, Zenon DEF t
  <2>11. PacketAt(snt2, p, s2, L + 1) <=>
           /\ i \in 1..Len(snt2) /\ snt2[i].from = p
           /\ a <= Len(s2) + 1
           /\ \A k \in 1..Length(snt2[i]) : s2[L + 1 + k - 1] = Cells(i, snt2[i])[k]
           /\ a <= Len(s2) => s2[a].is = "start"
           /\ i < At(snt2, s2, a)
           /\ \A m \in (i + 1)..(At(snt2, s2, a) - 1) : snt2[m].from # p
    BY Zenon DEF PacketAt
  <2> HIDE DEF i, a
  <2> QED
    BY <2>6, <2>8, <2>9, <2>10, <2>11, Zenon
<1>13. Stream(snt2, p, s2)
  <2>1. s2[1].is = "start"
    <3>1. CASE s = <<>>
      BY <1>4, <1>9, <3>1 DEF L
    <3>2. CASE s # <<>>
      <4>1. 1 \in 1..L
        BY <3>2 DEF L
      <4> QED
        BY <1>6, <3>2, <4>1 DEF Stream
    <3> QED
      BY <3>1, <3>2
  <2>2. ASSUME NEW j \in 1..Len(s2), s2[j].is = "start"
        PROVE  PacketAt(snt2, p, s2, j)
    <3>1. CASE j \in 1..L
      BY <1>6, <1>11, <2>2, <3>1
    <3>2. CASE j \notin 1..L
      <4> DEFINE k == j - L
      <4>1. k \in 1..Len(c) /\ j = L + k
        BY <1>1, <1>2, <1>5, <3>2
      <4>2. k = 1
        BY <1>3, <1>7, <2>2, <4>1
      <4> QED
        BY <1>12, <4>1, <4>2
    <3> QED
      BY <3>1, <3>2
  <2> QED
    BY <2>1, <2>2 DEF Stream
<1>14. At(snt2, s2, 1) = At(snt, s, 1)
  BY <1>1, <1>10
<1>15. s2 \in Seq(CellSet) /\ s2 # <<>>
  BY <1>1, <1>5, <1>9
<1> QED
  BY <1>13, <1>14, <1>15, Zenon DEF s2, c, N, snt2

\* The peer has sent no packet between two.
NoneBetween(snt, p, i, n) == \A m \in (i + 1)..(n - 1) : snt[m].from # p

\* What follows the first packet.
Following(snt, s) == SubSeq(s, Length(snt[s[1].of]) + 1, Len(s))

\* Behind its first packet the stream is a stream, too, and goes on with the
\* next packet of the peer.
LEMMA StreamDropped ==
  ASSUME NEW snt \in Seq(Packet), NEW p, NEW s \in Seq(CellSet), s # <<>>, Stream(snt, p, s)
  PROVE  LET i == s[1].of
             t == Following(snt, s)
         IN /\ i \in 1..Len(snt) /\ snt[i] \in Packet /\ snt[i].from = p
            /\ Length(snt[i]) \in 0..Len(s)
            /\ t \in Seq(CellSet) /\ Stream(snt, p, t)
            /\ i < At(snt, t, 1) /\ At(snt, t, 1) \in 1..(Len(snt) + 1)
            /\ NoneBetween(snt, p, i, At(snt, t, 1))
<1> DEFINE i == s[1].of
           d == Length(snt[i])
           t == SubSeq(s, d + 1, Len(s))
<1>1. Len(s) \in Nat /\ Len(snt) \in Nat /\ 1 \in 1..Len(s) /\ s[1].is = "start"
  BY DEF Stream
<1>2. PacketAt(snt, p, s, 1)
  BY <1>1 DEF Stream
<1>3. /\ i \in 1..Len(snt) /\ snt[i] \in Packet /\ d \in Nat \ {0}
      /\ After(snt, s, 1) = d + 1 /\ d + 1 <= Len(s) + 1 /\ snt[i].from = p
      /\ At(snt, s, d + 1) \in 1..(Len(snt) + 1)
  <2>1. /\ i \in 1..Len(snt) /\ snt[i] \in Packet /\ d \in Nat \ {0} /\ snt[i].from = p
        /\ After(snt, s, 1) \in 2..(Len(s) + 1)
        /\ At(snt, s, After(snt, s, 1)) \in 1..(Len(snt) + 1)
    BY <1>1, <1>2, PacketAtShape DEF PacketAt
  <2>2. After(snt, s, 1) = 1 + d
    BY DEF After
  <2> HIDE DEF i, d
  <2>3. 1 + d = d + 1
    BY <2>1
  <2> QED
    BY <1>1, <2>1, <2>2, <2>3
<1>4. /\ d + 1 <= Len(s) => s[d + 1].is = "start"
      /\ i < At(snt, s, d + 1)
      /\ \A m \in (i + 1)..(At(snt, s, d + 1) - 1) : snt[m].from # p
  BY <1>2, <1>3 DEF PacketAt
<1> HIDE DEF i, d
<1>5. /\ t \in Seq(CellSet) /\ Len(t) = Len(s) - d
      /\ \A k \in 1..Len(t) : t[k] = s[d + k]
  <2>1. d \in 0..Len(s)
    BY <1>1, <1>3
  <2>2. /\ t \in Seq(CellSet) /\ Len(t) = Len(s) - d
        /\ \A k \in 1..(Len(s) - d) : t[k] = s[d + k]
    BY <2>1, Behind
  <2> HIDE DEF t
  <2> QED
    BY <2>2
<1> HIDE DEF t
<1>6. ASSUME NEW j \in Nat \ {0}
      PROVE  At(snt, t, j) = At(snt, s, d + j)
  <2>1. CASE j <= Len(t)
    <3>1. d + j <= Len(s) /\ t[j] = s[d + j]
      BY <1>1, <1>3, <1>5, <2>1
    <3>2. ~(j > Len(t)) /\ ~(d + j > Len(s))
      BY <1>1, <1>3, <1>5, <2>1, <3>1
    <3> QED
      BY <3>1, <3>2 DEF At
  <2>2. CASE ~(j <= Len(t))
    <3>1. j > Len(t) /\ d + j > Len(s)
      BY <1>1, <1>3, <1>5, <2>2
    <3> QED
      BY <3>1 DEF At
  <2> QED
    BY <2>1, <2>2
<1>7. ASSUME NEW j \in 1..Len(t), t[j].is = "start"
      PROVE  PacketAt(snt, p, t, j)
  <2> DEFINE n == t[j].of
             f == Length(snt[n])
  <2>1. /\ d + j \in 1..Len(s) /\ t[j] = s[d + j] /\ j \in Nat \ {0}
    BY <1>1, <1>3, <1>5
  <2>2. PacketAt(snt, p, s, d + j)
    BY <1>7, <2>1 DEF Stream
  <2>3. /\ n \in 1..Len(snt) /\ f \in Nat \ {0} /\ After(snt, s, d + j) = d + j + f
        /\ After(snt, t, j) = j + f
        /\ d + j + f \in 2..(Len(s) + 1)
        /\ At(snt, s, d + j + f) \in 1..(Len(snt) + 1)
    <3>1. /\ s[d + j].of \in 1..Len(snt) /\ Length(snt[s[d + j].of]) \in Nat \ {0}
          /\ After(snt, s, d + j) \in 2..(Len(s) + 1)
          /\ At(snt, s, After(snt, s, d + j)) \in 1..(Len(snt) + 1)
      BY <2>1, <2>2, PacketAtShape DEF PacketAt
    <3>2. After(snt, s, d + j) = d + j + f /\ After(snt, t, j) = j + f
      BY <2>1 DEF After
    <3> QED
      BY <2>1, <3>1, <3>2
  <2>4. n = s[d + j].of
    BY <2>1
  <2>5. /\ snt[n].from = p /\ n < At(snt, s, d + j + f)
        /\ d + j + f <= Len(s) => s[d + j + f].is = "start"
        /\ \A k \in 1..f : s[d + j + k - 1] = Cells(n, snt[n])[k]
        /\ \A m \in (n + 1)..(At(snt, s, d + j + f) - 1) : snt[m].from # p
    BY <2>2, <2>3, <2>4 DEF PacketAt
  <2> HIDE DEF f, n
  <2>6. At(snt, t, j + f) = At(snt, s, d + j + f)
    <3>1. j + f \in Nat \ {0} /\ d + (j + f) = d + j + f
      BY <1>3, <2>1, <2>3
    <3> QED
      BY <1>6, <3>1
  <2>7. j + f <= Len(t) + 1
    BY <1>1, <1>3, <1>5, <2>1, <2>3
  <2>8. j + f <= Len(t) => t[j + f].is = "start"
    <3> SUFFICES ASSUME j + f <= Len(t) PROVE t[j + f].is = "start"
      OBVIOUS
    <3>1. j + f \in 1..Len(t) /\ d + (j + f) = d + j + f /\ d + j + f <= Len(s)
      BY <1>1, <1>3, <1>5, <2>1, <2>3
    <3>2. t[j + f] = s[d + (j + f)]
      BY <1>5, <3>1
    <3> QED
      BY <2>5, <3>1, <3>2
  <2>9. \A k \in 1..f : t[j + k - 1] = Cells(n, snt[n])[k]
    <3> SUFFICES ASSUME NEW k \in 1..f PROVE t[j + k - 1] = Cells(n, snt[n])[k]
      OBVIOUS
    <3>1. j + k - 1 \in 1..Len(t) /\ d + (j + k - 1) = d + j + k - 1
      BY <1>1, <1>3, <1>5, <2>1, <2>3
    <3>2. t[j + k - 1] = s[d + (j + k - 1)]
      BY <1>5, <3>1
    <3> QED
      BY <2>5, <3>1, <3>2
  <2>10. /\ n < At(snt, t, j + f)
         /\ \A m \in (n + 1)..(At(snt, t, j + f) - 1) : snt[m].from # p
    BY <2>5, <2>6
  <2>11. PacketAt(snt, p, t, j) <=>
           /\ n \in 1..Len(snt) /\ snt[n].from = p
           /\ After(snt, t, j) <= Len(t) + 1
           /\ \A k \in 1..f : t[j + k - 1] = Cells(n, snt[n])[k]
           /\ After(snt, t, j) <= Len(t) => t[After(snt, t, j)].is = "start"
           /\ n < At(snt, t, After(snt, t, j))
           /\ \A m \in (n + 1)..(At(snt, t, After(snt, t, j)) - 1) : snt[m].from # p
    BY Zenon DEF PacketAt, n, f
  <2> QED
    BY <2>3, <2>5, <2>7, <2>8, <2>9, <2>10, <2>11, Zenon
<1>8. Stream(snt, p, t)
  <2>1. t # <<>> => t[1].is = "start"
    <3> SUFFICES ASSUME t # <<>> PROVE t[1].is = "start"
      OBVIOUS
    <3>1. 1 \in 1..Len(t)
      BY <1>5
    <3> QED
      BY <1>1, <1>3, <1>4, <1>5, <3>1
  <2> QED
    BY <1>7, <2>1 DEF Stream
<1>9. At(snt, t, 1) = At(snt, s, d + 1)
  BY <1>6
<1>10. d \in 0..Len(s)
  BY <1>1, <1>3
<1>11. /\ i < At(snt, t, 1) /\ At(snt, t, 1) \in 1..(Len(snt) + 1)
       /\ \A m \in (i + 1)..(At(snt, t, 1) - 1) : snt[m].from # p
  BY <1>3, <1>4, <1>9, Zenon
<1> QED
  BY <1>3, <1>5, <1>8, <1>10, <1>11, Zenon DEF i, d, t, Following, NoneBetween

-----------------------------------------------------------------------------
\* The inductive invariant, as long as no two streams have met.

OfPeer(snt, p, s) == \A k \in 1..Len(s) : s[k].of \in 1..Len(snt) /\ snt[s[k].of].from = p

\* What p has sent and the parser has not returned: what is in the buffer, if
\* it is that of p, and what has not been read yet.
Unread(snt, b, w, p) ==
    IF b # <<>> /\ snt[b[1].of].from = p THEN b \o w[p] ELSE w[p]

Returned(o, i) == \E l \in 1..Len(o) : o[l].start = i

\* The k-th packet that was returned is as it was sent, and the packets of its
\* peer that were returned before it are those that were sent before it.
AsSent(snt, o, k) ==
    /\ o[k].start \in 1..Len(snt) /\ snt[o[k].start].from = o[k].to
    /\ o[k].body = Body(o[k].start, snt[o[k].start].body)
    /\ \A j \in 1..o[k].start : snt[j].from = o[k].to =>
          (j < o[k].start <=> \E l \in 1..(k - 1) : o[l].start = j)

Out == [start : Nat, to : Peers, body : Seq(CellSet)]

ParserShapes ==
    /\ sent \in Seq(Packet) /\ wire \in [Peers -> Seq(CellSet)]
    /\ buf \in Seq(CellSet) /\ out \in Seq(Out) /\ reading \in Peers \cup {Nobody}

BufferOfOne ==
    /\ buf # <<>> => buf[1].of \in 1..Len(sent) /\ OfPeer(sent, sent[buf[1].of].from, buf)
    /\ reading # Nobody => OfPeer(sent, reading, buf)

Streams == \A p \in Peers : Stream(sent, p, Unread(sent, buf, wire, p)) /\ OfPeer(sent, p, wire[p])

\* Of each peer, the packets were returned that come before what is unread.
ReturnedSoFar ==
    \A i \in 1..Len(sent) : Returned(out, i) <=> i < At(sent, Unread(sent, buf, wire, sent[i].from), 1)

OutAsSent == \A k \in 1..Len(out) : AsSent(sent, out, k)

Untangled == ParserShapes /\ BufferOfOne /\ Streams /\ ReturnedSoFar /\ OutAsSent

ParserIInv == ~disturbed => Untangled

LEMMA UntangledInOrder ==
  ASSUME ParserIInv
  PROVE  PacketsInOrder
<1> SUFFICES ASSUME ~disturbed, NEW k \in DOMAIN out
             PROVE  LET i == out[k].start
                    IN /\ i \in DOMAIN sent /\ sent[i].from = out[k].to
                       /\ out[k].body = Body(i, sent[i].body)
                       /\ \A j \in 1..i : sent[j].from = out[k].to =>
                             (j < i <=> \E l \in 1..(k - 1) : out[l].start = j)
  BY DEF PacketsInOrder
<1>1. Untangled
  BY DEF ParserIInv
<1>2. DOMAIN sent = 1..Len(sent) /\ DOMAIN out = 1..Len(out)
  BY <1>1 DEF Untangled, ParserShapes
<1>3. AsSent(sent, out, k)
  BY <1>1, <1>2 DEF Untangled, OutAsSent
<1> QED
  BY <1>2, <1>3, Zenon DEF AsSent

LEMMA UntangledInit ==
  ASSUME ParserInit
  PROVE  ParserIInv
<1>1. /\ sent = <<>> /\ wire = [p \in Peers |-> <<>>] /\ buf = <<>> /\ out = <<>>
      /\ reading = Nobody
  BY DEF ParserInit
<1>2. ParserShapes /\ BufferOfOne
  BY <1>1 DEF ParserShapes, BufferOfOne
<1>3. \A p \in Peers : Unread(sent, buf, wire, p) = <<>> /\ wire[p] = <<>>
  BY <1>1 DEF Unread
<1>4. Streams
  BY <1>3 DEF Streams, Stream, OfPeer
<1>5. ReturnedSoFar /\ OutAsSent
  BY <1>1 DEF ReturnedSoFar, OutAsSent
<1> QED
  BY <1>2, <1>4, <1>5 DEF ParserIInv, Untangled

\* What is in the buffer is the first part of what is unread.
LEMMA BufferFirst ==
  ASSUME Untangled, buf # <<>>
  PROVE  LET i == buf[1].of
             p == sent[i].from
         IN /\ i \in 1..Len(sent) /\ i \in Nat /\ sent[i] \in Packet /\ p \in Peers
            /\ Unread(sent, buf, wire, p) = buf \o wire[p] /\ wire[p] \in Seq(CellSet)
            /\ Unread(sent, buf, wire, p) \in Seq(CellSet)
            /\ Unread(sent, buf, wire, p)[1] = buf[1] /\ Unread(sent, buf, wire, p) # <<>>
            /\ Begins(buf, i, sent[i])
            /\ \A q \in Peers : q # p => Unread(sent, buf, wire, q) = wire[q]
            /\ reading # Nobody => reading = p
<1> DEFINE i == buf[1].of
           p == sent[i].from
           u == Unread(sent, buf, wire, p)
<1>1. /\ i \in 1..Len(sent) /\ OfPeer(sent, p, buf) /\ buf \in Seq(CellSet)
      /\ sent \in Seq(Packet) /\ wire \in [Peers -> Seq(CellSet)] /\ Len(sent) \in Nat
      /\ Len(buf) \in Nat \ {0}
  BY DEF Untangled, BufferOfOne, ParserShapes
<1>2. i \in Nat /\ sent[i] \in Packet
  BY <1>1, ElementOfSeq
<1>3. p \in Peers /\ wire[p] \in Seq(CellSet)
  <2>1. p \in Peers
    BY <1>2 DEF Packet
  <2> QED
    BY <1>1, <2>1
<1>4. u = buf \o wire[p]
  BY Zenon DEF Unread
<1>5. \A q \in Peers : q # p => Unread(sent, buf, wire, q) = wire[q]
  BY Zenon DEF Unread
<1>6. reading # Nobody => reading = p
  BY <1>1 DEF Untangled, BufferOfOne, OfPeer
<1> HIDE DEF p, u
<1>7. u \in Seq(CellSet) /\ Len(u) >= Len(buf) /\ \A k \in 1..Len(buf) : u[k] = buf[k]
  <2>1. /\ buf \o wire[p] \in Seq(CellSet) /\ Len(buf \o wire[p]) = Len(buf) + Len(wire[p])
        /\ \A k \in 1..(Len(buf) + Len(wire[p])) :
              (buf \o wire[p])[k] = IF k <= Len(buf) THEN buf[k] ELSE wire[p][k - Len(buf)]
    BY <1>1, <1>3, ConcatProperties
  <2>2. /\ u \in Seq(CellSet) /\ Len(u) = Len(buf) + Len(wire[p])
        /\ \A k \in 1..(Len(buf) + Len(wire[p])) :
              u[k] = IF k <= Len(buf) THEN buf[k] ELSE wire[p][k - Len(buf)]
    BY <1>4, <2>1, Zenon
  <2>3. Len(wire[p]) \in Nat
    BY <1>3
  <2> QED
    BY <1>1, <2>2, <2>3
<1>8. u[1] = buf[1] /\ u # <<>> /\ Len(u) \in Nat
  <2>1. 1 \in 1..Len(buf)
    BY <1>1
  <2> QED
    BY <1>7, <2>1
<1>9. PacketAt(sent, p, u, 1)
  <2>1. Stream(sent, p, u)
    BY <1>3 DEF Untangled, Streams, u
  <2>2. 1 \in 1..Len(u)
    BY <1>8, <1>7
  <2> QED
    BY <1>8, <2>1, <2>2 DEF Stream
<1>10. Begins(buf, i, sent[i])
  <2> SUFFICES ASSUME NEW k \in 1..Len(buf), k <= Length(sent[i])
               PROVE  buf[k] = Cells(i, sent[i])[k]
    BY DEF Begins
  <2>1. k \in 1..Length(sent[i]) /\ 1 + k - 1 = k
    BY <1>1, <1>2, PacketShape
  <2>2. u[1 + k - 1] = Cells(i, sent[i])[k]
    BY <1>8, <1>9, <2>1 DEF PacketAt
  <2> QED
    BY <1>7, <2>1, <2>2
<1> QED
  BY <1>1, <1>2, <1>3, <1>4, <1>5, <1>6, <1>7, <1>8, <1>10, Zenon DEF p, u

\* If the buffer is that of p, it is the first part of what p has unread.
LEMMA UnreadOf ==
  ASSUME NEW snt, NEW b \in Seq(CellSet), NEW w \in [Peers -> Seq(CellSet)],
         NEW p \in Peers, OfPeer(snt, p, b)
  PROVE  /\ Unread(snt, b, w, p) = b \o w[p]
         /\ \A q \in Peers : q # p => Unread(snt, b, w, q) = w[q]
<1>1. CASE b = <<>>
  <2>1. w[p] \in Seq(CellSet)
    OBVIOUS
  <2>2. <<>> \o w[p] = w[p]
    BY <2>1, ConcatEmptySeq
  <2>3. \A q \in Peers : Unread(snt, b, w, q) = w[q]
    BY <1>1, Zenon DEF Unread
  <2> QED
    BY <1>1, <2>2, <2>3, Zenon
<1>2. CASE b # <<>>
  <2>1. 1 \in 1..Len(b)
    BY <1>2
  <2>2. snt[b[1].of].from = p
    BY <2>1 DEF OfPeer
  <2> QED
    BY <1>2, <2>2, Zenon DEF Unread
<1> QED
  BY <1>1, <1>2

LEMMA OfPeerJoined ==
  ASSUME NEW snt, NEW p, NEW s \in Seq(CellSet), NEW t \in Seq(CellSet),
         OfPeer(snt, p, s), OfPeer(snt, p, t)
  PROVE  OfPeer(snt, p, s \o t)
<1> DEFINE u == s \o t
<1>1. /\ Len(u) = Len(s) + Len(t) /\ Len(s) \in Nat /\ Len(t) \in Nat
      /\ \A k \in 1..(Len(s) + Len(t)) : u[k] = IF k <= Len(s) THEN s[k] ELSE t[k - Len(s)]
  BY ConcatProperties
<1> HIDE DEF u
<1> SUFFICES ASSUME NEW k \in 1..Len(u)
             PROVE  u[k].of \in 1..Len(snt) /\ snt[u[k].of].from = p
  BY DEF OfPeer, u
<1>2. CASE k <= Len(s)
  <2>1. k \in 1..Len(s) /\ u[k] = s[k]
    BY <1>1, <1>2
  <2> QED
    BY <2>1 DEF OfPeer
<1>3. CASE ~(k <= Len(s))
  <2> DEFINE l == k - Len(s)
  <2>1. l \in 1..Len(t) /\ u[k] = t[l]
    BY <1>1, <1>3
  <2> HIDE DEF l
  <2> QED
    BY <2>1 DEF OfPeer
<1> QED
  BY <1>2, <1>3

LEMMA OfPeerParts ==
  ASSUME NEW snt, NEW p, NEW s \in Seq(CellSet), OfPeer(snt, p, s), NEW n \in 0..Len(s)
  PROVE  OfPeer(snt, p, SubSeq(s, 1, n)) /\ OfPeer(snt, p, SubSeq(s, n + 1, Len(s)))
<1> DEFINE a == SubSeq(s, 1, n)
           b == SubSeq(s, n + 1, Len(s))
<1>1. /\ Len(a) = n /\ Len(s) \in Nat /\ n \in Nat
      /\ \A k \in 1..n : a[k] = s[k] /\ k \in 1..Len(s)
  <2>1. 1 \in Nat \ {0} /\ n \in Nat
    OBVIOUS
  <2>2. /\ Len(a) = IF 1 <= n THEN n - 1 + 1 ELSE 0
        /\ \A k \in 1..(n - 1 + 1) : a[k] = s[1 + k - 1]
    BY <2>1, Part
  <2> HIDE DEF a
  <2> QED
    BY <2>1, <2>2
<1>2. /\ Len(b) = Len(s) - n
      /\ \A k \in 1..(Len(s) - n) : b[k] = s[n + k]
  BY Behind
<1> HIDE DEF a, b
<1>3. \A k \in 1..(Len(s) - n) : n + k \in 1..Len(s)
  BY <1>1
<1>4. OfPeer(snt, p, a)
  BY <1>1 DEF OfPeer
<1>5. OfPeer(snt, p, b)
  <2>1. ASSUME NEW k \in 1..(Len(s) - n)
        PROVE  b[k].of \in 1..Len(snt) /\ snt[b[k].of].from = p
    <3>1. b[k] = s[n + k] /\ n + k \in 1..Len(s)
      BY <1>2, <1>3
    <3> QED
      BY <3>1, Zenon DEF OfPeer
  <2> QED
    BY <1>2, <2>1, Zenon DEF OfPeer
<1> QED
  BY <1>4, <1>5 DEF a, b

LEMMA OfPeerKept ==
  ASSUME NEW snt \in Seq(Packet), NEW pk \in Packet, NEW p, NEW s, OfPeer(snt, p, s)
  PROVE  OfPeer(Append(snt, pk), p, s)
<1> SUFFICES ASSUME NEW k \in 1..Len(s)
             PROVE  /\ s[k].of \in 1..Len(Append(snt, pk))
                    /\ Append(snt, pk)[s[k].of].from = p
  BY DEF OfPeer
<1>1. s[k].of \in 1..Len(snt) /\ snt[s[k].of].from = p
  BY DEF OfPeer
<1>2. /\ Len(snt) \in Nat /\ Len(Append(snt, pk)) = Len(snt) + 1
      /\ Append(snt, pk)[s[k].of] = snt[s[k].of]
  BY <1>1, SentShape
<1> QED
  BY <1>1, <1>2

LEMMA OfPeerNew ==
  ASSUME NEW snt \in Seq(Packet), NEW pk \in Packet
  PROVE  OfPeer(Append(snt, pk), pk.from, Cells(Len(snt) + 1, pk))
<1> DEFINE N == Len(snt) + 1
           c == Cells(N, pk)
<1>1. N \in Nat /\ N \in 1..N /\ Len(Append(snt, pk)) = N /\ Append(snt, pk)[N] = pk
  BY SentShape
<1>2. \A k \in 1..Len(c) : k \in 1..Length(pk)
  BY <1>1, CellsShape
<1>3. \A k \in 1..Len(c) : c[k].of = N
  BY <1>1, <1>2, CellsTellApart
<1> HIDE DEF c
<1> QED
  BY <1>1, <1>3 DEF OfPeer, c

-----------------------------------------------------------------------------
\* The steps.

LEMMA SendsUntangled ==
  ASSUME Untangled, NEW p \in Peers, NEW head \in Headers, NEW n \in Bodies,
         PeerSends(p, head, n)
  PROVE  Untangled' /\ sent \in Seq(Packet) /\ (\A i \in 1..Len(sent) : sent'[i] = sent[i])
<1> DEFINE pk == [from |-> p, head |-> head, body |-> n]
           N == Len(sent) + 1
           c == Cells(N, pk)
<1>1. pk \in Packet /\ pk.from = p
  BY DEF Packet
<1> HIDE DEF pk
<1>2. sent' = Append(sent, pk) /\ UNCHANGED <<buf, packet, out, reading, disturbed>>
  BY DEF PeerSends, pk
<1>3. /\ sent \in Seq(Packet) /\ wire \in [Peers -> Seq(CellSet)] /\ buf \in Seq(CellSet)
      /\ Len(sent) \in Nat /\ N \in Nat
  BY DEF Untangled, ParserShapes
<1>4. /\ sent' \in Seq(Packet) /\ Len(sent') = N /\ sent'[N] = pk
      /\ \A m \in 1..Len(sent) : sent'[m] = sent[m]
  BY <1>1, <1>2, <1>3, SentShape
<1>5. c \in Seq(CellSet)
  BY <1>1, <1>3, CellsShape
<1>6. wire' = [wire EXCEPT ![p] = wire[p] \o c]
  BY <1>2, <1>4 DEF PeerSends
<1> HIDE DEF c
<1>7. wire'[p] = wire[p] \o c /\ \A q \in Peers : q # p => wire'[q] = wire[q]
  BY <1>3, <1>6
<1>8. wire[p] \o c \in Seq(CellSet)
  <2>1. wire[p] \in Seq(CellSet)
    BY <1>3
  <2> QED
    BY <1>5, <2>1, ConcatProperties
<1>9. ParserShapes'
  <2>1. wire' \in [Peers -> Seq(CellSet)]
    BY <1>3, <1>6, <1>8
  <2> QED
    BY <1>2, <1>4, <2>1 DEF Untangled, ParserShapes
<1>10. BufferOfOne'
  <2>1. buf # <<>> => buf[1].of \in 1..Len(sent) /\ sent'[buf[1].of] = sent[buf[1].of]
                      /\ OfPeer(sent, sent[buf[1].of].from, buf)
    BY <1>4 DEF Untangled, BufferOfOne
  <2>2. \A q : OfPeer(sent, q, buf) => OfPeer(sent', q, buf)
    BY <1>1, <1>2, <1>3, OfPeerKept
  <2>3. buf # <<>> => buf[1].of \in 1..Len(sent') /\ OfPeer(sent', sent'[buf[1].of].from, buf)
    BY <1>3, <1>4, <2>1, <2>2
  <2>4. reading # Nobody => OfPeer(sent', reading, buf)
    BY <2>2 DEF Untangled, BufferOfOne
  <2> QED
    BY <1>2, <2>3, <2>4 DEF BufferOfOne
<1>11. ASSUME NEW q \in Peers
       PROVE  /\ Unread(sent, buf, wire, q) \in Seq(CellSet) /\ wire[q] \in Seq(CellSet)
              /\ Unread(sent', buf', wire', q) =
                    IF q = p THEN Unread(sent, buf, wire, q) \o c ELSE Unread(sent, buf, wire, q)
  <2>1. wire[q] \in Seq(CellSet) /\ wire'[q] = IF q = p THEN wire[q] \o c ELSE wire[q]
    BY <1>3, <1>7
  <2>2. CASE buf # <<>> /\ sent[buf[1].of].from = q
    <3>1. sent'[buf[1].of] = sent[buf[1].of]
      BY <1>4, <2>2 DEF Untangled, BufferOfOne
    <3>2. Unread(sent, buf, wire, q) = buf \o wire[q] /\ Unread(sent', buf', wire', q) = buf \o wire'[q]
      BY <1>2, <2>2, <3>1, Zenon DEF Unread
    <3>3. (buf \o wire[q]) \o c = buf \o (wire[q] \o c)
      BY <1>3, <1>5, <2>1, ConcatAssociative, SMTT(20)
    <3>4. buf \o wire[q] \in Seq(CellSet)
      BY <1>3, <2>1, ConcatProperties
    <3> QED
      BY <2>1, <3>2, <3>3, <3>4, Zenon
  <2>3. CASE ~(buf # <<>> /\ sent[buf[1].of].from = q)
    <3>1. buf # <<>> => sent'[buf[1].of] = sent[buf[1].of]
      BY <1>4 DEF Untangled, BufferOfOne
    <3>2. Unread(sent, buf, wire, q) = wire[q] /\ Unread(sent', buf', wire', q) = wire'[q]
      BY <1>2, <2>3, <3>1, Zenon DEF Unread
    <3> QED
      BY <2>1, <3>2, Zenon
  <2> QED
    BY <2>2, <2>3
<1>12. ASSUME NEW q \in Peers
       PROVE  /\ Stream(sent', q, Unread(sent', buf', wire', q)) /\ OfPeer(sent', q, wire'[q])
              /\ \A i \in 1..Len(sent) :
                    i < At(sent', Unread(sent', buf', wire', q), 1)
                       <=> i < At(sent, Unread(sent, buf, wire, q), 1)
              /\ q = p => ~(N < At(sent', Unread(sent', buf', wire', q), 1))
  <2>1. /\ Stream(sent, q, Unread(sent, buf, wire, q)) /\ OfPeer(sent, q, wire[q])
        /\ Unread(sent, buf, wire, q) \in Seq(CellSet) /\ wire[q] \in Seq(CellSet)
    BY <1>11 DEF Untangled, Streams
  <2> DEFINE u == Unread(sent, buf, wire, q)
  <2> HIDE DEF u
  <2>2. u # <<>> => u[1].of \in 1..Len(sent)
    <3>1. u # <<>> => 1 \in 1..Len(u)
      BY <2>1 DEF u
    <3> QED
      BY <2>1, <3>1 DEF Stream, PacketAt, u
  <2>3. Len(u) \in Nat /\ (u = <<>> <=> 1 > Len(u))
    BY <2>1 DEF u
  <2>4. At(sent, u, 1) \in 1..N
    BY <1>3, <2>2, <2>3 DEF At
  <2>5. CASE q = p
    <3>1. Unread(sent', buf', wire', q) = u \o Cells(Len(sent) + 1, pk) /\ wire'[q] = wire[q] \o c
      BY <1>7, <1>11, <2>5, Zenon DEF u, c, N
    <3>2. /\ Stream(sent', q, Unread(sent', buf', wire', q))
          /\ At(sent', Unread(sent', buf', wire', q), 1) = At(sent, u, 1)
      <4>1. u \in Seq(CellSet) /\ Stream(sent, q, u)
        BY <2>1 DEF u
      <4>2. LET s2 == u \o Cells(Len(sent) + 1, pk)
            IN /\ Stream(Append(sent, pk), q, s2)
               /\ At(Append(sent, pk), s2, 1) = At(sent, u, 1)
        BY <1>1, <1>3, <2>5, <4>1, StreamExtended, Zenon
      <4> QED
        BY <1>2, <3>1, <4>2, Zenon
    <3>3. OfPeer(sent', q, wire[q]) /\ OfPeer(sent', q, c)
      BY <1>1, <1>2, <1>3, <2>1, <2>5, OfPeerKept, OfPeerNew DEF c
    <3>4. OfPeer(sent', q, wire'[q])
      BY <1>5, <2>1, <3>1, <3>3, OfPeerJoined
    <3>5. ~(N < At(sent, u, 1))
      BY <1>3, <2>4
    <3> QED
      BY <3>2, <3>4, <3>5, Zenon DEF u
  <2>6. CASE q # p
    <3>1. Unread(sent', buf', wire', q) = u /\ wire'[q] = wire[q]
      BY <1>7, <1>11, <2>6, Zenon DEF u
    <3>2. Stream(sent', q, u)
      BY <1>1, <1>2, <1>3, <2>1, <2>6, StreamOfOther DEF u
    <3>3. OfPeer(sent', q, wire[q])
      BY <1>1, <1>2, <1>3, <2>1, OfPeerKept
    <3>4. \A i \in 1..Len(sent) : i < At(sent', u, 1) <=> i < At(sent, u, 1)
      BY <1>3, <1>4, <2>3 DEF At
    <3> QED
      BY <2>6, <3>1, <3>2, <3>3, <3>4, Zenon DEF u
  <2> QED
    BY <2>5, <2>6
<1>13. Streams'
  BY <1>12 DEF Streams
<1>14. \A k \in 1..Len(out) : out[k].start \in 1..Len(sent)
  BY DEF Untangled, OutAsSent, AsSent
<1>15. ReturnedSoFar'
  <2> SUFFICES ASSUME NEW i \in 1..Len(sent')
               PROVE  Returned(out', i) <=>
                         i < At(sent', Unread(sent', buf', wire', sent'[i].from), 1)
    BY DEF ReturnedSoFar
  <2>1. CASE i \in 1..Len(sent)
    <3>1. sent'[i] = sent[i] /\ sent[i].from \in Peers
      <4>1. sent[i] \in Packet
        BY <1>3, <2>1, ElementOfSeq
      <4> QED
        BY <1>4, <2>1, <4>1 DEF Packet
    <3>2. Returned(out, i) <=> i < At(sent, Unread(sent, buf, wire, sent[i].from), 1)
      BY <2>1 DEF Untangled, ReturnedSoFar
    <3>3. i < At(sent', Unread(sent', buf', wire', sent[i].from), 1)
             <=> i < At(sent, Unread(sent, buf, wire, sent[i].from), 1)
      BY <1>12, <2>1, <3>1
    <3> QED
      BY <1>2, <3>1, <3>2, <3>3, Zenon
  <2>2. CASE i \notin 1..Len(sent)
    <3>1. i = N
      BY <1>3, <1>4, <2>2
    <3>2. ~Returned(out, i)
      BY <1>14, <2>2 DEF Returned
    <3>3. sent'[i].from = p /\ ~(N < At(sent', Unread(sent', buf', wire', p), 1))
      BY <1>1, <1>4, <1>12, <3>1
    <3> HIDE DEF N
    <3> QED
      BY <1>2, <3>1, <3>2, <3>3, Zenon
  <2> QED
    BY <2>1, <2>2
<1>16. OutAsSent'
  <2> SUFFICES ASSUME NEW k \in 1..Len(out)
               PROVE  AsSent(sent', out, k)
    BY <1>2 DEF OutAsSent
  <2>1. AsSent(sent, out, k) /\ out[k].start \in 1..Len(sent)
    BY <1>14 DEF Untangled, OutAsSent
  <2>2. \A j \in 1..out[k].start : j \in 1..Len(sent)
    BY <1>3, <2>1
  <2>3. out[k].start \in 1..Len(sent') /\ sent'[out[k].start] = sent[out[k].start]
        /\ \A j \in 1..out[k].start : sent'[j] = sent[j]
    BY <1>3, <1>4, <2>1, <2>2
  <2> QED
    BY <2>1, <2>3 DEF AsSent
<1> QED
  BY <1>3, <1>4, <1>9, <1>10, <1>13, <1>15, <1>16 DEF Untangled

LEMMA FillUntangled ==
  ASSUME Untangled, NEW p \in Peers, NEW n \in Nat, Fill(p, n), ~disturbed'
  PROVE  Untangled'
<1> DEFINE b == buf \o SubSeq(wire[p], 1, n)
           r == SubSeq(wire[p], n + 1, Len(wire[p]))
           w == [wire EXCEPT ![p] = r]
<1>1. /\ sent \in Seq(Packet) /\ wire \in [Peers -> Seq(CellSet)] /\ buf \in Seq(CellSet)
      /\ wire[p] \in Seq(CellSet) /\ OfPeer(sent, p, wire[p])
  BY DEF Untangled, ParserShapes, Streams
<1>2. n \in 0..Len(wire[p])
  BY <1>1 DEF Fill
<1>3. OfPeer(sent, p, buf)
  <2>1. \A k \in 1..Len(buf) : sent[buf[k].of].from = p
    <3>1. disturbed' = (disturbed \/ \E k \in DOMAIN buf : sent[buf[k].of].from # p)
      BY DEF Fill
    <3>2. DOMAIN buf = 1..Len(buf)
      BY <1>1
    <3> QED
      BY <3>1, <3>2, Zenon
  <2>2. CASE buf = <<>>
    BY <2>2 DEF OfPeer
  <2>3. CASE buf # <<>>
    BY <2>1, <2>3 DEF Untangled, BufferOfOne, OfPeer
  <2> QED
    BY <2>2, <2>3
<1>4. /\ buf' = b /\ wire' = w /\ reading' = p /\ UNCHANGED <<sent, out>>
  BY DEF Fill
<1>5. b \in Seq(CellSet) /\ r \in Seq(CellSet) /\ b \o r = buf \o wire[p]
  <2>1. /\ buf \o SubSeq(wire[p], 1, n) \in Seq(CellSet)
        /\ SubSeq(wire[p], n + 1, Len(wire[p])) \in Seq(CellSet)
    BY <1>1, <1>2, MovedCells
  <2>2. (buf \o SubSeq(wire[p], 1, n)) \o SubSeq(wire[p], n + 1, Len(wire[p]))
           = buf \o wire[p]
    BY <1>1, <1>2, MovedCells, Zenon
  <2> QED
    BY <2>1, <2>2
<1>6. OfPeer(sent, p, b) /\ OfPeer(sent, p, r)
  <2>1. SubSeq(wire[p], 1, n) \in Seq(CellSet)
    BY <1>1, <1>2, MovedCells
  <2>2. OfPeer(sent, p, SubSeq(wire[p], 1, n)) /\ OfPeer(sent, p, r)
    BY <1>1, <1>2, OfPeerParts
  <2> QED
    BY <1>1, <1>3, <2>1, <2>2, OfPeerJoined
<1> HIDE DEF b, r
<1>7. w \in [Peers -> Seq(CellSet)] /\ w[p] = r /\ \A q \in Peers : q # p => w[q] = wire[q]
  BY <1>1, <1>5
<1> HIDE DEF w
<1>8. \A q \in Peers : Unread(sent, b, w, q) = Unread(sent, buf, wire, q)
  <2>1. /\ Unread(sent, b, w, p) = b \o w[p]
        /\ \A q \in Peers : q # p => Unread(sent, b, w, q) = w[q]
    <3>1. w \in [Peers -> Seq(CellSet)] /\ b \in Seq(CellSet) /\ OfPeer(sent, p, b)
      BY <1>5, <1>6, <1>7
    <3>2. \A v \in [Peers -> Seq(CellSet)] :
             /\ Unread(sent, b, v, p) = b \o v[p]
             /\ \A q \in Peers : q # p => Unread(sent, b, v, q) = v[q]
      BY <3>1, UnreadOf, Zenon
    <3> QED
      BY <3>1, <3>2, Zenon
  <2>2. /\ Unread(sent, buf, wire, p) = buf \o wire[p]
        /\ \A q \in Peers : q # p => Unread(sent, buf, wire, q) = wire[q]
    BY <1>1, <1>3, UnreadOf
  <2> QED
    BY <1>5, <1>7, <2>1, <2>2, Zenon
<1>9. ParserShapes'
  BY <1>1, <1>4, <1>5, <1>7 DEF Untangled, ParserShapes
<1>10. BufferOfOne'
  <2>1. b # <<>> => b[1].of \in 1..Len(sent) /\ sent[b[1].of].from = p
    <3>1. b # <<>> => 1 \in 1..Len(b)
      BY <1>5
    <3> QED
      BY <1>6, <3>1 DEF OfPeer
  <2> QED
    BY <1>4, <1>6, <2>1 DEF BufferOfOne
<1>11. Streams'
  <2>1. \A q \in Peers : OfPeer(sent, q, w[q])
    BY <1>6, <1>7 DEF Untangled, Streams
  <2>2. \A q \in Peers : Stream(sent, q, Unread(sent, b, w, q))
    BY <1>8 DEF Untangled, Streams
  <2> QED
    BY <1>4, <2>1, <2>2, Zenon DEF Streams
<1>12. ReturnedSoFar'
  <2>1. \A i \in 1..Len(sent) : sent[i].from \in Peers
    <3>1. \A i \in 1..Len(sent) : sent[i] \in Packet
      BY <1>1, ElementOfSeq
    <3> QED
      BY <3>1 DEF Packet
  <2>2. \A i \in 1..Len(sent) :
           Returned(out, i) <=> i < At(sent, Unread(sent, b, w, sent[i].from), 1)
    BY <1>8, <2>1 DEF Untangled, ReturnedSoFar
  <2> QED
    BY <1>4, <2>2, Zenon DEF ReturnedSoFar
<1>13. OutAsSent'
  BY <1>4, Zenon DEF Untangled, OutAsSent
<1> QED
  BY <1>9, <1>10, <1>11, <1>12, <1>13 DEF Untangled

LEMMA NoneUntangled ==
  ASSUME Untangled, LengthSeen, MarkReadNone
  PROVE  Untangled' /\ (buf # <<>> => Len(buf) < Length(sent[buf[1].of]))
<1>1. UNCHANGED <<sent, wire, buf, out, disturbed>> /\ reading' = Nobody
  BY DEF MarkReadNone
<1>2. Untangled'
  <2>1. ParserShapes' /\ BufferOfOne'
    BY <1>1 DEF Untangled, ParserShapes, BufferOfOne
  <2>2. Streams' /\ ReturnedSoFar' /\ OutAsSent'
    BY <1>1, Zenon DEF Untangled, Streams, ReturnedSoFar, OutAsSent
  <2> QED
    BY <2>1, <2>2 DEF Untangled
<1>3. ASSUME buf # <<>>
      PROVE  Len(buf) < Length(sent[buf[1].of])
  <2> DEFINE i == buf[1].of
  <2>1. i \in Nat /\ sent[i] \in Packet /\ Begins(buf, i, sent[i]) /\ buf \in Seq(CellSet)
    BY <1>3, BufferFirst DEF Untangled, ParserShapes
  <2> HIDE DEF i
  <2>2. Len(buf) < Length(sent[i])
    BY <2>1, NothingReturned
  <2> QED
    BY <2>2 DEF i
<1> QED
  BY <1>2, <1>3

LEMMA BodyShape ==
  ASSUME NEW i \in Nat, NEW n \in Nat
  PROVE  Body(i, n) \in Seq(CellSet)
<1>1. \A k \in 1..n : k \in Nat
  OBVIOUS
<1>2. \A k \in 1..n : Cell("body", i, k) \in CellSet
  BY <1>1, SameCell
<1> QED
  BY <1>2 DEF Body

LEMMA AppendedOut ==
  ASSUME NEW o \in Seq(Out), NEW x \in Out
  PROVE  /\ Append(o, x) \in Seq(Out) /\ Len(o) \in Nat /\ Len(Append(o, x)) = Len(o) + 1
         /\ Append(o, x)[Len(o) + 1] = x /\ \A k \in 1..Len(o) : Append(o, x)[k] = o[k]
         /\ \A m : Returned(Append(o, x), m) <=> Returned(o, m) \/ m = x.start
<1>1. /\ Append(o, x) \in Seq(Out) /\ Len(o) \in Nat /\ Len(Append(o, x)) = Len(o) + 1
      /\ Append(o, x)[Len(o) + 1] = x /\ \A k \in 1..Len(o) : Append(o, x)[k] = o[k]
  OBVIOUS
<1> DEFINE o2 == Append(o, x)
<1> HIDE DEF o2
<1>2. \A k \in 1..Len(o2) : k \in 1..Len(o) \/ k = Len(o) + 1
  BY <1>1 DEF o2
<1>3. Len(o) + 1 \in 1..Len(o2) /\ \A k \in 1..Len(o) : k \in 1..Len(o2)
  BY <1>1 DEF o2
<1>4. /\ o2[Len(o) + 1] = x /\ \A k \in 1..Len(o) : o2[k] = o[k]
  BY <1>1 DEF o2
<1>5. \A m : Returned(o2, m) <=> Returned(o, m) \/ m = x.start
  BY <1>2, <1>3, <1>4 DEF Returned
<1> QED
  BY <1>1, <1>5 DEF o2

LEMMA ReadUntangled ==
  ASSUME Untangled, LengthSeen, MarkRead, UNCHANGED wire, reading' \in {reading, Nobody}
  PROVE  Untangled'
<1> DEFINE i == buf[1].of
           p == sent[i].from
           L == Length(sent[i])
           u == Unread(sent, buf, wire, p)
           t == Following(sent, u)
           new == [start |-> i, to |-> reading, body |-> Body(i, sent[i].body)]
<1>1. /\ sent \in Seq(Packet) /\ wire \in [Peers -> Seq(CellSet)] /\ buf \in Seq(CellSet)
      /\ out \in Seq(Out) /\ reading \in Peers \cup {Nobody}
  BY DEF Untangled, ParserShapes
<1>2. buf # <<>>
  <2>1. PICK e \in HeaderEnd(buf) : TRUE
    BY Zenon DEF MarkRead
  <2> QED
    BY <2>1 DEF HeaderEnd
<1>3. /\ i \in 1..Len(sent) /\ i \in Nat /\ sent[i] \in Packet /\ p \in Peers
      /\ u = buf \o wire[p] /\ wire[p] \in Seq(CellSet)
      /\ u \in Seq(CellSet) /\ u[1] = buf[1] /\ u # <<>> /\ Begins(buf, i, sent[i])
      /\ \A q \in Peers : q # p => Unread(sent, buf, wire, q) = wire[q]
      /\ reading # Nobody => reading = p
  BY <1>2, BufferFirst, Zenon
<1>4. /\ Len(buf) >= L /\ out' = Append(out, new) /\ buf' = SubSeq(buf, L + 1, Len(buf))
      /\ reading # Nobody /\ UNCHANGED <<sent, disturbed>>
  BY <1>1, <1>3, PacketReturned
<1>5. reading = p /\ L \in 0..Len(buf) /\ sent[i].body \in Nat
  <2>1. L \in Nat /\ sent[i].body \in Nat
    BY <1>3, PacketShape
  <2>2. Len(buf) \in Nat
    BY <1>1
  <2> HIDE DEF i, L, p
  <2> QED
    BY <1>3, <1>4, <2>1, <2>2
<1> HIDE DEF u
<1>6. /\ Stream(sent, p, t) /\ t \in Seq(CellSet)
      /\ i < At(sent, t, 1) /\ At(sent, t, 1) \in 1..(Len(sent) + 1)
      /\ \A m \in (i + 1)..(At(sent, t, 1) - 1) : sent[m].from # p
  <2>1. Stream(sent, p, u)
    BY <1>3 DEF Untangled, Streams, u
  <2>2. u[1].of = i
    BY <1>3
  <2>3. sent \in Seq(Packet) /\ u \in Seq(CellSet) /\ u # <<>>
    BY <1>1, <1>3
  <2> HIDE DEF i, p, L
  <2>4. /\ Stream(sent, p, Following(sent, u)) /\ Following(sent, u) \in Seq(CellSet)
        /\ u[1].of < At(sent, Following(sent, u), 1)
        /\ At(sent, Following(sent, u), 1) \in 1..(Len(sent) + 1)
    BY <2>1, <2>3, StreamDropped
  <2>5. NoneBetween(sent, p, u[1].of, At(sent, Following(sent, u), 1))
    BY <2>1, <2>3, StreamDropped
  <2> QED
    BY <2>2, <2>4, <2>5, Zenon DEF NoneBetween
<1>7. t = buf' \o wire[p] /\ buf' \in Seq(CellSet)
  <2>1. SubSeq(buf, L + 1, Len(buf)) \in Seq(CellSet)
    BY <1>1, <1>3, <1>5, DroppedCells, Zenon
  <2>2. \A a, b \in Seq(CellSet) : \A n \in 0..Len(a) :
           SubSeq(a \o b, n + 1, Len(a \o b)) = SubSeq(a, n + 1, Len(a)) \o b
    BY DroppedCells
  <2> HIDE DEF i, L
  <2>3. SubSeq(u, L + 1, Len(u)) = SubSeq(buf, L + 1, Len(buf)) \o wire[p]
    BY <1>1, <1>3, <1>5, <2>2, Zenon
  <2>4. t = SubSeq(u, L + 1, Len(u))
    BY <1>3, Zenon DEF Following, L, i
  <2> QED
    BY <1>4, <2>1, <2>3, <2>4, Zenon
<1>8. OfPeer(sent, p, buf')
  <2>1. OfPeer(sent, p, buf)
    BY <1>2 DEF Untangled, BufferOfOne
  <2> QED
    BY <1>1, <1>4, <1>5, <2>1, OfPeerParts, Zenon
<1> HIDE DEF t
<1>9. ASSUME NEW q \in Peers
      PROVE  Unread(sent', buf', wire', q) = IF q = p THEN t
                                             ELSE Unread(sent, buf, wire, q)
  <2>1. /\ Unread(sent, buf', wire, p) = buf' \o wire[p]
        /\ \A r \in Peers : r # p => Unread(sent, buf', wire, r) = wire[r]
    <3>1. /\ buf' \in Seq(CellSet) /\ wire \in [Peers -> Seq(CellSet)]
          /\ p \in Peers /\ OfPeer(sent, p, buf')
      BY <1>1, <1>3, <1>7, <1>8, Zenon
    <3> HIDE DEF p
    <3> QED
      BY <3>1, UnreadOf, Zenon
  <2>2. sent' = sent /\ wire' = wire
    BY <1>4
  <2>3. Unread(sent', buf', wire', q) = Unread(sent, buf', wire, q)
    BY <2>2, Zenon
  <2>4. CASE q = p
    BY <1>7, <2>1, <2>3, <2>4, Zenon
  <2>5. CASE q # p
    BY <1>3, <2>1, <2>3, <2>5, Zenon
  <2> QED
    BY <2>4, <2>5
<1>10. new \in Out
  BY <1>3, <1>5, BodyShape DEF Out
<1> HIDE DEF i, p, L, new
<1>11. ParserShapes'
  <2>1. out' \in Seq(Out)
    BY <1>1, <1>4, <1>10
  <2> QED
    BY <1>1, <1>4, <1>7, <2>1 DEF ParserShapes
<1>12. BufferOfOne'
  <2>1. ASSUME buf' # <<>>
        PROVE  buf'[1].of \in 1..Len(sent) /\ sent[buf'[1].of].from = p
    <3>1. 1 \in 1..Len(buf')
      BY <1>7, <2>1
    <3> QED
      BY <1>8, <3>1 DEF OfPeer
  <2> QED
    BY <1>4, <1>5, <1>8, <2>1 DEF BufferOfOne
<1>13. Streams'
  <2>1. ASSUME NEW q \in Peers
        PROVE  Stream(sent', q, Unread(sent', buf', wire', q)) /\ OfPeer(sent', q, wire'[q])
    <3>1. Stream(sent, q, Unread(sent, buf, wire, q)) /\ OfPeer(sent, q, wire[q])
      BY DEF Untangled, Streams
    <3>2. sent' = sent /\ wire' = wire
      BY <1>4
    <3>3. CASE q = p
      BY <1>6, <1>9, <3>1, <3>2, <3>3, Zenon
    <3>4. CASE q # p
      BY <1>9, <3>1, <3>2, <3>4, Zenon
    <3> QED
      BY <3>3, <3>4
  <2> QED
    BY <2>1, Zenon DEF Streams
<1>14. \A m : Returned(out', m) <=> Returned(out, m) \/ m = i
  BY <1>1, <1>4, <1>10, AppendedOut DEF new
<1>15. At(sent, u, 1) = i
  <2>1. ~(1 > Len(u)) /\ u[1].of = i
    BY <1>3 DEF i
  <2> QED
    BY <2>1 DEF At
<1>16. ASSUME NEW m \in 1..Len(sent)
       PROVE  Returned(out', m) <=>
                 m < At(sent', Unread(sent', buf', wire', sent'[m].from), 1)
  <2>1. sent' = sent /\ sent[m].from \in Peers
    <3>1. sent[m] \in Packet
      BY <1>1, ElementOfSeq
    <3> QED
      BY <1>4, <3>1 DEF Packet
  <2>2. Returned(out, m) <=> m < At(sent, Unread(sent, buf, wire, sent[m].from), 1)
    BY DEF Untangled, ReturnedSoFar
  <2>3. CASE sent[m].from = p
    <3>1. Returned(out, m) <=> m < i
      BY <1>15, <2>2, <2>3, Zenon DEF u
    <3>2. Unread(sent', buf', wire', sent'[m].from) = t
      BY <1>9, <2>1, <2>3, Zenon
    <3>3. m < At(sent, t, 1) <=> m < i \/ m = i
      <4> DEFINE a == At(sent, t, 1)
      <4>1. /\ i < a /\ a \in 1..(Len(sent) + 1) /\ Len(sent) \in Nat /\ i \in 1..Len(sent)
            /\ m \notin (i + 1)..(a - 1)
        BY <1>1, <1>3, <1>6, <2>3
      <4> HIDE DEF a
      <4> QED
        BY <4>1 DEF a
    <3> QED
      BY <1>14, <2>1, <3>1, <3>2, <3>3, Zenon
  <2>4. CASE sent[m].from # p
    <3>1. m # i
      BY <2>4 DEF p
    <3>2. Unread(sent', buf', wire', sent'[m].from) = Unread(sent, buf, wire, sent[m].from)
      BY <1>9, <2>1, <2>4, Zenon
    <3> QED
      BY <1>14, <2>1, <2>2, <3>1, <3>2, Zenon
  <2> QED
    BY <2>3, <2>4
<1>17. ReturnedSoFar'
  BY <1>4, <1>16 DEF ReturnedSoFar
<1>18. ASSUME NEW k \in 1..Len(out')
       PROVE  AsSent(sent', out', k)
  <2>1. /\ Len(out) \in Nat /\ Len(out') = Len(out) + 1 /\ out'[Len(out) + 1] = new
        /\ \A l \in 1..Len(out) : out'[l] = out[l]
    BY <1>1, <1>4, <1>10, AppendedOut
  <2>2. CASE k \in 1..Len(out)
    <3>1. AsSent(sent, out, k) /\ out'[k] = out[k]
      BY <2>1, <2>2 DEF Untangled, OutAsSent
    <3>2. \A l \in 1..(k - 1) : out'[l] = out[l]
      BY <2>1, <2>2
    <3> QED
      BY <1>4, <3>1, <3>2 DEF AsSent
  <2>3. CASE k = Len(out) + 1
    <3>1. out'[k] = new /\ new.start = i /\ new.to = p /\ new.body = Body(i, sent[i].body)
      BY <1>5, <2>1, <2>3 DEF new
    <3>2. \A l \in 1..(k - 1) : l \in 1..Len(out) /\ out'[l] = out[l]
      BY <2>1, <2>3
    <3>3. k - 1 = Len(out)
      BY <2>1, <2>3
    <3>4. \A j : Returned(out, j) <=> \E l \in 1..(k - 1) : out'[l].start = j
      BY <3>2, <3>3, Zenon DEF Returned
    <3>5. ASSUME NEW j \in 1..i, sent[j].from = p
          PROVE  j < i <=> \E l \in 1..(k - 1) : out'[l].start = j
      <4>1. j \in 1..Len(sent)
        BY <1>3
      <4>2. Returned(out, j) <=> j < At(sent, Unread(sent, buf, wire, p), 1)
        BY <3>5, <4>1 DEF Untangled, ReturnedSoFar
      <4> QED
        BY <1>15, <3>4, <4>2, Zenon DEF u
    <3>6. sent' = sent /\ sent[i].from = p /\ i \in 1..Len(sent)
      BY <1>3, <1>4 DEF p
    <3> QED
      BY <3>1, <3>5, <3>6, Zenon DEF AsSent
  <2> QED
    BY <2>1, <2>2, <2>3
<1>19. OutAsSent'
  BY <1>18 DEF OutAsSent
<1> QED
  BY <1>11, <1>12, <1>13, <1>17, <1>19 DEF Untangled

-----------------------------------------------------------------------------
\* The types of the parser, whatever is in its buffer.

CellsUpTo(n) == [is : {"start", "empty", "body"} \cup Fields, of : 1..n, val : Nat]

Info(n) == [start : 0..n, length : Nat \cup {NoLength}]

ParserTypes ==
    /\ sent \in Seq(Packet) /\ wire \in [Peers -> Seq(CellsUpTo(Len(sent)))]
    /\ buf \in Seq(CellsUpTo(Len(sent))) /\ packet \in Info(Len(sent))
    /\ out \in Seq(Out) /\ reading \in Peers \cup {Nobody}

LEMMA SeqOfCells ==
  ASSUME NEW n \in Nat, NEW s \in Seq(CellsUpTo(n))
  PROVE  s \in Seq(CellsUpTo(n + 1)) /\ s \in Seq(CellSet)
<1>1. CellsUpTo(n) \subseteq CellsUpTo(n + 1) /\ CellsUpTo(n) \subseteq CellSet
  BY DEF CellsUpTo, CellSet
<1> QED
  BY <1>1

LEMMA CellsFit ==
  ASSUME NEW i \in Nat \ {0}, NEW p \in Packet
  PROVE  Cells(i, p) \in Seq(CellsUpTo(i))
<1> DEFINE c == Cells(i, p)
<1>1. c \in Seq(CellSet) /\ Len(c) = Length(p)
  BY CellsShape
<1>2. \A k \in 1..Len(c) : c[k] \in CellSet /\ c[k].of = i
  BY <1>1, CellsTellApart
<1> HIDE DEF c
<1>3. \A x \in CellSet : x.of = i => x \in CellsUpTo(i)
  BY DEF CellSet, CellsUpTo
<1>4. \A k \in 1..Len(c) : c[k] \in CellsUpTo(i)
  BY <1>2, <1>3
<1>5. c \in Seq(CellsUpTo(i))
  BY <1>1, <1>4
<1> QED
  BY <1>5 DEF c

LEMMA TypesInit ==
  ASSUME ParserInit
  PROVE  ParserTypes
  BY DEF ParserInit, ParserTypes, Info

LEMMA SendsTypes ==
  ASSUME ParserTypes, NEW p \in Peers, NEW head \in Headers, NEW n \in Bodies,
         PeerSends(p, head, n)
  PROVE  ParserTypes'
<1> DEFINE pk == [from |-> p, head |-> head, body |-> n]
           N == Len(sent) + 1
           c == Cells(N, pk)
<1>1. pk \in Packet
  BY DEF Packet
<1> HIDE DEF pk
<1>2. sent \in Seq(Packet) /\ Len(sent) \in Nat /\ N \in Nat \ {0}
  BY DEF ParserTypes
<1>3. /\ sent' = Append(sent, pk) /\ UNCHANGED <<buf, packet, out, reading, disturbed>>
      /\ wire' = [wire EXCEPT ![p] = @ \o Cells(Len(sent'), sent'[Len(sent')])]
  BY DEF PeerSends, pk
<1>4. sent' \in Seq(Packet) /\ Len(sent') = N /\ sent'[N] = pk
  BY <1>1, <1>2, <1>3, SentShape
<1>5. c \in Seq(CellsUpTo(N))
  BY <1>1, <1>2, CellsFit
<1>6. wire' = [wire EXCEPT ![p] = wire[p] \o c]
  BY <1>3, <1>4
<1> HIDE DEF c, N
<1>7. \A q \in Peers : wire[q] \in Seq(CellsUpTo(N))
  <2>1. \A q \in Peers : wire[q] \in Seq(CellsUpTo(Len(sent)))
    BY DEF ParserTypes
  <2> QED
    BY <1>2, <2>1, SeqOfCells DEF N
<1>8. wire[p] \o c \in Seq(CellsUpTo(N))
  BY <1>5, <1>7, ConcatProperties
<1>9. wire' \in [Peers -> Seq(CellsUpTo(N))]
  BY <1>6, <1>7, <1>8 DEF ParserTypes
<1>10. buf \in Seq(CellsUpTo(N)) /\ packet \in Info(N)
  <2>1. packet \in Info(N)
    BY <1>2 DEF ParserTypes, Info, N
  <2> QED
    BY <1>2, <2>1, SeqOfCells DEF ParserTypes, N
<1> QED
  BY <1>3, <1>4, <1>9, <1>10 DEF ParserTypes

LEMMA FillTypes ==
  ASSUME ParserTypes, NEW p \in Peers, NEW n \in Nat, Fill(p, n)
  PROVE  /\ ParserTypes' /\ n \in 0..Len(wire[p])
         /\ Len(buf') = Len(buf) + n
         /\ \A k \in 1..Len(buf) : buf'[k] = buf[k]
         /\ \A k \in 1..n : buf'[Len(buf) + k] = wire[p][k]
         /\ Len(wire'[p]) = Len(wire[p]) - n
         /\ \A k \in 1..(Len(wire[p]) - n) : wire'[p][k] = wire[p][n + k]
<1> DEFINE S == CellsUpTo(Len(sent))
           w == wire[p]
           a == SubSeq(w, 1, n)
           r == SubSeq(w, n + 1, Len(w))
           b == buf \o a
<1>1. /\ w \in Seq(S) /\ Len(w) \in Nat /\ buf \in Seq(S) /\ Len(buf) \in Nat
      /\ wire \in [Peers -> Seq(S)]
  BY DEF ParserTypes
<1> HIDE DEF S
<1>2. /\ wire' = [wire EXCEPT ![p] = r] /\ buf' = b /\ reading' = p
      /\ UNCHANGED <<sent, packet, out>> /\ n <= Len(w)
  BY DEF Fill
<1> HIDE DEF w
<1>3. n \in 0..Len(w)
  BY <1>1, <1>2
<1>4. a \in Seq(S) /\ Len(a) = n /\ \A k \in 1..n : a[k] = w[k]
  <2>1. /\ SubSeq(w, 1, n) \in Seq(S)
        /\ Len(SubSeq(w, 1, n)) = IF 1 <= n THEN n - 1 + 1 ELSE 0
        /\ \A k \in 1..(n - 1 + 1) : SubSeq(w, 1, n)[k] = w[1 + k - 1]
    BY <1>1, <1>3, Part
  <2> HIDE DEF a
  <2> QED
    BY <2>1 DEF a
<1>5. r \in Seq(S) /\ Len(r) = Len(w) - n /\ \A k \in 1..(Len(w) - n) : r[k] = w[n + k]
  BY <1>1, <1>3, Behind
<1> HIDE DEF a, r
<1>6. /\ b \in Seq(S) /\ Len(b) = Len(buf) + n
      /\ \A k \in 1..(Len(buf) + n) : b[k] = IF k <= Len(buf) THEN buf[k] ELSE a[k - Len(buf)]
  BY <1>1, <1>4, ConcatProperties
<1> HIDE DEF b
<1>7. \A k \in 1..Len(buf) : b[k] = buf[k]
  BY <1>1, <1>6
<1>8. \A k \in 1..n : b[Len(buf) + k] = w[k]
  <2> SUFFICES ASSUME NEW k \in 1..n PROVE b[Len(buf) + k] = w[k]
    OBVIOUS
  <2>1. Len(buf) + k \in 1..(Len(buf) + n) /\ ~(Len(buf) + k <= Len(buf))
        /\ (Len(buf) + k) - Len(buf) = k
    BY <1>1
  <2> QED
    BY <1>4, <1>6, <2>1
<1>9. wire'[p] = r /\ wire' \in [Peers -> Seq(S)]
  BY <1>1, <1>2, <1>5
<1>10. ParserTypes'
  BY <1>2, <1>6, <1>9 DEF ParserTypes, S
<1> QED
  BY <1>2, <1>3, <1>5, <1>6, <1>7, <1>8, <1>9, <1>10 DEF w

LEMMA ParseHeaderTypes ==
  ASSUME NEW n \in Nat, NEW b \in Seq(CellsUpTo(n)), NEW e \in HeaderEnd(b), NEW pkt \in Info(n)
  PROVE  /\ e \in 1..Len(b) /\ Len(b) \in Nat
         /\ ParseHeader(pkt, SubSeq(b, 1, e - 1)) \in Info(n)
<1> DEFINE header == SubSeq(b, 1, e - 1)
           seen == Front(header)
           lengths == {i \in DOMAIN seen : seen[i].is = "CONTENT-LENGTH"}
           last == CHOOSE i \in lengths : \A j \in lengths : j <= i
<1>1. e \in 1..Len(b) /\ Len(b) \in Nat
  BY DEF HeaderEnd
<1>2. header \in Seq(CellsUpTo(n))
  <2>1. \A i \in 1..(e - 1) : b[i] \in CellsUpTo(n)
    BY <1>1
  <2>2. 1 \in Int /\ e - 1 \in Int
    BY <1>1
  <2> QED
    BY <2>1, <2>2, SubSeqProperties
<1> HIDE DEF header
<1>3. seen \in Seq(CellsUpTo(n))
  <2>1. \A i \in 1..(Len(header) - 1) : header[i] \in CellsUpTo(n)
    BY <1>2
  <2>2. 1 \in Int /\ Len(header) - 1 \in Int
    BY <1>2
  <2>3. SubSeq(header, 1, Len(header) - 1) \in Seq(CellsUpTo(n))
    BY <2>1, <2>2, SubSeqProperties
  <2> QED
    BY <2>3 DEF Front
<1> HIDE DEF seen
<1>4. Len(seen) \in Nat /\ DOMAIN seen = 1..Len(seen)
      /\ \A i \in 1..Len(seen) : seen[i] \in CellsUpTo(n)
  BY <1>3
<1>5. lengths # {} => seen[last].val \in Nat
  <2>1. lengths \subseteq 1..Len(seen)
    BY <1>4
  <2>2. lengths # {} => \E i \in lengths : \A j \in lengths : j <= i
    BY <1>4, <2>1, LastOf
  <2> HIDE DEF lengths
  <2>3. lengths # {} => last \in lengths
    BY <2>2
  <2> HIDE DEF last
  <2> QED
    BY <1>4, <2>1, <2>3 DEF CellsUpTo
<1>6. seen # <<>> => seen[1].of \in 0..n
  <2>1. seen # <<>> => 1 \in 1..Len(seen)
    BY <1>3, <1>4
  <2> QED
    BY <1>4, <2>1 DEF CellsUpTo
<1>7. ParseHeader(pkt, header) =
         [start |-> IF seen = <<>> THEN pkt.start ELSE seen[1].of,
          length |-> IF lengths = {} THEN pkt.length ELSE seen[last].val]
  BY DEF ParseHeader, seen
<1> HIDE DEF lengths, last
<1>8. ParseHeader(pkt, header) \in Info(n)
  BY <1>5, <1>6, <1>7 DEF Info
<1> QED
  BY <1>1, <1>8 DEF header

LEMMA NoneTypes ==
  ASSUME ParserTypes, MarkReadNone
  PROVE  ParserTypes' /\ UNCHANGED <<sent, wire, buf, out>> /\ reading # Nobody
<1>1. UNCHANGED <<sent, wire, buf, out>> /\ reading' = Nobody /\ reading # Nobody
  BY DEF MarkReadNone
<1>2. sent \in Seq(Packet) /\ Len(sent) \in Nat
  BY DEF ParserTypes
<1>3. packet' \in Info(Len(sent))
  <2>1. packet \in Info(Len(sent)) /\ buf \in Seq(CellsUpTo(Len(sent)))
    BY DEF ParserTypes
  <2>2. \/ packet' = packet
        \/ \E e \in HeaderEnd(buf) : packet' = ParseHeader(packet, SubSeq(buf, 1, e - 1))
    BY Zenon DEF MarkReadNone
  <2> QED
    BY <1>2, <2>1, <2>2, ParseHeaderTypes
<1> QED
  BY <1>1, <1>3 DEF ParserTypes

LEMMA ReadTypes ==
  ASSUME ParserTypes, MarkRead, UNCHANGED wire, reading' \in {reading, Nobody}
  PROVE  /\ ParserTypes' /\ reading # Nobody /\ sent' = sent /\ buf # <<>>
         /\ out' # <<>> /\ Last(out').start \in 0..Len(sent)
<1> DEFINE S == CellsUpTo(Len(sent))
<1>1. /\ sent \in Seq(Packet) /\ Len(sent) \in Nat /\ buf \in Seq(S)
      /\ packet \in Info(Len(sent)) /\ out \in Seq(Out) /\ reading \in Peers \cup {Nobody}
  BY DEF ParserTypes
<1>2. reading # Nobody /\ sent' = sent
  BY DEF MarkRead
<1>3. PICK e \in HeaderEnd(buf) :
         LET pkt == ParseHeader(packet, SubSeq(buf, 1, e - 1))
         IN /\ Complete(pkt.length, Len(buf) - e)
            /\ packet' = pkt
            /\ out' = Append(out, [start |-> pkt.start, to |-> reading,
                                   body |-> SubSeq(buf, e + 1, e + pkt.length)])
            /\ buf' = Rest(buf, e + pkt.length + 1)
  BY Zenon DEF MarkRead
<1> DEFINE pkt == ParseHeader(packet, SubSeq(buf, 1, e - 1))
           body == SubSeq(buf, e + 1, e + pkt.length)
           new == [start |-> pkt.start, to |-> reading, body |-> body]
<1>4. e \in 1..Len(buf) /\ Len(buf) \in Nat /\ pkt \in Info(Len(sent))
  BY <1>1, ParseHeaderTypes
<1>5. /\ Complete(pkt.length, Len(buf) - e) /\ packet' = pkt /\ out' = Append(out, new)
      /\ buf' = Rest(buf, e + pkt.length + 1)
  BY <1>3
<1> HIDE DEF pkt
<1>6. pkt.start \in 0..Len(sent) /\ pkt.length \in Nat /\ e + pkt.length \in 0..Len(buf)
  BY <1>4, <1>5 DEF Info, Complete
<1>7. SubSeq(buf, e + pkt.length + 1, Len(buf)) \in Seq(S)
  BY <1>1, <1>6, Behind
<1>8. body \in Seq(CellSet)
  <2>1. buf \in Seq(CellSet)
    BY <1>1, SeqOfCells
  <2>2. \A i \in (e + 1)..(e + pkt.length) : buf[i] \in CellSet
    BY <1>4, <1>6, <2>1
  <2>3. e + 1 \in Int /\ e + pkt.length \in Int
    BY <1>4, <1>6
  <2> QED
    BY <2>2, <2>3, SubSeqProperties
<1> HIDE DEF body
<1>9. new \in Out /\ new.start = pkt.start
  BY <1>1, <1>2, <1>6, <1>8 DEF Out
<1> HIDE DEF new
<1>10. out' \in Seq(Out) /\ out' # <<>> /\ Last(out') = new
  <2>1. /\ out' \in Seq(Out) /\ Len(out) \in Nat /\ Len(out') = Len(out) + 1
        /\ out'[Len(out) + 1] = new
    BY <1>1, <1>5, <1>9, AppendedOut
  <2> QED
    BY <2>1 DEF Last
<1>11. buf' \in Seq(S)
  BY <1>5, <1>7 DEF Rest
<1>12. ParserTypes'
  <2>1. wire' = wire /\ reading' \in Peers \cup {Nobody} /\ packet' \in Info(Len(sent))
    BY <1>1, <1>4, <1>5
  <2> QED
    BY <1>1, <1>2, <1>10, <1>11, <2>1 DEF ParserTypes
<1>13. buf # <<>>
  BY <1>4
<1> QED
  BY <1>2, <1>6, <1>9, <1>10, <1>12, <1>13
=============================================================================
