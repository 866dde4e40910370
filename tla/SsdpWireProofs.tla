--------------------------- MODULE SsdpWireProofs ---------------------------
(***************************************************************************)
(* What reading and writing make of a message, for headers of any length   *)
(* over any lines.  The reader and the writer are recursive functions; an  *)
(* invariant of theirs is shown by the least step at which it would fail.  *)
(***************************************************************************)
EXTENDS SsdpWire, WellFoundedInduction, SequenceTheorems, TLAPS

LEMMA Least ==
  ASSUME NEW T, T \subseteq Nat, T # {}
  PROVE  \E n \in T : \A m \in T : n <= m
<1>1. \E n \in T : \A m \in T : ~(<<m, n>> \in OpToRel(<, Nat))
  BY WFMin, NatLessThanWellFounded, Zenon
<1>2. \A x, y \in Nat : y < x => <<y, x>> \in OpToRel(<, Nat)
  BY Zenon DEF OpToRel
<1>3. PICK n \in T : \A m \in T : ~(m < n)
  BY <1>1, <1>2, Zenon
<1> QED
  BY <1>3

-----------------------------------------------------------------------------
\* The line j of t is a header line with that key.
At(t, j, key) == t[j].key = key /\ t[j] # EmptyLine

\* What has been read after i lines: of a known key the last line, of any other
\* the first.
KnownRead(t, i, keys, known) ==
    /\ known = [k \in keys |-> known[k]]
    /\ \A k \in keys :
          \/ known[k] = Empty /\ \A j \in 2..i : ~At(t, j, k)
          \/ \E j \in 2..i : /\ At(t, j, k) /\ known[k] = t[j].val
                             /\ \A h \in (j + 1)..i : ~At(t, h, k)

CustomRead(t, i, keys, custom) ==
    /\ custom = [k \in DOMAIN custom |-> custom[k]]
    /\ \A k : k \in DOMAIN custom <=> k \notin keys /\ \E j \in 2..i : At(t, j, k)
    /\ \A k \in DOMAIN custom :
          \E j \in 2..i : /\ At(t, j, k) /\ custom[k] = t[j].val
                          /\ \A h \in 2..(j - 1) : ~At(t, h, k)

HaveRead(t, i, keys, acc) ==
    /\ acc = [known |-> acc.known, custom |-> acc.custom]
    /\ KnownRead(t, i, keys, acc.known)
    /\ CustomRead(t, i, keys, acc.custom)

LEMMA BeginRead ==
  ASSUME NEW t, NEW keys
  PROVE  HaveRead(t, 1, keys, [known |-> [k \in keys |-> Empty], custom |-> <<>>])
<1>1. KnownRead(t, 1, keys, [k \in keys |-> Empty])
  BY DEF KnownRead
<1>2. CustomRead(t, 1, keys, <<>>)
  BY DEF CustomRead
<1> QED
  BY <1>1, <1>2 DEF HaveRead

\* The callback keeps what HaveRead says.
LEMMA LineRead ==
  ASSUME NEW t, NEW i \in Nat, i >= 1, NEW keys, NEW acc, HaveRead(t, i, keys, acc)
  PROVE  HaveRead(t, i + 1, keys, ReadLine(acc, t[i + 1]))
<1> DEFINE line == t[i + 1]
           known == acc.known
           custom == acc.custom
<1>1. acc = [known |-> known, custom |-> custom]
      /\ KnownRead(t, i, keys, known) /\ CustomRead(t, i, keys, custom)
  BY DEF HaveRead
<1>2. 2..(i + 1) = (2..i) \cup {i + 1}
  OBVIOUS
<1>3. CASE line = EmptyLine
  <2>1. \A k : ~At(t, i + 1, k)
    BY <1>3 DEF At
  <2>2. KnownRead(t, i + 1, keys, known)
    BY <1>1, <1>2, <2>1 DEF KnownRead
  <2>3. CustomRead(t, i + 1, keys, custom)
    BY <1>1, <1>2, <2>1 DEF CustomRead
  <2> QED
    BY <1>1, <1>3, <2>2, <2>3 DEF HaveRead, ReadLine
<1>4. CASE line # EmptyLine /\ line.key \in keys
  <2> DEFINE new == [known EXCEPT ![line.key] = line.val]
  <2>1. \A k : At(t, i + 1, k) <=> k = line.key
    BY <1>4 DEF At
  <2>2. KnownRead(t, i + 1, keys, new)
    BY <1>1, <1>2, <1>4, <2>1 DEF KnownRead
  <2>3. CustomRead(t, i + 1, keys, custom)
    BY <1>1, <1>2, <1>4, <2>1 DEF CustomRead
  <2>4. DOMAIN known = keys
    BY <1>1 DEF KnownRead
  <2>5. ReadLine(acc, line) = [known |-> new, custom |-> custom]
    BY <1>1, <1>4, <2>4 DEF ReadLine
  <2> QED
    BY <2>2, <2>3, <2>5 DEF HaveRead
<1>5. CASE line # EmptyLine /\ line.key \notin keys
  <2> DEFINE new == Insert(custom, [k \in {line.key} |-> line.val])
  <2>1. \A k : At(t, i + 1, k) <=> k = line.key
    BY <1>5 DEF At
  <2>2. KnownRead(t, i + 1, keys, known)
    BY <1>1, <1>2, <1>5, <2>1 DEF KnownRead
  <2>3. /\ new = [k \in DOMAIN new |-> new[k]]
        /\ DOMAIN new = (DOMAIN custom) \cup {line.key}
        /\ \A k \in DOMAIN custom : new[k] = custom[k]
        /\ line.key \notin DOMAIN custom => new[line.key] = line.val
    BY DEF Insert
  <2>4. CustomRead(t, i + 1, keys, new)
    BY <1>1, <1>2, <1>5, <2>1, <2>3 DEF CustomRead
  <2>5. DOMAIN known = keys
    BY <1>1 DEF KnownRead
  <2>6. ReadLine(acc, line) = [known |-> known, custom |-> new]
    BY <1>1, <1>5, <2>5 DEF ReadLine
  <2> QED
    BY <2>2, <2>4, <2>6 DEF HaveRead
<1> QED
  BY <1>3, <1>4, <1>5

\* f is the reader for the first n lines: its recursive definition defines it.
Reads(f, n, t, keys) ==
    f = [i \in 1..n |->
            IF i = 1 THEN [known |-> [k \in keys |-> Empty], custom |-> <<>>]
            ELSE ReadLine(f[i - 1], t[i])]

LEMMA ReaderExists ==
  ASSUME NEW t, NEW keys, NEW n \in Nat
  PROVE  \E f : Reads(f, n, t, keys)
<1> DEFINE first == [known |-> [k \in keys |-> Empty], custom |-> <<>>]
           Is(f, m) == f = [i \in 1..m |-> IF i = 1 THEN first ELSE ReadLine(f[i - 1], t[i])]
           T == {m \in Nat : ~\E f : Is(f, m)}
<1> HIDE DEF first
<1>1. SUFFICES ASSUME T # {} PROVE FALSE
  <2>1. \A f : Is(f, n) => Reads(f, n, t, keys)
    BY Zenon DEF Reads, first
  <2> HIDE DEF Is
  <2> QED
    BY <2>1
<1>2. PICK m \in T : \A k \in T : m <= k
  <2>1. T \subseteq Nat
    OBVIOUS
  <2> HIDE DEF T
  <2> QED
    BY <1>1, <2>1, Least
<1>3. m \in Nat /\ m # 0
  <2>1. Is([i \in 1..0 |-> 0], 0)
    OBVIOUS
  <2> QED
    BY <1>2, <2>1
<1>4. PICK f : Is(f, m - 1)
  <2>1. m - 1 \in Nat /\ ~(m <= m - 1)
    BY <1>3
  <2>2. m - 1 \notin T
    BY <1>2, <2>1
  <2> QED
    BY <2>1, <2>2
<1> DEFINE g == [i \in 1..m |-> IF i < m THEN f[i]
                                ELSE IF m = 1 THEN first ELSE ReadLine(f[m - 1], t[m])]
<1>5. Is(g, m)
  <2>1. \A i \in 1..(m - 1) : f[i] = IF i = 1 THEN first ELSE ReadLine(f[i - 1], t[i])
    BY <1>4
  <2>2. \A i \in 1..m : g[i] = IF i = 1 THEN first ELSE ReadLine(g[i - 1], t[i])
    BY <1>3, <2>1
  <2> QED
    BY <2>2
<1> QED
  BY <1>2, <1>5

LEMMA Reader ==
  ASSUME NEW t, NEW keys, Len(t) \in Nat, NEW i \in 1..Len(t)
  PROVE  ReadLines(t, keys)[i] =
            IF i = 1 THEN [known |-> [k \in keys |-> Empty], custom |-> <<>>]
            ELSE ReadLine(ReadLines(t, keys)[i - 1], t[i])
<1>1. \E f : Reads(f, Len(t), t, keys)
  BY ReaderExists
<1>2. ReadLines(t, keys) = CHOOSE f : Reads(f, Len(t), t, keys)
  BY Zenon DEF ReadLines, Reads
<1>3. Reads(ReadLines(t, keys), Len(t), t, keys)
  BY <1>1, <1>2, Zenon
<1> QED
  BY <1>3 DEF Reads

\* A message read to its end.
LEMMA AllRead ==
  ASSUME NEW t, NEW keys, Len(t) \in Nat \ {0}
  PROVE  HaveRead(t, Len(t), keys, ParseSddp(t, keys))
<1> DEFINE read == ReadLines(t, keys)
           T == {i \in 1..Len(t) : ~HaveRead(t, i, keys, read[i])}
<1>1. SUFFICES ASSUME T # {} PROVE FALSE
  BY DEF ParseSddp
<1>2. PICK m \in T : \A k \in T : m <= k
  <2>1. T \subseteq Nat
    OBVIOUS
  <2> HIDE DEF T
  <2> QED
    BY <1>1, <2>1, Least
<1>3. m # 1
  <2>1. read[1] = [known |-> [k \in keys |-> Empty], custom |-> <<>>]
    BY Reader
  <2> QED
    BY <1>2, <2>1, BeginRead
<1>4. m - 1 \in Nat /\ m - 1 >= 1 /\ m - 1 \in 1..Len(t) /\ m = (m - 1) + 1 /\ ~(m <= m - 1)
  BY <1>2, <1>3
<1>5. HaveRead(t, m - 1, keys, read[m - 1])
  BY <1>2, <1>4
<1>6. read[m] = ReadLine(read[m - 1], t[m])
  BY <1>2, <1>3, Reader
<1>7. HaveRead(t, (m - 1) + 1, keys, ReadLine(read[m - 1], t[(m - 1) + 1]))
  <2> HIDE DEF read
  <2> QED
    BY <1>4, <1>5, LineRead
<1> QED
  BY <1>2, <1>4, <1>6, <1>7

-----------------------------------------------------------------------------
\* The lines of the fields, and what is written of them for the first keys.
LinesOf(fields) == {Line(k, fields[k]) : k \in DOMAIN fields}

HaveWritten(i, fields, w) ==
    /\ w \in Seq(LinesOf(fields))
    /\ \A j \in 1..i : KeyOrder[j] \in DOMAIN fields =>
          \E h \in 1..Len(w) : w[h] = Line(KeyOrder[j], fields[KeyOrder[j]])

LEMMA KeyWritten ==
  ASSUME NEW fields, NEW i \in Nat, NEW w, HaveWritten(i, fields, w)
  PROVE  /\ KeyOrder[i + 1] \in DOMAIN fields =>
               HaveWritten(i + 1, fields,
                           Append(w, Line(KeyOrder[i + 1], fields[KeyOrder[i + 1]])))
         /\ KeyOrder[i + 1] \notin DOMAIN fields => HaveWritten(i + 1, fields, w)
<1>1. 1..(i + 1) = (1..i) \cup {i + 1}
  OBVIOUS
<1>2. ASSUME KeyOrder[i + 1] \in DOMAIN fields
      PROVE  HaveWritten(i + 1, fields,
                         Append(w, Line(KeyOrder[i + 1], fields[KeyOrder[i + 1]])))
  <2> DEFINE line == Line(KeyOrder[i + 1], fields[KeyOrder[i + 1]])
             new == Append(w, line)
  <2>1. line \in LinesOf(fields) /\ w \in Seq(LinesOf(fields))
    BY <1>2 DEF LinesOf, HaveWritten
  <2> HIDE DEF line
  <2>2. /\ new \in Seq(LinesOf(fields)) /\ Len(new) = Len(w) + 1
        /\ \A h \in 1..Len(w) : new[h] = w[h]
        /\ new[Len(new)] = line /\ Len(w) \in Nat
    BY <2>1, AppendProperties
  <2> HIDE DEF new
  <2>3. \A j \in 1..(i + 1) : KeyOrder[j] \in DOMAIN fields =>
            \E h \in 1..Len(new) : new[h] = Line(KeyOrder[j], fields[KeyOrder[j]])
    <3>1. ASSUME NEW j \in 1..i, KeyOrder[j] \in DOMAIN fields
          PROVE  \E h \in 1..Len(new) : new[h] = Line(KeyOrder[j], fields[KeyOrder[j]])
      <4>1. PICK h \in 1..Len(w) : w[h] = Line(KeyOrder[j], fields[KeyOrder[j]])
        BY <3>1 DEF HaveWritten
      <4>2. h \in 1..Len(new) /\ new[h] = w[h]
        BY <2>2
      <4> QED
        BY <4>1, <4>2
    <3>2. Len(new) \in 1..Len(new)
      BY <2>2
    <3>3. new[Len(new)] = Line(KeyOrder[i + 1], fields[KeyOrder[i + 1]])
      BY <2>2 DEF line
    <3> QED
      BY <1>1, <3>1, <3>2, <3>3
  <2> QED
    BY <2>2, <2>3 DEF HaveWritten, new, line
<1>3. ASSUME KeyOrder[i + 1] \notin DOMAIN fields
      PROVE  HaveWritten(i + 1, fields, w)
  BY <1>1, <1>3 DEF HaveWritten
<1> QED
  BY <1>2, <1>3

\* f is the writer for the first n keys.
Writes(f, n, fields) ==
    f = [i \in 0..n |->
            IF i = 0 THEN <<>>
            ELSE IF KeyOrder[i] \in DOMAIN fields
            THEN Append(f[i - 1], Line(KeyOrder[i], fields[KeyOrder[i]]))
            ELSE f[i - 1]]

LEMMA WriterExists ==
  ASSUME NEW fields, NEW n \in Nat
  PROVE  \E f : Writes(f, n, fields)
<1> DEFINE Next1(i, w) == IF KeyOrder[i] \in DOMAIN fields
                          THEN Append(w, Line(KeyOrder[i], fields[KeyOrder[i]])) ELSE w
           Is(f, m) == f = [i \in 0..m |-> IF i = 0 THEN <<>> ELSE Next1(i, f[i - 1])]
           T == {m \in Nat : ~\E f : Is(f, m)}
<1>1. SUFFICES ASSUME T # {} PROVE FALSE
  <2>1. \A f : Is(f, n) => Writes(f, n, fields)
    BY Zenon DEF Writes
  <2> HIDE DEF Is
  <2> QED
    BY <2>1
<1> HIDE DEF Next1
<1>2. PICK m \in T : \A k \in T : m <= k
  <2>1. T \subseteq Nat
    OBVIOUS
  <2> HIDE DEF T
  <2> QED
    BY <1>1, <2>1, Least
<1>3. m \in Nat /\ m # 0
  <2>1. Is([i \in 0..0 |-> <<>>], 0)
    OBVIOUS
  <2> QED
    BY <1>2, <2>1
<1>4. PICK f : Is(f, m - 1)
  <2>1. m - 1 \in Nat /\ ~(m <= m - 1)
    BY <1>3
  <2>2. m - 1 \notin T
    BY <1>2, <2>1
  <2> QED
    BY <2>1, <2>2
<1> DEFINE g == [i \in 0..m |-> IF i < m THEN f[i] ELSE Next1(m, f[m - 1])]
<1>5. Is(g, m)
  <2>1. \A i \in 0..(m - 1) : f[i] = IF i = 0 THEN <<>> ELSE Next1(i, f[i - 1])
    BY <1>4
  <2>2. \A i \in 0..m : g[i] = IF i = 0 THEN <<>> ELSE Next1(i, g[i - 1])
    BY <1>3, <2>1
  <2> QED
    BY <2>2
<1> QED
  BY <1>2, <1>5

\* All fields are written, and nothing else.
LEMMA FieldsWritten ==
  ASSUME NEW fields, DOMAIN fields \subseteq ToSet(KeyOrder)
  PROVE  /\ FieldLines(fields) \in Seq(LinesOf(fields))
         /\ \A k \in DOMAIN fields : \E h \in 1..Len(FieldLines(fields)) :
                FieldLines(fields)[h] = Line(k, fields[k])
<1> DEFINE n == Len(KeyOrder)
           w == CHOOSE f : Writes(f, n, fields)
           T == {i \in 0..n : ~HaveWritten(i, fields, w[i])}
<1>1. n \in Nat /\ DOMAIN KeyOrder = 1..n
  <2>1. KeyOrder \in Seq(STRING)
    BY WireAssumption
  <2> QED
    BY <2>1, LenProperties
<1>2. Writes(w, n, fields)
  BY <1>1, WriterExists, Zenon
<1>3. FieldLines(fields) = w[n]
  BY Zenon DEF FieldLines, Writes
<1> HIDE DEF w, n
<1>4. T = {}
  <2>1. SUFFICES ASSUME T # {} PROVE FALSE
    OBVIOUS
  <2>2. PICK m \in T : \A k \in T : m <= k
    <3>1. T \subseteq Nat
      BY <1>1
    <3> HIDE DEF T
    <3> QED
      BY <2>1, <3>1, Least
  <2>3. m # 0
    <3>1. w[0] = <<>>
      BY <1>1, <1>2 DEF Writes
    <3>2. HaveWritten(0, fields, <<>>)
      BY DEF HaveWritten
    <3> QED
      BY <2>2, <3>1, <3>2
  <2>4. m - 1 \in Nat /\ m - 1 \in 0..n /\ m = (m - 1) + 1 /\ ~(m <= m - 1) /\ m \in 0..n
    BY <1>1, <2>2, <2>3
  <2>5. HaveWritten(m - 1, fields, w[m - 1])
    BY <2>2, <2>4
  <2>6. w[m] = IF KeyOrder[m] \in DOMAIN fields
               THEN Append(w[m - 1], Line(KeyOrder[m], fields[KeyOrder[m]]))
               ELSE w[m - 1]
    BY <1>2, <2>3, <2>4 DEF Writes
  <2>7. HaveWritten((m - 1) + 1, fields, w[m])
    BY <2>4, <2>5, <2>6, KeyWritten
  <2> QED
    BY <2>2, <2>4, <2>7
<1>5. HaveWritten(n, fields, w[n])
  BY <1>1, <1>4
<1>6. \A k \in DOMAIN fields : \E j \in 1..n : k = KeyOrder[j]
  BY <1>1 DEF ToSet
<1> QED
  BY <1>3, <1>5, <1>6 DEF HaveWritten

\* Where the lines of a request stand.
LEMMA RequestLines ==
  ASSUME NEW fields, DOMAIN fields \subseteq ToSet(KeyOrder), NEW method
  PROVE  LET n == Len(FieldLines(fields))
             t == RequestText(method, fields)
         IN /\ n \in Nat /\ Len(t) = n + 3
            /\ t[1] = Line(method, Empty) /\ t[n + 2] = Zero /\ t[n + 3] = EmptyLine
            /\ \A h \in 1..n : t[h + 1] = FieldLines(fields)[h]
<1> DEFINE S == LinesOf(fields) \cup {Line(method, Empty), Zero, EmptyLine}
           F == FieldLines(fields)
           n == Len(F)
           t == RequestText(method, fields)
<1>1. F \in Seq(S)
  <2>1. F \in Seq(LinesOf(fields))
    BY FieldsWritten
  <2>2. LinesOf(fields) \subseteq S
    OBVIOUS
  <2> HIDE DEF S, F
  <2> QED
    BY <2>1, <2>2
<1>2. Line(method, Empty) \in S /\ Zero \in S /\ EmptyLine \in S
  OBVIOUS
<1>3. t = <<Line(method, Empty)>> \o F \o <<Zero, EmptyLine>>
  BY DEF RequestText
<1> HIDE DEF S, F
<1>4. /\ <<Line(method, Empty)>> \o F \in Seq(S)
      /\ Len(<<Line(method, Empty)>> \o F) = n + 1 /\ n \in Nat
      /\ (<<Line(method, Empty)>> \o F)[1] = Line(method, Empty)
      /\ \A h \in 1..n : (<<Line(method, Empty)>> \o F)[h + 1] = F[h]
  BY <1>1, <1>2 DEF F
<1> QED
  BY <1>2, <1>3, <1>4 DEF F

\* Where the lines of a response stand.
LEMMA ResponseLines ==
  ASSUME NEW fields, DOMAIN fields \subseteq ToSet(KeyOrder)
  PROVE  LET n == Len(FieldLines(fields))
             t == HttpResponseText(fields)
         IN /\ n \in Nat /\ Len(t) = n + 3
            /\ t[1] = Line("HTTP", Empty) /\ t[2] = Zero /\ t[n + 3] = EmptyLine
            /\ \A h \in 1..n : t[h + 2] = FieldLines(fields)[h]
<1> DEFINE S == LinesOf(fields) \cup {Line("HTTP", Empty), Zero, EmptyLine}
           F == FieldLines(fields)
           n == Len(F)
           t == HttpResponseText(fields)
           s == <<Line("HTTP", Empty), Zero>>
<1>1. F \in Seq(S)
  <2>1. F \in Seq(LinesOf(fields))
    BY FieldsWritten
  <2>2. LinesOf(fields) \subseteq S
    OBVIOUS
  <2> HIDE DEF S, F
  <2> QED
    BY <2>1, <2>2
<1>2. Line("HTTP", Empty) \in S /\ Zero \in S /\ EmptyLine \in S
  OBVIOUS
<1>3. t = s \o F \o <<EmptyLine>>
  BY DEF HttpResponseText
<1> HIDE DEF S, F
<1>4. /\ s \o F \in Seq(S)
      /\ Len(s \o F) = n + 2 /\ n \in Nat
      /\ (s \o F)[1] = Line("HTTP", Empty) /\ (s \o F)[2] = Zero
      /\ \A h \in 1..n : (s \o F)[h + 2] = F[h]
  BY <1>1, <1>2 DEF F
<1> QED
  BY <1>2, <1>3, <1>4 DEF F

-----------------------------------------------------------------------------
\* Messages.

KeysOf(start) == IF start = "M-SEARCH" THEN {"ST"}
                 ELSE IF start = "NOTIFY" THEN {"LOCATION", "NT", "HOST"}
                 ELSE {"LOCATION", "ST"}

KindOf(start) == IF start = "M-SEARCH" THEN "search"
                 ELSE IF start = "NOTIFY" THEN "notify" ELSE "response"

\* Every one of the three parsers reads all lines.
LEMMA ParseReads ==
  ASSUME NEW t, Len(t) \in Nat \ {0}, t[1].key \in {"M-SEARCH", "NOTIFY", "HTTP"}
  PROVE  LET keys == KeysOf(t[1].key)
             kind == KindOf(t[1].key)
         IN \E known :
            /\ KnownRead(t, Len(t), keys, known)
            /\ CustomRead(t, Len(t), keys, Parse(t).custom)
            /\ Parse(t).kind = kind
            /\ UrnKey(kind) \in keys /\ Parse(t).nt = known[UrnKey(kind)]
            /\ kind # "search" =>
                  "LOCATION" \in keys /\ Parse(t).location = known["LOCATION"]
<1> DEFINE keys == KeysOf(t[1].key)
           kind == KindOf(t[1].key)
<1> DEFINE p == ParseSddp(t, keys)
<1>1. KnownRead(t, Len(t), keys, p.known) /\ CustomRead(t, Len(t), keys, p.custom)
  BY AllRead DEF HaveRead
<1>2. CASE t[1].key = "M-SEARCH"
  <2>1. keys = {"ST"} /\ kind = "search"
    BY <1>2 DEF KeysOf, KindOf
  <2>2. Parse(t) = Parsed("search", p.known["ST"], Empty, p.custom)
    BY <1>2, <2>1 DEF Parse, ParseSearch
  <2> QED
    BY <1>1, <2>1, <2>2 DEF Parsed, UrnKey
<1>3. CASE t[1].key = "NOTIFY"
  <2>1. keys = {"LOCATION", "NT", "HOST"} /\ kind = "notify"
    BY <1>3 DEF KeysOf, KindOf
  <2>2. Parse(t) = Parsed("notify", p.known["NT"], p.known["LOCATION"], p.custom)
    BY <1>3, <2>1 DEF Parse, ParseNotify
  <2> QED
    BY <1>1, <2>1, <2>2 DEF Parsed, UrnKey
<1>4. CASE t[1].key = "HTTP"
  <2>1. keys = {"LOCATION", "ST"} /\ kind = "response"
    BY <1>4 DEF KeysOf, KindOf
  <2>2. Parse(t) = Parsed("response", p.known["ST"], p.known["LOCATION"], p.custom)
    BY <1>4, <2>1 DEF Parse, ParseResponse
  <2> QED
    BY <1>1, <2>1, <2>2 DEF Parsed, UrnKey
<1> QED
  BY <1>2, <1>3, <1>4

\* A known key whose lines all have the value v.
LEMMA Told ==
  ASSUME NEW t, NEW keys, NEW known, KnownRead(t, Len(t), keys, known), NEW k \in keys,
         NEW v, \A j \in 2..Len(t) : At(t, j, k) => t[j].val = v,
         \E j \in 2..Len(t) : At(t, j, k)
  PROVE  known[k] = v
BY DEF KnownRead

LEMMA KnownLast ==
  ASSUME NEW t, Len(t) \in Nat, NEW keys, NEW known,
         KnownRead(t, Len(t), keys, known), NEW k \in keys
  PROVE  known[k] = LastOf(t, k)
<1>1. \A j : j \in Places(t, k) <=> j \in 2..Len(t) /\ At(t, j, k)
  BY DEF Places, At
<1>2. CASE Places(t, k) = {}
  <2>1. LastOf(t, k) = Empty
    BY <1>2 DEF LastOf
  <2> QED
    BY <1>1, <1>2, <2>1 DEF KnownRead
<1>3. CASE Places(t, k) # {}
  <2>1. PICK j \in 2..Len(t) : /\ At(t, j, k) /\ known[k] = t[j].val
                               /\ \A h \in (j + 1)..Len(t) : ~At(t, h, k)
    BY <1>1, <1>3 DEF KnownRead
  <2>2. j \in Places(t, k) /\ \A h \in Places(t, k) : h <= j
    BY <1>1, <2>1
  <2>3. \A i \in Places(t, k) : (\A h \in Places(t, k) : h <= i) => i = j
    BY <1>1, <2>2
  <2>4. (CHOOSE i \in Places(t, k) : \A h \in Places(t, k) : h <= i) = j
    BY <2>2, <2>3
  <2> QED
    BY <1>3, <2>1, <2>4 DEF LastOf
<1> QED
  BY <1>2, <1>3

LEMMA CustomFirst ==
  ASSUME NEW t, Len(t) \in Nat, NEW keys, NEW custom,
         CustomRead(t, Len(t), keys, custom), NEW k \in DOMAIN custom
  PROVE  custom[k] = FirstOf(t, k)
<1>1. \A j : j \in Places(t, k) <=> j \in 2..Len(t) /\ At(t, j, k)
  BY DEF Places, At
<1>2. PICK j \in 2..Len(t) : /\ At(t, j, k) /\ custom[k] = t[j].val
                             /\ \A h \in 2..(j - 1) : ~At(t, h, k)
  BY DEF CustomRead
<1>3. j \in Places(t, k) /\ \A h \in Places(t, k) : j <= h
  BY <1>1, <1>2
<1>4. \A i \in Places(t, k) : (\A h \in Places(t, k) : i <= h) => i = j
  BY <1>1, <1>3
<1>5. (CHOOSE i \in Places(t, k) : \A h \in Places(t, k) : i <= h) = j
  BY <1>3, <1>4
<1> QED
  BY <1>2, <1>5 DEF FirstOf

-----------------------------------------------------------------------------
\* What is written can be read.

\* t is a request with n lines that say what the fields are.
Says(t, n, fields) ==
    /\ n \in Nat /\ Len(t) = n + 3 /\ t[n + 2] = Zero /\ t[n + 3] = EmptyLine
    /\ \A j \in 2..(n + 1) : \E k \in DOMAIN fields : t[j] = Line(k, fields[k])
    /\ \A k \in DOMAIN fields : \E j \in 2..(n + 1) : t[j] = Line(k, fields[k])

LEMMA RequestSays ==
  ASSUME NEW fields, DOMAIN fields \subseteq ToSet(KeyOrder), NEW method
  PROVE  /\ RequestText(method, fields)[1] = Line(method, Empty)
         /\ \E n : Says(RequestText(method, fields), n, fields)
<1> DEFINE F == FieldLines(fields)
           n == Len(F)
           t == RequestText(method, fields)
<1>1. /\ n \in Nat /\ Len(t) = n + 3 /\ t[1] = Line(method, Empty)
      /\ t[n + 2] = Zero /\ t[n + 3] = EmptyLine
      /\ \A h \in 1..n : t[h + 1] = F[h]
  BY RequestLines, Zenon
<1>2. /\ \A h \in 1..n : \E k \in DOMAIN fields : F[h] = Line(k, fields[k])
      /\ \A k \in DOMAIN fields : \E h \in 1..n : F[h] = Line(k, fields[k])
  <2>1. F \in Seq(LinesOf(fields))
    BY FieldsWritten
  <2>2. \A h \in 1..n : F[h] \in LinesOf(fields)
    BY <2>1, ElementOfSeq
  <2> QED
    BY <2>2, FieldsWritten DEF LinesOf
<1> HIDE DEF F, n, t
<1>3. ASSUME NEW j \in 2..(n + 1)
      PROVE  \E k \in DOMAIN fields : t[j] = Line(k, fields[k])
  <2>1. PICK h \in 1..n : j = h + 1
    <3>1. j - 1 \in 1..n /\ j = (j - 1) + 1
      BY <1>1
    <3> QED
      BY <3>1
  <2> QED
    <3>1. t[h + 1] = F[h] /\ \E k \in DOMAIN fields : F[h] = Line(k, fields[k])
      BY <1>1, <1>2
    <3> QED
      BY <2>1, <3>1, Zenon
<1>4. ASSUME NEW k \in DOMAIN fields
      PROVE  \E j \in 2..(n + 1) : t[j] = Line(k, fields[k])
  <2>1. PICK h \in 1..n : F[h] = Line(k, fields[k])
    BY <1>2
  <2>2. h + 1 \in 2..(n + 1) /\ t[h + 1] = Line(k, fields[k])
    BY <1>1, <2>1
  <2> QED
    BY <2>2
<1>5. Says(t, n, fields)
  BY <1>1, <1>3, <1>4, Zenon DEF Says
<1> QED
  BY <1>1, <1>5, Zenon DEF t

\* Which keys and values its lines have.
LEMMA SaidAt ==
  ASSUME NEW fields, DOMAIN fields \subseteq ToSet(KeyOrder), NEW n, NEW t, Says(t, n, fields)
  PROVE  /\ \A j \in 2..Len(t) : \A k : At(t, j, k) =>
               \/ k \in DOMAIN fields /\ t[j].val = fields[k] /\ j <= n + 1
               \/ k = "CONTENT-LENGTH" /\ t[j].val = "0" /\ j = n + 2
         /\ \A k \in DOMAIN fields : \E j \in 2..(n + 1) : At(t, j, k)
         /\ At(t, n + 2, "CONTENT-LENGTH")
<1>1. \A k \in DOMAIN fields : k # "end"
  BY WireAssumption
<1>2. \A k, v : Line(k, v).key = k /\ Line(k, v).val = v
  BY DEF Line
<1>3. EmptyLine.key = "end" /\ Zero.key = "CONTENT-LENGTH" /\ Zero.val = "0"
  BY <1>2 DEF EmptyLine, Zero
<1>4. ASSUME NEW j \in 2..Len(t), NEW k, At(t, j, k)
      PROVE  \/ k \in DOMAIN fields /\ t[j].val = fields[k] /\ j <= n + 1
             \/ k = "CONTENT-LENGTH" /\ t[j].val = "0" /\ j = n + 2
  <2>1. j \in 2..(n + 1) \/ j = n + 2 \/ j = n + 3
    BY DEF Says
  <2>2. CASE j \in 2..(n + 1)
    <3>1. PICK i \in DOMAIN fields : t[j] = Line(i, fields[i])
      BY <2>2 DEF Says
    <3>2. k = i /\ t[j].val = fields[k]
      BY <1>2, <1>4, <3>1 DEF At
    <3>3. j <= n + 1
      BY <2>2 DEF Says
    <3> QED
      BY <3>2, <3>3
  <2>3. CASE j = n + 2
    BY <1>3, <1>4, <2>3 DEF At, Says
  <2>4. CASE j = n + 3
    BY <1>4, <2>4 DEF At, Says
  <2> QED
    BY <2>1, <2>2, <2>3, <2>4
<1>5. ASSUME NEW k \in DOMAIN fields
      PROVE  \E j \in 2..(n + 1) : At(t, j, k)
  <2>1. PICK j \in 2..(n + 1) : t[j] = Line(k, fields[k])
    BY DEF Says
  <2>2. t[j].key = k
    BY <1>2, <2>1, Zenon
  <2>3. t[j] # EmptyLine
    BY <1>1, <1>3, <2>2, Zenon
  <2>4. At(t, j, k)
    BY <2>2, <2>3 DEF At
  <2> QED
    BY <2>4
<1>6. At(t, n + 2, "CONTENT-LENGTH")
  BY <1>3 DEF At, Says
<1> QED
  BY <1>4, <1>5, <1>6, Zenon

Without(fields, keys) == [k \in (DOMAIN fields) \ keys |-> fields[k]]

\* A request is read as it was written, with the length of its body.
LEMMA RequestRead ==
  ASSUME NEW fields, DOMAIN fields \subseteq ToSet(KeyOrder), NEW method, NEW keys,
         Zero.key \notin keys
  PROVE  LET t == RequestText(method, fields)
         IN /\ Len(t) \in Nat \ {0} /\ t[1] = Line(method, Empty)
            /\ \A known : KnownRead(t, Len(t), keys, known) =>
                  \A k \in keys \cap DOMAIN fields : known[k] = fields[k]
            /\ \A custom : CustomRead(t, Len(t), keys, custom) =>
                  custom = Insert(Without(fields, keys), ZeroField)
<1> DEFINE t == RequestText(method, fields)
<1>0. PICK n : Says(t, n, fields)
  BY RequestSays, Zenon
<1>1. n \in Nat /\ Len(t) = n + 3 /\ t[1] = Line(method, Empty)
  BY <1>0, RequestSays, Zenon DEF Says
<1>2. /\ \A j \in 2..Len(t) : \A k : At(t, j, k) =>
            \/ k \in DOMAIN fields /\ t[j].val = fields[k] /\ j <= n + 1
            \/ k = "CONTENT-LENGTH" /\ t[j].val = "0" /\ j = n + 2
      /\ \A k \in DOMAIN fields : \E j \in 2..(n + 1) : At(t, j, k)
      /\ At(t, n + 2, "CONTENT-LENGTH")
  <2> HIDE DEF Says
  <2> QED
    BY <1>0, SaidAt
<1>3. ASSUME NEW known, KnownRead(t, Len(t), keys, known), NEW k \in keys \cap DOMAIN fields
      PROVE  known[k] = fields[k]
  <2>1. \A j \in 2..Len(t) : At(t, j, k) => t[j].val = fields[k]
    <3>1. k # "CONTENT-LENGTH"
      BY DEF Zero, Line
    <3> QED
      BY <1>2, <3>1
  <2>2. \E j \in 2..Len(t) : At(t, j, k)
    BY <1>1, <1>2
  <2> QED
    BY <1>3, <2>1, <2>2 DEF KnownRead
<1>4. ASSUME NEW custom, CustomRead(t, Len(t), keys, custom)
      PROVE  custom = Insert(Without(fields, keys), ZeroField)
  <2>1. DOMAIN custom = ((DOMAIN fields) \ keys) \cup {"CONTENT-LENGTH"}
    <3>1. \A k : k \in DOMAIN custom <=> k \notin keys /\ \E j \in 2..Len(t) : At(t, j, k)
      BY <1>4 DEF CustomRead
    <3>2. n + 2 \in 2..Len(t) /\ 2..(n + 1) \subseteq 2..Len(t)
      BY <1>1
    <3>3. "CONTENT-LENGTH" \notin keys
      BY DEF Zero, Line
    <3>4. ASSUME NEW k, k \in DOMAIN custom
          PROVE  k \in ((DOMAIN fields) \ keys) \cup {"CONTENT-LENGTH"}
      BY <1>2, <3>1, <3>4
    <3>5. ASSUME NEW k \in (DOMAIN fields) \ keys
          PROVE  k \in DOMAIN custom
      BY <1>2, <3>1, <3>2
    <3>6. "CONTENT-LENGTH" \in DOMAIN custom
      BY <1>2, <3>1, <3>2, <3>3
    <3> QED
      BY <3>4, <3>5, <3>6, Zenon
  <2>2. ASSUME NEW k \in DOMAIN custom
        PROVE  custom[k] = IF k \in DOMAIN fields THEN fields[k] ELSE "0"
    <3>1. PICK j \in 2..Len(t) : /\ At(t, j, k) /\ custom[k] = t[j].val
                                 /\ \A h \in 2..(j - 1) : ~At(t, h, k)
      BY <1>4 DEF CustomRead
    <3>2. CASE k \in DOMAIN fields
      <4>1. PICK h \in 2..(n + 1) : At(t, h, k)
        BY <1>2, <3>2
      <4>2. j <= h
        BY <1>1, <3>1, <4>1
      <4>3. j # n + 2
        BY <1>1, <4>1, <4>2
      <4> QED
        BY <1>2, <3>1, <3>2, <4>3
    <3>3. CASE k \notin DOMAIN fields
      BY <1>2, <3>1, <3>3
    <3> QED
      BY <3>2, <3>3
  <2>3. custom = [k \in DOMAIN custom |-> custom[k]]
    BY <1>4 DEF CustomRead
  <2> QED
    BY <2>1, <2>2, <2>3 DEF Insert, Without, ZeroField, Zero, Line
<1>5. Len(t) \in Nat \ {0}
  BY <1>1
<1> QED
  BY <1>1, <1>3, <1>4, <1>5, Zenon

\* A known field of a response is read as it was written.
LEMMA ResponseRead ==
  ASSUME NEW fields, DOMAIN fields \subseteq ToSet(KeyOrder), NEW keys, NEW known,
         KnownRead(HttpResponseText(fields), Len(HttpResponseText(fields)), keys, known),
         NEW k \in keys \cap DOMAIN fields, k # Zero.key
  PROVE  known[k] = fields[k]
<1> DEFINE F == FieldLines(fields)
           n == Len(F)
           t == HttpResponseText(fields)
<1>1. /\ n \in Nat /\ Len(t) = n + 3 /\ t[2] = Zero /\ t[n + 3] = EmptyLine
      /\ \A h \in 1..n : t[h + 2] = F[h]
  BY ResponseLines, Zenon
<1>2. /\ \A h \in 1..n : \E i \in DOMAIN fields : F[h] = Line(i, fields[i])
      /\ \E h \in 1..n : F[h] = Line(k, fields[k])
  <2>1. F \in Seq(LinesOf(fields))
    BY FieldsWritten
  <2>2. \A h \in 1..n : F[h] \in LinesOf(fields)
    BY <2>1, ElementOfSeq
  <2> QED
    BY <2>2, FieldsWritten DEF LinesOf
<1> HIDE DEF F, n
<1>3. \A i, v : Line(i, v).key = i /\ Line(i, v).val = v
  BY DEF Line
<1>4. ASSUME NEW j \in 2..Len(t), At(t, j, k)
      PROVE  t[j].val = fields[k]
  <2>1. j = 2 \/ j = n + 3 \/ \E h \in 1..n : j = h + 2
    <3>1. j = 2 \/ j = n + 3 \/ (j - 2 \in 1..n /\ j = (j - 2) + 2)
      BY <1>1
    <3> QED
      BY <3>1
  <2>2. j # 2 /\ j # n + 3
    BY <1>1, <1>4 DEF At
  <2>3. PICK h \in 1..n : j = h + 2
    BY <2>1, <2>2
  <2>4. PICK i \in DOMAIN fields : t[j] = Line(i, fields[i])
    BY <1>1, <1>2, <2>3
  <2> QED
    BY <1>3, <1>4, <2>4 DEF At
<1>5. \E j \in 2..Len(t) : At(t, j, k)
  <2>1. PICK h \in 1..n : t[h + 2] = Line(k, fields[k])
    BY <1>1, <1>2
  <2>2. t[h + 2].key = k /\ k # "end" /\ EmptyLine.key = "end"
    BY <1>3, <2>1, WireAssumption DEF EmptyLine
  <2>3. At(t, h + 2, k)
    BY <2>2 DEF At
  <2> QED
    BY <1>1, <2>3
<1> QED
  BY <1>4, <1>5 DEF KnownRead

\* A notify is read as it was written.
LEMMA NotifyKept ==
  ASSUME NEW m, DOMAIN m.custom \subseteq ToSet(KeyOrder)
  PROVE  LET n == Parse(NotifyText(m))
         IN /\ n.kind = "notify" /\ n.nt = m.nt /\ n.location = m.location
            /\ (DOMAIN m.custom) \cap {"LOCATION", "NT", "HOST"} = {} =>
                  n.custom = Insert(m.custom, ZeroField)
<1> DEFINE own == [HOST |-> "group", NT |-> m.nt, LOCATION |-> m.location]
           fields == Insert(own, m.custom)
           t == RequestText("NOTIFY", fields)
           keys == {"LOCATION", "NT", "HOST"}
<1>1. DOMAIN fields = keys \cup DOMAIN m.custom /\ DOMAIN fields \subseteq ToSet(KeyOrder)
  BY WireAssumption DEF Insert
<1>2. /\ fields["NT"] = m.nt /\ fields["LOCATION"] = m.location
      /\ \A k \in (DOMAIN m.custom) \ keys : fields[k] = m.custom[k]
  BY DEF Insert
<1>3. t = NotifyText(m)
  BY DEF NotifyText
<1> HIDE DEF fields, own
<1>4. Zero.key \notin keys
  BY DEF Zero, Line
<1>5. /\ Len(t) \in Nat \ {0} /\ t[1] = Line("NOTIFY", Empty)
      /\ \A known : KnownRead(t, Len(t), keys, known) =>
            \A k \in keys \cap DOMAIN fields : known[k] = fields[k]
      /\ \A custom : CustomRead(t, Len(t), keys, custom) =>
            custom = Insert(Without(fields, keys), ZeroField)
  <2> HIDE DEF keys
  <2> QED
    BY <1>1, <1>4, RequestRead, Zenon
<1> HIDE DEF t
<1>6. t[1].key = "NOTIFY" /\ KeysOf("NOTIFY") = keys /\ KindOf("NOTIFY") = "notify"
      /\ UrnKey("notify") = "NT"
  BY <1>5 DEF Line, KeysOf, KindOf, UrnKey
<1>7. PICK known : /\ KnownRead(t, Len(t), keys, known)
                   /\ CustomRead(t, Len(t), keys, Parse(t).custom)
                   /\ Parse(t).kind = "notify" /\ Parse(t).nt = known["NT"]
                   /\ Parse(t).location = known["LOCATION"]
  <2> HIDE DEF keys
  <2>1. t[1].key \in {"M-SEARCH", "NOTIFY", "HTTP"} /\ "notify" # "search"
    BY <1>6
  <2> QED
    BY <1>5, <1>6, <2>1, ParseReads
<1>8. Parse(t).nt = m.nt /\ Parse(t).location = m.location
  BY <1>1, <1>2, <1>5, <1>7
<1>9. ASSUME (DOMAIN m.custom) \cap keys = {}
      PROVE  Parse(t).custom = Insert(m.custom, ZeroField)
  <2>1. Parse(t).custom = Insert(Without(fields, keys), ZeroField)
    BY <1>5, <1>7
  <2>2. (DOMAIN fields) \ keys = DOMAIN m.custom
    BY <1>1, <1>9
  <2>3. \A k \in DOMAIN m.custom : fields[k] = m.custom[k]
    BY <1>2, <1>9
  <2> QED
    BY <2>1, <2>2, <2>3 DEF Insert, Without
<1> QED
  BY <1>3, <1>7, <1>8, <1>9, Zenon

\* A search asks for what it asked for.
LEMMA SearchKept ==
  ASSUME NEW m, DOMAIN m.custom \subseteq ToSet(KeyOrder)
  PROVE  Parse(SearchText(m)).nt = m.nt
<1> DEFINE own == [HOST |-> "group", MAN |-> "discover", MX |-> "10", ST |-> m.nt]
           fields == Insert(own, m.custom)
           t == RequestText("M-SEARCH", fields)
           keys == {"ST"}
<1>1. DOMAIN fields \subseteq ToSet(KeyOrder) /\ "ST" \in DOMAIN fields /\ fields["ST"] = m.nt
  BY WireAssumption DEF Insert
<1>2. t = SearchText(m)
  BY DEF SearchText
<1> HIDE DEF fields, own
<1>3. Zero.key \notin keys
  BY DEF Zero, Line
<1>4. /\ Len(t) \in Nat \ {0} /\ t[1] = Line("M-SEARCH", Empty)
      /\ \A known : KnownRead(t, Len(t), keys, known) =>
            \A k \in keys \cap DOMAIN fields : known[k] = fields[k]
  <2> HIDE DEF keys
  <2>1. /\ Len(t) \in Nat \ {0} /\ t[1] = Line("M-SEARCH", Empty)
        /\ \A known : KnownRead(t, Len(t), keys, known) =>
              \A k \in keys \cap DOMAIN fields : known[k] = fields[k]
        /\ \A custom : CustomRead(t, Len(t), keys, custom) =>
              custom = Insert(Without(fields, keys), ZeroField)
    BY <1>1, <1>3, RequestRead, Zenon
  <2> QED
    BY <2>1, Zenon
<1> HIDE DEF t
<1>5. t[1].key = "M-SEARCH" /\ KeysOf("M-SEARCH") = keys /\ KindOf("M-SEARCH") = "search"
      /\ UrnKey("search") = "ST"
  BY <1>4 DEF Line, KeysOf, KindOf, UrnKey
<1>6. PICK known : KnownRead(t, Len(t), keys, known) /\ Parse(t).nt = known["ST"]
  <2> HIDE DEF keys
  <2>1. t[1].key \in {"M-SEARCH", "NOTIFY", "HTTP"}
    BY <1>5
  <2> QED
    BY <1>4, <1>5, <2>1, ParseReads
<1> QED
  BY <1>1, <1>2, <1>4, <1>6

\* A response answers for the urn it was made for.
LEMMA ResponseKept ==
  ASSUME NEW m, DOMAIN m.custom \subseteq ToSet(KeyOrder)
  PROVE  Parse(ResponseText(m)).kind = "response" /\ Parse(ResponseText(m)).nt = m.nt
<1> DEFINE own == [ST |-> m.nt]
           fields == Insert(own, m.custom)
           t == HttpResponseText(fields)
           keys == {"LOCATION", "ST"}
<1>1. DOMAIN fields \subseteq ToSet(KeyOrder) /\ "ST" \in DOMAIN fields /\ fields["ST"] = m.nt
  BY WireAssumption DEF Insert
<1>2. t = ResponseText(m)
  BY DEF ResponseText
<1> HIDE DEF fields, own
<1>3. "ST" # Zero.key
  BY DEF Zero, Line
<1>4. Len(t) \in Nat \ {0} /\ t[1] = Line("HTTP", Empty)
  <2>1. /\ Len(FieldLines(fields)) \in Nat /\ Len(t) = Len(FieldLines(fields)) + 3
        /\ t[1] = Line("HTTP", Empty)
    BY <1>1, ResponseLines, Zenon
  <2> HIDE DEF t
  <2> QED
    BY <2>1
<1>5. ASSUME NEW known, KnownRead(t, Len(t), keys, known)
      PROVE  known["ST"] = m.nt
  <2>1. "ST" \in keys \cap DOMAIN fields
    BY <1>1
  <2> HIDE DEF keys
  <2> QED
    BY <1>1, <1>3, <1>5, <2>1, ResponseRead
<1> HIDE DEF t
<1>6. t[1].key = "HTTP" /\ KeysOf("HTTP") = keys /\ KindOf("HTTP") = "response"
      /\ UrnKey("response") = "ST"
  BY <1>4 DEF Line, KeysOf, KindOf, UrnKey
<1>7. PICK known : /\ KnownRead(t, Len(t), keys, known)
                   /\ Parse(t).nt = known["ST"] /\ Parse(t).kind = "response"
  <2> HIDE DEF keys
  <2>1. t[1].key \in {"M-SEARCH", "NOTIFY", "HTTP"}
    BY <1>6
  <2> QED
    BY <1>4, <1>6, <2>1, ParseReads
<1> QED
  BY <1>2, <1>5, <1>7

-----------------------------------------------------------------------------
\* What machines write, and what is in the buffer.

TextLine == {EmptyLine} \cup Lines \cup {Line(s, Empty) : s \in Starts}

Message(t) ==
    /\ t \in Seq(TextLine) /\ t # <<>> /\ t[1].key \in Starts
    /\ \A j \in 2..Len(t) : t[j] \in Lines \cup {EmptyLine}

\* The lines a buffer may hold: of what was covered a key may be its end only.
TornKeys == {""} \cup {l.key : l \in TextLine}
                \cup UNION {KeyEnds[k] : k \in DOMAIN KeyEnds}
TextValues == {l.val : l \in TextLine}
BufferLine == [key: TornKeys, val: TextValues]

\* What is sent begins with the text that was given last.
BeginsWith(buffer, t) ==
    /\ Message(t) /\ buffer \in Seq(BufferLine)
    /\ Len(t) <= Len(buffer) /\ \A j \in 1..Len(t) : buffer[j] = t[j]

WireInv ==
    /\ whole \in BOOLEAN /\ Message(text)
    /\ passed \in Seq(Seq(TextLine)) /\ txBuf \in Seq(BufferLine)
    /\ txBuf # <<>> => passed # <<>> /\ BeginsWith(txBuf, passed[Len(passed)])

LEMMA InBuffer ==
  ASSUME NEW l \in TextLine,
         NEW k, \/ k \in {"", l.key}
                \/ l.key \in DOMAIN KeyEnds /\ k \in KeyEnds[l.key]
                \/ k \in TornKeys
  PROVE  k \in TornKeys /\ Line(k, l.val) \in BufferLine
<1>1. k \in TornKeys
  BY Zenon DEF TornKeys
<1>2. l.val \in TextValues
  BY DEF TextValues
<1>3. Line(k, l.val) \in BufferLine
  BY <1>1, <1>2 DEF BufferLine, Line
<1> QED
  BY <1>1, <1>3

LEMMA TextLineShape ==
  ASSUME NEW l \in TextLine
  PROVE  l = Line(l.key, l.val) /\ l \in BufferLine
<1>1. l = Line(l.key, l.val)
  <2>1. \A k, v : LET r == Line(k, v) IN r = Line(r.key, r.val)
    BY DEF Line
  <2>2. CASE l \in Lines
    BY <2>2, WireAssumption DEF Line
  <2>3. CASE \E k, v : l = Line(k, v)
    BY <2>1, <2>3
  <2> QED
    BY <2>2, <2>3 DEF TextLine, EmptyLine
<1> QED
  BY <1>1, InBuffer

LEMMA MessageStarts ==
  ASSUME NEW t, Message(t)
  PROVE  Len(t) \in Nat \ {0} /\ t[1].key \in {"M-SEARCH", "NOTIFY", "HTTP"}
<1>1. t \in Seq(TextLine) /\ t # <<>> /\ t[1].key \in Starts
  BY DEF Message
<1>2. Starts \subseteq {"M-SEARCH", "NOTIFY", "HTTP"}
  BY WireAssumption
<1> QED
  BY <1>1, <1>2, EmptySeq, LenProperties

\* The custom fields of a message are among the keys, and not the known ones.
LEMMA CustomKeys ==
  ASSUME NEW t, Message(t)
  PROVE  /\ DOMAIN Parse(t).custom \subseteq ToSet(KeyOrder)
         /\ (DOMAIN Parse(t).custom) \cap KeysOf(t[1].key) = {}
<1>1. Len(t) \in Nat \ {0} /\ t[1].key \in {"M-SEARCH", "NOTIFY", "HTTP"}
  BY MessageStarts
<1>2. CustomRead(t, Len(t), KeysOf(t[1].key), Parse(t).custom)
  BY <1>1, ParseReads, Zenon
<1>3. ASSUME NEW k \in DOMAIN Parse(t).custom
      PROVE  k \in ToSet(KeyOrder) /\ k \notin KeysOf(t[1].key)
  <2>1. k \notin KeysOf(t[1].key) /\ \E j \in 2..Len(t) : At(t, j, k)
    BY <1>2 DEF CustomRead
  <2>2. PICK j \in 2..Len(t) : At(t, j, k)
    BY <2>1
  <2>3. t[j] \in Lines /\ t[j].key = k
    BY <2>2 DEF At, Message
  <2> QED
    BY <2>1, <2>3, WireAssumption
<1> QED
  BY <1>3

LEMMA OverlayBegins ==
  ASSUME NEW buffer \in Seq(BufferLine), NEW t, Message(t), NEW b \in Overlay(buffer, t)
  PROVE  BeginsWith(b, t) /\ b # <<>>
<1>1. t \in Seq(TextLine) /\ Len(t) \in Nat \ {0}
  BY MessageStarts DEF Message
<1>2. t \in Seq(BufferLine)
  <2>1. TextLine \subseteq BufferLine
    BY TextLineShape
  <2> QED
    BY <1>1, <2>1, SeqMonotonic
<1> DEFINE behind == SubSeq(buffer, Len(t) + 1, Len(buffer))
<1>3. behind \in Seq(BufferLine)
  <2>1. Len(buffer) \in Nat
    BY LenProperties
  <2>2. \A i \in (Len(t) + 1)..Len(buffer) : buffer[i] \in BufferLine
    BY <1>1, <2>1, ElementOfSeq
  <2> QED
    BY <1>1, <2>1, <2>2, SubSeqProperties
<1> HIDE DEF behind
<1>4. PICK rest \in Torn(behind) : b = t \o rest
  BY DEF Overlay, behind
<1>5. rest \in Seq(BufferLine)
  <2>1. CASE behind = <<>>
    BY <1>3, <1>4, <2>1 DEF Torn
  <2>2. CASE behind # <<>>
    <3>1. PICK first : /\ \/ first = behind[1] \/ first = Line("", Empty)
                          \/ \E k : /\ behind[1].key \in DOMAIN KeyEnds
                                    /\ k \in KeyEnds[behind[1].key]
                                    /\ first = Line(k, behind[1].val)
                       /\ rest = <<first>> \o Tail(behind)
      BY <1>4, <2>2 DEF Torn
    <3>2. behind[1] \in BufferLine /\ Tail(behind) \in Seq(BufferLine)
      BY <1>3, <2>2
    <3>3. behind[1].val \in TextValues
      BY <3>2 DEF BufferLine
    <3>4. Line("", Empty) \in BufferLine
      <4>1. EmptyLine.val = Empty /\ EmptyLine \in TextLine
        BY DEF EmptyLine, Line, TextLine
      <4> QED
        BY <4>1, InBuffer
    <3>5. ASSUME NEW k, behind[1].key \in DOMAIN KeyEnds, k \in KeyEnds[behind[1].key]
          PROVE  Line(k, behind[1].val) \in BufferLine
      <4>1. k \in TornKeys
        BY <3>5, Zenon DEF TornKeys
      <4> QED
        BY <3>3, <4>1 DEF BufferLine, Line
    <3>6. first \in BufferLine
      BY <3>1, <3>2, <3>4, <3>5
    <3>7. <<first>> \in Seq(BufferLine)
      BY <3>6
    <3> QED
      BY <3>1, <3>2, <3>7, ConcatProperties
  <2> QED
    BY <2>1, <2>2
<1>6. /\ b \in Seq(BufferLine) /\ Len(b) = Len(t) + Len(rest) /\ Len(rest) \in Nat
      /\ \A i \in 1..(Len(t) + Len(rest)) : b[i] = IF i <= Len(t) THEN t[i] ELSE rest[i - Len(t)]
  BY <1>2, <1>4, <1>5, ConcatProperties, LenProperties
<1>7. Len(t) <= Len(b) /\ \A j \in 1..Len(t) : b[j] = t[j]
  BY <1>1, <1>6
<1>8. b # <<>>
  BY <1>1, <1>6
<1> QED
  BY <1>6, <1>7, <1>8 DEF BeginsWith

LEMMA WireInit ==
  Init => WireInv
<1> SUFFICES ASSUME Init PROVE WireInv
  OBVIOUS
<1>1. PICK s \in Starts : text = <<Line(s, Empty)>>
  BY DEF Init
<1>2. Message(text)
  BY <1>1 DEF Message, TextLine, Line
<1>3. whole = FALSE /\ txBuf = <<>> /\ passed = <<>>
  BY DEF Init
<1>4. txBuf \in Seq(BufferLine) /\ passed \in Seq(Seq(TextLine))
  BY <1>3, EmptySeq
<1> QED
  BY <1>2, <1>3, <1>4 DEF WireInv

LEMMA WireStep ==
  WireInv /\ [Next]_vars => WireInv'
<1> SUFFICES ASSUME WireInv, [Next]_vars PROVE WireInv'
  OBVIOUS
<1>0. /\ text \in Seq(TextLine) /\ Len(text) \in Nat \ {0} /\ text[1].key \in Starts
      /\ \A j \in 2..Len(text) : text[j] \in Lines \cup {EmptyLine}
  BY MessageStarts DEF WireInv, Message
<1>1. ASSUME NEW l \in Lines \cup {EmptyLine}, text' = Append(text, l)
      PROVE  Message(text')
  <2>1. l \in TextLine
    BY DEF TextLine
  <2>2. /\ text' \in Seq(TextLine) /\ Len(text') = Len(text) + 1
        /\ \A j \in 1..Len(text) : text'[j] = text[j]
        /\ text'[Len(text) + 1] = l /\ text' # <<>>
    BY <1>0, <1>1, <2>1, AppendProperties
  <2>3. text'[1].key \in Starts /\ text' # <<>>
    <3>1. 1 \in 1..Len(text)
      BY <1>0
    <3> QED
      BY <1>0, <2>2, <3>1
  <2>4. ASSUME NEW j \in 2..Len(text')
        PROVE  text'[j] \in Lines \cup {EmptyLine}
    <3>1. (j \in 2..Len(text) /\ j \in 1..Len(text)) \/ j = Len(text) + 1
      BY <1>0, <2>2
    <3> QED
      BY <1>0, <1>1, <2>2, <3>1
  <2> QED
    BY <2>2, <2>3, <2>4 DEF Message
<1>2. ASSUME NEW l \in Lines, Write(l) PROVE WireInv'
  <2>1. Message(text')
    BY <1>1, <1>2 DEF Write
  <2> QED
    BY <1>2, <2>1 DEF Write, WireInv
<1>3. CASE Finish
  <2>1. Message(text')
    BY <1>1, <1>3 DEF Finish
  <2> QED
    BY <1>3, <2>1 DEF Finish, WireInv
<1>4. CASE Pass
  <2>1. PICK s \in Starts : text' = <<Line(s, Empty)>>
    BY <1>4 DEF Pass
  <2>2. Message(text')
    BY <2>1 DEF Message, TextLine, Line
  <2>3. BeginsWith(txBuf', text)
    BY <1>4, OverlayBegins DEF Pass, WireInv
  <2>4. /\ passed' \in Seq(Seq(TextLine)) /\ passed' # <<>>
        /\ passed'[Len(passed')] = text
    <3>1. passed' = Append(passed, text) /\ passed \in Seq(Seq(TextLine))
      BY <1>4 DEF Pass, WireInv
    <3>2. Len(passed') = Len(passed) + 1 /\ passed'[Len(passed) + 1] = text
      BY <1>0, <3>1, AppendProperties
    <3>3. passed' \in Seq(Seq(TextLine)) /\ passed' # <<>>
      BY <1>0, <3>1, AppendProperties
    <3> QED
      BY <3>2, <3>3
  <2>5. whole' \in BOOLEAN /\ txBuf' \in Seq(BufferLine)
    BY <1>4, <2>3 DEF Pass, BeginsWith
  <2> QED
    BY <2>2, <2>3, <2>4, <2>5 DEF WireInv
<1>5. CASE UNCHANGED vars
  BY <1>5 DEF vars, WireInv
<1> QED
  BY <1>2, <1>3, <1>4, <1>5 DEF Next

-----------------------------------------------------------------------------
\* What a complete message is heard as.
LEMMA HeardIs ==
  ASSUME WireInv
  PROVE  /\ whole => Heard = Parse(text) /\ Heard.kind = KindOf(text[1].key)
         /\ ~whole => Heard.kind = "none"
<1>1. text[1].key \in {"M-SEARCH", "NOTIFY", "HTTP"} /\ Len(text) \in Nat \ {0}
  BY MessageStarts DEF WireInv
<1>2. Parse(text).kind = KindOf(text[1].key)
  BY <1>1, ParseReads, Zenon
<1> QED
  BY <1>2 DEF Heard, Parsed

\* ParseSddp: whatever the order and the repetitions of the lines of a header of
\* any length, the known fields have their last value and the others their first.
THEOREM FieldsRead == Spec => []FieldsAsWritten
<1>1. WireInv => FieldsAsWritten
  <2> SUFFICES ASSUME WireInv, whole PROVE
            /\ Heard.nt = LastOf(text, UrnKey(Heard.kind))
            /\ Heard.kind # "search" => Heard.location = LastOf(text, "LOCATION")
            /\ \A k \in DOMAIN Heard.custom : Heard.custom[k] = FirstOf(text, k)
    BY DEF FieldsAsWritten
  <2> DEFINE keys == KeysOf(text[1].key)
  <2>1. Heard = Parse(text) /\ Heard.kind = KindOf(text[1].key)
    BY HeardIs
  <2>2. text[1].key \in {"M-SEARCH", "NOTIFY", "HTTP"} /\ Len(text) \in Nat \ {0}
    BY MessageStarts DEF WireInv
  <2>3. PICK known :
          /\ KnownRead(text, Len(text), keys, known)
          /\ CustomRead(text, Len(text), keys, Parse(text).custom)
          /\ UrnKey(Heard.kind) \in keys /\ Heard.nt = known[UrnKey(Heard.kind)]
          /\ Heard.kind # "search" =>
                "LOCATION" \in keys /\ Heard.location = known["LOCATION"]
    <3> HIDE DEF keys
    <3>1. \E known :
            /\ KnownRead(text, Len(text), keys, known)
            /\ CustomRead(text, Len(text), keys, Parse(text).custom)
            /\ Parse(text).kind = KindOf(text[1].key)
            /\ UrnKey(KindOf(text[1].key)) \in keys
            /\ Parse(text).nt = known[UrnKey(KindOf(text[1].key))]
            /\ KindOf(text[1].key) # "search" =>
                  "LOCATION" \in keys /\ Parse(text).location = known["LOCATION"]
      BY <2>2, ParseReads, Zenon DEF keys
    <3> QED
      BY <2>1, <3>1
  <2> HIDE DEF keys
  <2>0. Len(text) \in Nat
    BY <2>2
  <2>4. Heard.nt = LastOf(text, UrnKey(Heard.kind))
    BY <2>0, <2>3, KnownLast, ZenonT(30)
  <2>5. Heard.kind # "search" => Heard.location = LastOf(text, "LOCATION")
    BY <2>0, <2>3, KnownLast, ZenonT(30)
  <2>6. ASSUME NEW k \in DOMAIN Heard.custom
        PROVE  Heard.custom[k] = FirstOf(text, k)
    <3>1. CustomRead(text, Len(text), keys, Heard.custom)
      BY <2>1, <2>3
    <3> QED
      BY <2>0, <2>6, <3>1, CustomFirst
  <2> QED
    BY <2>4, <2>5, <2>6
<1> QED
  BY <1>1, WireInit, WireStep, PTL DEF Spec

\* Notify and Search, as heard, survive being written and parsed again, whatever
\* free-form fields they have.
THEOREM HeardSurvives == Spec => []RoundTrip
<1>1. WireInv => RoundTrip
  <2> SUFFICES ASSUME WireInv PROVE RoundTrip
    OBVIOUS
  <2>1. ASSUME whole
        PROVE  /\ DOMAIN Heard.custom \subseteq ToSet(KeyOrder)
               /\ (DOMAIN Heard.custom) \cap KeysOf(text[1].key) = {}
               /\ Heard.kind = KindOf(text[1].key)
    BY <2>1, HeardIs, CustomKeys DEF WireInv
  <2>2. ASSUME Heard.kind = "notify"
        PROVE  Same(Heard, Parse(NotifyText(Heard)))
    <3>1. whole
      BY <2>2, HeardIs
    <3>2. KeysOf(text[1].key) = {"LOCATION", "NT", "HOST"}
      BY <2>1, <2>2, <3>1 DEF KeysOf, KindOf
    <3>3. LET n == Parse(NotifyText(Heard))
          IN /\ n.kind = "notify" /\ n.nt = Heard.nt /\ n.location = Heard.location
             /\ (DOMAIN Heard.custom) \cap {"LOCATION", "NT", "HOST"} = {} =>
                   n.custom = Insert(Heard.custom, ZeroField)
      BY <2>1, <3>1, NotifyKept, Zenon
    <3> QED
      BY <2>1, <2>2, <3>1, <3>2, <3>3 DEF Same
  <2>3. ASSUME Heard.kind = "search"
        PROVE  Parse(SearchText(Heard)).nt = Heard.nt
    <3>1. whole
      BY <2>3, HeardIs
    <3> QED
      BY <2>1, <3>1, SearchKept, Zenon
  <2> QED
    BY <2>2, <2>3 DEF RoundTrip
<1> QED
  BY <1>1, WireInit, WireStep, PTL DEF Spec

\* OnReceiveFromServer: a response that is passed on as a notify announces the
\* urn and the url of the response.
THEOREM ResponsesAnnounced == Spec => []ResponseAsNotifyKept
<1>1. WireInv => ResponseAsNotifyKept
  <2> SUFFICES ASSUME WireInv, Heard.kind = "response"
               PROVE  LET n == Parse(NotifyText(Heard))
                      IN n.kind = "notify" /\ n.nt = Heard.nt /\ n.location = Heard.location
    BY DEF ResponseAsNotifyKept
  <2>1. DOMAIN Heard.custom \subseteq ToSet(KeyOrder)
    BY HeardIs, CustomKeys DEF WireInv
  <2> QED
    BY <2>1, NotifyKept, Zenon
<1> QED
  BY <1>1, WireInit, WireStep, PTL DEF Spec

\* OnReceiveFromClient: the answer that is made from a notify names its urn.
THEOREM AnswersNameUrn == Spec => []AnswerKeepsUrn
<1>1. WireInv => AnswerKeepsUrn
  <2> SUFFICES ASSUME WireInv, Heard.kind = "notify"
               PROVE  LET r == Parse(ResponseText(Heard))
                      IN r.kind = "response" /\ r.nt = Heard.nt
    BY DEF AnswerKeepsUrn
  <2>1. DOMAIN Heard.custom \subseteq ToSet(KeyOrder)
    BY HeardIs, CustomKeys DEF WireInv
  <2> QED
    BY <2>1, ResponseKept, Zenon
<1> QED
  BY <1>1, WireInit, WireStep, PTL DEF Spec

\* Base::send: what an earlier text left behind a message in the buffer changes
\* neither its kind nor the value of any free-form field it has.
THEOREM TailHarmless == Spec => []TailKeepsFreeFields
<1>1. WireInv => TailKeepsFreeFields
  <2> SUFFICES ASSUME WireInv, txBuf # <<>>, NEW t, t = passed[Len(passed)]
               PROVE  /\ Parse(txBuf).kind = Parse(t).kind
                      /\ \A k \in DOMAIN Parse(t).custom :
                            Parse(txBuf).custom[k] = Parse(t).custom[k]
    BY DEF TailKeepsFreeFields, Last
  <2>1. /\ Message(t) /\ Len(txBuf) \in Nat /\ Len(t) <= Len(txBuf)
        /\ \A j \in 1..Len(t) : txBuf[j] = t[j]
    BY LenProperties DEF WireInv, BeginsWith
  <2>2. Len(t) \in Nat \ {0} /\ t[1].key \in {"M-SEARCH", "NOTIFY", "HTTP"}
    BY <2>1, MessageStarts
  <2>3. Len(txBuf) \in Nat \ {0} /\ txBuf[1] = t[1]
    BY <2>1, <2>2
  <2> DEFINE keys == KeysOf(t[1].key)
             mine == Parse(t).custom
             heard == Parse(txBuf).custom
  <2>4. Parse(t).kind = KindOf(t[1].key) /\ CustomRead(t, Len(t), keys, mine)
    BY <2>2, ParseReads, Zenon
  <2>5. Parse(txBuf).kind = KindOf(t[1].key) /\ CustomRead(txBuf, Len(txBuf), keys, heard)
    BY <2>2, <2>3, ParseReads
  <2> HIDE DEF keys, mine, heard
  <2>6. \A j \in 2..Len(t) : j \in 2..Len(txBuf) /\ \A k : At(t, j, k) <=> At(txBuf, j, k)
    BY <2>1 DEF At
  <2>7. ASSUME NEW k \in DOMAIN mine
        PROVE  heard[k] = mine[k]
    <3>1. PICK j \in 2..Len(t) : /\ At(t, j, k) /\ mine[k] = t[j].val
                                 /\ \A h \in 2..(j - 1) : ~At(t, h, k)
      BY <2>4 DEF CustomRead
    <3>2. k \notin keys
      BY <2>4 DEF CustomRead
    <3>3. k \in DOMAIN heard
      BY <2>5, <2>6, <3>1, <3>2 DEF CustomRead
    <3>4. PICK i \in 2..Len(txBuf) : /\ At(txBuf, i, k) /\ heard[k] = txBuf[i].val
                                     /\ \A h \in 2..(i - 1) : ~At(txBuf, h, k)
      BY <2>5, <3>3 DEF CustomRead
    <3>5. i <= j
      BY <2>1, <2>2, <2>6, <3>1, <3>4
    <3>6. i \in 2..Len(t)
      BY <2>2, <3>1, <3>4, <3>5
    <3>7. i = j
      BY <2>2, <2>6, <3>1, <3>4, <3>5, <3>6
    <3> QED
      BY <2>1, <2>2, <3>1, <3>4, <3>7
  <2> QED
    BY <2>4, <2>5, <2>7 DEF mine, heard
<1> QED
  BY <1>1, WireInit, WireStep, PTL DEF Spec
=============================================================================
