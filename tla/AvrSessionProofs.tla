-------------------------- MODULE AvrSessionProofs --------------------------
(***************************************************************************)
(* Theorems about AvrSession, for every choice of its constants.           *)
(***************************************************************************)
EXTENDS AvrSession, FiniteSetTheorems, TLAPS

LEMMA OnlyOne == ASSUME NEW x PROVE Only({x}) = x
BY DEF Only

\* Values are integers.
LEMMA ValuesAreIntegers ==
    ASSUME NEW c \in Controls
    PROVE  Has(c) \subseteq Int /\ Shows(c) \subseteq Int /\ 0 \in Shows(c)
BY SessionAssumption DEF Has, Shows, OnOff, Coded, Other

LEMMA DigitsAreNatural ==
    ASSUME NEW h \in 0..196
    PROVE  Digits(h) \in Nat /\ Digits(h) \div 10 \in Nat /\ Digits(h) \div 100 \in Nat
<1>1. h \div 2 \in Nat
  OBVIOUS
<1>2. Digits(h) \in Nat
  BY <1>1 DEF Digits
<1> QED
  BY <1>2

LEMMA VolumeFits == ASSUME NEW n \in Nat PROVE Volume(n) \in 0..99
<1>1. n \div 10 \in Nat
  OBVIOUS
<1> QED
  BY <1>1 DEF Volume

\* A report shows nothing or a value of the widget.
LEMMA ShownTyped ==
    ASSUME NEW c \in Controls, NEW v \in Has(c)
    PROVE  Shown(c, v) = {} \/ \E w \in Shows(c) : Shown(c, v) = {w}
<1>1. CASE c = "volume"
  <2>1. v \in 0..196
    <3>1. Volumes \subseteq 0..196
      BY SessionAssumption, Zenon
    <3>2. v \in Volumes
      BY <1>1 DEF Has, Switches
    <3> QED
      BY <3>1, <3>2
  <2>2. Volume(Digits(v)) \in 0..99
    BY <2>1, DigitsAreNatural, VolumeFits
  <2> QED
    BY <1>1, <2>2 DEF Shown, Shows, Switches
<1>2. CASE c # "volume"
  BY <1>2, SessionAssumption DEF Shown, Shows, Has, Coded, OnOff, Other, Switches
<1> QED
  BY <1>1, <1>2

\* So does a part of one.
LEMMA ShownCutTyped ==
    ASSUME NEW c \in Controls, NEW v \in Has(c), NEW part \in ShownCut(c, v), part # {}
    PROVE  \E w \in Shows(c) : part = {w}
<1>1. CASE c \in Switches
  BY <1>1 DEF ShownCut, Shows, OnOff
<1>2. CASE c = "volume"
  <2>1. v \in 0..196
    <3>1. Volumes \subseteq 0..196
      BY SessionAssumption, Zenon
    <3>2. v \in Volumes
      BY <1>2 DEF Has, Switches
    <3> QED
      BY <3>1, <3>2
  <2>2. Volume(Digits(v) \div 10) \in 0..99
    BY <2>1, DigitsAreNatural, VolumeFits
  <2>3. Digits(v) \div 100 \in 0..99
    <3>1. Digits(v) \in 0..990
      BY <2>1 DEF Digits
    <3> QED
      BY <3>1
  <2> QED
    BY <1>2, <2>2, <2>3 DEF ShownCut, Shows, Switches
<1>3. CASE c \notin Switches /\ c # "volume"
  <2>1. \E w \in Coded(c) : part = {w}
    BY <1>3 DEF ShownCut
  <2>2. Coded(c) \subseteq Shows(c)
    BY <1>3, SessionAssumption DEF Coded, Shows
  <2> QED
    BY <2>1, <2>2
<1> QED
  BY <1>1, <1>2, <1>3

\* A command gives the receiver one of its values or none.
LEMMA CodeTyped ==
    ASSUME NEW c \in Controls, NEW w \in Offered(c)
    PROVE  /\ w \in Shows(c)
           /\ Code(c, w) = {} \/ \E v \in Has(c) : Code(c, w) = {v}
<1>1. CASE c = "volume"
  BY <1>1, SessionAssumption DEF Offered, Shows, Code, Has, Switches
<1>2. CASE c # "volume"
  BY <1>2, SessionAssumption DEF Offered, Shows, Code, Has, Coded, OnOff, Switches
<1> QED
  BY <1>1, <1>2

\* The report of what a command set shows what the command was given for.
LEMMA CodeShown ==
    ASSUME NEW c \in Controls, NEW w \in Shows(c), NEW v, Code(c, w) = {v}
    PROVE  Shown(c, v) = {w}
<1>1. CASE c = "volume"
  <2>1. v = 2 * w /\ w \in 0..99
    BY <1>1 DEF Code, Shows, Switches
  <2>2. Digits(v) = w
    BY <2>1 DEF Digits
  <2>3. Volume(w) = w
    BY <2>1 DEF Volume
  <2> QED
    BY <1>1, <2>2, <2>3 DEF Shown
<1>2. CASE c # "volume"
  BY <1>2 DEF Code, Shown
<1> QED
  BY <1>1, <1>2

\* Sets of natural numbers have a least element, bounded ones a greatest: the
\* intervals below the elements are well-founded by inclusion.
LEMMA MinExists ==
    ASSUME NEW T, T \subseteq Nat, T # {}
    PROVE  Min(T) \in T /\ \A y \in T : Min(T) <= y
<1> DEFINE R == StrictSubsetOrdering(Nat)
           below == {0..t : t \in T}
<1>1. IsWellFoundedOn(R, FiniteSubsetsOf(Nat))
  BY FS_StrictSubsetOrderingWellFounded
<1>2. below \subseteq FiniteSubsetsOf(Nat) /\ below # {}
  <2>1. ASSUME NEW t \in T PROVE 0..t \in FiniteSubsetsOf(Nat)
    <3>1. IsFiniteSet(0..t)
      BY FS_Interval
    <3> QED
      BY <3>1 DEF FiniteSubsetsOf
  <2> QED
    BY <2>1
<1>3. PICK b \in below : \A z \in below : <<z, b>> \notin R
  <2> HIDE DEF R, below
  <2> QED
    BY <1>1, <1>2, WFMin
<1>4. PICK x \in T : b = 0..x
  OBVIOUS
<1>5. \A y \in T : x <= y
  <2>1. SUFFICES ASSUME NEW y \in T, y < x PROVE FALSE
    OBVIOUS
  <2>2. 0..y \in SUBSET Nat /\ 0..x \in SUBSET Nat /\ 0..y \subseteq 0..x
    BY <2>1
  <2>3. x \in 0..x /\ x \notin 0..y
    BY <2>1
  <2>4. <<0..y, b>> \in R
    BY <1>4, <2>2, <2>3 DEF StrictSubsetOrdering
  <2>5. 0..y \in below
    OBVIOUS
  <2> QED
    BY <1>3, <2>4, <2>5
<1> QED
  BY <1>5 DEF Min

LEMMA MaxExists ==
    ASSUME NEW n \in Nat, NEW T, T \subseteq 1..n, T # {}
    PROVE  Max(T) \in T /\ \A y \in T : y <= Max(T)
<1> DEFINE U == {n - t : t \in T}
<1>1. U \subseteq Nat /\ U # {}
  <2>1. ASSUME NEW t \in T PROVE n - t \in Nat
    <3>1. t \in 1..n
      OBVIOUS
    <3> QED
      BY <3>1
  <2> QED
    BY <2>1
<1>2. Min(U) \in U /\ \A u \in U : Min(U) <= u
  BY <1>1, MinExists
<1>3. PICK x \in T : Min(U) = n - x
  BY <1>2
<1>4. \A y \in T : y <= x
  <2> TAKE y \in T
  <2>1. n - y \in U
    OBVIOUS
  <2>2. n - x <= n - y
    BY <1>2, <1>3, <2>1
  <2>3. x \in 1..n /\ y \in 1..n
    OBVIOUS
  <2> QED
    BY <2>2, <2>3
<1> QED
  BY <1>3, <1>4 DEF Max

\* What the constructors build.
LEMMA MessagesTyped ==
    ASSUME NEW c \in Controls
    PROVE  /\ Query(c) \in Commands /\ CutOff(c) \in Reported
           /\ \A v \in Has(c) : Report(c, v) \in Reported
           /\ \A w \in Offered(c) : Command(c, Code(c, w)) \in Commands
<1>1. Query(c) \in Commands /\ CutOff(c) \in Reported
  BY DEF Query, CutOff, Commands, Reported, Wellformed
<1>2. ASSUME NEW v \in Has(c) PROVE Report(c, v) \in Reported
  BY ValuesAreIntegers DEF Report, Reported, Wellformed
<1>3. ASSUME NEW w \in Offered(c) PROVE Command(c, Code(c, w)) \in Commands
  BY CodeTyped, ValuesAreIntegers DEF Command, Commands, Wellformed
<1> QED
  BY <1>1, <1>2, <1>3

\* The value of a message that has one.
LEMMA MessageValue ==
    ASSUME NEW m \in Commands \cup Reported, m.v # {}
    PROVE  m.c \in Controls /\ Only(m.v) \in Has(m.c) /\ m.v = {Only(m.v)}
<1>1. m.c \in Controls /\ \E v \in Has(m.c) : m.v = {v}
  BY DEF Commands, Reported, Wellformed
<1> QED
  BY <1>1, OnlyOne

\* Parsing stops somewhere among the k reports.
LEMMA ParsedTyped ==
    ASSUME NEW k \in Nat
    PROVE  Parsed(k) \in 0..k
<1> DEFINE bad == {i \in 1..k : \E v \in reports[i].v : Throws(reports[i].c, v)}
<1>1. CASE bad = {}
  BY <1>1 DEF Parsed
<1>2. CASE bad # {}
  <2>1. Min(bad) \in bad
    BY <1>2, MinExists
  <2>2. Parsed(k) = Min(bad) - 1
    BY <1>2 DEF Parsed
  <2>3. Min(bad) \in 1..k
    BY <2>1
  <2> QED
    BY <2>2, <2>3
<1> QED
  BY <1>1, <1>2

\* What the window shows after some reports: the last value among them.
LEMMA LastShownTyped ==
    ASSUME TypeOK, NEW k \in 0..Len(reports), NEW c \in Controls
    PROVE  \/ Showing(c, k) = {} /\ LastShown(c, k) = window[c]
           \/ \E i \in Showing(c, k) :
                 /\ \A j \in Showing(c, k) : j <= i
                 /\ Shown(c, Only(reports[i].v)) = {LastShown(c, k)}
                 /\ LastShown(c, k) \in Shows(c)
<1>1. CASE Showing(c, k) = {}
  BY <1>1 DEF LastShown
<1>2. CASE Showing(c, k) # {}
  <2> DEFINE i == Max(Showing(c, k))
  <2>1. Showing(c, k) \subseteq 1..k
    BY DEF Showing
  <2>2. k \in Nat
    BY DEF TypeOK, QueueType
  <2>3. i \in Showing(c, k) /\ \A j \in Showing(c, k) : j <= i
    BY <1>2, <2>1, <2>2, MaxExists
  <2>4. reports[i] \in Reported /\ reports[i].c = c /\ reports[i].v # {}
        /\ \E v \in reports[i].v : Shown(c, v) # {}
    <3> HIDE DEF i
    <3>1. /\ i \in 1..k /\ reports[i].c = c
          /\ \E v \in reports[i].v : Shown(c, v) # {}
      BY <2>3 DEF Showing
    <3>2. reports \in Seq(Reported) /\ i \in 1..Len(reports)
      BY <3>1 DEF TypeOK, QueueType
    <3> QED
      BY <3>1, <3>2
  <2>5. Only(reports[i].v) \in Has(c) /\ Shown(c, Only(reports[i].v)) # {}
    BY <2>4, MessageValue
  <2>6. PICK w \in Shows(c) : Shown(c, Only(reports[i].v)) = {w}
    BY <2>5, ShownTyped
  <2>7. LastShown(c, k) = w
    BY <1>2, <2>6, OnlyOne DEF LastShown
  <2> QED
    BY <2>3, <2>6, <2>7
<1> QED
  BY <1>1, <1>2

-----------------------------------------------------------------------------
LEMMA CountTyped ==
    ASSUME ValueType, NEW e \in Events, Happens(e)
    PROVE  count' \in [Events -> Nat]
BY DEF ValueType, Happens

LEMMA ReportsTyped ==
    ASSUME QueueType, NEW c \in Controls, NEW v \in Has(c),
           Reports(c, v) \/ UNCHANGED reports
    PROVE  /\ reports' \in Seq(Reported) /\ unread \in 0..Len(reports')
           /\ sock # "connected" => reports' = <<>>
<1>1. Report(c, v) \in Reported
  BY MessagesTyped
<1>2. reports \in Seq(Reported) /\ unread \in 0..Len(reports)
      /\ (sock # "connected" => reports = <<>>)
  BY DEF QueueType
<1>3. CASE UNCHANGED reports
  BY <1>2, <1>3
<1>4. CASE sock = "connected" /\ reports' = Append(reports, Report(c, v))
  BY <1>1, <1>2, <1>4
<1> QED
  BY <1>3, <1>4 DEF Reports

LEMMA EmptyTyped ==
    /\ <<>> \in Seq(Commands) /\ <<>> \in Seq(Reported) /\ 0 \in 0..Len(<<>>)
OBVIOUS

\* The actions of the connection keep the types.
LEMMA DialTyped ==
    ASSUME NEW d \in Devices, Dial(d), address' \in Devices
    PROVE  SocketType' /\ QueueType'
<1>1. /\ sock' = "connecting" /\ peer' = d /\ closeDue' = FALSE
      /\ toAvr' = <<>> /\ reports' = <<>> /\ unread' = 0
  BY DEF Dial
<1>2. SocketType'
  BY <1>1 DEF SocketType
<1>3. toAvr' \in Seq(Commands) /\ reports' \in Seq(Reported) /\ unread' \in 0..Len(reports')
  BY <1>1
<1> QED
  BY <1>1, <1>2, <1>3 DEF QueueType

LEMMA ConnectedTyped == ASSUME TypeOK, Connected PROVE TypeOK'
<1>1. ValueType'
  BY DEF Connected, TypeOK, ValueType
<1>2. CASE ~closeDue
  <2> DEFINE queries == [i \in DOMAIN StatusOrder |-> Query(StatusOrder[i])]
  <2>1. queries \in Seq(Commands)
    BY SessionAssumption, MessagesTyped
  <2>2. toAvr \in Seq(Commands)
    BY DEF TypeOK, QueueType
  <2>3. toAvr' = toAvr \o queries
    BY <1>2 DEF Connected, RequestStatus
  <2> HIDE DEF queries
  <2>4. toAvr' \in Seq(Commands) /\ sock' = "connected"
    BY <1>2, <2>1, <2>2, <2>3 DEF Connected
  <2>5. QueueType'
    BY <1>2, <2>4 DEF Connected, TypeOK, QueueType
  <2> QED
    BY <1>1, <1>2, <2>5 DEF Connected, TypeOK, SocketType
<1>3. CASE closeDue /\ toAvr # <<>>
  BY <1>1, <1>3 DEF Connected, TypeOK, SocketType, QueueType
<1>4. CASE closeDue /\ toAvr = <<>>
  BY <1>1, <1>4, DialTyped DEF Connected, TypeOK, SocketType
<1> QED
  BY <1>2, <1>3, <1>4 DEF Connected

LEMMA ClosingTyped ==
    ASSUME TypeOK, ConnectFails \/ RemoteCloses \/ Closed
    PROVE  TypeOK'
<1>1. ValueType'
  BY CountTyped DEF ConnectFails, RemoteCloses, Closed, TypeOK, ValueType, Events
<1>2. CASE ConnectFails
  <2>1. SocketType'
    BY <1>2 DEF ConnectFails, TypeOK, SocketType
  <2>2. QueueType'
    BY <1>2, EmptyTyped DEF ConnectFails, TypeOK, QueueType
  <2> QED
    BY <1>1, <2>1, <2>2 DEF TypeOK
<1>3. CASE RemoteCloses \/ Closed
  <2>1. Dial(address) /\ address \in Devices /\ address' = address
    BY <1>3 DEF RemoteCloses, Closed, TypeOK, SocketType
  <2> QED
    BY <1>1, <2>1, DialTyped DEF TypeOK
<1> QED
  BY <1>2, <1>3

LEMMA OpenTyped == ASSUME TypeOK, NEW d \in Devices, OpenDevice(d) PROVE TypeOK'
<1>1. ValueType'
  BY CountTyped DEF OpenDevice, TypeOK, ValueType, Events
<1>2. CASE Dial(d)
  BY <1>1, <1>2, DialTyped DEF OpenDevice, TypeOK
<1>3. CASE ~Dial(d)
  <2>1. address' \in Devices
    BY DEF OpenDevice
  <2>2. CASE OpenConnected(d)
    <3>1. /\ sock = "connected" /\ sock' = "closing" /\ UNCHANGED <<peer, closeDue, toAvr>>
          /\ reports' = <<>> /\ unread' = 0
      BY <1>3, <2>2 DEF OpenConnected
    <3>2. SocketType'
      BY <2>1, <3>1 DEF TypeOK, SocketType
    <3>3. QueueType'
      BY <3>1, EmptyTyped DEF TypeOK, QueueType
    <3> QED
      BY <1>1, <3>2, <3>3 DEF TypeOK
  <2>3. CASE OpenConnecting(d)
    BY <1>1, <2>1, <2>3 DEF OpenConnecting, TypeOK, SocketType, QueueType
  <2>4. CASE OpenClosing(d)
    BY <1>1, <2>1, <2>4 DEF OpenClosing, TypeOK, SocketType, QueueType
  <2> QED
    BY <1>3, <2>2, <2>3, <2>4 DEF OpenDevice, OpenUnconnected
<1> QED
  BY <1>2, <1>3

\* So do the user and the receivers.
LEMMA MovesTyped ==
    ASSUME TypeOK, NEW c \in Controls, NEW w \in Offered(c), UserMoves(c, w)
    PROVE  TypeOK'
<1>1. w \in Shows(c) /\ w \in Int /\ Command(c, Code(c, w)) \in Commands
  BY CodeTyped, MessagesTyped, ValuesAreIntegers
<1>2. count' \in [Events -> Nat]
  BY CountTyped DEF UserMoves, Events, TypeOK
<1>3. ValueType'
  BY <1>1, <1>2 DEF UserMoves, TypeOK, ValueType
<1>4. \/ toAvr' = Append(toAvr, Command(c, Code(c, w))) /\ sock # "unconnected"
      \/ UNCHANGED toAvr
  BY DEF UserMoves, Writable
<1>5. toAvr' \in Seq(Commands) /\ (sock = "unconnected" => toAvr' = <<>>)
  BY <1>1, <1>4 DEF TypeOK, QueueType
<1>6. SocketType' /\ QueueType'
  BY <1>5 DEF UserMoves, TypeOK, SocketType, QueueType
<1> QED
  BY <1>3, <1>6 DEF TypeOK

LEMMA TakesTyped == ASSUME TypeOK, AvrTakes PROVE TypeOK'
<1> DEFINE m == Head(toAvr)
           old == avr[peer][m.c]
           new == IF m.v = {} THEN old ELSE Only(m.v)
<1>1. m \in Commands /\ Tail(toAvr) \in Seq(Commands)
  BY DEF AvrTakes, TypeOK, QueueType
<1>2. m.c \in Controls
  BY <1>1 DEF Commands
<1>3. new \in Has(m.c)
  BY <1>1, <1>2, MessageValue DEF TypeOK, SocketType, ValueType
<1>4. avr' = [avr EXCEPT ![peer][m.c] = new] /\ toAvr' = Tail(toAvr)
      /\ (Reports(m.c, new) \/ UNCHANGED reports)
  BY DEF AvrTakes
<1> HIDE DEF new, m
<1>5. new \in Int
  BY <1>2, <1>3, ValuesAreIntegers
<1>6. ValueType'
  <2>1. avr \in [Devices -> [Controls -> Int]] /\ peer \in Devices
        /\ \A d \in Devices, c \in Controls : avr[d][c] \in Has(c)
    BY DEF TypeOK, SocketType, ValueType
  <2>2. avr' \in [Devices -> [Controls -> Int]]
    BY <1>2, <1>4, <1>5, <2>1
  <2>3. \A d \in Devices, c \in Controls : avr'[d][c] \in Has(c)
    BY <1>2, <1>3, <1>4, <2>1
  <2> QED
    BY <2>2, <2>3 DEF AvrTakes, TypeOK, ValueType
<1>7. /\ reports' \in Seq(Reported) /\ unread \in 0..Len(reports')
      /\ sock # "connected" => reports' = <<>>
  BY <1>2, <1>3, <1>4, ReportsTyped DEF TypeOK
<1>8. SocketType' /\ QueueType'
  BY <1>1, <1>4, <1>7 DEF AvrTakes, TypeOK, SocketType, QueueType
<1> QED
  BY <1>6, <1>8 DEF TypeOK

LEMMA ChangesTyped ==
    ASSUME TypeOK, NEW d \in Devices, NEW c \in Controls, NEW v \in Has(c),
           AvrChanges(d, c, v)
    PROVE  TypeOK'
<1>1. v \in Int
  BY ValuesAreIntegers
<1>2. count' \in [Events -> Nat]
  BY CountTyped DEF AvrChanges, Events, TypeOK
<1>3. /\ reports' \in Seq(Reported) /\ unread \in 0..Len(reports')
      /\ sock # "connected" => reports' = <<>>
  BY ReportsTyped DEF AvrChanges, TypeOK
<1>4. ValueType'
  BY <1>1, <1>2 DEF AvrChanges, TypeOK, ValueType
<1>5. SocketType' /\ QueueType'
  BY <1>3 DEF AvrChanges, TypeOK, SocketType, QueueType
<1> QED
  BY <1>4, <1>5 DEF TypeOK

-----------------------------------------------------------------------------
\* One readyRead: of the reports k are read, h of them parsed, the rest of one
\* is read as a report about the controls in misread, and the next report may
\* be cut.
Responds(k, h, cut, misread) ==
    /\ sock = "connected"
    /\ cut => k < Len(reports) /\ reports[k + 1].v # {}
    /\ \A c \in Controls :
          \/ window'[c] = LastShown(c, h)
          \/ c \in misread /\ window'[c] \in Shows(c)
          \/ cut /\ c = reports[k + 1].c /\ window'[c] \in Shows(c)
    /\ toAvr' = toAvr
    /\ reports' = [i \in 1..Len(reports) - k |->
                      IF cut /\ i = 1 THEN CutOff(reports[k + 1].c) ELSE reports[k + i]]
    /\ missed' = (missed \ {reports[i].c : i \in {j \in 1..h : reports[j].v # {}}})
                 \cup misread \cup {reports[i].c : i \in h + 1..k}
                 \cup (IF cut THEN {reports[k + 1].c} ELSE {})
    /\ UNCHANGED <<address, sock, peer, closeDue, avr, count>>

LEMMA ResponseShape ==
    ASSUME TypeOK, NEW arrived \in 0..Len(reports), NEW cut \in BOOLEAN,
           OnResponse(arrived, cut)
    PROVE  /\ DOMAIN window' = Controls
           /\ \E k \in 0..arrived, h \in 0..arrived, misread \in SUBSET Controls :
                 h <= k /\ unread' = arrived - k /\ Responds(k, h, cut, misread)
<1> DEFINE k == IF arrived > ReadLimit THEN ReadLimit ELSE arrived
           h == Parsed(k)
           next == reports[k + 1]
           told == {reports[i].c : i \in {j \in 1..h : reports[j].v # {}}}
<1>1. reports \in Seq(Reported) /\ toAvr \in Seq(Commands) /\ arrived \in Nat
  BY DEF TypeOK, QueueType
<1>2. k \in 0..arrived
  BY <1>1, SessionAssumption
<1>3. h \in 0..k
  BY <1>2, ParsedTyped
<1>4. cut => k < Len(reports) /\ next.v # {}
  BY DEF OnResponse
<1>5. PICK part \in IF cut /\ h = k THEN ShownCut(next.c, Only(next.v)) ELSE {{}},
           misread \in SUBSET (Misread(h) \ told) :
          /\ window' = [c \in Controls |-> IF part # {} /\ c = next.c THEN Only(part)
                                           ELSE IF c \in misread THEN 0
                                           ELSE LastShown(c, h)]
          /\ missed' = (missed \ told) \cup misread \cup {reports[i].c : i \in h + 1..k}
                       \cup (IF cut THEN {next.c} ELSE {})
  BY DEF OnResponse
<1>6. /\ sock = "connected" /\ toAvr' = toAvr \o <<>> /\ unread' = arrived - k
      /\ reports' = [i \in 1..Len(reports) - k |->
                       IF cut /\ i = 1 THEN CutOff(next.c) ELSE reports[k + i]]
      /\ UNCHANGED <<address, sock, peer, closeDue, avr, count>>
  BY DEF OnResponse, Echo
<1> HIDE DEF k, h
<1>7. ASSUME NEW c \in Controls
      PROVE  \/ window'[c] = LastShown(c, h)
             \/ c \in misread /\ window'[c] \in Shows(c)
             \/ cut /\ c = next.c /\ window'[c] \in Shows(c)
  <2>1. CASE part = {} \/ c # next.c
    BY <1>5, <2>1, ValuesAreIntegers
  <2>2. CASE part # {} /\ c = next.c
    <3>1. cut /\ part \in ShownCut(next.c, Only(next.v)) /\ window'[c] = Only(part)
      BY <1>5, <2>2
    <3>2. next \in Reported /\ next.v # {}
      BY <1>1, <1>2, <1>4, <3>1
    <3>3. Only(next.v) \in Has(c)
      BY <2>2, <3>2, MessageValue
    <3>4. PICK w \in Shows(c) : part = {w}
      BY <2>2, <3>1, <3>3, ShownCutTyped
    <3> QED
      BY <2>2, <3>1, <3>4, OnlyOne
  <2> QED
    BY <2>1, <2>2
<1>8. toAvr' = toAvr
  BY <1>1, <1>6
<1>9. Responds(k, h, cut, misread)
  BY <1>4, <1>5, <1>6, <1>7, <1>8 DEF Responds
<1>10. h \in 0..arrived /\ h <= k
  BY <1>1, <1>2, <1>3
<1>11. misread \subseteq Controls
  BY <1>5 DEF Misread
<1> QED
  BY <1>2, <1>5, <1>6, <1>9, <1>10, <1>11

LEMMA ResponseTyped ==
    ASSUME TypeOK, NEW arrived \in 0..Len(reports), NEW cut \in BOOLEAN,
           OnResponse(arrived, cut)
    PROVE  TypeOK'
<1>1. PICK k \in 0..arrived, h \in 0..arrived, misread \in SUBSET Controls :
          h <= k /\ unread' = arrived - k /\ Responds(k, h, cut, misread)
  BY ResponseShape
<1>2. reports \in Seq(Reported) /\ arrived \in Nat /\ k <= Len(reports) /\ h \in 0..Len(reports)
  BY DEF TypeOK, QueueType
<1>3. \A i \in 1..Len(reports) : reports[i] \in Reported /\ reports[i].c \in Controls
  BY <1>2 DEF Reported
<1>4. window' \in [Controls -> Int] /\ \A c \in Controls : window'[c] \in Shows(c)
  <2>1. ASSUME NEW c \in Controls PROVE window'[c] \in Shows(c)
    BY <1>1, <1>2, LastShownTyped DEF Responds, TypeOK, ValueType
  <2>2. DOMAIN window' = Controls /\ window' = [c \in Controls |-> window'[c]]
    BY ResponseShape DEF OnResponse
  <2> QED
    BY <2>1, <2>2, ValuesAreIntegers
<1>5. missed' \subseteq Controls
  <2>1. \A i \in h + 1..k : i \in 1..Len(reports)
    BY <1>1, <1>2
  <2>2. cut => k + 1 \in 1..Len(reports)
    BY <1>1, <1>2 DEF Responds
  <2>3. missed \subseteq Controls
    BY DEF TypeOK, ValueType
  <2> QED
    BY <1>1, <1>3, <2>1, <2>2, <2>3 DEF Responds
<1>6. reports' \in Seq(Reported) /\ Len(reports') = Len(reports) - k
  <2>1. ASSUME NEW i \in 1..Len(reports) - k
        PROVE  (IF cut /\ i = 1 THEN CutOff(reports[k + 1].c) ELSE reports[k + i]) \in Reported
    <3>1. k + i \in 1..Len(reports) /\ (cut => k + 1 \in 1..Len(reports))
      BY <1>1, <1>2 DEF Responds
    <3> QED
      BY <1>3, <3>1, MessagesTyped
  <2>2. Len(reports) - k \in Nat
    BY <1>1, <1>2
  <2> QED
    BY <1>1, <2>1, <2>2 DEF Responds
<1>7. unread' \in 0..Len(reports')
  BY <1>1, <1>2, <1>6
<1>8. SocketType' /\ ValueType'
  BY <1>1, <1>4, <1>5 DEF Responds, TypeOK, SocketType, ValueType
<1>9. QueueType'
  BY <1>1, <1>6, <1>7 DEF Responds, TypeOK, QueueType
<1> QED
  BY <1>8, <1>9 DEF TypeOK

\* The types hold in every state.
LEMMA TypeStep == ASSUME TypeOK, [Next]_vars PROVE TypeOK'
<1>1. CASE UNCHANGED vars
  BY <1>1 DEF vars, TypeOK, SocketType, ValueType, QueueType
<1>2. ASSUME NEW arrived \in 0..Len(reports), NEW cut \in BOOLEAN, OnResponse(arrived, cut)
      PROVE  TypeOK'
  BY <1>2, ResponseTyped
<1> QED
  BY <1>1, <1>2, ConnectedTyped, ClosingTyped, OpenTyped, MovesTyped, TakesTyped,
     ChangesTyped DEF Next, Deliver

\* The variables of the session have their types, and the queues and the buffer
\* hold something only when the socket is in a state that allows it.
THEOREM SessionTypeCorrect == Spec => []TypeOK
<1>1. Init => TypeOK
  <2>1. SUFFICES ASSUME Init PROVE TypeOK
    OBVIOUS
  <2>2. \A c \in Controls : 0 \in Shows(c) /\ Has(c) \subseteq Int
    BY ValuesAreIntegers
  <2>3. SocketType /\ QueueType
    BY <2>1, EmptyTyped DEF Init, SocketType, QueueType
  <2>4. avr \in [Devices -> [Controls -> Int]]
    BY <2>1, <2>2 DEF Init
  <2>5. ValueType
    BY <2>1, <2>2, <2>4 DEF Init, ValueType
  <2> QED
    BY <2>3, <2>5 DEF TypeOK
<1>2. TypeOK /\ [Next]_vars => TypeOK'
  BY TypeStep
<1> QED
  BY <1>1, <1>2, PTL DEF Spec

-----------------------------------------------------------------------------
\* While connected, or while writing is possible, the window has the receiver
\* that was chosen last: choosing another one ends what can be written.
THEOREM ChosenPeerHolds == Spec => []ChosenPeer
<1>1. Init => ChosenPeer
  BY DEF Init, ChosenPeer
<1>2. ChosenPeer /\ [Next]_vars => ChosenPeer'
  <2> SUFFICES ASSUME ChosenPeer, [Next]_vars PROVE ChosenPeer'
    OBVIOUS
  <2>1. CASE UNCHANGED <<address, sock, peer, closeDue>>
    BY <2>1 DEF ChosenPeer, Writable
  <2>2. CASE Connected
    BY <2>2 DEF Connected, Dial, ChosenPeer, Writable
  <2>3. CASE ConnectFails \/ RemoteCloses \/ Closed
    BY <2>3 DEF ConnectFails, RemoteCloses, Closed, Dial, ChosenPeer, Writable
  <2>4. ASSUME NEW d \in Devices, OpenDevice(d) PROVE ChosenPeer'
    BY <2>4 DEF OpenDevice, OpenConnected, OpenConnecting, OpenUnconnected, OpenClosing,
       Dial, ChosenPeer, Writable
  <2>5. CASE AvrTakes \/ Deliver
    BY <2>1, <2>5 DEF AvrTakes, Deliver, OnResponse
  <2>6. ASSUME NEW c \in Controls, NEW w \in Offered(c), UserMoves(c, w) PROVE ChosenPeer'
    BY <2>1, <2>6 DEF UserMoves
  <2>7. ASSUME NEW d \in Devices, NEW c \in Controls, NEW v \in Has(c), AvrChanges(d, c, v)
        PROVE  ChosenPeer'
    BY <2>1, <2>7 DEF AvrChanges
  <2>8. CASE UNCHANGED vars
    BY <2>1, <2>8 DEF vars
  <2> QED
    BY <2>2, <2>3, <2>4, <2>5, <2>6, <2>7, <2>8 DEF Next
<1> QED
  BY <1>1, <1>2, PTL DEF Spec

-----------------------------------------------------------------------------
\* A command or query about c that is not the next one to be taken stays on its
\* way, and nothing that follows it changes.
LEMMA SettingTail ==
    ASSUME toAvr \in Seq(Commands), toAvr # <<>>, toAvr' = Tail(toAvr),
           NEW c \in Controls, UNCHANGED window
    PROVE  /\ Asking(c) => toAvr[1] = Query(c) \/ Asking(c)'
           /\ Setting(c) => toAvr[1] = Command(c, Code(c, window[c])) \/ Setting(c)'
<1>1. \A i \in DOMAIN toAvr : i # 1 => i - 1 \in DOMAIN toAvr' /\ toAvr'[i - 1] = toAvr[i]
  OBVIOUS
<1>2. \A j \in DOMAIN toAvr' : j + 1 \in DOMAIN toAvr /\ toAvr'[j] = toAvr[j + 1]
  OBVIOUS
<1>3. ASSUME NEW i \in DOMAIN toAvr, toAvr[i] = Query(c), i # 1 PROVE Asking(c)'
  BY <1>1, <1>3 DEF Asking
<1>4. ASSUME NEW i \in DOMAIN toAvr, toAvr[i] = Command(c, Code(c, window[c])), i # 1,
             \A j \in DOMAIN toAvr : j > i => toAvr[j].c # c \/ toAvr[j].v = {}
      PROVE  Setting(c)'
  <2>1. toAvr'[i - 1] = Command(c, Code(c, window'[c]))
    BY <1>1, <1>4
  <2>2. \A j \in DOMAIN toAvr' : j > i - 1 => toAvr'[j].c # c \/ toAvr'[j].v = {}
    <3> TAKE j \in DOMAIN toAvr'
    <3>1. i \in Int /\ j \in Int
      OBVIOUS
    <3> QED
      BY <1>2, <1>4, <3>1
  <2> QED
    BY <1>1, <1>4, <2>1, <2>2 DEF Setting
<1> QED
  BY <1>3, <1>4 DEF Asking, Setting

\* What is written last about another control changes nothing for c.
LEMMA SettingAppend ==
    ASSUME toAvr \in Seq(Commands), NEW c \in Controls, NEW m, m.c # c,
           toAvr' = Append(toAvr, m), window'[c] = window[c]
    PROVE  (Asking(c) => Asking(c)') /\ (Setting(c) => Setting(c)')
<1>1. \A i \in DOMAIN toAvr : i \in DOMAIN toAvr' /\ toAvr'[i] = toAvr[i]
  OBVIOUS
<1>2. \A j \in DOMAIN toAvr' : j \in DOMAIN toAvr \/ toAvr'[j] = m
  OBVIOUS
<1>3. Asking(c) => Asking(c)'
  BY <1>1 DEF Asking
<1>4. ASSUME NEW i \in DOMAIN toAvr, toAvr[i] = Command(c, Code(c, window[c])),
             \A j \in DOMAIN toAvr : j > i => toAvr[j].c # c \/ toAvr[j].v = {}
      PROVE  Setting(c)'
  BY <1>1, <1>2, <1>4 DEF Setting
<1> QED
  BY <1>3, <1>4 DEF Setting

\* A report is the last one about its control and does not concern the others.
LEMMA ReportAppended ==
    ASSUME reports \in Seq(Reported), NEW b \in Controls, NEW v \in Has(b),
           reports' = Append(reports, Report(b, v)), NEW c \in Controls
    PROVE  /\ c # b => Pending(c)' = Pending(c)
                       /\ \A i \in Pending(c) : reports'[i] = reports[i]
           /\ c = b /\ avr'[peer'][b] = v => Pending(c)' # {} /\ LastIsPresent(c)'
<1>1. Len(reports') = Len(reports) + 1 /\ reports'[Len(reports) + 1] = Report(b, v)
      /\ Len(reports) \in Nat /\ DOMAIN reports' = 1..Len(reports) + 1
      /\ DOMAIN reports = 1..Len(reports)
      /\ \A i \in 1..Len(reports) : reports'[i] = reports[i]
  BY MessagesTyped
<1>2. CASE c # b
  BY <1>1, <1>2 DEF Pending, Report
<1>3. CASE c = b
  <2>1. Len(reports) + 1 \in Pending(c)'
    BY <1>1, <1>3 DEF Pending, Report
  <2>2. \A i \in Pending(c)' : i <= Len(reports) + 1
    BY <1>1 DEF Pending
  <2>3. ASSUME avr'[peer'][b] = v, NEW i \in Pending(c)', \A j \in Pending(c)' : j <= i
        PROVE  reports'[i].v = {avr'[peer'][c]}
    <3>1. i = Len(reports) + 1
      <4>1. i \in 1..Len(reports) + 1
        BY <1>1 DEF Pending
      <4> QED
        BY <1>1, <2>1, <2>3, <4>1
    <3> QED
      BY <1>1, <1>3, <2>3, <3>1 DEF Report
  <2> QED
    BY <1>3, <2>1, <2>3 DEF LastIsPresent
<1> QED
  BY <1>2, <1>3

\* What the session's invariant says of c depends on the queues, the window and
\* the connected receiver's value of c alone.
LEMMA FollowsUnchanged ==
    ASSUME NEW c \in Controls, Follows(c),
           UNCHANGED <<window, toAvr, reports, missed>>, avr'[peer'][c] = avr[peer][c]
    PROVE  Follows(c)'
BY DEF Follows, LastIsPresent, Pending, Agrees, Asking, Setting

\* Connecting asks for every control but those that are marked as missed.
LEMMA ConnectedFollows ==
    ASSUME TypeOK, Connected, sock' = "connected", NEW c \in Controls
    PROVE  Follows(c)'
<1>1. /\ reports' = <<>> /\ toAvr' = RequestStatus(toAvr) /\ toAvr \in Seq(Commands)
      /\ missed' = {b \in Controls : \A i \in DOMAIN StatusOrder : StatusOrder[i] # b}
  BY DEF Connected, Dial, TypeOK, QueueType
<1>2. Pending(c)' = {}
  BY <1>1 DEF Pending
<1>3. ASSUME NEW i \in DOMAIN StatusOrder, StatusOrder[i] = c PROVE Asking(c)'
  <2> DEFINE queries == [j \in DOMAIN StatusOrder |-> Query(StatusOrder[j])]
  <2>1. StatusOrder \in Seq(Controls)
    BY SessionAssumption
  <2>2. queries \in Seq(Commands) /\ i \in DOMAIN queries /\ queries[i] = Query(c)
    BY <1>3, <2>1, MessagesTyped
  <2>3. toAvr' = toAvr \o queries
    BY <1>1 DEF RequestStatus
  <2> HIDE DEF queries
  <2>4. Len(toAvr) + i \in DOMAIN toAvr' /\ toAvr'[Len(toAvr) + i] = Query(c)
    BY <1>1, <2>2, <2>3
  <2> QED
    BY <2>4 DEF Asking
<1>4. c \notin missed' => Asking(c)'
  BY <1>1, <1>3
<1> QED
  BY <1>2, <1>4 DEF Follows, LastIsPresent

\* What the user sets is on its way to the receiver, or cannot be sent at all.
LEMMA MovesFollow ==
    ASSUME TypeOK, NEW b \in Controls, NEW w \in Offered(b), UserMoves(b, w),
           sock = "connected", NEW c \in Controls, Follows(c)
    PROVE  Follows(c)'
<1> DEFINE m == Command(b, Code(b, w))
<1>1. /\ toAvr \in Seq(Commands) /\ m \in Commands /\ m.c = b
      /\ \/ Commanded(b) /\ toAvr' = Append(toAvr, m)
         \/ ~Commanded(b) /\ UNCHANGED toAvr
  BY MessagesTyped DEF UserMoves, TypeOK, QueueType, Command
<1>2. window' = [window EXCEPT ![b] = w] /\ UNCHANGED <<peer, avr, reports, missed>>
      /\ window \in [Controls -> Int]
  BY DEF UserMoves, TypeOK, ValueType
<1> HIDE DEF m
<1>3. LastIsPresent(c)' /\ Pending(c)' = Pending(c)
  BY <1>2 DEF Follows, LastIsPresent, Pending
<1>4. CASE c # b
  <2>1. window'[c] = window[c]
    BY <1>2, <1>4
  <2>2. (Asking(c) => Asking(c)') /\ (Setting(c) => Setting(c)')
    <3>1. CASE toAvr' = Append(toAvr, m)
      BY <1>1, <1>4, <2>1, <3>1, SettingAppend
    <3>2. CASE UNCHANGED toAvr
      BY <2>1, <3>2 DEF Asking, Setting
    <3> QED
      BY <1>1, <3>1, <3>2
  <2>3. Agrees(c) => Agrees(c)'
    BY <1>2, <2>1 DEF Agrees
  <2> QED
    BY <1>2, <1>3, <2>2, <2>3 DEF Follows
<1>5. CASE c = b /\ Commanded(b)
  <2>1. /\ Len(toAvr) + 1 \in DOMAIN toAvr'
        /\ toAvr'[Len(toAvr) + 1] = Command(c, Code(c, window'[c]))
        /\ \A j \in DOMAIN toAvr' : j <= Len(toAvr) + 1
    BY <1>1, <1>2, <1>5 DEF m
  <2>2. Setting(c)'
    <3>1. \A j \in DOMAIN toAvr' : ~(j > Len(toAvr) + 1)
      BY <1>1, <1>5, <2>1
    <3> QED
      BY <2>1, <3>1 DEF Setting
  <2> QED
    BY <1>3, <2>2 DEF Follows
<1>6. CASE c = b /\ ~Commanded(b)
  <2>1. Code(c, window'[c]) = {}
    BY <1>6 DEF Commanded, Code
  <2> QED
    BY <1>3, <2>1 DEF Follows, Agrees
<1> QED
  BY <1>4, <1>5, <1>6

\* What a receiver takes it reports; it may be silent only when it already has
\* the value that a command sets.
LEMMA TakesFollow ==
    ASSUME TypeOK, AvrTakes, sock = "connected", NEW c \in Controls, Follows(c)
    PROVE  Follows(c)'
<1> DEFINE m == toAvr[1]
           old == avr[peer][m.c]
           new == IF m.v = {} THEN old ELSE Only(m.v)
<1>1. /\ toAvr \in Seq(Commands) /\ toAvr # <<>> /\ toAvr' = Tail(toAvr)
      /\ m \in Commands /\ Head(toAvr) = m /\ reports \in Seq(Reported)
      /\ UNCHANGED <<peer, window, missed>>
  BY DEF AvrTakes, TypeOK, QueueType
<1>2. m.c \in Controls
  BY <1>1 DEF Commands
<1>3. new \in Has(m.c)
  BY <1>1, <1>2, MessageValue DEF TypeOK, SocketType, ValueType
<1>4. /\ avr' = [avr EXCEPT ![peer][m.c] = new]
      /\ \/ reports' = Append(reports, Report(m.c, new))
         \/ m.kind = "set" /\ new = old /\ UNCHANGED reports
  BY <1>1 DEF AvrTakes, Reports
<1>5. /\ avr'[peer'][m.c] = new /\ \A b \in Controls : b # m.c => avr'[peer'][b] = avr[peer][b]
  BY <1>1, <1>2, <1>4 DEF TypeOK, SocketType, ValueType
<1>6. /\ Asking(c) => m = Query(c) \/ Asking(c)'
      /\ Setting(c) => m = Command(c, Code(c, window[c])) \/ Setting(c)'
  BY <1>1, SettingTail
<1> HIDE DEF m, new
<1>7. CASE c # m.c
  <2>1. m # Query(c) /\ m # Command(c, Code(c, window[c]))
    BY <1>7 DEF Query, Command
  <2>2. Agrees(c) => Agrees(c)'
    BY <1>1, <1>5, <1>7 DEF Agrees
  <2>3. Pending(c)' = Pending(c) /\ \A i \in Pending(c) : reports'[i] = reports[i]
    <3>1. CASE UNCHANGED reports
      BY <3>1 DEF Pending
    <3>2. CASE reports' = Append(reports, Report(m.c, new))
      BY <1>1, <1>2, <1>3, <1>7, <3>2, ReportAppended
    <3> QED
      BY <1>4, <3>1, <3>2
  <2>4. LastIsPresent(c)'
    BY <1>5, <1>7, <2>3 DEF Follows, LastIsPresent
  <2> QED
    BY <1>1, <1>6, <2>1, <2>2, <2>3, <2>4 DEF Follows
<1>8. CASE c = m.c /\ reports' = Append(reports, Report(m.c, new))
  BY <1>1, <1>2, <1>3, <1>5, <1>8, ReportAppended DEF Follows
<1>9. CASE c = m.c /\ m.kind = "set" /\ new = old /\ UNCHANGED reports
  <2>1. avr'[peer'][c] = avr[peer][c]
    BY <1>5, <1>9
  <2>2. LastIsPresent(c)' /\ Pending(c)' = Pending(c) /\ (Agrees(c) => Agrees(c)')
    BY <1>1, <1>9, <2>1 DEF Follows, LastIsPresent, Pending, Agrees
  <2>3. m # Query(c)
    BY <1>9 DEF Query
  <2>4. ASSUME m = Command(c, Code(c, window[c])) PROVE Agrees(c)'
    <3>1. CASE Code(c, window[c]) = {}
      BY <1>1, <3>1 DEF Agrees
    <3>2. CASE Code(c, window[c]) # {}
      <4>1. m.v = Code(c, window[c]) /\ m.v = {Only(m.v)}
        BY <1>1, <2>4, <3>2, MessageValue DEF Command
      <4>2. avr'[peer'][c] = Only(m.v)
        BY <1>5, <1>9, <3>2, <4>1 DEF new
      <4>3. window[c] \in Shows(c)
        BY DEF TypeOK, ValueType
      <4>4. Shown(c, avr'[peer'][c]) = {window[c]}
        BY <4>1, <4>2, <4>3, CodeShown
      <4> QED
        BY <1>1, <4>4 DEF Agrees
    <3> QED
      BY <3>1, <3>2
  <2> QED
    BY <1>1, <1>6, <2>2, <2>3, <2>4 DEF Follows
<1> QED
  BY <1>4, <1>7, <1>8, <1>9

\* What somebody else changes is reported when it is the connected receiver's.
LEMMA ChangesFollow ==
    ASSUME TypeOK, NEW d \in Devices, NEW b \in Controls, NEW v \in Has(b),
           AvrChanges(d, b, v), sock = "connected", NEW c \in Controls, Follows(c)
    PROVE  Follows(c)'
<1>1. /\ avr' = [avr EXCEPT ![d][b] = v] /\ avr \in [Devices -> [Controls -> Int]]
      /\ peer \in Devices /\ UNCHANGED <<peer, window, toAvr, missed>>
      /\ reports \in Seq(Reported)
      /\ IF d = peer THEN reports' = Append(reports, Report(b, v)) ELSE UNCHANGED reports
  BY DEF AvrChanges, Reports, TypeOK, SocketType, ValueType, QueueType
<1>2. CASE d # peer
  <2>1. avr'[peer'][c] = avr[peer][c]
    BY <1>1, <1>2
  <2> QED
    BY <1>1, <1>2, <2>1, FollowsUnchanged
<1>3. CASE d = peer /\ c # b
  <2>1. avr'[peer'][c] = avr[peer][c]
    BY <1>1, <1>3
  <2>2. Pending(c)' = Pending(c) /\ \A i \in Pending(c) : reports'[i] = reports[i]
    BY <1>1, <1>3, ReportAppended
  <2>3. LastIsPresent(c)'
    BY <2>1, <2>2 DEF Follows, LastIsPresent
  <2>4. (Agrees(c) => Agrees(c)') /\ (Asking(c) => Asking(c)') /\ (Setting(c) => Setting(c)')
    BY <1>1, <2>1 DEF Agrees, Asking, Setting
  <2> QED
    BY <1>1, <2>2, <2>3, <2>4 DEF Follows
<1>4. CASE d = peer /\ c = b
  <2>1. avr'[peer'][b] = v
    BY <1>1, <1>4
  <2>2. Pending(c)' # {} /\ LastIsPresent(c)'
    BY <1>1, <1>4, <2>1, ReportAppended
  <2> QED
    BY <2>2 DEF Follows
<1> QED
  BY <1>2, <1>3, <1>4

\* The reports that remain are the later ones; of those that were read the last
\* value is shown, and it is the present one when none remains.
LEMMA ResponseFollows ==
    ASSUME TypeOK, NEW arrived \in 0..Len(reports), NEW cut \in BOOLEAN,
           OnResponse(arrived, cut), NEW c \in Controls, Follows(c)
    PROVE  Follows(c)'
<1>1. PICK k \in 0..arrived, h \in 0..arrived, misread \in SUBSET Controls :
          h <= k /\ Responds(k, h, cut, misread)
  BY ResponseShape
<1> DEFINE n == Len(reports)
<1>2. /\ reports \in Seq(Reported) /\ n \in Nat /\ k \in 0..n /\ h \in 0..k
      /\ DOMAIN reports = 1..n
  BY <1>1 DEF TypeOK, QueueType
<1>3. /\ DOMAIN reports' = 1..n - k
      /\ \A i \in 1..n - k :
            reports'[i] = IF cut /\ i = 1 THEN CutOff(reports[k + 1].c) ELSE reports[k + i]
      /\ UNCHANGED <<peer, avr, toAvr>>
  BY <1>1 DEF Responds
<1> HIDE DEF n
<1>4. \A i \in Pending(c)' : i \in 1..n - k /\ k + i \in Pending(c) /\ reports'[i] = reports[k + i]
  <2> TAKE i \in Pending(c)'
  <2>1. i \in 1..n - k /\ reports'[i].c = c /\ reports'[i].v # {}
    BY <1>3 DEF Pending
  <2>2. ~(cut /\ i = 1)
    BY <1>3, <2>1 DEF CutOff
  <2>3. reports'[i] = reports[k + i] /\ k + i \in 1..n
    BY <1>2, <1>3, <2>1, <2>2
  <2> QED
    BY <1>2, <2>1, <2>3 DEF Pending
<1>5. ASSUME NEW p \in Pending(c), p > k, cut => p # k + 1
      PROVE  p - k \in Pending(c)'
  <2>1. p \in 1..n /\ reports[p].c = c /\ reports[p].v # {}
    BY <1>2 DEF Pending
  <2>2. p - k \in 1..n - k /\ ~(cut /\ p - k = 1) /\ k + (p - k) = p
    BY <1>2, <1>5, <2>1
  <2>3. reports'[p - k] = reports[p]
    BY <1>3, <2>2
  <2> QED
    BY <1>3, <2>1, <2>2, <2>3 DEF Pending
<1>6. LastIsPresent(c)'
  <2>1. SUFFICES ASSUME NEW i \in Pending(c)', \A j \in Pending(c)' : j <= i
                 PROVE  reports'[i].v = {avr'[peer'][c]}
    BY DEF LastIsPresent
  <2>2. i \in 1..n - k /\ k + i \in Pending(c) /\ reports'[i] = reports[k + i]
    BY <1>4
  <2>3. ASSUME NEW j \in Pending(c), j > k + i PROVE FALSE
    <3>1. j \in 1..n
      BY <1>2 DEF Pending
    <3>2. j > k /\ j # k + 1
      BY <1>2, <2>2, <2>3, <3>1
    <3>3. j - k <= i
      BY <1>5, <2>1, <3>2
    <3> QED
      BY <1>2, <2>2, <2>3, <3>1, <3>3
  <2>4. \A j \in Pending(c) : j <= k + i
    <3> TAKE j \in Pending(c)
    <3>1. j \in 1..n
      BY <1>2 DEF Pending
    <3> QED
      BY <1>2, <2>2, <2>3, <3>1
  <2> QED
    BY <1>3, <2>2, <2>4 DEF Follows, LastIsPresent
<1>7. ASSUME c \notin missed', Pending(c)' = {}
      PROVE  Agrees(c)' \/ Asking(c)' \/ Setting(c)'
  <2>1. /\ \A i \in h + 1..k : reports[i].c # c
        /\ cut => reports[k + 1].c # c
        /\ c \notin misread
        /\ c \in missed => c \in {reports[i].c : i \in {j \in 1..h : reports[j].v # {}}}
    BY <1>1, <1>7 DEF Responds
  <2>2. window'[c] = LastShown(c, h)
    BY <1>1, <2>1 DEF Responds
  <2>3. h \in 0..Len(reports)
    BY <1>2 DEF n
  <2>4. Showing(c, h) \subseteq Pending(c)
    BY <1>2 DEF Showing, Pending
  <2>5. CASE Pending(c) = {}
    <3>1. c \notin missed
      <4>1. \A i \in 1..h : reports[i].c = c => reports[i].v = {}
        BY <1>2, <2>5 DEF Pending
      <4> QED
        BY <2>1, <4>1
    <3>2. window'[c] = window[c]
      BY <2>2, <2>4, <2>5 DEF LastShown
    <3> QED
      BY <1>3, <2>5, <3>1, <3>2 DEF Follows, Agrees, Asking, Setting
  <2>6. CASE Pending(c) # {}
    <3>1. \A p \in Pending(c) : p \in 1..h
      <4> TAKE p \in Pending(c)
      <4>1. p \in 1..n /\ reports[p].c = c
        BY <1>2 DEF Pending
      <4>2. ~(p > k)
        BY <1>5, <1>7, <2>1, <4>1
      <4>3. p \notin h + 1..k
        BY <2>1, <4>1
      <4> QED
        BY <1>2, <4>1, <4>2, <4>3
    <3>2. PICK p \in Pending(c) : \A q \in Pending(c) : q <= p
      <4>1. Pending(c) \subseteq 1..h /\ h \in Nat
        BY <1>2, <3>1
      <4> QED
        BY <2>6, <4>1, MaxExists
    <3>3. reports[p].v = {avr[peer][c]} /\ reports[p].c = c /\ p \in 1..h
      BY <3>1, <3>2 DEF Follows, LastIsPresent, Pending
    <3>4. CASE Shown(c, avr[peer][c]) = {}
      BY <1>3, <3>4 DEF Agrees
    <3>5. CASE Shown(c, avr[peer][c]) # {}
      <4>1. p \in Showing(c, h)
        BY <3>3, <3>5 DEF Showing
      <4>2. PICK i \in Showing(c, h) :
                /\ \A j \in Showing(c, h) : j <= i
                /\ Shown(c, Only(reports[i].v)) = {LastShown(c, h)}
        BY <2>3, <4>1, LastShownTyped
      <4>3. i = p
        <5>1. i <= p /\ p <= i
          BY <2>4, <3>2, <4>1, <4>2
        <5>2. i \in 1..h
          BY <2>4, <3>1
        <5> QED
          BY <3>3, <5>1, <5>2
      <4>4. Shown(c, avr[peer][c]) = {window'[c]}
        BY <2>2, <3>3, <4>2, <4>3, OnlyOne
      <4> QED
        BY <1>3, <4>4 DEF Agrees
    <3> QED
      BY <3>4, <3>5
  <2> QED
    BY <2>5, <2>6
<1> QED
  BY <1>6, <1>7 DEF Follows

LEMMA SessionStep == ASSUME TypeOK, SessionInv, [Next]_vars PROVE SessionInv'
<1> SUFFICES ASSUME sock' = "connected", NEW c \in Controls PROVE Follows(c)'
  BY DEF SessionInv
<1>1. CASE Connected
  BY <1>1, ConnectedFollows
<1>2. ASSUME ConnectFails \/ RemoteCloses \/ Closed PROVE FALSE
  BY <1>2 DEF ConnectFails, RemoteCloses, Closed, Dial
<1>3. ASSUME NEW d \in Devices, OpenDevice(d) PROVE FALSE
  BY <1>3 DEF OpenDevice, OpenConnected, OpenConnecting, OpenUnconnected, OpenClosing, Dial
<1>4. sock = "connected" => Follows(c)
  BY DEF SessionInv
<1>5. CASE AvrTakes
  BY <1>4, <1>5, TakesFollow DEF AvrTakes
<1>6. CASE Deliver
  <2>1. PICK arrived \in 0..Len(reports), cut \in BOOLEAN : OnResponse(arrived, cut)
    BY <1>6 DEF Deliver
  <2> QED
    BY <1>4, <2>1, ResponseFollows DEF OnResponse
<1>7. ASSUME NEW b \in Controls, NEW w \in Offered(b), UserMoves(b, w) PROVE Follows(c)'
  BY <1>4, <1>7, MovesFollow DEF UserMoves
<1>8. ASSUME NEW d \in Devices, NEW b \in Controls, NEW v \in Has(b), AvrChanges(d, b, v)
      PROVE  Follows(c)'
  BY <1>4, <1>8, ChangesFollow DEF AvrChanges
<1>9. CASE UNCHANGED vars
  <2>1. sock = "connected" /\ UNCHANGED <<window, toAvr, reports, missed, peer, avr>>
    BY <1>9 DEF vars
  <2> QED
    BY <1>4, <2>1, FollowsUnchanged
<1> QED
  BY <1>1, <1>2, <1>3, <1>5, <1>6, <1>7, <1>8, <1>9 DEF Next

\* When nothing about a control is on its way between the window and the
\* connected receiver, the window shows what the receiver has.
THEOREM WindowAgreesHolds == Spec => []WindowAgrees
<1>1. Init => SessionInv
  BY DEF Init, SessionInv
<1>2. TypeOK /\ SessionInv /\ [Next]_vars => SessionInv'
  BY SessionStep
<1>3. SessionInv => WindowAgrees
  <2> SUFFICES ASSUME SessionInv, NEW c \in Controls, sock = "connected", ~OnItsWay(c),
                      c \notin missed
               PROVE  Agrees(c)
    BY DEF WindowAgrees, Agrees
  <2>1. Pending(c) = {} /\ ~Asking(c)
    BY DEF OnItsWay, Pending, Asking, Query
  <2>2. ~Setting(c)
    BY DEF OnItsWay, Setting, Command
  <2> QED
    BY <2>1, <2>2 DEF SessionInv, Follows
<1> QED
  BY <1>1, <1>2, <1>3, SessionTypeCorrect, PTL DEF Spec

=============================================================================
