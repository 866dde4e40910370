-------------------------- MODULE UpnpEventsProofs --------------------------
(***************************************************************************)
(* A subscription lapses only while its renewal is due or under way, and   *)
(* the callbacks are taken whole and in order, for any number of services  *)
(* and connections, any period and any notifications.                      *)
(***************************************************************************)
EXTENDS UpnpEvents, HttpParserProofs, TLAPS

\* What the callbacks leave alone.
chain == <<registered, subIdx, subSocket, asked, timeout, timer, left, failed>>

LEMMA UrisLength == /\ Len(uris) \in Nat \ {0} /\ DOMAIN uris = 1..Len(uris)
                    /\ \A i \in 1..Len(uris) : uris[i] \in Services
  BY EventsAssumption DEF Services

LEMMA PeriodPositive == Period \in Nat /\ Period > 0
  BY EventsAssumption

LEMMA CallbacksLeaveChain ==
  ASSUME onCbRead \/ \E p \in Peers, head \in Headers, n \in Bodies : DeviceNotifies(p, head, n)
  PROVE  /\ UNCHANGED chain
         /\ held \in BOOLEAN => held' \in BOOLEAN
         /\ arrived \in [Peers -> Nat] => arrived' \in [Peers -> Nat]
<1>1. ASSUME NEW p \in Peers, NEW k \in 1..Len(wire[p]), Read(p, k)
      PROVE  /\ UNCHANGED chain /\ held' \in BOOLEAN
             /\ arrived \in [Peers -> Nat] => arrived' \in [Peers -> Nat]
  <2>1. PICK n \in 0..(arrived[p] + k) : arrived' = [arrived EXCEPT ![p] = @ + k - n]
    BY <1>1 DEF Read
  <2>2. arrived \in [Peers -> Nat] => arrived' \in [Peers -> Nat]
    BY <2>1
  <2> QED
    BY <1>1, <2>2 DEF Read, subVars, clock, chain
<1>2. CASE HandleEvent
  BY <1>2 DEF HandleEvent, subVars, clock, chain
<1>3. CASE EndRead
  BY <1>3 DEF EndRead, subVars, clock, chain
<1>4. ASSUME NEW p, NEW head, NEW n, DeviceNotifies(p, head, n)
      PROVE  UNCHANGED <<chain, held, arrived>>
  BY <1>4 DEF DeviceNotifies, subVars, clock, chain
<1> QED
  BY <1>1, <1>2, <1>3, <1>4 DEF onCbRead

-----------------------------------------------------------------------------
\* Types.

LEMMA TypeInit == Init => TypeOK
<1> SUFFICES ASSUME Init PROVE TypeOK
  OBVIOUS
<1>2. arrived \in [Peers -> Nat]
  BY DEF Init
<1>3. left \in [Services -> 0..Period] /\ timer \in 0..(Period - 1)
  BY PeriodPositive DEF Init
<1>4. /\ registered \in BOOLEAN /\ timeout \in BOOLEAN
      /\ failed \in BOOLEAN /\ held \in BOOLEAN
  BY Zenon DEF Init
<1> QED
  BY <1>2, <1>3, <1>4, UrisLength DEF Init, TypeOK

LEMMA TickTimer ==
  ASSUME NEW t \in 0..(Period - 1)
  PROVE  /\ (t + 1) % Period \in 0..(Period - 1)
         /\ (t + 1) % Period = 0 \/ (t + 1) % Period = t + 1
  BY PeriodPositive

LEMMA TypeStep == TypeOK /\ [Next]_vars => TypeOK'
<1> SUFFICES ASSUME TypeOK, [Next]_vars PROVE TypeOK'
  OBVIOUS
<1> USE UrisLength, PeriodPositive
<1>1. CASE UNCHANGED vars
  BY <1>1 DEF TypeOK, vars, subVars, clock, cbVars
<1>2. CASE Register
  <2>1. registered' \in BOOLEAN /\ failed' \in BOOLEAN
    BY <1>2, Zenon DEF Register, Begin
  <2> QED
    BY <1>2, <2>1 DEF Register, Begin, TypeOK, clock, cbVars
<1>3. CASE onResubsribe
  <2>1. timeout' \in BOOLEAN
    BY <1>3, Zenon DEF onResubsribe
  <2>2. failed' \in BOOLEAN
    <3>1. failed' = failed \/ failed' = FALSE
      BY <1>3 DEF onResubsribe, Begin
    <3>2. failed \in BOOLEAN
      BY DEF TypeOK
    <3> QED
      BY <3>1, <3>2, Zenon
  <2> QED
    BY <1>3, <2>1, <2>2 DEF onResubsribe, Begin, TypeOK, clock, cbVars
<1>4. CASE onSubsrcibeConnected
  BY <1>4 DEF onSubsrcibeConnected, TypeOK, clock, cbVars
<1>5. CASE ConnectFails
  <2>1. failed' \in BOOLEAN
    BY <1>5, Zenon DEF ConnectFails
  <2> QED
    BY <1>5, <2>1 DEF ConnectFails, TypeOK, clock, cbVars
<1>6. CASE Closed
  BY <1>6 DEF Closed, Subscribe, onSubsrcibeDisconnected, TypeOK, cbVars
<1>7. CASE Breaks
  <2>1. failed' \in BOOLEAN
    BY <1>7, Zenon DEF Breaks
  <2> QED
    BY <1>7, <2>1 DEF Breaks, onSubsrcibeDisconnected, TypeOK, clock, cbVars
<1>8. CASE Tick
  <2>1. timer' \in 0..(Period - 1) /\ timeout' \in BOOLEAN
    BY <1>8, TickTimer DEF Tick, TypeOK
  <2>2. left' \in [Services -> 0..Period]
    BY <1>8 DEF Tick, TypeOK
  <2> QED
    BY <1>8, <2>1, <2>2 DEF Tick, TypeOK, cbVars
<1>9. CASE onCbRead \/ \E p \in Peers, head \in Headers, n \in Bodies : DeviceNotifies(p, head, n)
  BY <1>9, CallbacksLeaveChain DEF TypeOK, chain
<1> QED
  BY <1>1, <1>2, <1>3, <1>4, <1>5, <1>6, <1>7, <1>8, <1>9 DEF Next, Subscribing

\* The types, and that the chain never connects with nothing to ask for, so
\* that no connection is left open.
THEOREM TypeCorrect == Spec => []TypeOK
  BY TypeInit, TypeStep, PTL DEF Spec

-----------------------------------------------------------------------------
\* The timer has the period of the subscriptions: what the chain has passed was
\* renewed since the timer was last due, so it has at least what is missing for
\* the timer to be due again.
RenewedSinceDue ==
    registered /\ ~timeout /\ ~failed =>
        \A i \in DOMAIN uris : ~Coming(i) => left[uris[i]] >= Period - timer

IInv == TypeOK /\ RenewedSinceDue

LEMMA IInvInit == Init => IInv
  BY TypeInit DEF Init, IInv, RenewedSinceDue

\* Beginning the chain anew puts all services before it.
LEMMA BeginBringsAll ==
  ASSUME TypeOK, Begin, asked' = asked, NEW i \in DOMAIN uris
  PROVE  Coming(i)'
  BY UrisLength DEF Begin, TypeOK, Coming

LEMMA IInvStep == IInv /\ [Next]_vars => IInv'
<1> SUFFICES ASSUME IInv, [Next]_vars PROVE IInv'
  OBVIOUS
<1>t. TypeOK /\ TypeOK' /\ RenewedSinceDue
  BY TypeStep DEF IInv
<1> SUFFICES ASSUME registered', ~timeout', ~failed', NEW i \in DOMAIN uris, ~Coming(i)'
             PROVE  left'[uris[i]] >= Period - timer'
  BY <1>t DEF IInv, RenewedSinceDue
<1>u. uris[i] \in Services /\ i \in 1..Len(uris)
  BY UrisLength
<1>1. CASE UNCHANGED vars
  BY <1>1, <1>t DEF RenewedSinceDue, vars, subVars, clock, Coming
<1>2. CASE Register
  BY <1>2, <1>t, BeginBringsAll DEF Register
<1>3. CASE onResubsribe
  BY <1>3, <1>t, BeginBringsAll DEF onResubsribe
<1>4. CASE onSubsrcibeConnected
  <2>1. ~Coming(i)
    BY <1>4, <1>t, <1>u, UrisLength DEF onSubsrcibeConnected, Coming, TypeOK
  <2> QED
    BY <1>4, <1>t, <2>1 DEF onSubsrcibeConnected, RenewedSinceDue, clock
<1>5. CASE ConnectFails \/ Breaks
  BY <1>5 DEF ConnectFails, Breaks
<1>6. CASE Closed
  <2>1. CASE uris[i] = uris[asked]
    BY <1>6, <1>t, <1>u, <2>1, PeriodPositive DEF Closed, Subscribe, TypeOK
  <2>2. CASE uris[i] # uris[asked]
    <3>1. ~Coming(i)
      BY <1>6, <1>t, <1>u, <2>2, UrisLength
         DEF Closed, Subscribe, onSubsrcibeDisconnected, Coming, TypeOK
    <3>2. left'[uris[i]] = left[uris[i]] /\ timer' = timer
      BY <1>6, <1>t, <1>u, <2>2 DEF Closed, Subscribe, TypeOK
    <3> QED
      BY <1>6, <1>t, <3>1, <3>2 DEF Closed, Subscribe, RenewedSinceDue
  <2> QED
    BY <2>1, <2>2
<1>7. CASE Tick
  <2>1. timer' = timer + 1 /\ ~timeout
    BY <1>7, <1>t, TickTimer DEF Tick, TypeOK
  <2>2. left[uris[i]] >= Period - timer
    BY <1>7, <1>t, <2>1 DEF Tick, RenewedSinceDue, Coming
  <2>3. left[uris[i]] \in 0..Period /\ timer \in 0..(Period - 1) /\ timer' \in 0..(Period - 1)
    BY <1>t, <1>u DEF TypeOK
  <2>4. left'[uris[i]] = left[uris[i]] - 1
    BY <1>7, <1>u, <2>2, <2>3, PeriodPositive DEF Tick
  <2> QED
    BY <2>1, <2>2, <2>3, <2>4, PeriodPositive
<1>8. CASE onCbRead \/ \E p \in Peers, head \in Headers, n \in Bodies : DeviceNotifies(p, head, n)
  <2>1. UNCHANGED chain
    BY <1>8, CallbacksLeaveChain
  <2>2. ~Coming(i) /\ registered /\ ~timeout /\ ~failed /\ left' = left /\ timer' = timer
    BY <2>1 DEF chain, Coming
  <2> QED
    BY <1>t, <2>2 DEF RenewedSinceDue
<1> QED
  BY <1>1, <1>2, <1>3, <1>4, <1>5, <1>6, <1>7, <1>8 DEF Next, Subscribing

\* A service is without subscription only while the timer is due or the chain
\* has yet to reach it, unless the chain lost a request.
THEOREM LapsesAreRenewed == Spec => []LapsesOnlyWhileRenewing
<1>1. IInv => LapsesOnlyWhileRenewing
  <2> SUFFICES ASSUME IInv, registered, ~timeout, ~failed, NEW i \in DOMAIN uris,
                      left[uris[i]] = 0, ~Coming(i)
               PROVE  FALSE
    BY DEF LapsesOnlyWhileRenewing
  <2>1. 0 >= Period - timer
    BY DEF IInv, RenewedSinceDue
  <2>2. timer \in 0..(Period - 1)
    BY DEF IInv, TypeOK
  <2> QED
    BY <2>1, <2>2, PeriodPositive
<1> QED
  BY <1>1, IInvInit, IInvStep, PTL DEF Spec

-----------------------------------------------------------------------------
\* The callbacks: what was sent is unread or was returned, until two streams
\* meet; and what is in the buffer between two handlers is the beginning of a
\* packet, unless an exception left it there.
BeginningOnly ==
    Idle /\ buf # <<>> /\ ~disturbed /\ ~held => Len(buf) < Length(sent[buf[1].of])

CallbackIInv == ParserIInv /\ BeginningOnly

LEMMA CallbackInit == Init => CallbackIInv
<1> SUFFICES ASSUME Init PROVE CallbackIInv
  OBVIOUS
<1>1. ParserInit
  BY DEF Init
<1>2. buf = <<>>
  BY <1>1 DEF ParserInit
<1> QED
  BY <1>1, <1>2, UntangledInit DEF CallbackIInv, BeginningOnly

\* The chain leaves the parser alone.
LEMMA ChainLeavesParser ==
  ASSUME Register \/ Subscribing \/ Tick \/ UNCHANGED vars
  PROVE  UNCHANGED <<parserVars, held>>
<1> USE DEF cbVars
<1>1. CASE Register
  BY <1>1 DEF Register
<1>2. CASE onResubsribe
  BY <1>2 DEF onResubsribe
<1>3. CASE onSubsrcibeConnected
  BY <1>3 DEF onSubsrcibeConnected
<1>4. CASE ConnectFails
  BY <1>4 DEF ConnectFails
<1>5. CASE Closed
  BY <1>5 DEF Closed
<1>6. CASE Breaks
  BY <1>6 DEF Breaks
<1>7. CASE Tick
  BY <1>7 DEF Tick
<1>8. CASE UNCHANGED vars
  BY <1>8 DEF vars
<1> QED
  BY <1>1, <1>2, <1>3, <1>4, <1>5, <1>6, <1>7, <1>8 DEF Subscribing

LEMMA CallbackStep == LengthSeen /\ CallbackIInv /\ [Next]_vars => CallbackIInv'
<1> SUFFICES ASSUME LengthSeen, CallbackIInv, [Next]_vars PROVE CallbackIInv'
  OBVIOUS
<1> SUFFICES ASSUME ~disturbed'
             PROVE  Untangled' /\ BeginningOnly'
  BY DEF CallbackIInv, ParserIInv, BeginningOnly
<1>1. ASSUME NEW p \in Peers, NEW head \in Headers, NEW n \in Bodies, DeviceNotifies(p, head, n)
      PROVE  Untangled' /\ BeginningOnly'
  <2>1. PeerSends(p, head, n) /\ held' = held
    BY <1>1 DEF DeviceNotifies
  <2>2. UNCHANGED <<buf, reading, disturbed>>
    BY <2>1 DEF PeerSends
  <2>3. Untangled
    BY <2>2 DEF CallbackIInv, ParserIInv
  <2>4. Untangled' /\ \A i \in 1..Len(sent) : sent'[i] = sent[i]
    BY <2>1, <2>3, SendsUntangled
  <2>5. buf # <<>> => sent'[buf[1].of] = sent[buf[1].of]
    BY <2>3, <2>4 DEF Untangled, BufferOfOne
  <2> QED
    BY <2>1, <2>2, <2>4, <2>5 DEF CallbackIInv, BeginningOnly, Idle
<1>2. ASSUME NEW p \in Peers, NEW k \in 1..Len(wire[p]), Read(p, k)
      PROVE  Untangled' /\ BeginningOnly'
  <2>1. PICK n \in Nat : Fill(p, n)
    BY <1>2 DEF Read
  <2>2. reading' = p /\ p # Nobody /\ ~disturbed
    <3>1. disturbed' = (disturbed \/ \E i \in DOMAIN buf : sent[buf[i].of].from # p)
      BY <2>1 DEF Fill
    <3>2. ~disturbed
      BY <3>1, Zenon
    <3> QED
      BY <2>1, <3>2, ParserAssumption DEF Fill
  <2>3. Untangled'
    BY <2>1, <2>2, FillUntangled DEF CallbackIInv, ParserIInv
  <2> QED
    BY <2>2, <2>3 DEF BeginningOnly, Idle
<1>3. CASE HandleEvent
  <2>1. /\ MarkRead /\ UNCHANGED wire /\ reading' \in {reading, Nobody}
        /\ reading' = reading \/ (reading' = Nobody /\ held' = (buf' # <<>>))
    BY <1>3 DEF HandleEvent
  <2>2. reading # Nobody /\ disturbed' = disturbed
    BY <2>1 DEF MarkRead
  <2>3. Untangled'
    BY <2>1, <2>2, ReadUntangled DEF CallbackIInv, ParserIInv
  <2>4. BeginningOnly'
    BY <2>1, <2>2 DEF BeginningOnly, Idle
  <2> QED
    BY <2>3, <2>4
<1>4. CASE EndRead
  <2>1. MarkReadNone
    BY <1>4 DEF EndRead
  <2>2. UNCHANGED <<sent, buf, disturbed>>
    BY <2>1 DEF MarkReadNone
  <2>3. Untangled' /\ (buf # <<>> => Len(buf) < Length(sent[buf[1].of]))
    BY <2>1, <2>2, NoneUntangled DEF CallbackIInv, ParserIInv
  <2> QED
    BY <2>2, <2>3 DEF BeginningOnly
<1>5. CASE UNCHANGED <<parserVars, held>>
  <2>1. UNCHANGED <<sent, wire, buf, out, reading, disturbed, held>>
    BY <1>5 DEF parserVars
  <2>2. Untangled
    BY <2>1 DEF CallbackIInv, ParserIInv
  <2>3. ParserShapes' /\ BufferOfOne'
    BY <2>1, <2>2 DEF Untangled, ParserShapes, BufferOfOne
  <2>4. Streams' /\ ReturnedSoFar' /\ OutAsSent'
    BY <2>1, <2>2, Zenon DEF Untangled, Streams, ReturnedSoFar, OutAsSent
  <2> QED
    BY <2>1, <2>3, <2>4 DEF CallbackIInv, BeginningOnly, Idle, Untangled
<1> QED
  BY <1>1, <1>2, <1>3, <1>4, <1>5, ChainLeavesParser DEF Next, onCbRead

\* Every packet that the loop of onCbRead takes is the next of its connection
\* that was sent, with its whole body, however the streams were cut, as long as
\* no two of them have met in the one buffer.  The device puts CONTENT-LENGTH
\* where ParseHeader sees it.
THEOREM CallbacksInOrder == LengthSeen => (Spec => []PacketsInOrder)
<1> SUFFICES ASSUME LengthSeen PROVE Spec => []PacketsInOrder
  OBVIOUS
<1>1. Init => CallbackIInv
  BY CallbackInit
<1>2. CallbackIInv /\ [Next]_vars => CallbackIInv'
  BY CallbackStep
<1>3. CallbackIInv => PacketsInOrder
  BY UntangledInOrder DEF CallbackIInv
<1> QED
  BY <1>1, <1>2, <1>3, PTL DEF Spec

\* Between two handlers nothing complete is in the buffer, unless an exception
\* has left it there or two streams have met.
THEOREM CompleteIsTaken == LengthSeen => (Spec => []NothingHeldBack)
<1> SUFFICES ASSUME LengthSeen PROVE Spec => []NothingHeldBack
  OBVIOUS
<1>1. Init => CallbackIInv
  BY CallbackInit
<1>2. CallbackIInv /\ [Next]_vars => CallbackIInv'
  BY CallbackStep
<1>3. CallbackIInv => NothingHeldBack
  <2> SUFFICES ASSUME CallbackIInv, Idle, buf # <<>>, ~disturbed, ~held
               PROVE  LET i == buf[1].of IN Len(buf) < Len(Cells(i, sent[i]))
    BY DEF NothingHeldBack
  <2> DEFINE i == buf[1].of
  <2>1. Len(buf) < Length(sent[i])
    BY DEF CallbackIInv, BeginningOnly
  <2>2. i \in Nat /\ sent[i] \in Packet
    BY BufferFirst DEF CallbackIInv, ParserIInv
  <2> HIDE DEF i
  <2>3. Len(Cells(i, sent[i])) = Length(sent[i])
    BY <2>2, CellsShape
  <2>4. Len(buf) < Len(Cells(i, sent[i]))
    BY <2>1, <2>3
  <2> QED
    BY <2>4 DEF i
<1> QED
  BY <1>1, <1>2, <1>3, PTL DEF Spec
=============================================================================
