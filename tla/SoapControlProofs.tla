------------------------- MODULE SoapControlProofs --------------------------
(***************************************************************************)
(* A call sends its own parameters, or those the same object set last, and *)
(* returns what was answered to it, for any calls and whatever the device  *)
(* and its connections do.                                                 *)
(***************************************************************************)
EXTENDS SoapControl, HttpParserProofs, TLAPS

AllMethods == 
    UNION {Methods(o).decoding \cup Methods(o).raw \cup Methods(o).plain : o \in Objects}
Actions == AllMethods \cup {"none", "GetMute"}
ParameterNames == UNION {Parameters(c) : c \in Calls}

Request == [action : Actions, parameters : SUBSET ParameterNames]
Received == [call : Nat, object : Objects, action : Actions,
             parameters : SUBSET ParameterNames]

Shapes ==
    /\ calls \in Seq(Calls) /\ received \in Seq(Received)
    /\ request \in [Objects -> Request]

\* Each object keeps what its last call with parameters has set.
RequestsKept == \A o \in Objects : LeftBy(o, Len(calls), request[o].parameters)

\* Until it is connected a call has sent nothing, and its request is filled in.
FilledInOnce ==
    /\ Len(received) <= Len(calls)
    /\ \A i \in 1..Len(received) : received[i].call <= Len(calls)
    /\ caller = "connecting" =>
          /\ Len(received) < Len(calls)
          /\ \A i \in 1..Len(received) : received[i].call < Len(calls)
          /\ request[call[1]].action = ActionName(call)

IInv == Shapes /\ RequestsKept /\ FilledInOnce /\ SentAsAsked

-----------------------------------------------------------------------------
LEMMA CallShape ==
  ASSUME NEW c \in Calls
  PROVE  c[1] \in Objects /\ c[2] \in AllMethods
<1>1. c \in Objects \X AllMethods
  BY ControlAssumption DEF AllMethods
<1> QED
  BY <1>1

LEMMA FilledInShape ==
  ASSUME Shapes, NEW c \in Calls
  PROVE  /\ FilledIn(c) \in Request
         /\ FilledIn(c).action = ActionName(c)
         /\ FilledIn(c).parameters = IF Keeps(c) THEN request[c[1]].parameters
                                     ELSE Parameters(c)
<1>1. c[1] \in Objects /\ c[2] \in AllMethods
  BY CallShape
<1>2. Parameters(c) \in SUBSET ParameterNames
  BY DEF ParameterNames
<1>3. request[c[1]].parameters \in SUBSET ParameterNames
  BY <1>1 DEF Shapes, Request
<1>4. ActionName(c) \in Actions
  BY <1>1 DEF ActionName, Actions
<1> QED
  BY <1>2, <1>3, <1>4 DEF FilledIn, Request

\* What is left by the first k calls does not change when another one begins.
LEMMA LeftByEarlier ==
  ASSUME Shapes, NEW c, calls' = Append(calls, c),
         NEW CONSTANT o, NEW CONSTANT k \in 0..Len(calls), NEW CONSTANT p
  PROVE  LeftBy(o, k, p)' <=> LeftBy(o, k, p)
<1> DEFINE setting == {j \in 1..k : calls[j][1] = o /\ ~Keeps(calls[j])}
<1>1. \A j \in 1..k : calls'[j] = calls[j]
  BY DEF Shapes
<1>2. {j \in 1..k : calls'[j][1] = o /\ ~Keeps(calls'[j])} = setting
  BY <1>1
<1>3. \A j \in setting : calls'[j] = calls[j]
  BY <1>1
<1>4. LeftBy(o, k, p) <=>
        \/ setting = {} /\ p = {}
        \/ \E j \in setting : p = Parameters(calls[j]) /\ \A l \in setting : l <= j
  BY Zenon DEF LeftBy
<1>5. LeftBy(o, k, p)' <=>
        \/ setting = {} /\ p = {}
        \/ \E j \in setting : p = Parameters(calls'[j]) /\ \A l \in setting : l <= j
  BY <1>2, Zenon DEF LeftBy, Keeps, Parameters
<1> HIDE DEF setting
<1>6. \A j \in setting : Parameters(calls'[j]) = Parameters(calls[j])
  BY <1>3
<1> QED
  BY <1>4, <1>5, <1>6

LEMMA LeftBySame ==
  ASSUME calls' = calls, NEW CONSTANT o, NEW CONSTANT k, NEW CONSTANT p
  PROVE  LeftBy(o, k, p)' <=> LeftBy(o, k, p)
BY Zenon DEF LeftBy, Keeps, Parameters

LEMMA ReceivedShape ==
  ASSUME Shapes
  PROVE  Len(received) \in Nat /\ \A i \in 1..Len(received) : received[i].call \in Nat
<1>1. Len(received) \in Nat /\ \A i \in 1..Len(received) : received[i] \in Received
  BY DEF Shapes
<1> QED
  BY <1>1 DEF Received

LEMMA IInvInit == Init => IInv
<1> SUFFICES ASSUME Init PROVE IInv
  OBVIOUS
<1>1. /\ calls = <<>> /\ received = <<>> /\ caller = "idle"
      /\ request = [o \in Objects |-> [action |-> "none", parameters |-> {}]]
  BY Zenon DEF Init
<1>2. Shapes
  <2>1. [action |-> "none", parameters |-> {}] \in Request
    BY DEF Request, Actions
  <2> QED
    BY <1>1, <2>1 DEF Shapes
<1>3. RequestsKept /\ FilledInOnce
  BY <1>1 DEF RequestsKept, FilledInOnce, LeftBy
<1>4. SentAsAsked
  BY <1>1 DEF SentAsAsked
<1> QED
  BY <1>2, <1>3, <1>4 DEF IInv

\* Reading, failing and what the device does leave requests and calls alone.
LEMMA OthersLeaveRequests ==
  ASSUME \/ ConnectFails \/ ReadFails \/ ReadOn \/ ReadPacket
         \/ \E n \in 0..BufferSize : Read(n)
         \/ DeviceActs
  PROVE  /\ UNCHANGED <<request, calls, received>>
         /\ caller' = caller \/ caller' # "connecting"
<1>1. CASE ConnectFails \/ ReadFails
  BY <1>1 DEF ConnectFails, ReadFails, Fails, Return
<1>2. CASE ReadOn \/ ReadPacket
  BY <1>2 DEF ReadOn, ReadPacket, Return, connection
<1>3. ASSUME NEW n, Read(n)
      PROVE  UNCHANGED <<request, calls, received>> /\ caller' = caller
  BY <1>3 DEF Read, connection
<1>4. ASSUME NEW head, NEW n, NEW ok, DeviceAnswers(head, n, ok)
      PROVE  UNCHANGED <<request, calls, received>> /\ caller' = caller
  BY <1>4 DEF DeviceAnswers, connection
<1>5. ASSUME NEW k, DeviceCloses(k)
      PROVE  UNCHANGED <<request, calls, received>> /\ caller' = caller
  BY <1>5 DEF DeviceCloses
<1> QED
  BY <1>1, <1>2, <1>3, <1>4, <1>5 DEF DeviceActs

LEMMA IInvStep == IInv /\ [Next]_vars => IInv'
<1> SUFFICES ASSUME IInv, [Next]_vars PROVE IInv'
  OBVIOUS
<1>1. ASSUME NEW c \in Calls, Call(c) PROVE IInv'
  <2>1. /\ calls' = Append(calls, c) /\ received' = received
        /\ request' = [request EXCEPT ![c[1]] = FilledIn(c)]
    BY <1>1 DEF Call
  <2>2. c[1] \in Objects
    BY CallShape
  <2>3. /\ Len(calls') = Len(calls) + 1 /\ calls'[Len(calls) + 1] = c
        /\ \A k \in 1..Len(calls) : calls'[k] = calls[k]
        /\ Len(calls) \in Nat /\ DOMAIN calls = 1..Len(calls)
        /\ DOMAIN calls' = 1..(Len(calls) + 1)
    BY <2>1 DEF IInv, Shapes
  <2>4. Shapes'
    BY <2>1, <2>2, FilledInShape DEF IInv, Shapes
  <2>5. RequestsKept'
    <3> SUFFICES ASSUME NEW CONSTANT o \in Objects
                 PROVE  LeftBy(o, Len(calls), request[o].parameters)'
      BY DEF RequestsKept
    <3> DEFINE N == Len(calls)
               before == {j \in 1..N : calls[j][1] = o /\ ~Keeps(calls[j])}
               after == {j \in 1..(N + 1) : calls'[j][1] = o /\ ~Keeps(calls'[j])}
               p == request'[o].parameters
    <3>1. LeftBy(o, Len(calls), request[o].parameters)' <=>
             \/ after = {} /\ p = {}
             \/ \E j \in after : p = Parameters(calls'[j]) /\ \A l \in after : l <= j
      BY <2>3, Zenon DEF LeftBy, Keeps, Parameters
    <3>2. CASE o = c[1] /\ ~Keeps(c)
      <4>1. p = Parameters(c)
        BY <2>1, <2>2, <3>2, FilledInShape DEF IInv, Shapes
      <4>2. N + 1 \in after /\ \A l \in after : l <= N + 1
        BY <2>3, <3>2
      <4> HIDE DEF after, p, N
      <4> QED
        BY <2>3, <3>1, <4>1, <4>2 DEF N
    <3>3. CASE o # c[1] \/ Keeps(c)
      <4>1. p = request[o].parameters
        BY <2>1, <2>2, <3>3, FilledInShape DEF IInv, Shapes
      <4>2. after = before
        BY <2>3, <3>3
      <4>3. \/ before = {} /\ p = {}
            \/ \E j \in before : p = Parameters(calls[j]) /\ \A l \in before : l <= j
        BY <4>1, Zenon DEF IInv, RequestsKept, LeftBy
      <4>4. \A j \in before : calls'[j] = calls[j]
        BY <2>3
      <4> HIDE DEF after, before, p
      <4> QED
        BY <3>1, <4>2, <4>3, <4>4
    <3> QED
      BY <3>2, <3>3
  <2>6. FilledInOnce'
    <3>1. call' = c
      BY <2>3 DEF call, Last
    <3>2. Len(received) \in Nat /\ \A i \in 1..Len(received) : received[i].call \in Nat
      BY ReceivedShape DEF IInv
    <3>3. request'[c[1]].action = ActionName(c)
      BY <2>1, <2>2, FilledInShape DEF IInv, Shapes
    <3>4. \A i \in 1..Len(received) : received[i].call < Len(calls')
      BY <2>3, <3>2 DEF IInv, FilledInOnce
    <3> QED
      BY <2>1, <2>3, <3>1, <3>2, <3>3, <3>4 DEF IInv, FilledInOnce, ActionName
  <2>7. SentAsAsked'
    <3> SUFFICES ASSUME NEW CONSTANT i \in DOMAIN received
                 PROVE  /\ received[i].call \in DOMAIN calls'
                        /\ calls'[received[i].call] = calls[received[i].call]
                        /\ LeftBy(received[i].object, received[i].call, received[i].parameters)'
      BY <2>1 DEF IInv, SentAsAsked
    <3>1. received[i].call \in 1..Len(calls)
      BY <2>3 DEF IInv, SentAsAsked
    <3>2. LeftBy(received[i].object, received[i].call, received[i].parameters)
      BY DEF IInv, SentAsAsked
    <3>3. \A o, k, p : k \in 0..Len(calls) => (LeftBy(o, k, p) => LeftBy(o, k, p)')
      BY <2>1, LeftByEarlier DEF IInv
    <3>4. LeftBy(received[i].object, received[i].call, received[i].parameters)'
      BY <2>1, <2>3, <3>1, <3>2, <3>3
    <3> QED
      BY <2>3, <3>1, <3>4
  <2> QED
    BY <2>4, <2>5, <2>6, <2>7 DEF IInv
<1>2. CASE Connected
  <2> DEFINE k == Len(calls)
             i == Len(received) + 1
             new == [call |-> Len(calls), object |-> call[1],
                     action |-> request[call[1]].action,
                     parameters |-> request[call[1]].parameters]
  <2>1. /\ received' = Append(received, new) /\ caller' = "reading"
        /\ UNCHANGED <<request, calls>> /\ caller = "connecting"
    BY <1>2 DEF Connected
  <2>2. /\ i <= k /\ k \in 1..Len(calls) /\ DOMAIN calls = 1..Len(calls)
        /\ Len(received) \in Nat /\ call = calls[k] /\ call \in Calls
    BY <2>1 DEF IInv, Shapes, FilledInOnce, call, Last
  <2>3. call[1] \in Objects
    BY <2>2, CallShape
  <2>4. new \in Received
    BY <2>2, <2>3 DEF IInv, Shapes, Request, Received
  <2>5. /\ new.call = k /\ new.object = calls[k][1]
        /\ new.action = IF calls[k][2] = "SetVolume" THEN "GetMute" ELSE calls[k][2]
        /\ LeftBy(new.object, new.call, new.parameters)
    BY <2>1, <2>2, <2>3 DEF IInv, FilledInOnce, RequestsKept, ActionName
  <2> HIDE DEF new
  <2>6. DOMAIN received' = 1..i /\ received'[i] = new
        /\ \A l \in DOMAIN received : received'[l] = received[l]
        /\ DOMAIN received = 1..(i - 1) /\ Len(received') = i
    BY <2>1, <2>4 DEF IInv, Shapes
  <2>7. \A l \in DOMAIN received : received[l].call < k
    BY <2>1, <2>6 DEF IInv, FilledInOnce
  <2> \A o, n, p : LeftBy(o, n, p)' <=> LeftBy(o, n, p)
    BY <2>1, LeftBySame
  <2>8. Shapes' /\ RequestsKept'
    BY <2>1, <2>4 DEF IInv, Shapes, RequestsKept
  <2>9. FilledInOnce'
    <3>1. \A l \in 1..Len(received') : received'[l].call <= k
      <4> SUFFICES ASSUME NEW l \in 1..Len(received') PROVE received'[l].call <= k
        OBVIOUS
      <4>1. CASE l = i
        BY <2>2, <2>5, <2>6, <4>1
      <4>2. CASE l \in DOMAIN received
        <5>1. received[l].call \in Nat
          BY <2>6, <4>2, ReceivedShape DEF IInv
        <5> QED
          BY <2>2, <2>6, <2>7, <4>2, <5>1
      <4> QED
        BY <2>2, <2>6, <4>1, <4>2
    <3> QED
      BY <2>1, <2>2, <2>6, <3>1 DEF FilledInOnce
  <2>10. SentAsAsked'
    <3> SUFFICES ASSUME NEW l \in DOMAIN received'
                 PROVE  /\ received'[l].call \in DOMAIN calls
                        /\ received'[l].object = calls[received'[l].call][1]
                        /\ received'[l].action = IF calls[received'[l].call][2] = "SetVolume"
                                                  THEN "GetMute" ELSE calls[received'[l].call][2]
                        /\ LeftBy(received'[l].object, received'[l].call, received'[l].parameters)
                        /\ \A m \in DOMAIN received' :
                              l < m => received'[l].call < received'[m].call
      BY <2>1 DEF SentAsAsked
    <3>1. CASE l = i
      <4>1. \A m \in DOMAIN received' : ~(l < m)
        BY <2>2, <2>6, <3>1
      <4> QED
        BY <2>2, <2>5, <2>6, <3>1, <4>1
    <3>2. CASE l \in DOMAIN received
      <4>1. \A m \in DOMAIN received' : l < m => received'[l].call < received'[m].call
        <5> SUFFICES ASSUME NEW m \in DOMAIN received', l < m
                     PROVE  received'[l].call < received'[m].call
          OBVIOUS
        <5>1. CASE m = i
          BY <2>5, <2>6, <2>7, <3>2, <5>1
        <5>2. CASE m \in DOMAIN received
          BY <2>6, <3>2, <5>2 DEF IInv, SentAsAsked
        <5> QED
          BY <2>2, <2>6, <5>1, <5>2
      <4> QED
        BY <2>6, <3>2, <4>1 DEF IInv, SentAsAsked
    <3> QED
      BY <2>2, <2>6, <3>1, <3>2
  <2> QED
    BY <2>8, <2>9, <2>10 DEF IInv
<1>3. CASE /\ UNCHANGED <<request, calls, received>>
           /\ caller' = caller \/ caller' # "connecting"
  <2>1. \A o, n, p : LeftBy(o, n, p)' <=> LeftBy(o, n, p)
    BY <1>3, LeftBySame
  <2>2. Shapes' /\ RequestsKept' /\ FilledInOnce'
    BY <1>3, <2>1 DEF IInv, Shapes, RequestsKept, FilledInOnce, call, ActionName
  <2>3. SentAsAsked'
    BY <1>3, <2>1 DEF IInv, SentAsAsked
  <2> QED
    BY <2>2, <2>3 DEF IInv
<1>4. CASE UNCHANGED vars
  BY <1>3, <1>4 DEF vars, connection
<1> QED
  BY <1>1, <1>2, <1>3, <1>4, OthersLeaveRequests DEF Next, Http

\* The device receives the requests in the order of the calls, at most one for
\* each, with the parameters a call has set, or those that the last call with
\* parameters has left in the request of the same object.
THEOREM RequestsSent == Spec => []SentAsAsked
<1>1. IInv => SentAsAsked
  BY DEF IInv
<1> QED
  BY <1>1, IInvInit, IInvStep, PTL DEF Spec

-----------------------------------------------------------------------------
\* What a call returns.

Answer == [call : Nat, object : Objects, action : Actions, ok : BOOLEAN]

Results ==
    /\ caller \in {"idle", "connecting", "reading"} /\ open \in BOOLEAN
    /\ lost \in BOOLEAN /\ torn \in BOOLEAN /\ Len(calls) <= MaxCalls
    /\ response.of \in 0..Len(sent) /\ returned \in {0, response.of, Exception}
    /\ failures \in 0..MaxFailures
    /\ caller = "connecting" => open
    /\ caller = "reading" /\ ~open => failures < MaxFailures
    /\ reading # Nobody => caller = "reading"

\* Every packet answers a call that was made, and the request the device has
\* received last is that of the call that waits for it.
AnswersKnown ==
    /\ answers \in Seq(Answer) /\ Len(answers) = Len(sent)
    /\ \A i \in 1..Len(answers) :
          /\ answers[i].call \in 1..Len(calls)
          /\ answers[i].object = calls[answers[i].call][1]
          /\ answers[i].action = ActionName(calls[answers[i].call])
    /\ caller = "reading" /\ open =>
          /\ received # <<>> /\ Last(received).object = call[1]
          /\ Last(received).action = ActionName(call)
    /\ caller # "idle" => calls # <<>>

ResultIInv == IInv /\ ParserTypes /\ Results /\ AnswersKnown /\ NeverMisread

LEMMA TheDevice == Peers = {Device} /\ Device \in Peers /\ Device # Nobody
                   /\ MaxFailures \in Nat /\ BufferSize \in Nat
  BY ControlAssumption, ParserAssumption

\* No method that decodes an answer sends or accepts the name GetMute.
LEMMA DecodingNames ==
  ASSUME NEW c \in Calls
  PROVE  /\ c[2] \in Methods(c[1]).decoding => ActionName(c) = c[2] /\ c[2] # "GetMute"
         /\ c[2] # "GetMute" /\ ActionName(c) # "GetMute" => ActionName(c) = c[2]
<1>1. c[1] \in Objects
  BY CallShape
<1>2. \A o \in Objects : Methods(o).decoding \cap {"GetMute", "SetVolume"} = {}
  BY DEF Objects, Methods, AvTransport, RenderingControl, DenonAct
<1> QED
  BY <1>1, <1>2 DEF ActionName

LEMMA CallsShape ==
  ASSUME Shapes
  PROVE  /\ Len(calls) \in Nat /\ \A k \in 1..Len(calls) : calls[k] \in Calls
         /\ calls # <<>> => Len(calls) \in 1..Len(calls) /\ call = calls[Len(calls)] /\ call \in Calls
<1>1. calls \in Seq(Calls)
  BY DEF Shapes
<1> QED
  BY <1>1 DEF call, Last

\* A method is of one kind.
LEMMA DecodesOnly ==
  ASSUME Shapes, calls # <<>>
  PROVE  call[2] \in Methods(call[1]).decoding =>
            call[2] \notin Methods(call[1]).plain /\ call[2] \notin Methods(call[1]).raw
<1>1. call[1] \in Objects
  BY CallShape, CallsShape
<1>2. \A o \in Objects : Methods(o).decoding \cap (Methods(o).plain \cup Methods(o).raw) = {}
  BY DEF Objects, Methods, AvTransport, RenderingControl, DenonAct
<1> QED
  BY <1>1, <1>2

\* What a method makes of a response: the answer it takes was to a call of the
\* same name.
LEMMA DecodedShape ==
  ASSUME Shapes, AnswersKnown, calls # <<>>, NEW resp, resp.of \in 0..Len(sent)
  PROVE  /\ Decoded(resp) \in {0, resp.of, Exception}
         /\ Decoded(resp) \notin {0, Exception} /\ call[2] \in Methods(call[1]).decoding =>
               /\ calls[answers[Decoded(resp)].call][2] = call[2]
               /\ calls[answers[Decoded(resp)].call][1] = call[1] \/ call[1] = "RenderingControl"
<1> DEFINE r == Decoded(resp)
<1>1. r \in {0, resp.of, Exception}
  BY DEF Decoded
<1>2. ASSUME r \notin {0, Exception}, call[2] \in Methods(call[1]).decoding
      PROVE  /\ calls[answers[r].call][2] = call[2]
             /\ calls[answers[r].call][1] = call[1] \/ call[1] = "RenderingControl"
  <2>1. /\ r = resp.of /\ Accepts(call, answers[r])
    <3>1. call[2] \notin Methods(call[1]).plain /\ call[2] \notin Methods(call[1]).raw
      BY <1>2, DecodesOnly DEF AnswersKnown
    <3> QED
      BY <1>1, <1>2, <3>1 DEF Decoded
  <2> HIDE DEF r
  <2> DEFINE d == calls[answers[r].call]
  <2>2. r \in 1..Len(answers)
    BY <1>2, <2>1 DEF AnswersKnown
  <2>3. /\ answers[r].call \in 1..Len(calls) /\ answers[r].object = d[1]
        /\ answers[r].action = ActionName(d)
    BY <2>2 DEF AnswersKnown
  <2>4. d \in Calls /\ call \in Calls
    BY <2>3, CallsShape
  <2>5. answers[r].action = call[2] /\ Satisfies(answers[r].object, call[1])
    BY <2>1 DEF Accepts
  <2> HIDE DEF d
  <2>6. ActionName(d) = call[2] /\ ActionName(d) # "GetMute"
    BY <1>2, <2>3, <2>4, <2>5, DecodingNames
  <2>7. d[2] = call[2]
    <3>1. d[2] # "SetVolume" \/ ActionName(d) = "GetMute"
      BY DEF ActionName
    <3> QED
      BY <2>6, <3>1 DEF ActionName
  <2>8. d[1] = call[1] \/ call[1] = "RenderingControl"
    BY <2>3, <2>5 DEF Satisfies
  <2> QED
    BY <2>7, <2>8 DEF d
<1> QED
  BY <1>1, <1>2

LEMMA ResultInit == Init => ResultIInv
<1> SUFFICES ASSUME Init PROVE ResultIInv
  OBVIOUS
<1>1. /\ ParserInit /\ caller = "idle" /\ open = FALSE /\ response.of = 0 /\ returned = 0
      /\ calls = <<>> /\ received = <<>> /\ answers = <<>> /\ lost = FALSE /\ torn = FALSE
      /\ failures = 0
  BY Zenon DEF Init
<1>2. ParserTypes /\ sent = <<>> /\ reading = Nobody
  BY <1>1, TypesInit DEF ParserInit
<1>3. Results
  <2>1. open \in BOOLEAN /\ lost \in BOOLEAN /\ torn \in BOOLEAN
    BY <1>1, Zenon
  <2>2. Len(calls) <= MaxCalls /\ failures \in 0..MaxFailures /\ Len(sent) = 0
    BY <1>1, <1>2, ControlAssumption
  <2> QED
    BY <1>1, <1>2, <2>1, <2>2 DEF Results
<1>4. AnswersKnown
  BY <1>1, <1>2 DEF AnswersKnown
<1>5. NeverMisread
  BY <1>1 DEF NeverMisread
<1> QED
  BY <1>2, <1>3, <1>4, <1>5, IInvInit DEF ResultIInv

\* A method begins.
LEMMA CallResults ==
  ASSUME ResultIInv, NEW c \in Calls, Call(c)
  PROVE  ParserTypes' /\ Results' /\ AnswersKnown' /\ NeverMisread'
<1>1. /\ caller = "idle" /\ Len(calls) < MaxCalls /\ calls' = Append(calls, c)
      /\ caller' = "connecting" /\ open' = TRUE /\ lost' = FALSE
      /\ wire' = [wire EXCEPT ![Device] = <<>>]
      /\ UNCHANGED <<sent, buf, packet, out, reading, disturbed>>
      /\ UNCHANGED <<response, returned, received, answers, torn, failures>>
  BY DEF Call
<1>2. /\ Len(calls) \in Nat /\ Len(calls') = Len(calls) + 1 /\ calls' # <<>>
      /\ \A k \in 1..Len(calls) : calls'[k] = calls[k]
  BY <1>1 DEF ResultIInv, IInv, Shapes
<1>3. ParserTypes'
  <2>1. wire' \in [Peers -> Seq(CellsUpTo(Len(sent)))]
    <3>1. <<>> \in Seq(CellsUpTo(Len(sent)))
      OBVIOUS
    <3>2. wire \in [Peers -> Seq(CellsUpTo(Len(sent)))]
      BY DEF ResultIInv, ParserTypes
    <3> QED
      BY <1>1, <3>1, <3>2, Zenon
  <2> QED
    BY <1>1, <2>1 DEF ResultIInv, ParserTypes
<1>4. Results'
  <2>1. open' \in BOOLEAN /\ lost' \in BOOLEAN
    BY <1>1, Zenon
  <2>2. Len(calls') <= MaxCalls
    BY <1>1, <1>2, ControlAssumption
  <2> QED
    BY <1>1, <2>1, <2>2 DEF ResultIInv, Results
<1>5. AnswersKnown'
  <2>1. \A i \in 1..Len(answers) :
           /\ answers[i].call \in 1..Len(calls)
           /\ answers[i].object = calls[answers[i].call][1]
           /\ answers[i].action = ActionName(calls[answers[i].call])
    BY DEF ResultIInv, AnswersKnown
  <2>2. \A i \in 1..Len(answers) :
           /\ answers[i].call \in 1..Len(calls')
           /\ answers[i].object = calls'[answers[i].call][1]
           /\ answers[i].action = ActionName(calls'[answers[i].call])
    BY <1>2, <2>1
  <2> QED
    BY <1>1, <1>2, <2>2 DEF ResultIInv, AnswersKnown
<1>6. NeverMisread'
  BY <1>1 DEF NeverMisread
<1> QED
  BY <1>3, <1>4, <1>5, <1>6

LEMMA ConnectedResults ==
  ASSUME ResultIInv, Connected
  PROVE  ParserTypes' /\ Results' /\ AnswersKnown' /\ NeverMisread'
<1> DEFINE new == [call |-> Len(calls), object |-> call[1],
                   action |-> request[call[1]].action,
                   parameters |-> request[call[1]].parameters]
<1>1. /\ caller = "connecting" /\ caller' = "reading" /\ received' = Append(received, new)
      /\ UNCHANGED <<parserVars, request, response, returned, calls, answers>>
      /\ UNCHANGED <<open, lost, torn, failures>>
  BY DEF Connected
<1>2. UNCHANGED <<sent, wire, buf, packet, out, reading>> /\ call' = call
  BY <1>1 DEF parserVars, call
<1>3. ParserTypes' /\ Results'
  BY <1>1, <1>2 DEF ResultIInv, ParserTypes, Results
<1>4. new.object = call[1] /\ new.action = ActionName(call)
  BY <1>1 DEF ResultIInv, IInv, FilledInOnce
<1> HIDE DEF new
<1>5. received' # <<>> /\ Last(received') = new
  <2>1. Len(received) \in Nat /\ Len(received') = Len(received) + 1
        /\ received'[Len(received) + 1] = new
    BY <1>1 DEF ResultIInv, IInv, Shapes
  <2> QED
    BY <1>1, <2>1 DEF Last
<1>6. AnswersKnown'
  BY <1>1, <1>2, <1>4, <1>5 DEF ResultIInv, AnswersKnown
<1>7. NeverMisread'
  BY <1>1 DEF NeverMisread
<1> QED
  BY <1>3, <1>6, <1>7

\* Http returns a response.
LEMMA ReturnResults ==
  ASSUME ResultIInv, caller # "idle", NEW resp, Return(resp), resp.of \in 0..Len(sent),
         UNCHANGED <<sent, calls, received, answers>>
  PROVE  /\ AnswersKnown' /\ NeverMisread'
         /\ response'.of \in 0..Len(sent) /\ returned' \in {0, response'.of, Exception}
<1>1. /\ caller' = "idle" /\ response' = resp /\ returned' = Decoded(resp)
      /\ call' = call
  BY DEF Return, call
<1>2. AnswersKnown'
  BY <1>1 DEF ResultIInv, AnswersKnown
<1>3. /\ Decoded(resp) \in {0, resp.of, Exception}
      /\ Decoded(resp) \notin {0, Exception} /\ call[2] \in Methods(call[1]).decoding =>
            /\ calls[answers[Decoded(resp)].call][2] = call[2]
            /\ calls[answers[Decoded(resp)].call][1] = call[1] \/ call[1] = "RenderingControl"
  BY DecodedShape DEF ResultIInv, IInv, AnswersKnown
<1>4. NeverMisread'
  BY <1>1, <1>3 DEF NeverMisread, Methods, AvTransport, RenderingControl, DenonAct
<1> QED
  BY <1>1, <1>2, <1>3, <1>4

\* The socket is not connected, and Http goes on to read.
LEMMA ConnectFailsResults ==
  ASSUME ResultIInv, ConnectFails
  PROVE  ParserTypes' /\ Results' /\ AnswersKnown' /\ NeverMisread'
<1>1. /\ caller = "connecting" /\ failures < MaxFailures /\ caller' = "reading" /\ open' = FALSE
      /\ UNCHANGED <<parserVars, request, response, returned, calls, received>>
      /\ UNCHANGED <<answers, lost, torn, failures>>
  BY DEF ConnectFails
<1>2. UNCHANGED <<sent, wire, buf, packet, out, reading>> /\ open' \in BOOLEAN
  BY <1>1, Zenon DEF parserVars
<1>3. ParserTypes'
  BY <1>2 DEF ResultIInv, ParserTypes
<1>4. Results'
  BY <1>1, <1>2 DEF ResultIInv, Results
<1>5. AnswersKnown' /\ NeverMisread'
  BY <1>1, <1>2 DEF ResultIInv, AnswersKnown, NeverMisread
<1> QED
  BY <1>3, <1>4, <1>5

LEMMA FailsResults ==
  ASSUME ResultIInv, ReadFails
  PROVE  ParserTypes' /\ Results' /\ AnswersKnown' /\ NeverMisread'
<1>1. Fails /\ caller # "idle" /\ failures < MaxFailures /\ reading = Nobody
  BY DEF ReadFails, ReadsEnd, ResultIInv, Results
<1>2. /\ Return(response) /\ lost' = TRUE /\ torn' = (torn \/ buf # <<>>)
      /\ failures' = failures + 1
      /\ UNCHANGED <<parserVars, request, calls, received, answers>>
  BY <1>1 DEF Fails
<1>3. UNCHANGED <<sent, wire, buf, packet, out, reading>>
  BY <1>2 DEF parserVars
<1>4. /\ AnswersKnown' /\ NeverMisread'
      /\ response'.of \in 0..Len(sent) /\ returned' \in {0, response'.of, Exception}
  BY <1>1, <1>2, <1>3, ReturnResults DEF ResultIInv, Results
<1>5. ParserTypes'
  BY <1>3 DEF ResultIInv, ParserTypes
<1>6. torn' \in BOOLEAN
  <2>1. torn \in BOOLEAN
    BY DEF ResultIInv, Results
  <2> QED
    BY <1>2, <2>1, Zenon
<1>7. caller' = "idle" /\ open' = FALSE
  BY <1>2 DEF Return
<1>8. failures' \in 0..MaxFailures
  BY <1>1, <1>2, TheDevice DEF ResultIInv, Results
<1>9. Results'
  BY <1>1, <1>2, <1>3, <1>4, <1>6, <1>7, <1>8 DEF ResultIInv, Results
<1> QED
  BY <1>4, <1>5, <1>9

\* The device answers: the new packet is the answer to the call that waits.
LEMMA AnswersResults ==
  ASSUME ResultIInv, NEW head \in Headers, NEW n \in Bodies, NEW ok \in BOOLEAN,
         DeviceAnswers(head, n, ok)
  PROVE  /\ ParserTypes' /\ Results' /\ AnswersKnown' /\ NeverMisread'
         /\ Len(answers) \in Nat /\ Len(answers') = Len(answers) + 1
         /\ answers'[Len(answers) + 1].call = Len(calls)
         /\ \A i \in 1..Len(answers) : answers'[i] = answers[i]
<1> DEFINE new == [call |-> Len(calls), object |-> Last(received).object,
                   action |-> Last(received).action, ok |-> ok]
<1>1. /\ caller = "reading" /\ open /\ PeerSends(Device, head, n)
      /\ answers' = Append(answers, new)
      /\ UNCHANGED <<connection, request, response, returned, calls, received>>
  BY DEF DeviceAnswers
<1>2. ParserTypes'
  BY <1>1, TheDevice, SendsTypes DEF ResultIInv
<1>3. UNCHANGED <<caller, open, lost, torn, failures, reading>> /\ call' = call
  BY <1>1 DEF connection, PeerSends, call
<1>4. /\ Len(calls) \in Nat /\ Len(calls) \in 1..Len(calls) /\ call = calls[Len(calls)]
      /\ call \in Calls
  BY <1>1, CallsShape DEF ResultIInv, IInv, AnswersKnown
<1>5. new.call = Len(calls) /\ new.object = call[1] /\ new.action = ActionName(call)
  BY <1>1 DEF ResultIInv, AnswersKnown
<1>6. new \in Answer
  <2>1. call[1] \in Objects /\ ActionName(call) \in Actions
    BY <1>4, CallShape DEF ActionName, Actions
  <2> QED
    BY <1>4, <1>5, <2>1 DEF Answer
<1> HIDE DEF new
<1>7. /\ answers' \in Seq(Answer) /\ Len(answers) \in Nat /\ Len(answers') = Len(answers) + 1
      /\ answers'[Len(answers) + 1] = new
      /\ \A i \in 1..Len(answers) : answers'[i] = answers[i]
  BY <1>1, <1>6 DEF ResultIInv, AnswersKnown
<1>8. Len(sent) \in Nat /\ Len(sent') = Len(sent) + 1
  BY <1>1 DEF ResultIInv, ParserTypes, PeerSends
<1>9. Results'
  BY <1>1, <1>3, <1>8 DEF ResultIInv, Results
<1>10. AnswersKnown'
  <2>1. ASSUME NEW i \in 1..Len(answers')
        PROVE  /\ answers'[i].call \in 1..Len(calls)
               /\ answers'[i].object = calls[answers'[i].call][1]
               /\ answers'[i].action = ActionName(calls[answers'[i].call])
    <3>1. CASE i \in 1..Len(answers)
      BY <1>7, <3>1 DEF ResultIInv, AnswersKnown
    <3>2. CASE i = Len(answers) + 1
      BY <1>4, <1>5, <1>7, <3>2
    <3> QED
      BY <1>7, <3>1, <3>2
  <2>2. caller = "reading" /\ open =>
          /\ received # <<>> /\ Last(received).object = call[1]
          /\ Last(received).action = ActionName(call)
    BY DEF ResultIInv, AnswersKnown
  <2> QED
    BY <1>1, <1>3, <1>7, <1>8, <2>1, <2>2 DEF ResultIInv, AnswersKnown
<1>11. NeverMisread'
  BY <1>1, <1>3 DEF NeverMisread
<1> QED
  BY <1>2, <1>5, <1>7, <1>9, <1>10, <1>11

LEMMA ClosesResults ==
  ASSUME ResultIInv, NEW k \in 0..BufferSize, DeviceCloses(k)
  PROVE  ParserTypes' /\ Results' /\ AnswersKnown' /\ NeverMisread'
<1> DEFINE w == SubSeq(wire[Device], 1, k)
<1>1. /\ caller = "reading" /\ failures < MaxFailures
      /\ k <= Len(wire[Device]) /\ open' = FALSE /\ wire' = [wire EXCEPT ![Device] = w]
      /\ UNCHANGED <<sent, buf, packet, out, reading>>
      /\ UNCHANGED <<caller, lost, torn, failures, request, response>>
      /\ UNCHANGED <<returned, calls, received, answers>>
  BY DEF DeviceCloses
<1>2. wire \in [Peers -> Seq(CellsUpTo(Len(sent)))] /\ wire[Device] \in Seq(CellsUpTo(Len(sent)))
  BY TheDevice DEF ResultIInv, ParserTypes
<1>3. w \in Seq(CellsUpTo(Len(sent)))
  <2>1. k \in 0..Len(wire[Device]) /\ 1 \in Nat \ {0}
    BY <1>1, <1>2, TheDevice
  <2> QED
    BY <1>2, <2>1, Part
<1> HIDE DEF w
<1>4. ParserTypes'
  BY <1>1, <1>2, <1>3 DEF ResultIInv, ParserTypes
<1>5. Results'
  <2>1. open' \in BOOLEAN
    BY <1>1, Zenon
  <2> QED
    BY <1>1, <2>1 DEF ResultIInv, Results
<1>6. call' = call
  BY <1>1 DEF call
<1>7. AnswersKnown' /\ NeverMisread'
  BY <1>1, <1>6 DEF ResultIInv, AnswersKnown, NeverMisread
<1> QED
  BY <1>4, <1>5, <1>7

\* Http reads, and no packet is complete.
LEMMA ReadResults ==
  ASSUME ResultIInv, ReadOn \/ \E n \in 0..BufferSize : Read(n)
  PROVE  ParserTypes' /\ Results' /\ AnswersKnown' /\ NeverMisread'
<1>1. /\ ParserTypes' /\ sent' = sent /\ (reading' # Nobody => caller = "reading")
      /\ UNCHANGED <<connection, request, response, returned, calls>>
      /\ UNCHANGED <<received, answers>>
  <2>1. CASE ReadOn
    <3>1. MarkReadNone /\ UNCHANGED <<connection, request, response, returned, calls>>
          /\ UNCHANGED <<received, answers>>
      BY <2>1 DEF ReadOn
    <3> QED
      BY <3>1, NoneTypes DEF ResultIInv, MarkReadNone
  <2>2. ASSUME NEW n \in 0..BufferSize, Read(n)
        PROVE  /\ ParserTypes' /\ sent' = sent /\ (reading' # Nobody => caller = "reading")
               /\ UNCHANGED <<connection, request, response, returned, calls>>
               /\ UNCHANGED <<received, answers>>
    <3>1. /\ Fill(Device, n) /\ caller = "reading" /\ n \in Nat
          /\ UNCHANGED <<connection, request, response, returned, calls>>
          /\ UNCHANGED <<received, answers>>
      BY <2>2 DEF Read
    <3>2. ParserTypes'
      BY <3>1, TheDevice, FillTypes DEF ResultIInv
    <3> QED
      BY <3>1, <3>2 DEF Fill
  <2> QED
    BY <2>1, <2>2
<1>2. UNCHANGED <<caller, open, lost, torn, failures>> /\ call' = call
  BY <1>1 DEF connection, call
<1>3. Results'
  BY <1>1, <1>2 DEF ResultIInv, Results
<1>4. AnswersKnown' /\ NeverMisread'
  BY <1>1, <1>2 DEF ResultIInv, AnswersKnown, NeverMisread
<1> QED
  BY <1>1, <1>3, <1>4

\* A packet is the response.
LEMMA PacketResults ==
  ASSUME ResultIInv, ReadPacket
  PROVE  ParserTypes' /\ Results' /\ AnswersKnown' /\ NeverMisread'
<1> DEFINE resp == [of |-> Last(out').start, body |-> Last(out').body]
<1>1. /\ MarkRead /\ reading' = Nobody /\ Return(resp)
      /\ UNCHANGED <<wire, lost, torn, failures, request, calls>>
      /\ UNCHANGED <<received, answers>>
  BY DEF ReadPacket
<1>2. /\ ParserTypes' /\ reading # Nobody /\ sent' = sent
      /\ Last(out').start \in 0..Len(sent)
  BY <1>1, ReadTypes DEF ResultIInv
<1>3. caller = "reading" /\ resp.of \in 0..Len(sent)
  BY <1>2 DEF ResultIInv, Results
<1>4. /\ AnswersKnown' /\ NeverMisread'
      /\ response'.of \in 0..Len(sent) /\ returned' \in {0, response'.of, Exception}
  <2> HIDE DEF resp
  <2> QED
    BY <1>1, <1>2, <1>3, ReturnResults
<1>5. caller' = "idle" /\ open' = FALSE
  BY <1>1 DEF Return
<1>6. Results'
  <2>1. open' \in BOOLEAN
    BY <1>5, Zenon
  <2> QED
    BY <1>1, <1>2, <1>4, <1>5, <2>1 DEF ResultIInv, Results
<1> QED
  BY <1>2, <1>4, <1>6

LEMMA ResultStep == ResultIInv /\ [Next]_vars => ResultIInv'
<1> SUFFICES ASSUME ResultIInv, [Next]_vars PROVE ResultIInv'
  OBVIOUS
<1>1. IInv'
  BY IInvStep DEF ResultIInv
<1>2. ASSUME UNCHANGED vars
      PROVE  ParserTypes' /\ Results' /\ AnswersKnown' /\ NeverMisread'
  <2>1. /\ UNCHANGED <<sent, wire, buf, packet, out, reading>>
        /\ UNCHANGED <<caller, open, lost, torn, failures>>
        /\ UNCHANGED <<request, response, returned, calls, received, answers>>
    BY <1>2 DEF vars, parserVars, connection
  <2>2. call' = call
    BY <2>1 DEF call
  <2> QED
    BY <2>1, <2>2 DEF ResultIInv, ParserTypes, Results, AnswersKnown, NeverMisread
<1>3. ParserTypes' /\ Results' /\ AnswersKnown' /\ NeverMisread'
  <2>1. CASE \E c \in Calls : Call(c)
    BY <2>1, CallResults
  <2>2. CASE Connected
    BY <2>2, ConnectedResults
  <2>3. CASE ConnectFails \/ ReadFails
    BY <2>3, ConnectFailsResults, FailsResults
  <2>4. CASE ReadOn \/ \E n \in 0..BufferSize : Read(n)
    BY <2>4, ReadResults
  <2>5. CASE ReadPacket
    BY <2>5, PacketResults
  <2>6. CASE DeviceActs
    <3>1. CASE \E head \in Headers, n \in Bodies, ok \in BOOLEAN : DeviceAnswers(head, n, ok)
      BY <3>1, AnswersResults
    <3>2. CASE \E k \in 0..BufferSize : DeviceCloses(k)
      BY <3>2, ClosesResults
    <3> QED
      BY <2>6, <3>1, <3>2 DEF DeviceActs
  <2> QED
    BY <1>2, <2>1, <2>2, <2>3, <2>4, <2>5, <2>6 DEF Next, Http
<1> QED
  BY <1>1, <1>3 DEF ResultIInv

\* What a call returns was answered to a call of the same method, also when the
\* parser has kept a part of another answer.
THEOREM AnswersNeverMisread == Spec => []NeverMisread
<1>1. ResultIInv => NeverMisread
  BY DEF ResultIInv
<1> QED
  BY <1>1, ResultInit, ResultStep, PTL DEF Spec

\* The types, and that an object sends parameters of its own methods only.
THEOREM TypeCorrect == Spec => []TypeOK
<1>1. ResultIInv => TypeOK
  <2> SUFFICES ASSUME ResultIInv PROVE TypeOK
    OBVIOUS
  <2>1. ASSUME NEW o \in Objects
        PROVE  request[o].parameters \subseteq
                  UNION {Parameters(c) : c \in {d \in Calls : d[1] = o /\ ~Keeps(d)}}
    <3>1. CASE request[o].parameters = {}
      BY <3>1
    <3>2. CASE request[o].parameters # {}
      <4>1. PICK j \in 1..Len(calls) :
                  /\ calls[j][1] = o /\ ~Keeps(calls[j])
                  /\ request[o].parameters = Parameters(calls[j])
        BY <3>2 DEF ResultIInv, IInv, RequestsKept, LeftBy
      <4>2. calls[j] \in {d \in Calls : d[1] = o /\ ~Keeps(d)}
        BY <4>1, CallsShape DEF ResultIInv, IInv
      <4> QED
        BY <4>1, <4>2, Zenon
    <3> QED
      BY <3>1, <3>2
  <2>2. Len(sent) \in Nat /\ returned \in 0..Len(sent) \cup {Exception}
    BY DEF ResultIInv, ParserTypes, Results
  <2>3. failures \in 0..MaxFailures
    BY DEF ResultIInv, Results
  <2> QED
    BY <2>1, <2>2, <2>3
       DEF ResultIInv, IInv, Shapes, FilledInOnce, Results, AnswersKnown, TypeOK
<1> QED
  BY <1>1, ResultInit, ResultStep, PTL DEF Spec

-----------------------------------------------------------------------------
\* Whose answer a call returns.

\* What there is of earlier calls while one is under way.
Earlier ==
    /\ caller # "idle" => ~lost
    /\ caller # "idle" /\ response.of # 0 => answers[response.of].call < Len(calls)
    /\ caller = "connecting" => \A i \in 1..Len(answers) : answers[i].call < Len(calls)

\* What has been read and what arrives are the beginning of the one answer.
AnswerBegun ==
    /\ Len(sent) # 0 /\ answers[Len(sent)].call = Len(calls)
    /\ Len(buf) + Len(wire[Device]) <= Length(sent[Len(sent)])
    /\ Begins(buf, Len(sent), sent[Len(sent)])
    /\ \A m \in 1..Len(wire[Device]) :
          wire[Device][m] = Cells(Len(sent), sent[Len(sent)])[Len(buf) + m]

\* As long as every answer was read to its end, the parser keeps none of it.
NothingKept ==
    ~torn =>
       /\ caller # "reading" => buf = <<>>
       /\ caller = "connecting" => wire[Device] = <<>>
       /\ caller = "reading" => IF Answered THEN AnswerBegun
                                ELSE buf = <<>> /\ wire[Device] = <<>>

BelongIInv == ResultIInv /\ Earlier /\ NothingKept /\ AnswerBelongs

LEMMA BelongInit == Init => BelongIInv
<1> SUFFICES ASSUME Init PROVE BelongIInv
  OBVIOUS
<1>1. /\ ParserInit /\ caller = "idle" /\ calls = <<>> /\ lost = FALSE
  BY Zenon DEF Init
<1>2. buf = <<>>
  BY <1>1 DEF ParserInit
<1>3. Earlier /\ NothingKept /\ AnswerBelongs
  BY <1>1, <1>2 DEF Earlier, NothingKept, AnswerBelongs
<1> QED
  BY <1>3, ResultInit DEF BelongIInv

\* The sequences that the steps below change.
LEMMA BelongShape ==
  ASSUME BelongIInv
  PROVE  /\ sent \in Seq(Packet) /\ Len(sent) \in Nat
         /\ buf \in Seq(CellSet) /\ Len(buf) \in Nat
         /\ wire \in [Peers -> Seq(CellsUpTo(Len(sent)))]
         /\ wire[Device] \in Seq(CellSet) /\ Len(wire[Device]) \in Nat
         /\ answers \in Seq(Answer) /\ Len(answers) = Len(sent) /\ DOMAIN answers = 1..Len(answers)
         /\ \A i \in 1..Len(answers) : answers[i].call \in 1..Len(calls)
         /\ Len(calls) \in Nat
<1>1. /\ sent \in Seq(Packet) /\ Len(sent) \in Nat
      /\ wire \in [Peers -> Seq(CellsUpTo(Len(sent)))]
      /\ buf \in Seq(CellsUpTo(Len(sent)))
  BY DEF BelongIInv, ResultIInv, ParserTypes
<1>2. wire[Device] \in Seq(CellsUpTo(Len(sent)))
  BY <1>1, TheDevice
<1>3. buf \in Seq(CellSet) /\ wire[Device] \in Seq(CellSet)
  BY <1>1, <1>2, SeqOfCells
<1>4. Len(buf) \in Nat /\ Len(wire[Device]) \in Nat
  BY <1>3
<1>5. /\ answers \in Seq(Answer) /\ Len(answers) = Len(sent)
      /\ \A i \in 1..Len(answers) : answers[i].call \in 1..Len(calls)
  BY DEF BelongIInv, ResultIInv, AnswersKnown
<1>6. Len(calls) \in Nat /\ DOMAIN answers = 1..Len(answers)
  BY <1>5 DEF BelongIInv, ResultIInv, IInv, Shapes
<1> QED
  BY <1>1, <1>3, <1>4, <1>5, <1>6

LEMMA CallBelongs ==
  ASSUME BelongIInv, NEW c \in Calls, Call(c)
  PROVE  Earlier' /\ NothingKept' /\ AnswerBelongs'
<1>1. /\ caller = "idle" /\ calls' = Append(calls, c)
      /\ caller' = "connecting" /\ lost' = FALSE
      /\ wire' = [wire EXCEPT ![Device] = <<>>]
      /\ UNCHANGED <<sent, buf, answers, response, torn>>
  BY DEF Call
<1>2. Len(calls') = Len(calls) + 1
  BY <1>1 DEF BelongIInv, ResultIInv, IInv, Shapes
<1>3. wire'[Device] = <<>>
  BY <1>1, BelongShape, TheDevice
<1>4. \A i \in 1..Len(answers) : answers[i].call < Len(calls')
  BY <1>2, BelongShape
<1>5. response.of # 0 => response.of \in 1..Len(answers)
  BY BelongShape DEF BelongIInv, ResultIInv, Results
<1>6. Earlier'
  BY <1>1, <1>4, <1>5 DEF Earlier
<1>7. NothingKept'
  BY <1>1, <1>3 DEF BelongIInv, NothingKept
<1> QED
  BY <1>1, <1>6, <1>7 DEF AnswerBelongs

LEMMA ConnectedBelongs ==
  ASSUME BelongIInv, Connected
  PROVE  Earlier' /\ NothingKept' /\ AnswerBelongs'
<1>1. /\ caller = "connecting" /\ caller' = "reading"
      /\ UNCHANGED <<sent, wire, buf, response, calls, answers, lost, torn>>
  BY DEF Connected, parserVars
<1>2. ~Answered'
  BY <1>1, BelongShape DEF BelongIInv, Earlier, Answered
<1>3. Earlier' /\ NothingKept'
  BY <1>1, <1>2 DEF BelongIInv, Earlier, NothingKept
<1> QED
  BY <1>1, <1>3 DEF AnswerBelongs

LEMMA ConnectFailsBelongs ==
  ASSUME BelongIInv, ConnectFails
  PROVE  Earlier' /\ NothingKept' /\ AnswerBelongs'
<1>1. /\ caller = "connecting" /\ caller' = "reading"
      /\ UNCHANGED <<sent, wire, buf, response, calls, answers, lost, torn>>
  BY DEF ConnectFails, parserVars
<1>2. ~Answered'
  BY <1>1, BelongShape DEF BelongIInv, Earlier, Answered
<1>3. Earlier' /\ NothingKept'
  BY <1>1, <1>2 DEF BelongIInv, Earlier, NothingKept
<1> QED
  BY <1>1, <1>3 DEF AnswerBelongs

LEMMA FailsBelongs ==
  ASSUME BelongIInv, ReadFails
  PROVE  Earlier' /\ NothingKept' /\ AnswerBelongs'
<1>1. /\ Fails /\ caller # "idle"
  BY DEF ReadFails, ReadsEnd
<1>2. /\ caller' = "idle" /\ response' = response /\ returned' = Decoded(response)
      /\ lost' = TRUE /\ torn' = (torn \/ buf # <<>>)
      /\ UNCHANGED <<buf, calls, answers>>
  BY <1>1 DEF Fails, Return, parserVars
<1>3. ~torn' => ~torn /\ buf = <<>>
  BY <1>2, Zenon
<1>4. Earlier' /\ NothingKept'
  BY <1>2, <1>3 DEF Earlier, NothingKept
<1>5. call' = call
  BY <1>2 DEF call
<1>6. returned' \in {0, Exception} \/ answers[returned'].call < Len(calls)
  BY <1>1, <1>2 DEF Decoded, BelongIInv, Earlier
<1>7. AnswerBelongs'
  BY <1>2, <1>5, <1>6 DEF AnswerBelongs, Methods, AvTransport, RenderingControl, DenonAct
<1> QED
  BY <1>4, <1>7

LEMMA AnswersBelong ==
  ASSUME BelongIInv, NEW head \in Headers, NEW n \in Bodies, NEW ok \in BOOLEAN,
         DeviceAnswers(head, n, ok)
  PROVE  Earlier' /\ NothingKept' /\ AnswerBelongs'
<1> DEFINE pk == [from |-> Device, head |-> head, body |-> n]
           N == Len(sent) + 1
           c == Cells(N, pk)
<1>1. /\ caller = "reading" /\ ~Answered /\ PeerSends(Device, head, n)
      /\ UNCHANGED <<caller, lost, torn, response, calls>>
  BY DEF DeviceAnswers, connection
<1>2. /\ Len(answers') = Len(sent) + 1 /\ answers'[N].call = Len(calls)
      /\ \A i \in 1..Len(answers) : answers'[i] = answers[i]
  BY AnswersResults, BelongShape DEF BelongIInv
<1>3. pk \in Packet
  BY TheDevice DEF Packet
<1> HIDE DEF pk
<1>4. /\ sent' = Append(sent, pk) /\ buf' = buf
      /\ wire' = [wire EXCEPT ![Device] = @ \o Cells(Len(sent'), sent'[Len(sent')])]
  BY <1>1 DEF PeerSends, pk
<1>5. /\ Len(sent') = N /\ sent'[N] = pk /\ N \in Nat \ {0}
  BY <1>3, <1>4, SentShape, BelongShape
<1>6. c \in Seq(CellSet) /\ Len(c) = Length(pk) /\ Length(pk) \in Nat
  BY <1>3, <1>5, CellsShape, PacketShape
<1>7. /\ wire' = [wire EXCEPT ![Device] = wire[Device] \o c]
  BY <1>4, <1>5
<1> HIDE DEF c, N
<1>8. response.of # 0 => response.of \in 1..Len(answers)
  BY BelongShape DEF BelongIInv, ResultIInv, Results
<1>9. Earlier'
  BY <1>1, <1>2, <1>8 DEF BelongIInv, Earlier
<1>10. ASSUME ~torn
       PROVE  Answered' /\ AnswerBegun'
  <2>1. buf = <<>> /\ wire[Device] = <<>>
    BY <1>1, <1>10 DEF BelongIInv, NothingKept
  <2>2. wire[Device] \o c = c
    BY <1>6, <2>1, ConcatEmptySeq
  <2>3. wire'[Device] = c
    BY <1>7, <2>2, TheDevice, BelongShape
  <2>4. Len(buf') = 0 /\ N # 0 /\ Len(wire'[Device]) = Length(pk)
    BY <1>4, <1>5, <1>6, <2>1, <2>3
  <2>5. \A m \in 1..Length(pk) : Len(buf') + m = m
    BY <1>6, <2>4
  <2>6. \A m \in 1..Len(wire'[Device]) : wire'[Device][m] = Cells(N, pk)[Len(buf') + m]
    BY <2>3, <2>4, <2>5 DEF c
  <2>7. Begins(buf', N, pk)
    BY <2>4 DEF Begins
  <2>8. Len(buf') + Len(wire'[Device]) <= Length(pk)
    BY <1>6, <2>4
  <2>9. Answered'
    <3>1. answers' = Append(answers, answers'[N]) /\ N \in DOMAIN answers'
      BY <1>2, <1>5, BelongShape DEF DeviceAnswers, N
    <3> QED
      BY <1>1, <1>2, <3>1 DEF Answered
  <2> QED
    BY <1>1, <1>2, <1>5, <2>4, <2>6, <2>7, <2>8, <2>9 DEF AnswerBegun
<1>11. NothingKept'
  BY <1>1, <1>10 DEF NothingKept
<1> QED
  BY <1>1, <1>9, <1>11 DEF AnswerBelongs

LEMMA ClosesBelongs ==
  ASSUME BelongIInv, NEW k \in 0..BufferSize, DeviceCloses(k)
  PROVE  Earlier' /\ NothingKept' /\ AnswerBelongs'
<1> DEFINE v == wire[Device]
           w == SubSeq(v, 1, k)
<1>1. /\ caller = "reading" /\ k <= Len(v) /\ wire' = [wire EXCEPT ![Device] = w]
      /\ UNCHANGED <<sent, buf, caller, lost, torn, response, calls, answers>>
  BY DEF DeviceCloses
<1>2. v \in Seq(CellSet) /\ Len(v) \in Nat /\ k \in 0..Len(v) /\ Len(buf) \in Nat
  BY <1>1, TheDevice, BelongShape
<1> HIDE DEF v
<1>3. Len(w) = k /\ \A m \in 1..k : w[m] = v[m]
  <2>1. /\ Len(w) = IF 1 <= k THEN k - 1 + 1 ELSE 0
        /\ \A m \in 1..(k - 1 + 1) : w[m] = v[1 + m - 1]
    BY <1>2, Part
  <2> HIDE DEF w
  <2> QED
    BY <1>2, <2>1
<1>4. w \in Seq(CellSet)
  BY <1>2, Part
<1> HIDE DEF w
<1>5. wire'[Device] = w
  BY <1>1, TheDevice, BelongShape
<1>6. ASSUME ~torn
      PROVE  IF Answered' THEN AnswerBegun' ELSE buf' = <<>> /\ wire'[Device] = <<>>
  <2>1. Answered' = Answered
    BY <1>1 DEF Answered
  <2>2. CASE Answered
    <3>1. AnswerBegun
      BY <1>1, <1>6, <2>2 DEF BelongIInv, NothingKept
    <3>2. /\ Len(buf) + Len(w) <= Length(sent[Len(sent)])
          /\ \A m \in 1..Len(w) : w[m] = Cells(Len(sent), sent[Len(sent)])[Len(buf) + m]
      <4>1. Length(sent[Len(sent)]) \in Nat
        <5>1. sent[Len(sent)] \in Packet
          BY <3>1, BelongShape, ElementOfSeq DEF AnswerBegun
        <5> QED
          BY <5>1, PacketShape
      <4> DEFINE L == Length(sent[Len(sent)])
                 whole == Cells(Len(sent), sent[Len(sent)])
      <4>2. Len(buf) + Len(v) <= L /\ \A m \in 1..Len(v) : v[m] = whole[Len(buf) + m]
        BY <3>1 DEF AnswerBegun, v
      <4> HIDE DEF L, whole
      <4>3. Len(buf) + Len(w) <= L
        BY <1>2, <1>3, <4>1, <4>2 DEF L
      <4>4. ASSUME NEW m \in 1..Len(w)
            PROVE  w[m] = whole[Len(buf) + m]
        <5>1. m \in 1..k /\ m \in 1..Len(v)
          BY <1>2, <1>3
        <5>2. w[m] = v[m]
          BY <1>3, <5>1
        <5> QED
          BY <4>2, <5>1, <5>2, Zenon
      <4> QED
        BY <4>3, <4>4 DEF L, whole
    <3> QED
      BY <1>1, <1>5, <2>1, <2>2, <3>1, <3>2 DEF AnswerBegun
  <2>3. CASE ~Answered
    <3>1. buf = <<>> /\ v = <<>>
      BY <1>1, <1>6, <2>3 DEF BelongIInv, NothingKept, v
    <3>2. Len(w) = 0
      BY <1>2, <1>3, <3>1
    <3> QED
      BY <1>1, <1>4, <1>5, <2>1, <2>3, <3>1, <3>2
  <2> QED
    BY <2>2, <2>3
<1>7. Earlier' /\ NothingKept'
  BY <1>1, <1>6 DEF BelongIInv, Earlier, NothingKept
<1> QED
  BY <1>1, <1>7 DEF AnswerBelongs

LEMMA ReadBelongs ==
  ASSUME BelongIInv, NEW n \in 0..BufferSize, Read(n)
  PROVE  Earlier' /\ NothingKept' /\ AnswerBelongs'
<1> DEFINE v == wire[Device]
           v2 == wire'[Device]
<1>1. /\ Fill(Device, n) /\ caller = "reading" /\ n \in Nat
      /\ UNCHANGED <<caller, lost, torn, response, calls, answers>>
  BY DEF Read, connection
<1>2. sent' = sent
  BY <1>1 DEF Fill
<1>3. /\ n \in 0..Len(v) /\ Len(buf') = Len(buf) + n
      /\ \A k \in 1..Len(buf) : buf'[k] = buf[k]
      /\ \A k \in 1..n : buf'[Len(buf) + k] = v[k]
      /\ Len(v2) = Len(v) - n
      /\ \A k \in 1..(Len(v) - n) : v2[k] = v[n + k]
  BY <1>1, TheDevice, FillTypes DEF BelongIInv, ResultIInv
<1>4. Len(v) \in Nat /\ Len(buf) \in Nat
  BY BelongShape
<1> HIDE DEF v, v2
<1>5. ASSUME ~torn
      PROVE  IF Answered' THEN AnswerBegun' ELSE buf' = <<>> /\ wire'[Device] = <<>>
  <2>1. Answered' = Answered
    BY <1>1 DEF Answered
  <2>2. CASE Answered
    <3> DEFINE i == Len(sent)
               L == Length(sent[i])
               whole == Cells(i, sent[i])
    <3>1. AnswerBegun
      BY <1>1, <1>5, <2>2 DEF BelongIInv, NothingKept
    <3>2. L \in Nat
      <4>1. sent[i] \in Packet
        BY <3>1, BelongShape, ElementOfSeq DEF AnswerBegun
      <4> QED
        BY <4>1, PacketShape
    <3>3. /\ i # 0 /\ answers[i].call = Len(calls) /\ Len(buf) + Len(v) <= L
          /\ \A m \in 1..Len(buf) : m <= L => buf[m] = whole[m]
          /\ \A m \in 1..Len(v) : v[m] = whole[Len(buf) + m]
      BY <3>1 DEF AnswerBegun, Begins, v
    <3> HIDE DEF i, L, whole
    <3>4. Len(buf') + Len(v2) <= L
      BY <1>3, <1>4, <3>2, <3>3
    <3>5. \A m \in 1..Len(v2) : v2[m] = whole[Len(buf') + m]
      <4> SUFFICES ASSUME NEW m \in 1..Len(v2) PROVE v2[m] = whole[Len(buf') + m]
        OBVIOUS
      <4>1. n + m \in 1..Len(v) /\ m \in 1..(Len(v) - n) /\ Len(buf) + (n + m) = Len(buf') + m
        BY <1>3, <1>4
      <4> QED
        BY <1>3, <3>3, <4>1
    <3>6. \A m \in 1..Len(buf') : m <= L => buf'[m] = whole[m]
      <4> SUFFICES ASSUME NEW m \in 1..Len(buf'), m <= L PROVE buf'[m] = whole[m]
        OBVIOUS
      <4>1. CASE m \in 1..Len(buf)
        BY <1>3, <3>3, <4>1
      <4>2. CASE m \notin 1..Len(buf)
        <5> DEFINE l == m - Len(buf)
        <5>1. l \in 1..n /\ l \in 1..Len(v) /\ m = Len(buf) + l
          BY <1>3, <1>4, <4>2
        <5> HIDE DEF l
        <5> QED
          BY <1>3, <3>3, <5>1
      <4> QED
        BY <4>1, <4>2
    <3> QED
      BY <1>1, <1>2, <2>1, <2>2, <3>3, <3>4, <3>5, <3>6
         DEF AnswerBegun, Begins, i, L, whole, v2
  <2>3. CASE ~Answered
    <3>1. buf = <<>> /\ v = <<>>
      BY <1>1, <1>5, <2>3 DEF BelongIInv, NothingKept, v
    <3>2. Len(buf') = 0 /\ Len(v2) = 0
      BY <1>3, <1>4, <3>1
    <3>3. buf' \in Seq(CellsUpTo(Len(sent'))) /\ v2 \in Seq(CellsUpTo(Len(sent')))
      BY <1>1, TheDevice, FillTypes DEF BelongIInv, ResultIInv, ParserTypes, v2
    <3>4. buf' = <<>> /\ v2 = <<>>
      BY <3>2, <3>3
    <3> QED
      BY <2>1, <2>3, <3>4 DEF v2
  <2> QED
    BY <2>2, <2>3
<1>6. Earlier' /\ NothingKept'
  BY <1>1, <1>5 DEF BelongIInv, Earlier, NothingKept
<1> QED
  BY <1>1, <1>6 DEF AnswerBelongs

LEMMA ReadOnBelongs ==
  ASSUME BelongIInv, ReadOn
  PROVE  Earlier' /\ NothingKept' /\ AnswerBelongs'
<1>1. /\ MarkReadNone /\ reading # Nobody
      /\ UNCHANGED <<caller, lost, torn, response, calls, answers>>
  BY DEF ReadOn, MarkReadNone, connection
<1>2. UNCHANGED <<sent, wire, buf>> /\ caller = "reading"
  BY <1>1 DEF MarkReadNone, BelongIInv, ResultIInv, Results
<1>3. Earlier' /\ NothingKept'
  BY <1>1, <1>2 DEF BelongIInv, Earlier, NothingKept, Answered, AnswerBegun
<1> QED
  BY <1>1, <1>2, <1>3 DEF AnswerBelongs

\* The packet is the whole answer, and it is the only one.
LEMMA PacketBelongs ==
  ASSUME LengthSeen, BelongIInv, ReadPacket
  PROVE  Earlier' /\ NothingKept' /\ AnswerBelongs'
<1> DEFINE resp == [of |-> Last(out').start, body |-> Last(out').body]
           i == Len(sent)
<1>1. /\ MarkRead /\ UNCHANGED wire /\ reading' \in {reading, Nobody} /\ Return(resp)
      /\ UNCHANGED <<lost, torn, calls, answers>>
  BY DEF ReadPacket
<1>2. /\ caller' = "idle" /\ response' = resp /\ returned' = Decoded(resp) /\ call' = call
  BY <1>1 DEF Return, call
<1>3. reading # Nobody /\ sent' = sent /\ buf # <<>>
  BY <1>1, ReadTypes DEF BelongIInv, ResultIInv
<1>4. caller = "reading" /\ ~lost /\ calls # <<>>
  BY <1>3 DEF BelongIInv, ResultIInv, Results, AnswersKnown, Earlier
<1> HIDE DEF resp
<1>5. ASSUME ~torn
      PROVE  /\ buf' = <<>> /\ resp.of = i /\ resp.body = Body(i, sent[i].body)
             /\ i \in 1..Len(answers) /\ answers[i].call = Len(calls)
  <2>1. AnswerBegun
    BY <1>3, <1>4, <1>5 DEF BelongIInv, NothingKept
  <2> DEFINE L == Length(sent[i])
             new == [start |-> i, to |-> reading, body |-> Body(i, sent[i].body)]
  <2>2. /\ i \in Nat /\ sent[i] \in Packet /\ i \in 1..Len(answers)
    <3>1. i \in 1..Len(sent)
      BY <2>1, BelongShape DEF AnswerBegun
    <3> QED
      BY <3>1, BelongShape, ElementOfSeq
  <2>3. Begins(buf, i, sent[i]) /\ answers[i].call = Len(calls) /\ Len(buf) + Len(wire[Device]) <= L
    BY <2>1 DEF AnswerBegun
  <2>4. Len(buf) >= L /\ out' = Append(out, new) /\ buf' = SubSeq(buf, L + 1, Len(buf))
    BY <1>1, <2>2, <2>3, BelongShape, PacketReturned
  <2>5. L \in Nat
    BY <2>2, PacketShape
  <2> HIDE DEF L, new
  <2>6. buf' = <<>>
    <3>1. L + 1 \in Int /\ Len(buf) \in Int /\ Len(buf) < L + 1
      BY <2>3, <2>5, BelongShape
    <3> QED
      BY <2>4, <3>1, SubSeqEmpty
  <2>7. Last(out') = new
    <3>1. out \in Seq(Out)
      BY DEF BelongIInv, ResultIInv, ParserTypes
    <3>2. Len(out') = Len(out) + 1 /\ out'[Len(out) + 1] = new
      BY <2>4, <3>1
    <3> QED
      BY <3>2 DEF Last
  <2>8. resp.of = i /\ resp.body = Body(i, sent[i].body)
    BY <2>7 DEF resp, new
  <2> QED
    BY <2>2, <2>3, <2>6, <2>8
<1> HIDE DEF i
<1>6. Earlier' /\ NothingKept'
  BY <1>1, <1>2, <1>5 DEF Earlier, NothingKept
<1>7. ASSUME ~torn, call[2] \notin Methods(call[1]).plain
      PROVE  IF returned' = Exception THEN ~answers[resp.of].ok
             ELSE answers[returned'].call = Len(calls)
  <2>1. /\ resp.of = i /\ resp.body = Body(i, sent[i].body) /\ i \in 1..Len(answers)
        /\ answers[i].call = Len(calls)
    BY <1>5, <1>7
  <2>2. i # 0 /\ i # Exception
    BY <2>1, BelongShape DEF Exception
  <2>3. /\ call = calls[Len(calls)] /\ call \in Calls
    BY <1>4, CallsShape DEF BelongIInv, ResultIInv, IInv
  <2>4. CASE call[2] \in Methods(call[1]).raw
    BY <1>2, <1>7, <2>1, <2>2, <2>4 DEF Decoded
  <2>5. CASE call[2] \notin Methods(call[1]).raw
    <3>1. call[2] \in Methods(call[1]).decoding
      <4>1. call[1] \in Objects /\ call \in UNION {{o} \X (Methods(o).decoding
                  \cup Methods(o).raw \cup Methods(o).plain) : o \in Objects}
        BY <2>3, CallShape, ControlAssumption
      <4> QED
        BY <1>7, <2>5, <4>1
    <3>2. /\ answers[i].object = call[1] /\ answers[i].action = ActionName(call)
      BY <2>1, <2>3 DEF BelongIInv, ResultIInv, AnswersKnown
    <3>3. ActionName(call) = call[2]
      BY <2>3, <3>1, DecodingNames
    <3>4. Accepts(call, answers[i]) <=> answers[i].ok
      BY <3>2, <3>3 DEF Accepts, Satisfies
    <3>5. returned' = IF Accepts(call, answers[i]) THEN i ELSE Exception
      BY <1>2, <1>7, <2>1, <2>2, <2>5 DEF Decoded
    <3> QED
      BY <2>1, <2>2, <3>4, <3>5
  <2> QED
    BY <2>4, <2>5
<1>8. AnswerBelongs'
  BY <1>1, <1>2, <1>4, <1>7
     DEF AnswerBelongs, Methods, AvTransport, RenderingControl, DenonAct
<1> QED
  BY <1>6, <1>8

LEMMA BelongStep == LengthSeen /\ BelongIInv /\ [Next]_vars => BelongIInv'
<1> SUFFICES ASSUME LengthSeen, BelongIInv, [Next]_vars PROVE BelongIInv'
  OBVIOUS
<1>1. ResultIInv'
  BY ResultStep DEF BelongIInv
<1>2. ASSUME UNCHANGED vars
      PROVE  Earlier' /\ NothingKept' /\ AnswerBelongs'
  <2>1. UNCHANGED <<sent, wire, buf, caller, lost, torn, response, returned, calls, answers>>
    BY <1>2 DEF vars, parserVars, connection
  <2>2. call' = call
    BY <2>1 DEF call
  <2> QED
    BY <2>1, <2>2 DEF BelongIInv, Earlier, NothingKept, Answered, AnswerBegun, AnswerBelongs,
                      Methods, AvTransport, RenderingControl, DenonAct
<1>3. Earlier' /\ NothingKept' /\ AnswerBelongs'
  <2>1. CASE \E c \in Calls : Call(c)
    BY <2>1, CallBelongs
  <2>2. CASE Connected
    BY <2>2, ConnectedBelongs
  <2>3. CASE ConnectFails \/ ReadFails
    BY <2>3, ConnectFailsBelongs, FailsBelongs
  <2>4. CASE \E n \in 0..BufferSize : Read(n)
    BY <2>4, ReadBelongs
  <2>5. CASE ReadOn
    BY <2>5, ReadOnBelongs
  <2>6. CASE ReadPacket
    BY <2>6, PacketBelongs
  <2>7. CASE DeviceActs
    <3>1. CASE \E head \in Headers, n \in Bodies, ok \in BOOLEAN : DeviceAnswers(head, n, ok)
      BY <3>1, AnswersBelong
    <3>2. CASE \E k \in 0..BufferSize : DeviceCloses(k)
      BY <3>2, ClosesBelongs
    <3> QED
      BY <2>7, <3>1, <3>2 DEF DeviceActs
  <2> QED
    BY <1>2, <2>1, <2>2, <2>3, <2>4, <2>5, <2>6, <2>7 DEF Next, Http
<1> QED
  BY <1>1, <1>3 DEF BelongIInv

\* A call returns what was answered to it, or what was answered to an earlier
\* call when its connection has failed, until a call breaks off in the middle
\* of an answer.  The device puts CONTENT-LENGTH where ParseHeader sees it.
THEOREM AnswersBelongToCalls == LengthSeen => (Spec => []AnswerBelongs)
<1> SUFFICES ASSUME LengthSeen PROVE Spec => []AnswerBelongs
  OBVIOUS
<1>1. Init => BelongIInv
  BY BelongInit
<1>2. BelongIInv /\ [Next]_vars => BelongIInv'
  BY BelongStep
<1>3. BelongIInv => AnswerBelongs
  BY DEF BelongIInv
<1> QED
  BY <1>1, <1>2, <1>3, PTL DEF Spec
=============================================================================
