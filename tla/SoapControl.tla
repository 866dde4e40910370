---------------------------- MODULE SoapControl -----------------------------
(***************************************************************************)
(* Calls of the UPnP services of a receiver: the objects AvTransport,      *)
(* RenderingControl and DenonAct keep one request each, and share one      *)
(* QHttpConnection, which keeps a parser and the last response.  A call    *)
(* blocks its thread; the device is at the other end.                      *)
(***************************************************************************)
EXTENDS HttpParser

CONSTANTS
    Device,      \* the peer
    Calls,       \* the calls that are made: pairs of an object and a method
    MaxCalls,    \* bound on the calls
    MaxFailures  \* bound on the connections that fail or break

Objects == {"AvTransport", "RenderingControl", "DenonAct"}

\* The methods of each object: those that decode what is answered, and throw if
\* it is something else, those that return the body as it is, and those that
\* return nothing.
AvTransport ==
    [decoding |-> {"GetCurrentState", "GetCurrentTransportActions",
                   "GetDeviceCapabilities", "GetMediaInfo", "GetPositionInfo"},
     raw |-> {},
     plain |-> {"GetTransportInfo", "GetTransportSettings", "Play", "Pause",
                "Stop", "Next"}]

RenderingControl ==
    [decoding |-> {"GetCurrentState"}, raw |-> {"GetMute"}, plain |-> {"SetVolume"}]

DenonAct ==
    [decoding |-> {"GetAccessPointList", "GetAudioConfig", "GetAvrZoneStatus",
                   "GetSurroundSpeakerConfig", "GetCurrentState"},
     raw |-> {},
     plain |-> {"SetBluetoothAction"}]

Methods(o) == CASE o = "AvTransport" -> AvTransport
                [] o = "RenderingControl" -> RenderingControl
                [] o = "DenonAct" -> DenonAct

ASSUME ControlAssumption ==
    /\ Peers = {Device} /\ ~ChecksMethod
    /\ Calls \subseteq
          UNION {{o} \X (Methods(o).decoding \cup Methods(o).raw \cup Methods(o).plain) :
                    o \in Objects}
    /\ MaxCalls \in Nat /\ MaxFailures \in Nat /\ MaxPackets >= MaxCalls

\* The name a request is sent under: SetVolume writes that of GetMute.
ActionName(c) == IF c[2] = "SetVolume" THEN "GetMute" ELSE c[2]

\* The methods that leave m_request.parameters as they are.
Keeps(c) == c[2] = "GetCurrentState" \/ (c[1] = "DenonAct" /\ c[2] \in DenonAct.decoding)

\* The parameters the others set.
Parameters(c) ==
    IF c[2] = "SetBluetoothAction" THEN {"BTAction", "BTIndex"}
    ELSE {"InstanceID"}
         \cup (IF c[2] = "Play" THEN {"Speed"} ELSE {})
         \cup (IF c[1] = "RenderingControl" THEN {"Channel"} ELSE {})
         \cup (IF c[2] = "SetVolume" THEN {"DesiredVolume"} ELSE {})

\* Mutant: any answer will do.
AcceptsAny(c, answer) == answer.ok

\* The state of AvTransport has all that RenderingControl insists on, which
\* takes the fields it finds.
Satisfies(object, o) ==
    object = o \/ (o = "RenderingControl" /\ object = "AvTransport")

\* A method accepts an answer of its own name that it can decode.
Accepts(c, answer) ==
    answer.ok /\ answer.action = c[2] /\ Satisfies(answer.object, c[1])

VARIABLES
    caller,    \* "idle", "connecting" or "reading" in QHttpConnection::Http
    request,   \* m_request of each object: [action, parameters]
    response,  \* m_response: [of, body], of what was sent, or of nothing
    open,      \* the device has not closed the connection
    returned,  \* what the last call returned: the answer whose body it made
               \* something of, 0 for nothing, or an exception
    calls,     \* history: the calls so far, the last of which may be going on
    received,  \* history: the requests the device has received: [call, object,
               \* action, parameters]
    answers,   \* history: what each packet answers: [call, object, action, ok]
    lost,      \* history: the connection of the last call failed or broke
    torn,      \* history: the parser has kept a part of an answer
    failures   \* history: how many connections failed or broke

Exception == -1

call == Last(calls)

connection == <<caller, open, lost, torn, failures>>
vars == <<parserVars, connection, request, response, returned, calls,
          received, answers>>

Init ==
    /\ ParserInit
    /\ caller = "idle" /\ open = FALSE
    /\ request = [o \in Objects |-> [action |-> "none", parameters |-> {}]]
    /\ response = [of |-> 0, body |-> <<>>] /\ returned = 0
    /\ calls = <<>> /\ received = <<>> /\ answers = <<>>
    /\ lost = FALSE /\ torn = FALSE /\ failures = 0

-----------------------------------------------------------------------------
\* Mutant: what a call sets is added to what is there.
FilledInAdded(c) ==
    [action |-> ActionName(c),
     parameters |-> request[c[1]].parameters \cup IF Keeps(c) THEN {} ELSE Parameters(c)]

\* Mutant: every call sets parameters.
FilledInAlways(c) == [action |-> ActionName(c), parameters |-> Parameters(c)]

\* m_request as the call sends it.
FilledIn(c) ==
    [action |-> ActionName(c),
     parameters |-> IF Keeps(c) THEN request[c[1]].parameters ELSE Parameters(c)]

\* A method begins: it fills in the request of its object and calls Http.
Call(c) ==
    /\ caller = "idle" /\ Len(calls) < MaxCalls
    /\ calls' = Append(calls, c)
    /\ request' = [request EXCEPT ![c[1]] = FilledIn(c)]
    /\ caller' = "connecting" /\ open' = TRUE /\ lost' = FALSE
    /\ wire' = [wire EXCEPT ![Device] = <<>>]
    /\ UNCHANGED <<sent, buf, packet, out, reading, disturbed>>
    /\ UNCHANGED <<response, returned, received, answers, torn, failures>>

\* The request is written and arrives.
Connected ==
    /\ caller = "connecting" /\ caller' = "reading"
    /\ received' = Append(received, [call |-> Len(calls), object |-> call[1],
                                     action |-> request[call[1]].action,
                                     parameters |-> request[call[1]].parameters])
    /\ UNCHANGED <<parserVars, request, response, returned, calls, answers>>
    /\ UNCHANGED <<open, lost, torn, failures>>

\* What the method makes of the response resp: it ignores it, returns its body,
\* whatever that is, or decodes it.  A body that is not the whole body of an
\* answer cannot be read as XML.
Decoded(resp) ==
    IF call[2] \in Methods(call[1]).plain THEN 0
    ELSE IF call[2] \in Methods(call[1]).raw THEN resp.of
    ELSE IF /\ resp.of # 0 /\ resp.body = Body(resp.of, sent[resp.of].body)
            /\ Accepts(call, answers[resp.of])
         THEN resp.of ELSE Exception

\* Mutant: the first response is kept.
ReturnFirst(resp) ==
    /\ caller' = "idle" /\ open' = FALSE
    /\ response' = IF response.of = 0 THEN resp ELSE response
    /\ returned' = Decoded(response')

\* Http closes the socket and returns m_response, and the method goes on.
Return(resp) ==
    /\ caller' = "idle" /\ open' = FALSE
    /\ response' = resp /\ returned' = Decoded(resp)

\* m_response stays what it was, and so does what the parser has read.
Fails ==
    /\ Return(response)
    /\ lost' = TRUE /\ torn' = (torn \/ buf # <<>>) /\ failures' = failures + 1
    /\ UNCHANGED <<parserVars, request, calls, received, answers>>

\* Nobody looks at what waitForConnected and waitForBytesWritten return: Http
\* goes on to read from the closed socket.
ConnectFails ==
    /\ caller = "connecting" /\ failures < MaxFailures
    /\ caller' = "reading" /\ open' = FALSE
    /\ UNCHANGED <<parserVars, request, response, returned, calls, received>>
    /\ UNCHANGED <<answers, lost, torn, failures>>

\* read returns -1: the device has closed, and everything has been read.  It is
\* not asked for anything when the buffer is full, and then it returns 0.
ReadsEnd ==
    /\ caller = "reading" /\ reading = Nobody /\ Len(buf) < BufferSize
    /\ ~open /\ wire[Device] = <<>>

\* Mutant: what read returns is not looked at.
ReadFailsGoesOn == ReadsEnd /\ UNCHANGED vars

ReadFails == ReadsEnd /\ Fails

\* The device answers the request, or says that it failed.
Answered == \E i \in DOMAIN answers : answers[i].call = Len(calls)

DeviceAnswers(head, n, ok) ==
    /\ caller = "reading" /\ open /\ ~Answered
    /\ PeerSends(Device, head, n)
    /\ answers' = Append(answers,
          [call |-> Len(calls), object |-> Last(received).object,
           action |-> Last(received).action, ok |-> ok])
    /\ UNCHANGED <<connection, request, response, returned, calls, received>>

\* The connection breaks: only k of the cells on the way arrive.
DeviceCloses(k) ==
    /\ caller = "reading" /\ open /\ failures < MaxFailures
    /\ k <= Len(wire[Device]) /\ open' = FALSE
    /\ wire' = [wire EXCEPT ![Device] = SubSeq(@, 1, k)]
    /\ UNCHANGED <<sent, buf, packet, out, reading, disturbed>>
    /\ UNCHANGED <<caller, lost, torn, failures, request, response>>
    /\ UNCHANGED <<returned, calls, received, answers>>

\* Http reads once what there is: nothing if waitForReadyRead has run into its
\* timeout, or if the buffer is full.
Read(n) ==
    /\ caller = "reading" /\ Fill(Device, n)
    /\ n = 0 => (open /\ wire[Device] = <<>>) \/ Len(buf) = BufferSize
    /\ UNCHANGED <<connection, request, response, returned, calls>>
    /\ UNCHANGED <<received, answers>>

\* The loop goes on when the parser returns no packet.
ReadOn ==
    /\ MarkReadNone
    /\ UNCHANGED <<connection, request, response, returned, calls>>
    /\ UNCHANGED <<received, answers>>

\* A packet is the response.
ReadPacket ==
    /\ MarkRead /\ reading' = Nobody
    /\ Return([of |-> Last(out').start, body |-> Last(out').body])
    /\ UNCHANGED <<wire, lost, torn, failures, request, calls>>
    /\ UNCHANGED <<received, answers>>

-----------------------------------------------------------------------------
Http == \/ Connected \/ ConnectFails \/ ReadFails \/ ReadOn \/ ReadPacket
        \/ \E n \in 0..BufferSize : Read(n)

DeviceActs == \/ \E head \in Headers, n \in Bodies, ok \in BOOLEAN : DeviceAnswers(head, n, ok)
              \/ \E k \in 0..BufferSize : DeviceCloses(k)

Next == (\E c \in Calls : Call(c)) \/ Http \/ DeviceActs

Spec == Init /\ [][Next]_vars

\* A call runs on; the device answers what it receives or closes the connection.
FairSpec == Spec /\ WF_vars(Http) /\ WF_vars(DeviceActs)

-----------------------------------------------------------------------------
(* Properties. *)

\* The variables hold what their comments say; an object has sent parameters of
\* its own methods only.
TypeOK ==
    /\ caller \in {"idle", "connecting", "reading"} /\ open \in BOOLEAN
    /\ calls \in Seq(Calls) /\ Len(calls) <= MaxCalls
    /\ \A o \in Objects : request[o].parameters \subseteq
          UNION {Parameters(c) : c \in {d \in Calls : d[1] = o /\ ~Keeps(d)}}
    /\ returned \in 0..Len(sent) \cup {Exception} /\ response.of \in 0..Len(sent)
    /\ Len(answers) = Len(sent) /\ Len(received) <= Len(calls)
    /\ lost \in BOOLEAN /\ torn \in BOOLEAN /\ failures \in 0..MaxFailures

\* What a call returns is what the device answered to that call, and it throws
\* only when the device says that the call failed.  When its connection fails
\* it returns the answer of an earlier call: GetMute whatever was answered, the
\* others if they can decode it.  A call that breaks off in the middle of an
\* answer is where this ends.
AnswerBelongs ==
    caller = "idle" /\ ~torn /\ calls # <<>> /\ call[2] \notin Methods(call[1]).plain =>
        IF lost THEN returned \in {0, Exception} \/ answers[returned].call < Len(calls)
        ELSE IF returned = Exception THEN ~answers[response.of].ok
        ELSE answers[returned].call = Len(calls)

\* What a method that decodes returns was answered to a call of the same method,
\* even when the parser has kept a part of another answer; between AvTransport
\* and RenderingControl the state may be mistaken.
NeverMisread ==
    /\ caller = "idle" /\ returned \notin {0, Exception}
    /\ call[2] \in Methods(call[1]).decoding
    => /\ calls[answers[returned].call][2] = call[2]
       /\ calls[answers[returned].call][1] = call[1] \/ call[1] = "RenderingControl"

\* The parameters p are those that the last of the first k calls with parameters
\* on the object o has set, if there was one.
LeftBy(o, k, p) ==
    LET setting == {j \in 1..k : calls[j][1] = o /\ ~Keeps(calls[j])}
    IN \/ setting = {} /\ p = {}
       \/ \E j \in setting : p = Parameters(calls[j]) /\ \A l \in setting : l <= j

\* The device receives at most one request for each call, in the order of the
\* calls.  It goes to the object of the call and has the parameters of that call;
\* a call that sets none sends those of the last call before it on the same object
\* that did.  Its name is that of the method, by which the description of the
\* service knows it, with one exception: SetVolume asks for GetMute.
SentAsAsked ==
    \A i \in DOMAIN received :
        LET r == received[i]
        IN /\ r.call \in DOMAIN calls
           /\ r.object = calls[r.call][1]
           /\ r.action = IF calls[r.call][2] = "SetVolume" THEN "GetMute" ELSE calls[r.call][2]
           /\ LeftBy(r.object, r.call, r.parameters)
           /\ \A j \in DOMAIN received : i < j => r.call < received[j].call

\* A call returns in the end if the device answers or closes the connection,
\* unless what the parser has kept of other answers leads it astray.
CallReturns == (caller # "idle") ~> (caller = "idle" \/ torn)
=============================================================================
