------------------------------ MODULE MiniSsdp ------------------------------
(***************************************************************************)
(* The minissdpd protocol on a local stream socket: MiniSsdp::Server on    *)
(* the thread of the bridge, and MiniSsdp::Client in other processes.      *)
(*                                                                         *)
(* A byte is a number below 2 * Septet; its top bit is set from Septet on. *)
(* In the code Septet is 128.                                              *)
(***************************************************************************)
EXTENDS Integers, Sequences, SequencesExt

CONSTANTS
    Clients,      \* processes that may connect
    None,         \* no client
    Septet,       \* what seven bits can tell apart
    VersionText,  \* the characters of "1.5"
    Wanted,       \* the characters of a type or USN that is searched for
    Submits,      \* the services clients submit
    Caches,       \* what the bridge's cache may hold: sequences of services
    Lengths,      \* lengths of texts the codec is checked for
    RxSize,       \* bytes a receive may take
    Pipe,         \* bytes the kernel holds on their way to a client
    Pieces,       \* bytes a read of a client may take
    MaxRequests,  \* how many requests each client makes
    MaxReceives   \* bound on the receives the model counts

\* Server::RequestType.  What is submitted is not a request the server answers.
Version == 0
Type == 1
Usn == 2
All == 3
Submit == 4
Searches == {Type, Usn}

Byte == 0..(2 * Septet - 1)

\* Texts come in datagrams: five bytes hold their lengths.
CodeRange == Septet * Septet * Septet * Septet * Septet
Text == {t \in Seq(0..(Septet - 1)) : Len(t) < CodeRange}
Service == [location: Text, nt: Text, usn: Text]

ASSUME IpcAssumption ==
    /\ None \notin Clients
    /\ Septet \in Nat /\ Septet > Submit
    /\ VersionText \in Text /\ Len(VersionText) = 3 /\ Wanted \in Text
    /\ <<>> \in Caches /\ \A svcs \in Caches : svcs \in Seq(Service)
    /\ Lengths \subseteq Nat
    /\ Submits \subseteq [nt: Text, usn: Text, server: Text, location: Text]
    /\ RxSize \in Nat \ {0} /\ Pipe \in Nat \ {0} /\ Pieces \subseteq Nat \ {0}
    /\ MaxRequests \in [Clients -> Nat] /\ MaxReceives \in Nat \ {0}

-----------------------------------------------------------------------------
(* The text of requests and answers. *)

\* AddCodelength.
CodeLength(n) ==
    LET n1 == n \div Septet
        n2 == n1 \div Septet
        n3 == n2 \div Septet
        n4 == n3 \div Septet
        More(k) == IF k > 0 THEN <<Septet + (k % Septet)>> ELSE <<>>
    IN More(n4) \o More(n3) \o More(n2) \o More(n1) \o <<n % Septet>>

\* decodeMinisspdLen: the bytes up to the first one without a top bit.
LengthEnds(b, i) == {j \in i..Len(b) : /\ b[j] < Septet
                                       /\ \A k \in i..(j - 1) : b[k] >= Septet}
LengthAt(b, i, j) ==
    LET len[k \in i..j] == (IF k = i THEN 0 ELSE len[k - 1] * Septet) + (b[k] % Septet)
    IN len[j]

AddString(text) == CodeLength(Len(text)) \o text

\* What Client::Submit sends.  A field that the notify lacks is an empty text,
\* whose length is a byte that is another request.
SubmitBytes(s) == <<Submit>> \o AddString(s.nt) \o AddString(s.usn)
                      \o AddString(s.server) \o AddString(s.location)

ServiceText(s) == AddString(s.location) \o AddString(s.nt) \o AddString(s.usn)

\* What GetIf puts behind the count: the texts of the first k services.
ServiceTexts ==
    [svcs \in Caches |->
        LET texts[k \in 0..Len(svcs)] ==
                IF k = 0 THEN <<>> ELSE texts[k - 1] \o ServiceText(svcs[k])
        IN texts]

\* Mutant: the count starts with one.
CountedAll(svcs, room) == Len(svcs) + 1

\* nrServices refers to the first byte of m_txBuf as it was before the texts
\* were added.  The count no longer reaches the answer once m_txBuf has grown.
Counted(svcs, room) ==
    Cardinality({k \in DOMAIN svcs : Len(ServiceTexts[svcs][k]) < room})

\* A char that is the number n.
Char(n) == n % (2 * Septet)
Signed(b) == IF b < Septet THEN b ELSE b - 2 * Septet

Answer(svcs, room) == <<Char(Counted(svcs, room))>> \o ServiceTexts[svcs][Len(svcs)]

\* The capacity of a vector that is filled byte by byte up to n: it doubles.
Grown(room, n) ==
    LET from[c \in 0..(2 * n)] == IF c >= n THEN c ELSE from[IF c = 0 THEN 1 ELSE 2 * c]
    IN IF n <= room THEN room ELSE from[room]

-----------------------------------------------------------------------------
(* What Dispatch makes of the bytes b it has read of an answer to rq. *)

NrStrings(rq, b) == IF rq = Version THEN 1 ELSE 3 * Signed(b[1])

\* Where the text behind p bytes ends, as far as can be told.
TextEnd(b, p) ==
    LET ends == LengthEnds(b, p + 1)
    IN IF ends = {} THEN p ELSE Min(ends) + LengthAt(b, p + 1, Min(ends))

\* The ends of the texts, behind the bytes that come before the first one.
Ends(rq, b) ==
    LET end[k \in 0..NrStrings(rq, b)] ==
            IF k = 0 THEN IF rq = Version THEN 0 ELSE 1
            ELSE CHOOSE e \in {TextEnd(b, p) : p \in {end[k - 1]}} : TRUE
    IN [k \in 1..(NrStrings(rq, b) + 1) |-> end[k - 1]]

\* The texts whose first byte, of their length, has been read.
Begun(ends, b) == {k \in 1..(Len(ends) - 1) : ends[k] < Len(b)}

\* A length that goes on behind the bytes that are there is read past the end.
Overruns(rq, b) ==
    LET ends == Ends(rq, b)
    IN b # <<>> /\ \E k \in Begun(ends, b) : LengthEnds(b, ends[k] + 1) = {}

\* Mutant: no byte is asked for to learn the length of the next text.
AskTexts(rq, b) ==
    IF b = <<>> THEN 1
    ELSE IF NrStrings(rq, b) < 1 THEN 0
    ELSE LET ends == Ends(rq, b) IN Max({0, Last(ends) - Len(b)})

\* The bytes that are still to be read; none ends the read.
Ask(rq, b) ==
    IF b = <<>> THEN 1
    ELSE IF NrStrings(rq, b) < 1 THEN 0
    ELSE LET ends == Ends(rq, b)
             more == IF ends[Len(ends) - 1] < Len(b) THEN 0 ELSE 1
         IN Max({0, Last(ends) + more - Len(b)})

Strings(rq, b) ==
    LET ends == Ends(rq, b)
    IN [k \in 1..Cardinality(Begun(ends, b)) |->
          SubSeq(b, Min(LengthEnds(b, ends[k] + 1)) + 1, ends[k + 1])]

SplitResponses(strings) ==
    [i \in 1..(Len(strings) \div 3) |->
        [location |-> strings[3 * i - 2], nt |-> strings[3 * i - 1],
         usn |-> strings[3 * i]]]

-----------------------------------------------------------------------------
VARIABLES
    thread,    \* of the bridge: "free", "reading" a request's text, "sending" an
               \* answer, "ended", or "exhausted": ended for lack of memory
    tx,        \* the answer it is sending
    served,    \* the client m_socket is connected to
    backlog,   \* connections that wait to be accepted
    again,     \* an accept into the open m_socket has failed: its handler is due
    waiting,   \* receives that wait for bytes
    due,       \* receives that are done, and whose handler is due
    first,     \* the first byte of m_rxBuf
    room,      \* the capacity of m_txBuf
    torn,      \* a count was written to memory that is not m_txBuf's any more
    cache,     \* the services of the bridge's cache, in its order
    client,    \* what each client does
    request,   \* its last request
    rx,        \* what it has read of the answer
    toServer, toClient,  \* bytes on the way
    count,     \* history: requests of each client so far
    searched,  \* history: the clients that have searched for a type or USN
    inStep,    \* history: nothing earlier was on its way at the last request
    cut        \* history: clients to which an answer has been sent in part

serverVars == <<thread, tx, served, backlog, again, waiting, due, first, room, torn, cache>>
clientVars == <<client, request, rx, count, searched, inStep>>
sendVars == <<tx, cut, toClient>>
wires == <<toServer, toClient>>
vars == <<serverVars, clientVars, wires, cut>>

Gone(c) == client[c] \in {"closed", "crashed"}
Ended == thread \in {"ended", "exhausted"}

-----------------------------------------------------------------------------
(* The server, on the bridge's thread. *)

Init ==
    /\ thread = "free" /\ tx = <<>> /\ cut = {} /\ served = None /\ backlog = <<>> /\ again = FALSE
    /\ waiting = 0 /\ due = 0 /\ first = 0 /\ room = 0 /\ torn = FALSE
    /\ cache = <<>>
    /\ client = [c \in Clients |-> "new"]
    /\ request = [c \in Clients |-> Version]
    /\ rx = [c \in Clients |-> <<>>]
    /\ toServer = [c \in Clients |-> <<>>] /\ toClient = [c \in Clients |-> <<>>]
    /\ count = [c \in Clients |-> 0] /\ searched = {} /\ inStep = [c \in Clients |-> FALSE]

\* A handler of the bridge adds services between those of the server.
BridgeCaches ==
    /\ thread = "free"
    /\ \E svcs \in Caches : ToSet(cache) \subseteq ToSet(svcs) /\ Len(cache) < Len(svcs)
                          /\ cache' = svcs
    /\ UNCHANGED <<thread, tx, served, backlog, again, waiting, due, first, room, torn>>
    /\ UNCHANGED <<clientVars, wires, cut>>

\* The handler of ScheduleAccept for a connection: it schedules a receive, and
\* the next accept with the same m_socket, which fails as that is open.
Accept ==
    /\ thread = "free" /\ served = None /\ backlog # <<>>
    /\ served' = Head(backlog) /\ backlog' = Tail(backlog)
    /\ waiting' = 1 /\ again' = TRUE
    /\ UNCHANGED <<thread, tx, due, first, room, torn, cache>>
    /\ UNCHANGED <<clientVars, wires, cut>>

\* Mutant: an accept that fails schedules nothing.
AcceptFailsOnce ==
    /\ thread = "free" /\ again
    /\ UNCHANGED vars

\* The same handler for the accept that failed: it does not look at the error,
\* schedules one more receive and itself again, without an end.  The model
\* counts no more than MaxReceives of them.
AcceptFails ==
    /\ thread = "free" /\ again
    /\ waiting' = IF waiting + due < MaxReceives THEN waiting + 1 ELSE waiting
    /\ UNCHANGED <<thread, tx, served, backlog, again, due, first, room, torn, cache>>
    /\ UNCHANGED <<clientVars, wires, cut>>

\* What these receives take grows until there is no more memory: bad_alloc
\* leaves io_context::run().
OutOfMemory ==
    /\ thread = "free" /\ again
    /\ thread' = "exhausted"
    /\ UNCHANGED <<tx, served, backlog, again, waiting, due, first, room, torn, cache>>
    /\ UNCHANGED <<clientVars, wires, cut>>

\* Mutant: a receive that is done stays scheduled.
ReceiveKept(n) ==
    /\ thread = "free" /\ waiting > 0
    /\ n <= Len(toServer[served])
    /\ n = 0 => toServer[served] = <<>> /\ Gone(served)
    /\ first' = IF n = 0 THEN first ELSE toServer[served][1]
    /\ toServer' = [toServer EXCEPT ![served] = SubSeq(@, n + 1, Len(@))]
    /\ due' = due + 1
    /\ UNCHANGED <<thread, served, backlog, again, waiting, room, torn, cache>>
    /\ UNCHANGED <<clientVars, sendVars>>

\* A receive takes n bytes, or none at the end of the stream.  All receives
\* write to the front of m_rxBuf, and nothing is committed.
Receive(n) ==
    /\ thread = "free" /\ waiting > 0
    /\ n <= Len(toServer[served])
    /\ n = 0 => toServer[served] = <<>> /\ Gone(served)
    /\ first' = IF n = 0 THEN first ELSE toServer[served][1]
    /\ toServer' = [toServer EXCEPT ![served] = SubSeq(@, n + 1, Len(@))]
    /\ waiting' = waiting - 1 /\ due' = due + 1
    /\ UNCHANGED <<thread, served, backlog, again, room, torn, cache>>
    /\ UNCHANGED <<clientVars, sendVars>>

\* m_socket.send: to a client that has gone it throws, and the exception ends
\* io_context::run().  It waits until the kernel has room for a byte, sends what
\* there is room for, and the rest is never sent.
SendFails == Gone(served) /\ thread' = "ended" /\ UNCHANGED sendVars

SendSome(bytes) ==
    /\ ~Gone(served) /\ Len(toClient[served]) < Pipe
    /\ LET n == Min({Pipe - Len(toClient[served]), Len(bytes)})
       IN /\ toClient' = [toClient EXCEPT ![served] = @ \o SubSeq(bytes, 1, n)]
          /\ cut' = IF n < Len(bytes) THEN cut \cup {served} ELSE cut
    /\ thread' = "free" /\ tx' = <<>>

SendWaits(bytes) ==
    /\ ~Gone(served) /\ Len(toClient[served]) >= Pipe
    /\ thread' = "sending" /\ tx' = bytes
    /\ UNCHANGED <<cut, toClient>>

SendAnswer(bytes) ==
    /\ room' = Grown(room, Len(bytes))
    /\ SendFails \/ SendSome(bytes) \/ SendWaits(bytes)

\* The thread is in m_socket.send.
Send ==
    /\ thread = "sending"
    /\ SendFails \/ SendSome(tx)
    /\ UNCHANGED <<served, backlog, again, waiting, due, first, room, torn, cache, toServer>>
    /\ UNCHANGED clientVars

GetVersion == SendAnswer(AddString(VersionText)) /\ UNCHANGED torn

\* GetAll, and GetIf with a condition that holds for all.
GetAll ==
    /\ \E bytes \in {Answer(cache, room)} : SendAnswer(bytes)
    /\ torn' = (torn \/ Counted(cache, room) < Len(cache))

\* GetType and GetUSN begin with ReadString, which blocks the thread.
GetByText ==
    /\ thread' = "reading"
    /\ UNCHANGED <<room, torn, sendVars>>

\* Mutant: the texts of a request that is not answered are read, too.
HandleRequestTexts ==
    /\ thread = "free" /\ due > 0
    /\ due' = due - 1
    /\ \/ first = Version /\ GetVersion
       \/ first = All /\ GetAll
       \/ first \notin {Version, All} /\ GetByText
    /\ UNCHANGED <<served, backlog, again, waiting, first, cache, toServer>>
    /\ UNCHANGED clientVars

\* The handler of ScheduleRx: it acts on the first byte of m_rxBuf, whatever
\* the receive has ended with.
HandleRequest ==
    /\ thread = "free" /\ due > 0
    /\ due' = due - 1
    /\ \/ first = Version /\ GetVersion
       \/ first = All /\ GetAll
       \/ first \in Searches /\ GetByText
       \/ /\ first \notin {Version, All} \cup Searches
          /\ UNCHANGED <<thread, room, torn, sendVars>>
    /\ UNCHANGED <<served, backlog, again, waiting, first, cache, toServer>>
    /\ UNCHANGED clientVars

\* ReadString asks for one byte, and with that its completion condition reads
\* the length behind it, past the end of the buffer, which ends the process.  Its
\* completion condition does not look at the error: at the end of the stream it
\* asks for a byte again, for ever.
ReadString ==
    /\ thread = "reading"
    /\ toServer[served] # <<>>
    /\ thread' = "ended"
    /\ UNCHANGED <<tx, served, backlog, again, waiting, due, first, room, torn, cache>>
    /\ UNCHANGED <<clientVars, wires, cut>>

\* A heap that was written to may end the process whenever it is used next.
HeapAborts ==
    /\ thread = "free" /\ torn
    /\ thread' = "ended"
    /\ UNCHANGED <<tx, served, backlog, again, waiting, due, first, room, torn, cache>>
    /\ UNCHANGED <<clientVars, wires, cut>>

-----------------------------------------------------------------------------
(* Clients. *)

\* The constructor: the kernel connects it, accepted or not.
Connect(c) ==
    /\ client[c] = "new" /\ ~Ended
    /\ client' = [client EXCEPT ![c] = "idle"]
    /\ backlog' = Append(backlog, c)
    /\ UNCHANGED <<thread, tx, served, again, waiting, due, first, room, torn, cache>>
    /\ UNCHANGED <<request, rx, count, searched, inStep, wires, cut>>

InStep(c) == /\ toServer[c] = <<>> /\ toClient[c] = <<>>
             /\ due = 0 /\ thread # "sending"

\* GetVersion, SearchUsn, SearchType, RequestAll up to the read of Dispatch.
Request(c, rq) ==
    /\ client[c] = "idle" /\ ~Ended /\ count[c] < MaxRequests[c]
    /\ client' = [client EXCEPT ![c] = "waiting"]
    /\ request' = [request EXCEPT ![c] = rq]
    /\ rx' = [rx EXCEPT ![c] = <<>>]
    /\ toServer' = [toServer EXCEPT ![c] =
            @ \o <<rq>> \o IF rq \in Searches THEN AddString(Wanted) ELSE <<>>]
    /\ count' = [count EXCEPT ![c] = @ + 1]
    /\ searched' = IF rq \in Searches THEN searched \cup {c} ELSE searched
    /\ inStep' = [inStep EXCEPT ![c] = InStep(c)]
    /\ cut' = cut \ {c}
    /\ UNCHANGED <<serverVars, toClient>>

\* Submit does not wait for anything.  A client that submits a byte which is the
\* number of a search counts as one that has searched.
SubmitService(c, s) ==
    /\ client[c] = "idle" /\ ~Ended /\ count[c] < MaxRequests[c]
    /\ toServer' = [toServer EXCEPT ![c] = @ \o SubmitBytes(s)]
    /\ count' = [count EXCEPT ![c] = @ + 1]
    /\ searched' = IF \E i \in DOMAIN SubmitBytes(s) : SubmitBytes(s)[i] \in Searches
                   THEN searched \cup {c} ELSE searched
    /\ UNCHANGED <<serverVars, client, request, rx, inStep, toClient, cut>>

\* The read of Dispatch takes up to k of the bytes it asks for, and its completion
\* condition looks at them.  It does not look at the error: when the server has
\* gone it asks again for ever, and the client stays where it is.
Dispatch(c, k) ==
    /\ client[c] = "waiting"
    /\ \E n \in 1..Len(toClient[c]) :
          LET b == rx[c] \o SubSeq(toClient[c], 1, n)
          IN /\ n = Min({k, Len(toClient[c]), Ask(request[c], rx[c])})
             /\ rx' = [rx EXCEPT ![c] = b]
             /\ toClient' = [toClient EXCEPT ![c] = SubSeq(@, n + 1, Len(@))]
             /\ IF Overruns(request[c], b)
                THEN client' = [client EXCEPT ![c] = "crashed"]
                ELSE IF Ask(request[c], b) > 0 THEN UNCHANGED client
                ELSE client' = [client EXCEPT ![c] = "idle"]
    /\ UNCHANGED <<serverVars, request, count, searched, inStep, toServer, cut>>

Close(c) ==
    /\ client[c] \in {"idle", "waiting"}
    /\ client' = [client EXCEPT ![c] = "closed"]
    /\ UNCHANGED <<serverVars, request, rx, count, searched, inStep, wires, cut>>

-----------------------------------------------------------------------------
Asks(c) == \/ \E rq \in {Version, All} \cup Searches : Request(c, rq)
           \/ \E s \in Submits : SubmitService(c, s)

Serves == Accept \/ \E n \in 0..RxSize : Receive(n)

Next ==
    \/ BridgeCaches \/ AcceptFails \/ OutOfMemory \/ Serves
    \/ HandleRequest \/ Send \/ ReadString \/ HeapAborts
    \/ \E c \in Clients : Connect(c) \/ Asks(c) \/ Close(c)
    \/ \E c \in Clients, k \in Pieces : Dispatch(c, k)

Spec == Init /\ [][Next]_vars

\* The io_context runs what is due as long as its thread is free, and a send goes
\* on when there is room.
Fairness == /\ WF_vars(Serves) /\ WF_vars(AcceptFails)
            /\ WF_vars(HandleRequest) /\ WF_vars(Send)

FairSpec == Spec /\ Fairness

-----------------------------------------------------------------------------
(* Properties. *)

\* The variables hold what their comments say; of the two sides of a
\* connection the server knows one client, which is not in the backlog.
TypeOK ==
    /\ thread \in {"free", "reading", "sending", "ended", "exhausted"}
    /\ served \in Clients \cup {None}
    /\ backlog \in Seq(Clients) /\ \A i \in DOMAIN backlog : backlog[i] # served
    /\ again = (served # None)
    /\ waiting \in Nat /\ due \in Nat /\ waiting + due <= MaxReceives
    /\ first \in Byte /\ room \in Nat /\ torn \in BOOLEAN /\ cache \in Caches
    /\ client \in [Clients -> {"new", "idle", "waiting", "crashed", "closed"}]
    /\ request \in [Clients -> {Version, All} \cup Searches]
    /\ \A c \in Clients : \A bytes \in {toServer[c], toClient[c], rx[c]} :
          \A i \in DOMAIN bytes : bytes[i] \in Byte

\* A length of up to five bytes is read as it was written (AddCodelength and
\* decodeMinisspdLen).
LengthsSurvive ==
    \A n \in Lengths : n < CodeRange =>
        LET b == CodeLength(n) \o <<n % Septet>>
        IN \E j \in LengthEnds(b, 1) : j = Len(b) - 1 /\ LengthAt(b, 1, j) = n

\* The caches whose answer, with a true count, is read as it was written.
Readable ==
    {svcs \in Caches :
        LET answer == <<Len(svcs)>> \o ServiceTexts[svcs][Len(svcs)]
        IN \A n \in 1..Len(answer) :
            LET b == SubSeq(answer, 1, n)
            IN IF Overruns(All, b) THEN Last(b) >= Septet
               ELSE /\ Ask(All, b) <= Len(answer) - n
                    /\ Ask(All, b) = 0 <=> n = Len(answer)
                    /\ n = Len(answer) => SplitResponses(Strings(All, b)) = svcs}

\* However an answer about what is cached is cut, if its count is true its reader
\* asks for no byte too many, stops at its end and not before, and returns what
\* was written, whatever length a text has; only a length of several bytes that
\* is cut in two makes it read past the end.
ReadsExactly == LengthsSurvive /\ (Len(cache) < Septet => cache \in Readable)

\* The bridge's thread waits in a read, or its process has ended, only if the
\* served client sent a byte that is a search, or has closed its connection, or
\* the cache did not fit the first answer: other clients, requests for the
\* version or for all services leave it at work.  For lack of memory it ends only
\* when a client has been accepted.  (A send that finds no room waits, too: until
\* the client reads, or goes.)
BridgeAtWork ==
    /\ thread \in {"reading", "ended"} =>
          /\ served # None
          /\ Gone(served) \/ served \in searched \/ torn
    /\ thread \in {"sending", "exhausted"} => served # None

\* The answer is as long as its reader asks: a client that asked for the version
\* or for everything when nothing earlier was on its way does not wait for bytes
\* that will not come, unless m_socket.send has sent a part only.
AnswerSuffices ==
    \A c \in Clients :
        (/\ client[c] = "waiting" /\ inStep[c] /\ request[c] \in {Version, All}
         /\ rx[c] # <<>> /\ c \notin cut)
            => toClient[c] # <<>>

\* A request for the version or for all services that is alone on its way is
\* answered, by a receive that the endless accepts have left waiting, unless the
\* process has ended (BridgeAtWork says when; it need not end).
Answered ==
    \A c \in Clients :
        (/\ served = c /\ client[c] = "waiting" /\ inStep[c]
         /\ request[c] \in {Version, All})
            ~> (client[c] # "waiting" \/ toClient[c] # <<>> \/ Ended)
=============================================================================
