----------------------------- MODULE UpnpEvents -----------------------------
(***************************************************************************)
(* The event subscriptions of denonUi: a chain of short connections that   *)
(* subscribes to one service after the other and is begun again by a       *)
(* timer, and the callback connections of the device, all read with one    *)
(* parser.  Every handler runs to its end on the thread of the event loop. *)
(***************************************************************************)
EXTENDS HttpParser

CONSTANTS
    uris,        \* the services to subscribe to, in the order of the chain
    Period,      \* subscriptionTimeout_sec, in ticks of a clock
    Malformed    \* the lengths of bodies that EventParser throws on

Services == {uris[i] : i \in DOMAIN uris}

ASSUME EventsAssumption ==
    /\ uris \in Seq(Services) /\ uris # <<>>
    /\ \A i, j \in DOMAIN uris : uris[i] = uris[j] => i = j
    /\ Period \in Nat \ {0}

VARIABLES
    registered,  \* m_deviceAddress is set
    subIdx,      \* m_subscribeIdx
    subSocket,   \* the state of m_subSocket
    asked,       \* the index in uris of the SUBSCRIBE that is being written
    timer,       \* ticks since m_subTimer was last due
    timeout,     \* the handler of m_subTimer is due
    left,        \* of each service, for how long the device still sends events
    arrived,     \* of each peer, how much of its wire is in its socket's own buffer
    held,        \* history: an exception left the rest of the buffer unparsed
    met,         \* history: the notifications that have been in the buffer with a
                 \* piece of another connection, or with one of those
    failed       \* history: the chain lost a request since it was begun

subVars == <<registered, subIdx, subSocket, asked, timeout>>
clock == <<timer, left>>
cbVars == <<parserVars, arrived, held, met>>
vars == <<cbVars, subVars, clock, failed>>

\* No handler is running: what happens while one does is noticed after it.
Idle == reading = Nobody

Init ==
    /\ ParserInit
    /\ registered = FALSE /\ subIdx = 0 /\ subSocket = "unconnected" /\ asked = 0
    /\ timer = 0 /\ timeout = FALSE /\ left = [u \in Services |-> 0]
    /\ arrived = [p \in Peers |-> 0] /\ held = FALSE /\ met = {} /\ failed = FALSE

-----------------------------------------------------------------------------
(* The chain of subscriptions. *)

\* Mutant: the chain goes on from where it is.
BeginKept ==
    /\ UNCHANGED subIdx /\ failed' = FALSE
    /\ subSocket' = IF subSocket = "unconnected" /\ subIdx < Len(uris)
                    THEN "connecting" ELSE subSocket

\* onResubsribe with a device: the chain begins anew.  connectToHost is refused
\* while the socket connects or closes, and disconnected() then goes on.
Begin ==
    /\ subIdx' = 0 /\ failed' = FALSE
    /\ subSocket' = IF subSocket = "unconnected" THEN "connecting" ELSE subSocket

Register ==
    /\ Idle /\ ~registered /\ registered' = TRUE /\ Begin
    /\ UNCHANGED <<asked, timeout, clock, cbVars>>

onResubsribe ==
    /\ Idle /\ timeout /\ timeout' = FALSE
    /\ IF registered THEN Begin ELSE UNCHANGED <<subIdx, failed, subSocket>>
    /\ UNCHANGED <<registered, asked, clock, cbVars>>

\* The handler of connected(): a SUBSCRIBE is written and the socket closed,
\* which ends the connection when it has been written.
onSubsrcibeConnected ==
    /\ Idle /\ subSocket = "connecting" /\ subIdx < Len(uris)
    /\ subIdx' = subIdx + 1 /\ asked' = subIdx' /\ subSocket' = "closing"
    /\ UNCHANGED <<registered, timeout, clock, cbVars, failed>>

\* No signal of a failed attempt is connected to anything.
ConnectFails ==
    /\ Idle /\ subSocket = "connecting"
    /\ subSocket' = "unconnected" /\ failed' = TRUE
    /\ UNCHANGED <<registered, subIdx, asked, timeout, clock, cbVars>>

\* Mutant: the index is not looked at.
onSubsrcibeDisconnectedAlways == subSocket' = "connecting"

\* Mutant: the last service of uris is left out.
onSubsrcibeDisconnectedEarly ==
    subSocket' = IF subIdx < Len(uris) - 1 THEN "connecting" ELSE "unconnected"

\* The handler of disconnected().
onSubsrcibeDisconnected ==
    subSocket' = IF subIdx < Len(uris) THEN "connecting" ELSE "unconnected"

\* What a SUBSCRIBE asks for: the events of the service u for another Period.
Subscribe(u) == [left EXCEPT ![u] = Period]

\* The request has been written, and the device renews the subscription.
Closed ==
    /\ Idle /\ subSocket = "closing" /\ onSubsrcibeDisconnected
    /\ left' = Subscribe(uris[asked]) /\ asked' = 0
    /\ UNCHANGED <<registered, subIdx, timeout, timer, cbVars, failed>>

\* The connection breaks before that.
Breaks ==
    /\ Idle /\ subSocket = "closing"
    /\ onSubsrcibeDisconnected /\ failed' = TRUE /\ asked' = 0
    /\ UNCHANGED <<registered, subIdx, timeout, clock, cbVars>>

\* The clocks of the program and the device advance.  m_subTimer is due once in
\* Period, its handler runs when the event loop gets to it.
Tick ==
    /\ Idle
    /\ timer' = (timer + 1) % Period /\ timeout' = (timeout \/ timer' = 0)
    /\ left' = [u \in Services |-> IF left[u] = 0 THEN 0 ELSE left[u] - 1]
    /\ UNCHANGED <<registered, subIdx, subSocket, asked, cbVars, failed>>

-----------------------------------------------------------------------------
(* The callbacks. *)

\* The device notifies, on a new connection, which onCbConnection accepts, or
\* on one it has kept.
DeviceNotifies(p, head, n) ==
    /\ Idle /\ \E u \in Services : left[u] > 0
    /\ PeerSends(p, head, n)
    /\ UNCHANGED <<subVars, clock, arrived, held, met, failed>>

\* The notifications that pieces of others have met when the buffer is b.
Meeting(b) ==
    LET there == {b[i].of : i \in DOMAIN b}
    IN IF there \cap met # {} \/ \E i, j \in there : sent[i].from # sent[j].from
       THEN met \cup there ELSE met

\* k cells arrive, and the socket signals readyRead.  onCbRead begins: it reads
\* once, as far as there is room.  The rest stays in the socket's buffer, and the
\* socket does not signal it again before more arrives.
Read(p, k) ==
    /\ arrived[p] + k <= Len(wire[p])
    /\ \E n \in 0..(arrived[p] + k) :
          /\ n = Min({arrived[p] + k, BufferSize - Len(buf)})
          /\ Fill(p, n)
          /\ arrived' = [arrived EXCEPT ![p] = @ + k - n]
    /\ held' = FALSE /\ met' = Meeting(buf')
    /\ UNCHANGED <<subVars, clock, failed>>

Throws(event) == Len(event.body) \in Malformed

\* Its loop takes a packet: EventParser shows the event, and the peer is
\* answered; or EventParser throws, and the loop is left.
HandleEvent ==
    /\ MarkRead
    /\ \/ ~Throws(Last(out')) /\ UNCHANGED <<reading, held>>
       \/ Throws(Last(out')) /\ reading' = Nobody /\ held' = (buf' # <<>>)
    /\ UNCHANGED <<wire, subVars, clock, arrived, met, failed>>

\* Its loop ends.
EndRead ==
    /\ MarkReadNone
    /\ UNCHANGED <<subVars, clock, arrived, held, met, failed>>

-----------------------------------------------------------------------------
Subscribing == onResubsribe \/ onSubsrcibeConnected \/ ConnectFails \/ Closed \/ Breaks

onCbRead ==
    \/ \E p \in Peers : \E k \in 1..Len(wire[p]) : Read(p, k)
    \/ HandleEvent \/ EndRead

Next ==
    \/ Register \/ Subscribing \/ Tick \/ onCbRead
    \/ \E p \in Peers, head \in Headers, n \in Bodies : DeviceNotifies(p, head, n)

Spec == Init /\ [][Next]_vars

\* Time goes on, what was sent arrives, and the event loop runs the handlers of
\* what is due: the timer, the ends of attempts and connections, readyRead.
FairSpec ==
    /\ Spec
    /\ WF_vars(Tick) /\ WF_vars(onResubsribe)
    /\ WF_vars(onSubsrcibeConnected \/ ConnectFails \/ Closed \/ Breaks)
    /\ WF_vars(onCbRead)

-----------------------------------------------------------------------------
(* Properties. *)

\* The variables hold what their comments say; while the socket connects there
\* is a service to ask for, so onSubsrcibeConnected never returns early and
\* leaves the socket open.
TypeOK ==
    /\ registered \in BOOLEAN /\ timeout \in BOOLEAN /\ failed \in BOOLEAN /\ held \in BOOLEAN
    /\ subIdx \in 0..Len(uris) /\ asked \in 0..Len(uris)
    /\ subSocket \in {"unconnected", "connecting", "closing"}
    /\ subSocket = "connecting" => subIdx < Len(uris) /\ registered
    /\ subSocket = "closing" => asked > 0 /\ registered
    /\ subSocket # "closing" => asked = 0
    /\ timer \in 0..(Period - 1) /\ left \in [Services -> 0..Period]
    /\ arrived \in [Peers -> Nat]

\* The chain will still ask for the i-th service, or is asking for it.
Coming(i) == (subSocket # "unconnected" /\ i > subIdx) \/ i = asked

\* The timer has the period of the subscriptions, so these lapse when it is
\* late: but a service is without subscription only while the timer's handler
\* is due or the chain has yet to reach it, or if the chain lost a request.
LapsesOnlyWhileRenewing ==
    registered /\ ~timeout /\ ~failed =>
        \A i \in DOMAIN uris : left[uris[i]] = 0 => Coming(i)

\* The timer finds the chain of the last time still under way.
Restarted == subSocket # "unconnected" /\ onResubsribe

\* Every service is subscribed to again and again, also when the timer began the
\* chain anew while it was under way, and when requests were lost: unless one of
\* these happens again and again for ever.  (Then the services at the end of uris
\* may starve.)
EverySubscribed ==
    \/ []<><<Restarted>>_vars
    \/ []<><<ConnectFails \/ Breaks>>_vars
    \/ \A u \in Services : []<>(registered => left[u] > 0)

\* A packet is taken as soon as all of it has been read: nothing complete stays
\* in the buffer, except behind an event that EventParser throws on.
NothingHeldBack ==
    Idle /\ buf # <<>> /\ ~disturbed /\ ~held =>
        LET i == buf[1].of IN Len(buf) < Len(Cells(i, sent[i]))

Taken(i) == \E k \in DOMAIN out : out[k].start = i

\* A piece of it waits in a buffer until more arrives: the socket's, for there was
\* no room for it, or the parser's, behind an event that was thrown on.
LeftBehind(i) ==
    \/ \E p \in Peers : \E k \in 1..arrived[p] : wire[p][k].of = i
    \/ held /\ \E k \in DOMAIN buf : buf[k].of = i

\* Every notification is taken in the end and for good, but one that met a piece of
\* another connection in the one buffer, directly or through others that did, and
\* one that no readyRead has come for since there was room for it or since the
\* exception before it.
AllReturned ==
    <>[](\A i \in DOMAIN sent : Taken(i) \/ i \in met \/ LeftBehind(i))
=============================================================================
