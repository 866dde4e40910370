---------------------------- MODULE SsdpBridge ------------------------------
(***************************************************************************)
(* The running bridge: Ssdp::Bridge with its two Connections (one per      *)
(* interface, each a multicast and a listen socket), the transmit buffer   *)
(* of every socket, the service cache, and the two networks around it.     *)
(*                                                                         *)
(* One thread runs the io_context, so a completion handler is one step.    *)
(* The network and the kernel's receive queue are one set of datagrams per *)
(* socket, from which any may be next: UDP reorders and loses.             *)
(*                                                                         *)
(* handled, log, and the fields id and want are history: log[i] is the     *)
(* i-th datagram a host sent, id names the host datagram that caused a     *)
(* transmission, want is the text that was given to send.                  *)
(***************************************************************************)
EXTENDS SsdpCache, Naturals, Sequences, FiniteSets

CONSTANTS
    Host,          \* addresses of the other machines on both networks
    ClientItf,     \* address of the bridge's client interface (m_Client)
    ServerItf,     \* address of the bridge's server interface (m_Server)
    Group,         \* the multicast address 239.255.255.250
    Lan,           \* the network ("client" or "server") an address is on
    Net24,         \* the first 24 bits of an address
    Traffic,       \* what hosts may send: records [src, dst, msg]
    MaxDatagrams,  \* bound on the datagrams sent by hosts
    SendsMayWait,  \* may a send wait for the socket instead of leaving at once
    Lossy          \* may datagrams be lost

Side == {"client", "server"}
Own == {ClientItf, ServerItf}
Addr == Host \cup Own
Socket == Side \X {"multicast", "listen"}

ASSUME AddressAssumption ==
    /\ ClientItf # ServerItf
    /\ Own \cap Host = {}
    /\ Group \notin Addr
    /\ Lan \in [Addr -> Side]
    /\ Lan[ClientItf] = "client" /\ Lan[ServerItf] = "server"

ASSUME TrafficAssumption ==
    /\ Traffic \subseteq [src: Host, dst: Own \cup {Group}, msg: Message]
    /\ MaxDatagrams \in Nat
    /\ SendsMayWait \in BOOLEAN /\ Lossy \in BOOLEAN

\* The two interfaces are on different /24 networks, and neither /24 spans
\* both networks.  The code does not check it; the deployment provides it.
ASSUME SubnetAssumption ==
    /\ Net24[ClientItf] # Net24[ServerItf]
    /\ \A h \in Host :
          /\ Net24[h] = Net24[ClientItf] => Lan[h] = "client"
          /\ Net24[h] = Net24[ServerItf] => Lan[h] = "server"

VARIABLES
    log,      \* the datagrams hosts have sent, in the order they were sent
    inbox,    \* per socket, the datagrams on their way to it
    cache,    \* Bridge::m_cache.services
    txBuf,    \* per socket, the text in m_txBuf: the last one given to send
    txOps,    \* the sends that wait for their socket
    emitted,  \* everything the bridge has put on a network
    handled,  \* the pairs <<id, socket>> for which m_cb was called
    running   \* FALSE once an exception has left io_context::run()

vars == <<log, inbox, cache, txBuf, txOps, emitted, handled, running>>

Id == 1..MaxDatagrams
Datagram == [id: Id, src: Addr, dst: Addr \cup {Group}, msg: Message]
Op == [sock: Socket, id: Id, dst: Addr \cup {Group}, want: Message]
Emission == [id: Id, src: Own, dst: Addr \cup {Group}, msg: Message,
             want: Message]

Itf(s) == IF s[1] = "client" THEN ClientItf ELSE ServerItf

\* A multicast socket is bound to the group address and gets the group's
\* datagrams of both networks; a listen socket is bound to its own address.
ReachesSocket(s, dst) ==
    IF s[2] = "multicast" THEN dst = Group ELSE dst = Itf(s)

\* sameSubnet(a, b, 24).
SameSubnet(a, b) == Net24[a] = Net24[b]

\* Mutants: the filter without the subnet test, without the own-address test.
AcceptsAnySubnet(s, sender) == sender # Itf(s)
AcceptsItself(s, sender) == SameSubnet(sender, Itf(s))

\* The filter of ScheduleRx: the sender is in the interface's /24 and is not
\* the interface itself.
Accepts(s, sender) == SameSubnet(sender, Itf(s)) /\ sender # Itf(s)

-----------------------------------------------------------------------------
\* Sending.

SendOp(s, d, dst, text) == [sock |-> s, id |-> d.id, dst |-> dst, want |-> text]

\* Connection::broadcast and Connection::send: through the multicast socket
\* to the group, and through the listen socket to one address.
Broadcast(side, d, text) == {SendOp(<<side, "multicast">>, d, Group, text)}
SendTo(side, d, dst, texts) ==
    {SendOp(<<side, "listen">>, d, dst, text) : text \in texts}

Emit(o, text) == [id |-> o.id, src |-> Itf(o.sock), dst |-> o.dst,
                  msg |-> text, want |-> o.want]

OnSocket(ops, s) == {o \in ops : o.sock = s}

\* Multicast is looped back to the sockets of the sending machine too.
Loopback(s, es) ==
    {[id |-> e.id, src |-> e.src, dst |-> e.dst, msg |-> e.msg] :
        e \in {x \in es : ReachesSocket(s, x.dst)}}

\* Mutant: a send that has to wait for its socket does not copy its text.
SendUncopied(new, now, last) ==
    /\ ~SendsMayWait => now = new
    /\ \A o \in now : OnSocket(txOps, o.sock) = {}
    /\ \A s \in Socket : Cardinality(OnSocket(now, s)) < 2
    /\ txBuf' = [s \in Socket |->
                    IF OnSocket(now, s) = {} THEN txBuf[s]
                    ELSE (CHOOSE o \in now : o.sock = s).want]
    /\ txOps' = txOps \cup (new \ now)
    /\ emitted' = emitted \cup {Emit(o, o.want) : o \in now}

\* Base::send for every op of new, in some order: each copies its text into
\* its socket's one m_txBuf; then the datagram leaves at once, or waits, and
\* what waits is sent from the buffer later.  A datagram leaves at once only
\* when no earlier send of the socket waits.  last is the last op per socket.
Send(new, now, last) ==
    /\ ~SendsMayWait => now = new
    /\ \A o \in now : OnSocket(txOps, o.sock) = {}
    /\ \A o \in new : \E l \in last : l.sock = o.sock
    /\ \A l \in last : /\ OnSocket(last, l.sock) = {l}
                       /\ l \in now => OnSocket(new, l.sock) \subseteq now
    /\ txBuf' = [s \in Socket |->
                    IF OnSocket(last, s) = {} THEN txBuf[s]
                    ELSE (CHOOSE l \in last : l.sock = s).want]
    /\ txOps' = txOps \cup (new \ now)
    /\ emitted' = emitted \cup {Emit(o, o.want) : o \in now}

\* The handler of datagram d on socket s: it leaves the queue, the cache is
\* replaced, the sends are made.
Handle(s, d, services, new) ==
    /\ handled' = handled \cup {<<d.id, s>>} /\ cache' = services
    /\ \E now \in SUBSET new, last \in SUBSET new :
          /\ Send(new, now, last)
          /\ inbox' = [t \in Socket |->
                (IF t = s THEN inbox[t] \ {d} ELSE inbox[t])
                    \cup Loopback(t, {Emit(o, o.want) : o \in now})]
    /\ UNCHANGED <<log, running>>

-----------------------------------------------------------------------------
\* Receiving.

\* Mutants: a notify is cached but not passed on; an answer heard on the client
\* network is cached; a search from the server side is sent back to it.
ServerNotifyKept(s, d) ==
    IsNotify(d.msg) /\ Handle(s, d, Remember(cache, d.msg), {})

ClientOtherCached(s, d) ==
    /\ IsResponse(d.msg)
    /\ Handle(s, d, Remember(cache, NotifyText(d.msg)),
              Broadcast("server", d, d.msg))

ServerOtherBack(s, d) ==
    IsSearch(d.msg) /\ Handle(s, d, cache, Broadcast("server", d, d.msg))

\* OnReceiveFromClient
ClientNotify(s, d) ==
    /\ IsNotify(d.msg)
    /\ Handle(s, d, Remember(cache, d.msg), Broadcast("server", d, d.msg))

ClientSearch(s, d) ==
    /\ IsSearch(d.msg)
    /\ Handle(s, d, cache,
              SendTo("client", d, d.src, Answers(cache, d.msg.nt))
                  \cup Broadcast("server", d, d.msg))

ClientOther(s, d) ==
    /\ IsResponse(d.msg)
    /\ Handle(s, d, cache, Broadcast("server", d, d.msg))

\* OnReceiveFromServer
ServerNotify(s, d) ==
    /\ IsNotify(d.msg)
    /\ Handle(s, d, Remember(cache, d.msg), Broadcast("client", d, d.msg))

ServerResponse(s, d) ==
    /\ IsResponse(d.msg)
    /\ LET n == NotifyText(d.msg)
       IN Handle(s, d, Remember(cache, n), Broadcast("client", d, n))

ServerOther(s, d) ==
    /\ IsSearch(d.msg)
    /\ Handle(s, d, cache, Broadcast("client", d, d.msg))

OnReceiveFromClient(s, d) ==
    /\ s[1] = "client"
    /\ ClientNotify(s, d) \/ ClientSearch(s, d) \/ ClientOther(s, d)

OnReceiveFromServer(s, d) ==
    /\ s[1] = "server"
    /\ ServerNotify(s, d) \/ ServerResponse(s, d) \/ ServerOther(s, d)

\* Parse throws inside the handler; nothing catches it, so io_context::run()
\* ends and the process with it.
ParseFails(s, d) ==
    /\ ParseThrows(d.msg)
    /\ running' = FALSE
    /\ inbox' = [inbox EXCEPT ![s] = @ \ {d}]
    /\ handled' = handled \cup {<<d.id, s>>}
    /\ UNCHANGED <<log, cache, txBuf, txOps, emitted>>

\* The completion handler of ScheduleRx for a datagram that is filtered out.
Filtered(s, d) ==
    /\ ~Accepts(s, d.src)
    /\ inbox' = [inbox EXCEPT ![s] = @ \ {d}]
    /\ UNCHANGED <<log, cache, txBuf, txOps, emitted, handled, running>>

\* The completion handler of ScheduleRx.
Receive(s) ==
    /\ running
    /\ \E d \in inbox[s] :
          \/ Filtered(s, d)
          \/ /\ Accepts(s, d.src)
             /\ \/ OnReceiveFromClient(s, d)
                \/ OnReceiveFromServer(s, d)
                \/ ParseFails(s, d)

\* A send that waited is carried out: it reads the buffer as it is now.
Transmit(o) ==
    /\ running
    /\ txOps' = txOps \ {o}
    /\ LET e == Emit(o, txBuf[o.sock])
       IN /\ emitted' = emitted \cup {e}
          /\ inbox' = [t \in Socket |-> inbox[t] \cup Loopback(t, {e})]
    /\ UNCHANGED <<log, cache, txBuf, handled, running>>

-----------------------------------------------------------------------------
\* The networks.

\* Another machine sends a datagram, to the group or to the bridge.
HostSends(t) ==
    /\ Len(log) < MaxDatagrams
    /\ t.dst # Group => Lan[t.dst] = Lan[t.src]
    /\ LET d == [id |-> Len(log) + 1, src |-> t.src, dst |-> t.dst,
                 msg |-> t.msg]
       IN /\ log' = Append(log, d)
          /\ inbox' = [s \in Socket |->
                IF ReachesSocket(s, t.dst) THEN inbox[s] \cup {d}
                ELSE inbox[s]]
    /\ UNCHANGED <<cache, txBuf, txOps, emitted, handled, running>>

\* A datagram does not reach a socket: lost, or the receive queue was full.
Lose(s) ==
    /\ Lossy
    /\ \E d \in inbox[s] : inbox' = [inbox EXCEPT ![s] = @ \ {d}]
    /\ UNCHANGED <<log, cache, txBuf, txOps, emitted, handled, running>>

-----------------------------------------------------------------------------
Init ==
    /\ log = <<>>
    /\ inbox = [s \in Socket |-> {}]
    /\ cache = {}
    /\ txBuf = [s \in Socket |-> Unhandled]  \* whatever the memory holds
    /\ txOps = {}
    /\ emitted = {}
    /\ handled = {}
    /\ running = TRUE

Next ==
    \/ \E s \in Socket : Receive(s) \/ Lose(s)
    \/ \E o \in txOps : Transmit(o)
    \/ \E t \in Traffic : HostSends(t)

Spec == Init /\ [][Next]_vars

\* The io_context runs handlers as long as one is ready and it runs; hosts need
\* not send anything, and nothing has to be lost.
Ready == (\E s \in Socket : Receive(s)) \/ (\E o \in txOps : Transmit(o))

Fairness == WF_vars(Ready)

FairSpec == Spec /\ Fairness

-----------------------------------------------------------------------------
\* Properties.

\* The variables hold what their comments say.
TypeOK ==
    /\ log \in Seq(Datagram)
    /\ inbox \in [Socket -> SUBSET Datagram]
    /\ cache \subseteq Entry
    /\ txBuf \in [Socket -> Message]
    /\ txOps \subseteq Op
    /\ emitted \subseteq Emission
    /\ handled \subseteq Id \X Socket
    /\ running \in BOOLEAN

\* Every datagram of a host is handled at most once, although each multicast
\* arrives at the multicast sockets of both connections, and although the
\* bridge hears everything it multicasts itself: no forwarding loop.  What is
\* still on its way to a socket for a handled datagram will be filtered out.
HandledOnce ==
    /\ \A p, q \in handled : p[1] = q[1] => p = q
    /\ \A p \in handled : \A s \in Socket : \A d \in inbox[s] :
          d.id = p[1] => ~Accepts(s, d.src)

\* What the bridge multicasts on a network was caused by a machine of the
\* other network, and what it sends to one machine answers that machine.
RelayCrosses ==
    \A e \in emitted :
        IF e.dst = Group THEN Lan[e.src] # Lan[log[e.id].src]
        ELSE e.dst = log[e.id].src /\ Lan[e.src] = Lan[e.dst]

\* An announcement as the cache is to keep it: any notify, and a response
\* heard on the server network.
Announces(d, m) == /\ IsNotify(m)
                   /\ \/ d.msg = m
                      \/ IsResponse(d.msg) /\ NotifyText(d.msg) = m
                            /\ Lan[d.src] = "server"

\* Every entry of the cache is under the urn of its service, and the service
\* was announced in a datagram that has been handled: by a notify, or by a
\* response heard on the server network.  What the client network answers is
\* passed on and not cached (OnReceiveFromClient).
CacheSound ==
    \A e \in cache :
        /\ e.key.urn = e.value.nt
        /\ \E p \in handled : Announces(log[p[1]], e.value)

\* The datagram that leaves is the text that was given to send: m_txBuf was
\* not written again before the send was carried out (ssdp.cc:280 asks for it).
SentIntact == \A e \in emitted : e.msg = e.want

\* Socket s is the one an emission left through.
Through(s, e) == e.src = Itf(s) /\ (e.dst = Group <=> s[2] = "multicast")

\* What overwriting m_txBuf never costs: of the texts given to one socket, the
\* last one leaves as it was given.  When no send of a socket waits, the text in
\* its buffer is one that left under its own name.
LatestLeaves ==
    \A s \in Socket :
        (OnSocket(txOps, s) = {} /\ \E e \in emitted : Through(s, e))
            => \E e \in emitted : /\ Through(s, e)
                                  /\ e.msg = txBuf[s] /\ e.want = txBuf[s]

\* As long as no send has found its text overwritten, every response the bridge
\* sends goes to a machine that searched for that urn, and names a service that
\* had been announced.  (To which port it goes is not modelled.)
AnswersMatch ==
    SentIntact => \A e \in emitted : e.dst # Group =>
        LET q == log[e.id]
        IN /\ IsSearch(q.msg) /\ q.msg.nt \in {e.msg.nt, SsdpAll}
           /\ \E p \in handled :
                 \E m \in Message : Announces(log[p[1]], m) /\ m.nt = e.msg.nt

\* Each machine's announcements that were handled are all in the cache
\* (ssdp.h:67-69 keys the cache by urn and location).
EveryServiceCached ==
    \A p \in handled : IsNotify(log[p[1]].msg) =>
        \E e \in cache : /\ e.value.nt = log[p[1]].msg.nt
                         /\ e.value.location = log[p[1]].msg.location

\* What a step keeps, stated about every datagram, send and handled pair: this
\* is the inductive invariant from which HandledOnce and RelayCrosses follow.
LogInv == \A i \in 1..Len(log) : log[i].id = i /\ log[i].src \in Host

InboxInv ==
    \A s \in Socket : \A d \in inbox[s] :
        /\ d.id \in 1..Len(log)
        /\ ReachesSocket(s, d.dst)
        /\ d.src \in Host => d = log[d.id]

HandledInv ==
    \A p \in handled :
        /\ p[1] \in 1..Len(log)
        /\ Accepts(p[2], log[p[1]].src)
        /\ ReachesSocket(p[2], log[p[1]].dst)
        /\ log[p[1]] \notin inbox[p[2]]

\* A transmission for datagram i: a multicast on the other network, or a text
\* for the sender on the sender's network.
CausedBy(i, side, dst) ==
    /\ i \in 1..Len(log)
    /\ IF dst = Group THEN Lan[log[i].src] # side
       ELSE dst = log[i].src /\ Lan[dst] = side

SendsInv ==
    /\ \A o \in txOps : CausedBy(o.id, o.sock[1], o.dst)
    /\ \A e \in emitted : CausedBy(e.id, Lan[e.src], e.dst)

IInv == LogInv /\ InboxInv /\ HandledInv /\ SendsInv

\* A step never forgets a urn: the cache only grows, and entries are only
\* replaced by an announcement of the same urn.
CacheOnlyGrows ==
    [][\A e \in cache : \E f \in cache' : f.key = e.key]_vars

\* The filter lets the datagrams of this sender through.
Near(d) == SameSubnet(d.src, IF Lan[d.src] = "client" THEN ClientItf
                             ELSE ServerItf)

\* The text m has left for the group because of datagram i.
RelayedOn(side, i, m) ==
    \E e \in emitted : /\ e.id = i /\ e.dst = Group /\ Lan[e.src] = side
                       /\ e.msg = m

\* Datagram i was lost on the way.
Lost(i) ==
    /\ i <= Len(log)
    /\ \A p \in handled : p[1] # i
    /\ \A s \in Socket : log[i] \notin inbox[s]

\* A datagram on which Parse throws was handled before datagram i could be.
EndedBefore(i) ==
    /\ ~running
    /\ \A p \in handled : p[1] # i
    /\ \E p \in handled : ParseThrows(log[p[1]].msg)

\* What machines near the server interface announce leaves for the client
\* network in their own words.  The two excuses are exact: the datagram was
\* lost on the way, or a datagram that Parse does not know ended the process
\* before it was handled.  Whatever else is going on, a moment comes when all
\* that was announced so far has got through.
AnnouncementsReachClients ==
    []<>(\A i \in 1..Len(log) :
            (Near(log[i]) /\ Lan[log[i].src] = "server" /\ IsNotify(log[i].msg))
                => \/ RelayedOn("client", i, log[i].msg)
                   \/ Lost(i) \/ EndedBefore(i))

\* A search from the client network, for a urn or for everything, is answered
\* for every urn that was in the cache before it was handled, and is passed to
\* the server network; several answers leave through one socket.
SearchesAnswered ==
    \A i \in Id : \A u \in Urn :
        (/\ i <= Len(log) /\ Near(log[i]) /\ Lan[log[i].src] = "client"
         /\ IsSearch(log[i].msg) /\ log[i].msg.nt \in {u, SsdpAll}
         /\ \A p \in handled : p[1] # i
         /\ \E e \in cache : e.key.urn = u)
            ~> \/ Lost(i) \/ EndedBefore(i)
               \/ /\ RelayedOn("server", i, log[i].msg)
                  /\ \E e \in emitted : /\ e.id = i /\ e.dst = log[i].src
                                        /\ e.msg = ResponseText(Notify(u, NoLocation))

-----------------------------------------------------------------------------
\* The bridge implements the relay: a datagram counts as passed when it has
\* been handled, and as sent when it has been given to send.
Undertaken ==
    {[id |-> e.id, to |-> IF e.dst = Group THEN Lan[e.src] ELSE e.dst,
      msg |-> e.want] : e \in emitted}
    \cup {[id |-> o.id, to |-> IF o.dst = Group THEN o.sock[1] ELSE o.dst,
           msg |-> o.want] : o \in txOps}

Relay == INSTANCE SsdpRelay WITH
            passed <- {p[1] : p \in handled},
            known <- {e.value : e \in cache},
            out <- Undertaken

\* Every behaviour of the bridge is one of the relay, whichever way sends
\* leave: each datagram is passed to the other network in one step and once.
ImplementsRelay == Relay!Spec
=============================================================================
