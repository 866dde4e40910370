-------------------------- MODULE SsdpBridgeProofs --------------------------
(***************************************************************************)
(* Theorems about SsdpBridge, for every choice of its constants.           *)
(***************************************************************************)
EXTENDS SsdpBridge, TLAPS

\* A socket accepts only machines of its own network, and never the bridge.
LEMMA AcceptsOwnSide ==
    ASSUME NEW s \in Socket, NEW a \in Addr, Accepts(s, a)
    PROVE  Lan[a] = s[1] /\ a \in Host
BY AddressAssumption, SubnetAssumption
   DEF Accepts, SameSubnet, Itf, Socket, Side, Addr, Own

\* At most one socket both receives a datagram and accepts its sender.
LEMMA OneSocketAccepts ==
    ASSUME NEW s \in Socket, NEW t \in Socket, NEW a \in Addr,
           NEW dst \in Addr \cup {Group},
           Accepts(s, a), Accepts(t, a),
           ReachesSocket(s, dst), ReachesSocket(t, dst)
    PROVE  s = t
<1>1. s[1] = t[1]
  BY AcceptsOwnSide
<1>2. s[2] = t[2]
  BY AddressAssumption DEF ReachesSocket, Itf, Socket, Side, Addr, Own
<1>3. s = <<s[1], s[2]>> /\ t = <<t[1], t[2]>>
  BY DEF Socket
<1> QED
  BY <1>1, <1>2, <1>3

\* The texts the program derives from a message are messages.
LEMMA TextsAreMessages ==
    ASSUME NEW m \in Message
    PROVE  NotifyText(m) \in Message /\ ResponseText(m) \in Message
BY DEF NotifyText, ResponseText, Notify, Response, Message

LEMMA RememberType ==
    ASSUME NEW services \in SUBSET Entry, NEW m \in Message
    PROVE  Remember(services, m) \in SUBSET Entry
BY DEF Remember, Entry, KeyOf, Key, Message

LEMMA AnswersType ==
    ASSUME NEW services \in SUBSET Entry, NEW type
    PROVE  Answers(services, type) \in SUBSET Message
BY TextsAreMessages DEF Answers, Entry

-----------------------------------------------------------------------------
\* What Base::send, and a handler built on it, can do to the state.

\* The ops a handler of datagram d on socket s may give to send: multicasts on
\* the other network, through its multicast socket, and texts for the sender on
\* the client network, through the listen socket.
Directed(new, s, d) ==
    \A o \in new :
        /\ o \in Op /\ o.id = d.id
        /\ IF o.dst = Group THEN o.sock[1] # s[1] /\ o.sock[2] = "multicast"
           ELSE o.dst = d.src /\ o.sock[1] = s[1] /\ o.sock[2] = "listen"

\* What is sent to one machine answers a search from the cache.
Answering(new, d) ==
    \A o \in new : o.dst # Group =>
        IsSearch(d.msg) /\ o.want \in Answers(cache, d.msg.nt)

LEMMA SendEffect ==
    ASSUME TypeOK, NEW new \in SUBSET Op, NEW now \in SUBSET new,
           NEW last \in SUBSET new, Send(new, now, last)
    PROVE  /\ txBuf' \in [Socket -> Message]
           /\ txOps' \subseteq txOps \cup new
           /\ \A e \in emitted' : e \in emitted \/
                 \E o \in new : e = Emit(o, o.want)
<1>1. \A s \in Socket : OnSocket(last, s) # {} =>
          (CHOOSE l \in last : l.sock = s).want \in Message
  <2> SUFFICES ASSUME NEW s \in Socket, OnSocket(last, s) # {}
               PROVE  (CHOOSE l \in last : l.sock = s).want \in Message
    OBVIOUS
  <2>1. \E l \in last : l.sock = s
    BY DEF OnSocket
  <2>2. (CHOOSE l \in last : l.sock = s) \in last
    BY <2>1
  <2>3. \A l \in last : l.want \in Message
    BY DEF Op
  <2> QED
    BY <2>2, <2>3
<1>2. txBuf' \in [Socket -> Message]
  BY <1>1 DEF Send, TypeOK
<1> QED
  BY <1>2 DEF Send

\* A looped back datagram comes from the bridge itself.
LEMMA LoopbackEffect ==
    ASSUME NEW ops \in SUBSET Op, NEW s \in Socket,
           NEW x \in Loopback(s, {Emit(o, o.want) : o \in ops})
    PROVE  \E o \in ops : /\ x.id = o.id /\ x.src = Itf(o.sock)
                          /\ x.dst = o.dst /\ x.msg = o.want
                          /\ ReachesSocket(s, x.dst)
                          /\ x \in Datagram
BY DEF Loopback, Emit, Op, Datagram, Itf, Addr, Own

LEMMA HandleEffect ==
    ASSUME TypeOK, NEW s \in Socket, NEW d \in inbox[s],
           NEW services \in SUBSET Entry, NEW new,
           Directed(new, s, d), Handle(s, d, services, new)
    PROVE  /\ cache' = services
           /\ handled' = handled \cup {<<d.id, s>>}
           /\ log' = log /\ running' = running
           /\ txBuf' \in [Socket -> Message]
           /\ txOps' \subseteq txOps \cup new
           /\ \A e \in emitted' : e \in emitted \/
                 \E o \in new : e = Emit(o, o.want)
           /\ DOMAIN inbox' = Socket
           /\ inbox' \in [Socket -> SUBSET Datagram]
           /\ \A t \in Socket : \A x \in inbox'[t] :
                 \/ x \in inbox[t] /\ (t = s => x # d)
                 \/ /\ x.id = d.id /\ x.src \in Own
                    /\ ReachesSocket(t, x.dst)
<1> new \in SUBSET Op
  BY DEF Directed
<1> PICK now \in SUBSET new, last \in SUBSET new :
      /\ Send(new, now, last)
      /\ inbox' = [t \in Socket |->
            (IF t = s THEN inbox[t] \ {d} ELSE inbox[t])
                \cup Loopback(t, {Emit(o, o.want) : o \in now})]
  BY DEF Handle
<1>1. \A t \in Socket : \A x \in Loopback(t, {Emit(o, o.want) : o \in now}) :
          /\ x \in Datagram /\ x.id = d.id /\ x.src \in Own
          /\ ReachesSocket(t, x.dst)
  BY LoopbackEffect DEF Directed, Itf, Own
<1>2. inbox' \in [Socket -> SUBSET Datagram]
  BY <1>1 DEF TypeOK
<1>3. \A t \in Socket : \A x \in inbox'[t] :
          \/ x \in inbox[t] /\ (t = s => x # d)
          \/ /\ x.id = d.id /\ x.src \in Own
             /\ ReachesSocket(t, x.dst)
  BY <1>1
<1> QED
  BY <1>2, <1>3, SendEffect DEF Handle

\* Every way to handle a datagram is: forget it (filtered), end (not parsable),
\* or Handle with sends in the right direction and a cache that is unchanged
\* or has learnt what the datagram announces.
LEMMA ReceiveShape ==
    ASSUME TypeOK, NEW s \in Socket, Receive(s)
    PROVE  \E d \in inbox[s] :
              \/ Filtered(s, d)
              \/ Accepts(s, d.src) /\ ParseFails(s, d)
              \/ /\ Accepts(s, d.src)
                 /\ \E services \in SUBSET Entry, new \in SUBSET Op :
                       /\ Directed(new, s, d) /\ Answering(new, d)
                       /\ Handle(s, d, services, new)
                       /\ \/ services = cache
                          \/ \E m \in Message : /\ Announces(d, m)
                                                /\ services = Remember(cache, m)
<1>1. PICK d \in inbox[s] :
        \/ Filtered(s, d)
        \/ /\ Accepts(s, d.src)
           /\ \/ OnReceiveFromClient(s, d)
              \/ OnReceiveFromServer(s, d)
              \/ ParseFails(s, d)
  BY DEF Receive
<1>2. d \in Datagram
  BY DEF TypeOK
<1>3. d.msg \in Message /\ d.src \in Addr /\ d.id \in Id
  BY <1>2 DEF Datagram
<1>4. s = <<s[1], s[2]>> /\ s[1] \in Side /\ d.src # Group
  BY <1>3, AddressAssumption DEF Socket
<1>5. CASE Filtered(s, d)
  BY <1>5
<1>6. CASE Accepts(s, d.src) /\ ParseFails(s, d)
  BY <1>6
<1>7. ASSUME Accepts(s, d.src), OnReceiveFromClient(s, d)
      PROVE  \E services \in SUBSET Entry, new \in SUBSET Op :
                /\ Directed(new, s, d) /\ Answering(new, d)
                /\ Handle(s, d, services, new)
                /\ \/ services = cache
                   \/ \E m \in Message : /\ Announces(d, m)
                                         /\ services = Remember(cache, m)
  <2> DEFINE across == Broadcast("server", d, d.msg)
             answers == SendTo("client", d, d.src, Answers(cache, d.msg.nt))
  <2>1. s[1] = "client"
    BY <1>7 DEF OnReceiveFromClient
  <2>2. across \in SUBSET Op /\ Directed(across, s, d) /\ Answering(across, d)
    BY <1>3, <1>4, <2>1
       DEF Broadcast, SendOp, Op, Directed, Answering, Socket, Side
  <2>3. answers \in SUBSET Op /\ Directed(answers, s, d)
    <3>1. Answers(cache, d.msg.nt) \in SUBSET Message
      BY AnswersType DEF TypeOK
    <3> QED
      BY <1>3, <1>4, <2>1, <3>1
      DEF SendTo, SendOp, Op, Directed, Socket, Side
  <2>4. answers \cup across \in SUBSET Op /\ Directed(answers \cup across, s, d)
    BY <2>2, <2>3 DEF Directed
  <2>5. cache \in SUBSET Entry /\ Remember(cache, d.msg) \in SUBSET Entry
    BY <1>3, RememberType DEF TypeOK
  <2>6. CASE ClientNotify(s, d)
    <3>1. Announces(d, d.msg)
      BY <2>6 DEF ClientNotify, Announces
    <3> QED
      BY <1>3, <2>2, <2>5, <2>6, <3>1 DEF ClientNotify
  <2>7. CASE ClientSearch(s, d)
    <3>1. Answering(answers \cup across, d)
      BY <2>2, <2>7 DEF ClientSearch, Answering, SendTo, SendOp
    <3> QED
      BY <2>4, <2>5, <2>7, <3>1 DEF ClientSearch
  <2>8. CASE ClientOther(s, d)
    BY <2>2, <2>5, <2>8 DEF ClientOther
  <2> QED
    BY <1>7, <2>6, <2>7, <2>8 DEF OnReceiveFromClient
<1>8. ASSUME Accepts(s, d.src), OnReceiveFromServer(s, d)
      PROVE  \E services \in SUBSET Entry, new \in SUBSET Op :
                /\ Directed(new, s, d) /\ Answering(new, d)
                /\ Handle(s, d, services, new)
                /\ \/ services = cache
                   \/ \E m \in Message : /\ Announces(d, m)
                                         /\ services = Remember(cache, m)
  <2>1. s[1] = "server"
    BY <1>8 DEF OnReceiveFromServer
  <2>2. \A m \in Message : /\ Broadcast("client", d, m) \in SUBSET Op
                           /\ Directed(Broadcast("client", d, m), s, d)
                           /\ Answering(Broadcast("client", d, m), d)
    BY <1>3, <1>4, <2>1
       DEF Broadcast, SendOp, Op, Directed, Answering, Socket, Side
  <2>3. /\ cache \in SUBSET Entry
        /\ \A m \in Message : Remember(cache, m) \in SUBSET Entry
    BY RememberType DEF TypeOK
  <2>4. CASE ServerNotify(s, d)
    <3>1. Announces(d, d.msg)
      BY <2>4 DEF ServerNotify, Announces
    <3> QED
      BY <1>3, <2>2, <2>3, <2>4, <3>1 DEF ServerNotify
  <2>5. CASE ServerResponse(s, d)
    <3>1. NotifyText(d.msg) \in Message
      BY <1>3, TextsAreMessages
    <3>2. Lan[d.src] = "server"
      BY <1>3, <1>8, <2>1, AcceptsOwnSide
    <3>3. Announces(d, NotifyText(d.msg))
      BY <2>5, <3>2
      DEF ServerResponse, Announces, NotifyText, Notify, IsNotify
    <3>4. Handle(s, d, Remember(cache, NotifyText(d.msg)),
                 Broadcast("client", d, NotifyText(d.msg)))
      BY <2>5 DEF ServerResponse
    <3> QED
      BY <2>2, <2>3, <3>1, <3>3, <3>4
  <2>6. CASE ServerOther(s, d)
    BY <1>3, <2>2, <2>3, <2>6 DEF ServerOther
  <2> QED
    BY <1>8, <2>4, <2>5, <2>6 DEF OnReceiveFromServer
<1> QED
  BY <1>1, <1>5, <1>6, <1>7, <1>8

-----------------------------------------------------------------------------
\* The bridge's variables hold what their declarations say, in every state.

LEMMA TypeInit == Init => TypeOK
<1> SUFFICES ASSUME Init PROVE TypeOK
  OBVIOUS
<1>1. Unhandled \in Message
  BY DEF Unhandled, Message
<1> QED
  BY <1>1 DEF Init, TypeOK

LEMMA TypeReceive ==
    ASSUME TypeOK, NEW s \in Socket, Receive(s)
    PROVE  TypeOK'
<1>1. PICK d \in inbox[s] :
        \/ Filtered(s, d)
        \/ Accepts(s, d.src) /\ ParseFails(s, d)
        \/ /\ Accepts(s, d.src)
           /\ \E services \in SUBSET Entry, new \in SUBSET Op :
                 /\ Directed(new, s, d)
                 /\ Handle(s, d, services, new)
  BY ReceiveShape
<1>2. d \in Datagram /\ <<d.id, s>> \in Id \X Socket
  BY DEF TypeOK, Datagram
<1>3. CASE Filtered(s, d)
  BY <1>3 DEF Filtered, TypeOK
<1>4. CASE ParseFails(s, d)
  BY <1>2, <1>4 DEF ParseFails, TypeOK
<1>5. ASSUME NEW services \in SUBSET Entry, NEW new \in SUBSET Op,
             Directed(new, s, d), Handle(s, d, services, new)
      PROVE  TypeOK'
  <2>1. /\ cache' = services
        /\ handled' = handled \cup {<<d.id, s>>}
        /\ log' = log /\ running' = running
        /\ txBuf' \in [Socket -> Message]
        /\ txOps' \subseteq txOps \cup new
        /\ \A e \in emitted' : e \in emitted \/
              \E o \in new : e = Emit(o, o.want)
        /\ inbox' \in [Socket -> SUBSET Datagram]
    BY <1>5, HandleEffect
  <2>2. \A o \in new : Emit(o, o.want) \in Emission
    BY DEF Emit, Emission, Op, Itf, Own
  <2>3. emitted' \subseteq Emission
    BY <2>1, <2>2 DEF TypeOK
  <2>4. txOps' \subseteq Op /\ cache' \subseteq Entry
    BY <2>1 DEF TypeOK
  <2> QED
    BY <1>2, <2>1, <2>3, <2>4 DEF TypeOK
<1> QED
  BY <1>1, <1>3, <1>4, <1>5

LEMMA TypeTransmit ==
    ASSUME TypeOK, NEW o \in txOps, Transmit(o)
    PROVE  TypeOK'
<1> DEFINE e == Emit(o, txBuf[o.sock])
<1>1. o \in Op /\ txBuf[o.sock] \in Message
  BY DEF TypeOK, Op
<1>2. e \in Emission
  BY <1>1 DEF Emit, Emission, Op, Itf, Own
<1>3. \A t \in Socket : Loopback(t, {e}) \in SUBSET Datagram
  BY <1>2 DEF Loopback, Emission, Datagram, Addr, Own
<1>4. inbox' \in [Socket -> SUBSET Datagram]
  BY <1>3 DEF Transmit, TypeOK
<1> QED
  BY <1>2, <1>4 DEF Transmit, TypeOK

LEMMA TypeHostSends ==
    ASSUME TypeOK, NEW t \in Traffic, HostSends(t)
    PROVE  TypeOK'
<1> DEFINE d == [id |-> Len(log) + 1, src |-> t.src, dst |-> t.dst,
                 msg |-> t.msg]
<1>1. Len(log) \in Nat /\ Len(log) + 1 \in Id
  BY TrafficAssumption DEF HostSends, TypeOK, Id
<1>2. d \in Datagram
  BY <1>1, TrafficAssumption DEF Datagram, Addr
<1>3. log' \in Seq(Datagram)
  BY <1>2 DEF HostSends, TypeOK
<1>4. inbox' \in [Socket -> SUBSET Datagram]
  BY <1>2 DEF HostSends, TypeOK
<1> QED
  BY <1>3, <1>4 DEF HostSends, TypeOK

LEMMA TypeStep == TypeOK /\ [Next]_vars => TypeOK'
<1> SUFFICES ASSUME TypeOK, [Next]_vars PROVE TypeOK'
  OBVIOUS
<1>1. ASSUME NEW s \in Socket, Receive(s) PROVE TypeOK'
  BY <1>1, TypeReceive
<1>2. ASSUME NEW s \in Socket, Lose(s) PROVE TypeOK'
  BY <1>2 DEF Lose, TypeOK
<1>3. ASSUME NEW o \in txOps, Transmit(o) PROVE TypeOK'
  BY <1>3, TypeTransmit
<1>4. ASSUME NEW t \in Traffic, HostSends(t) PROVE TypeOK'
  BY <1>4, TypeHostSends
<1>5. CASE UNCHANGED vars
  BY <1>5 DEF vars, TypeOK
<1> QED
  BY <1>1, <1>2, <1>3, <1>4, <1>5 DEF Next

THEOREM TypeCorrect == Spec => []TypeOK
<1> QED
  BY TypeInit, TypeStep, PTL DEF Spec

-----------------------------------------------------------------------------
\* The inductive invariant behind loop freedom and the direction of the relay.

LEMMA InvInit == Init => IInv
<1> SUFFICES ASSUME Init PROVE IInv
  OBVIOUS
<1> QED
  BY DEF Init, IInv, LogInv, InboxInv, HandledInv, SendsInv

\* A datagram of the bridge itself that comes back is accepted by no socket, so
\* an accepted datagram is the host's original.
LEMMA AcceptedIsLogged ==
    ASSUME TypeOK, IInv, NEW s \in Socket, NEW d \in inbox[s],
           Accepts(s, d.src)
    PROVE  /\ d.id \in 1..Len(log) /\ d = log[d.id]
           /\ d.src \in Host /\ Lan[d.src] = s[1]
           /\ ReachesSocket(s, d.dst)
           /\ d \in Datagram
<1>1. d \in Datagram /\ d.src \in Addr
  BY DEF TypeOK, Datagram
<1>2. Lan[d.src] = s[1] /\ d.src \in Host
  BY <1>1, AcceptsOwnSide
<1> QED
  BY <1>1, <1>2 DEF IInv, InboxInv

LEMMA InvReceive ==
    ASSUME TypeOK, IInv, NEW s \in Socket, Receive(s)
    PROVE  IInv'
<1>1. PICK d \in inbox[s] :
        \/ Filtered(s, d)
        \/ Accepts(s, d.src) /\ ParseFails(s, d)
        \/ /\ Accepts(s, d.src)
           /\ \E services \in SUBSET Entry, new \in SUBSET Op :
                 /\ Directed(new, s, d)
                 /\ Handle(s, d, services, new)
  BY ReceiveShape
<1>2. CASE Filtered(s, d)
  <2>1. \A t \in Socket : inbox'[t] \subseteq inbox[t]
    BY <1>2 DEF Filtered, TypeOK
  <2> QED
    BY <1>2, <2>1
    DEF Filtered, IInv, LogInv, InboxInv, HandledInv, SendsInv, CausedBy, TypeOK
<1>3. ASSUME Accepts(s, d.src), ParseFails(s, d) PROVE IInv'
  <2>1. \A t \in Socket : inbox'[t] \subseteq inbox[t]
    BY <1>3 DEF ParseFails, TypeOK
  <2>2. d \notin inbox'[s]
    BY <1>3 DEF ParseFails, TypeOK
  <2>3. UNCHANGED <<log, txOps, emitted>> /\ handled' = handled \cup {<<d.id, s>>}
    BY <1>3 DEF ParseFails
  <2>4. HandledInv'
    BY <1>3, <2>1, <2>2, <2>3, AcceptedIsLogged DEF IInv, HandledInv, TypeOK
  <2> QED
    BY <2>1, <2>3, <2>4 DEF IInv, LogInv, InboxInv, SendsInv, CausedBy
<1>4. ASSUME Accepts(s, d.src),
             NEW services \in SUBSET Entry, NEW new \in SUBSET Op,
             Directed(new, s, d), Handle(s, d, services, new)
      PROVE  IInv'
  <2>1. /\ handled' = handled \cup {<<d.id, s>>}
        /\ log' = log
        /\ txOps' \subseteq txOps \cup new
        /\ \A e \in emitted' : e \in emitted \/
              \E o \in new : e = Emit(o, o.want)
        /\ \A t \in Socket : \A x \in inbox'[t] :
              \/ x \in inbox[t] /\ (t = s => x # d)
              \/ x.id = d.id /\ x.src \in Own /\ ReachesSocket(t, x.dst)
    BY <1>4, HandleEffect
  <2>2. /\ d.id \in 1..Len(log) /\ d = log[d.id] /\ d.src \in Host
        /\ Lan[d.src] = s[1] /\ ReachesSocket(s, d.dst) /\ d \in Datagram
    BY <1>4, AcceptedIsLogged
  <2>3. LogInv'
    BY <2>1 DEF IInv, LogInv
  <2>4. InboxInv'
    BY <2>1, <2>2, AddressAssumption DEF IInv, InboxInv
  <2>5. HandledInv'
    <3>1. \A i \in 1..Len(log) : log[i].src \notin Own
      BY AddressAssumption DEF IInv, LogInv
    <3>2. \A p \in handled : p[2] \in Socket
      BY DEF TypeOK
    <3>3. \A p \in handled : log[p[1]] \notin inbox'[p[2]]
      BY <2>1, <3>1, <3>2 DEF IInv, HandledInv
    <3>4. log[d.id] \notin inbox'[s]
      BY <2>1, <2>2, <3>1
    <3> QED
      BY <1>4, <2>1, <2>2, <3>3, <3>4 DEF IInv, HandledInv
  <2>6. SendsInv'
    <3>1. \A o \in new : CausedBy(o.id, o.sock[1], o.dst)
      BY <1>4, <2>2 DEF Directed, CausedBy
    <3>2. \A o \in new : Lan[Emit(o, o.want).src] = o.sock[1]
      BY AddressAssumption DEF Emit, Itf, Op, Socket, Side
    <3>3. \A o \in new : CausedBy(Emit(o, o.want).id, Lan[Emit(o, o.want).src],
                                  Emit(o, o.want).dst)
      BY <3>1, <3>2 DEF Emit
    <3> QED
      BY <2>1, <3>1, <3>3 DEF IInv, SendsInv, CausedBy
  <2> QED
    BY <2>3, <2>4, <2>5, <2>6 DEF IInv
<1> QED
  BY <1>1, <1>2, <1>3, <1>4

LEMMA InvTransmit ==
    ASSUME TypeOK, IInv, NEW o \in txOps, Transmit(o)
    PROVE  IInv'
<1> DEFINE e == Emit(o, txBuf[o.sock])
<1>1. o \in Op /\ CausedBy(o.id, o.sock[1], o.dst)
  BY DEF TypeOK, IInv, SendsInv
<1>2. /\ log' = log /\ handled' = handled /\ txOps' \subseteq txOps
      /\ emitted' = emitted \cup {e}
      /\ \A t \in Socket : inbox'[t] = inbox[t] \cup Loopback(t, {e})
  BY DEF Transmit
<1>3. \A t \in Socket : \A x \in Loopback(t, {e}) :
          x.id = o.id /\ x.src \in Own /\ ReachesSocket(t, x.dst)
  BY <1>1 DEF Loopback, Emit, Itf, Own
<1>4. o.id \in 1..Len(log)
  BY <1>1 DEF CausedBy
<1>5. LogInv'
  BY <1>2 DEF IInv, LogInv
<1>6. InboxInv'
  BY <1>2, <1>3, <1>4, AddressAssumption DEF IInv, InboxInv
<1>7. HandledInv'
  <2>1. \A p \in handled : p[2] \in Socket /\ log[p[1]].src \notin Own
    BY AddressAssumption DEF TypeOK, IInv, LogInv, HandledInv
  <2> QED
    BY <1>2, <1>3, <2>1 DEF IInv, HandledInv
<1>8. SendsInv'
  <2>1. Lan[e.src] = o.sock[1] /\ e.id = o.id /\ e.dst = o.dst
    BY <1>1, AddressAssumption DEF Emit, Itf, Op, Socket, Side
  <2> QED
    BY <1>1, <1>2, <2>1 DEF IInv, SendsInv, CausedBy
<1> QED
  BY <1>5, <1>6, <1>7, <1>8 DEF IInv

\* A new datagram of a host has an id that nothing refers to yet.
LEMMA InvHostSends ==
    ASSUME TypeOK, IInv, NEW t \in Traffic, HostSends(t)
    PROVE  IInv'
<1> DEFINE d == [id |-> Len(log) + 1, src |-> t.src, dst |-> t.dst,
                 msg |-> t.msg]
<1>1. /\ log \in Seq(Datagram) /\ Len(log) \in Nat
      /\ log' = Append(log, d) /\ t.src \in Host
      /\ \A s \in Socket : inbox'[s] =
            IF ReachesSocket(s, t.dst) THEN inbox[s] \cup {d} ELSE inbox[s]
      /\ UNCHANGED <<txOps, emitted, handled>>
  BY TrafficAssumption DEF HostSends, TypeOK
<1>2. /\ Len(log') = Len(log) + 1 /\ log'[Len(log) + 1] = d
      /\ \A i \in 1..Len(log) : i \in 1..Len(log') /\ log'[i] = log[i]
  BY <1>1
<1>3. LogInv'
  <2> SUFFICES ASSUME NEW i \in 1..Len(log')
               PROVE  log'[i].id = i /\ log'[i].src \in Host
    BY DEF LogInv
  <2>1. CASE i \in 1..Len(log)
    BY <1>2, <2>1 DEF IInv, LogInv
  <2>2. CASE i = Len(log) + 1
    BY <1>1, <1>2, <2>2
  <2> QED
    BY <1>1, <1>2, <2>1, <2>2
<1>4. InboxInv'
  <2> SUFFICES ASSUME NEW s \in Socket, NEW x \in inbox'[s]
               PROVE  /\ x.id \in 1..Len(log') /\ ReachesSocket(s, x.dst)
                      /\ x.src \in Host => x = log'[x.id]
    BY DEF InboxInv
  <2>1. CASE x \in inbox[s]
    BY <1>2, <2>1 DEF IInv, InboxInv
  <2>2. CASE x = d /\ ReachesSocket(s, t.dst)
    BY <1>1, <1>2, <2>2
  <2> QED
    BY <1>1, <2>1, <2>2
<1>5. HandledInv'
  <2> SUFFICES ASSUME NEW p \in handled
               PROVE  /\ p[1] \in 1..Len(log')
                      /\ Accepts(p[2], log'[p[1]].src)
                      /\ ReachesSocket(p[2], log'[p[1]].dst)
                      /\ log'[p[1]] \notin inbox'[p[2]]
    BY <1>1 DEF HandledInv
  <2>1. /\ p[1] \in 1..Len(log) /\ log'[p[1]] = log[p[1]] /\ p[2] \in Socket
        /\ log[p[1]] \notin inbox[p[2]]
        /\ Accepts(p[2], log[p[1]].src) /\ ReachesSocket(p[2], log[p[1]].dst)
    BY <1>2 DEF IInv, HandledInv, TypeOK
  <2>2. log[p[1]] # d
    BY <1>1, <2>1 DEF IInv, LogInv
  <2> QED
    BY <1>1, <1>2, <2>1, <2>2
<1>6. SendsInv'
  BY <1>1, <1>2 DEF IInv, SendsInv, CausedBy
<1> QED
  BY <1>3, <1>4, <1>5, <1>6 DEF IInv

LEMMA InvStep == TypeOK /\ IInv /\ [Next]_vars => IInv'
<1> SUFFICES ASSUME TypeOK, IInv, [Next]_vars PROVE IInv'
  OBVIOUS
<1>1. ASSUME NEW s \in Socket, Receive(s) PROVE IInv'
  BY <1>1, InvReceive
<1>2. ASSUME NEW s \in Socket, Lose(s) PROVE IInv'
  <2>1. \A t \in Socket : inbox'[t] \subseteq inbox[t]
    BY <1>2 DEF Lose, TypeOK
  <2>2. UNCHANGED <<log, txOps, emitted, handled>>
    BY <1>2 DEF Lose
  <2>3. \A p \in handled : p[2] \in Socket
    BY DEF TypeOK
  <2> QED
    BY <2>1, <2>2, <2>3
    DEF IInv, LogInv, InboxInv, HandledInv, SendsInv, CausedBy
<1>3. ASSUME NEW o \in txOps, Transmit(o) PROVE IInv'
  BY <1>3, InvTransmit
<1>4. ASSUME NEW t \in Traffic, HostSends(t) PROVE IInv'
  BY <1>4, InvHostSends
<1>5. CASE UNCHANGED vars
  BY <1>5 DEF vars, IInv, LogInv, InboxInv, HandledInv, SendsInv, CausedBy
<1> QED
  BY <1>1, <1>2, <1>3, <1>4, <1>5 DEF Next

THEOREM InvariantHolds == Spec => []IInv
<1> QED
  BY TypeCorrect, InvInit, InvStep, PTL DEF Spec

LEMMA InvHandledOnce == TypeOK /\ IInv => HandledOnce
<1> SUFFICES ASSUME TypeOK, IInv PROVE HandledOnce
  OBVIOUS
<1>1. \A p \in handled : /\ p = <<p[1], p[2]>> /\ p[2] \in Socket
                         /\ log[p[1]] \in Datagram
  BY DEF TypeOK, IInv, HandledInv
<1>2. \A i \in 1..Len(log) : log[i].src \in Addr /\ log[i].dst \in Addr \cup {Group}
  <2>1. \A i \in 1..Len(log) : log[i] \in Datagram
    BY DEF TypeOK
  <2> QED
    BY <2>1 DEF Datagram
<1>3. \A p \in handled : \A s \in Socket :
          Accepts(s, log[p[1]].src) /\ ReachesSocket(s, log[p[1]].dst)
              => s = p[2]
  BY <1>1, <1>2, OneSocketAccepts DEF IInv, HandledInv
<1>4. ASSUME NEW p \in handled, NEW q \in handled, p[1] = q[1] PROVE p = q
  BY <1>1, <1>3, <1>4 DEF IInv, HandledInv
<1>5. ASSUME NEW p \in handled, NEW s \in Socket, NEW d \in inbox[s],
             d.id = p[1], Accepts(s, d.src)
      PROVE  FALSE
  <2>1. d = log[p[1]] /\ ReachesSocket(s, d.dst)
    BY <1>5, AcceptedIsLogged
  <2>2. s = p[2]
    BY <1>3, <1>5, <2>1
  <2> QED
    BY <2>1, <2>2 DEF IInv, HandledInv
<1> QED
  BY <1>4, <1>5 DEF HandledOnce

\* No datagram is handled twice, and none is forwarded in a loop, for any
\* number of machines and datagrams and whichever way sends leave.
THEOREM HandledOnceHolds == Spec => []HandledOnce
<1> QED
  BY TypeCorrect, InvariantHolds, InvHandledOnce, PTL

LEMMA InvRelayCrosses == TypeOK /\ IInv => RelayCrosses
<1> SUFFICES ASSUME TypeOK, IInv PROVE RelayCrosses
  OBVIOUS
<1>1. \A e \in emitted : CausedBy(e.id, Lan[e.src], e.dst)
  BY DEF IInv, SendsInv
<1> QED
  BY <1>1 DEF CausedBy, RelayCrosses

\* The bridge never multicasts what it heard back onto the same network, and
\* its answers go to the machine that asked.
THEOREM RelayCrossesHolds == Spec => []RelayCrosses
<1> QED
  BY TypeCorrect, InvariantHolds, InvRelayCrosses, PTL

-----------------------------------------------------------------------------
\* The cache.

\* What Remember does to a cache whose entries are under the urns of their
\* services.
LEMMA RememberSound ==
    ASSUME NEW services, NEW m,
           \A e \in services : e.key.urn = e.value.nt
    PROVE  /\ \A e \in Remember(services, m) :
                 /\ e.key.urn = e.value.nt
                 /\ e \in services \/ e.value = m
           /\ \A e \in services : \E f \in Remember(services, m) : f.key = e.key
<1> DEFINE old == {e \in services : SameKey(e.key, KeyOf(m))}
           kept == IF old = {} THEN {KeyOf(m)} ELSE {e.key : e \in old}
<1>1. Remember(services, m) =
          (services \ old) \cup {[key |-> k, value |-> m] : k \in kept}
  BY DEF Remember
<1>2. \A k \in kept : k.urn = m.nt
  BY DEF SameKey, KeyOf
<1>3. \A e \in old : e.key \in kept
  OBVIOUS
<1>4. \A e \in Remember(services, m) :
          \/ e \in services
          \/ e.key \in kept /\ e.value = m
  BY <1>1
<1> HIDE DEF old, kept
<1>5. ASSUME NEW e \in services
      PROVE  \E f \in Remember(services, m) : f.key = e.key
  <2>1. CASE e \in old
    <3>1. [key |-> e.key, value |-> m] \in Remember(services, m)
      BY <1>1, <1>3, <2>1
    <3> QED
      BY <3>1
  <2>2. CASE e \notin old
    BY <1>1, <2>2
  <2> QED
    BY <2>1, <2>2
<1> QED
  BY <1>2, <1>4, <1>5

LEMMA CacheReceive ==
    ASSUME TypeOK, IInv, CacheSound, NEW s \in Socket, Receive(s)
    PROVE  /\ CacheSound'
           /\ \A e \in cache : \E f \in cache' : f.key = e.key
<1>1. PICK d \in inbox[s] :
        \/ Filtered(s, d)
        \/ Accepts(s, d.src) /\ ParseFails(s, d)
        \/ /\ Accepts(s, d.src)
           /\ \E services \in SUBSET Entry, new \in SUBSET Op :
                 /\ Directed(new, s, d)
                 /\ Handle(s, d, services, new)
                 /\ \/ services = cache
                    \/ \E m \in Message : /\ Announces(d, m)
                                          /\ services = Remember(cache, m)
  BY ReceiveShape
<1>2. CASE Filtered(s, d)
  BY <1>2 DEF Filtered, CacheSound
<1>3. CASE ParseFails(s, d)
  BY <1>3 DEF ParseFails, CacheSound
<1>4. ASSUME Accepts(s, d.src),
             NEW services \in SUBSET Entry, NEW new \in SUBSET Op,
             Handle(s, d, services, new),
             \/ services = cache
             \/ \E m \in Message : /\ Announces(d, m)
                                   /\ services = Remember(cache, m)
      PROVE  /\ CacheSound'
             /\ \A e \in cache : \E f \in cache' : f.key = e.key
  <2>1. cache' = services /\ log' = log /\ handled' = handled \cup {<<d.id, s>>}
    BY <1>4 DEF Handle
  <2>2. d = log[d.id]
    BY <1>4, AcceptedIsLogged
  <2>3. CASE services = cache
    BY <2>1, <2>3 DEF CacheSound
  <2>4. ASSUME NEW m \in Message, Announces(d, m), services = Remember(cache, m)
        PROVE  /\ CacheSound'
               /\ \A e \in cache : \E f \in cache' : f.key = e.key
    <3>1. /\ \A e \in services : /\ e.key.urn = e.value.nt
                                 /\ e \in cache \/ e.value = m
          /\ \A e \in cache : \E f \in services : f.key = e.key
      BY <2>4, RememberSound DEF CacheSound
    <3>2. \E p \in handled' : Announces(log'[p[1]], m)
      <4>1. <<d.id, s>> \in handled' /\ log'[<<d.id, s>>[1]] = d
        BY <2>1, <2>2
      <4> QED
        BY <2>4, <4>1
    <3>3. \A e \in cache : \E p \in handled' : Announces(log'[p[1]], e.value)
      BY <2>1 DEF CacheSound
    <3> QED
      BY <2>1, <3>1, <3>2, <3>3 DEF CacheSound
  <2> QED
    BY <1>4, <2>3, <2>4
<1> QED
  BY <1>1, <1>2, <1>3, <1>4

LEMMA CacheStep ==
    TypeOK /\ IInv /\ CacheSound /\ [Next]_vars =>
        CacheSound' /\ \A e \in cache : \E f \in cache' : f.key = e.key
<1> SUFFICES ASSUME TypeOK, IInv, CacheSound, [Next]_vars
             PROVE  CacheSound' /\ \A e \in cache : \E f \in cache' : f.key = e.key
  OBVIOUS
<1>1. ASSUME NEW s \in Socket, Receive(s)
      PROVE  CacheSound' /\ \A e \in cache : \E f \in cache' : f.key = e.key
  BY <1>1, CacheReceive
<1>2. ASSUME NEW s \in Socket, Lose(s)
      PROVE  CacheSound' /\ \A e \in cache : \E f \in cache' : f.key = e.key
  BY <1>2 DEF Lose, CacheSound
<1>3. ASSUME NEW o \in txOps, Transmit(o)
      PROVE  CacheSound' /\ \A e \in cache : \E f \in cache' : f.key = e.key
  BY <1>3 DEF Transmit, CacheSound
<1>4. ASSUME NEW t \in Traffic, HostSends(t)
      PROVE  CacheSound' /\ \A e \in cache : \E f \in cache' : f.key = e.key
  <2>1. cache' = cache /\ handled' = handled
    BY <1>4 DEF HostSends
  <2>2. \A i \in 1..Len(log) : log'[i] = log[i]
    BY <1>4 DEF HostSends, TypeOK
  <2>3. \A p \in handled : p[1] \in 1..Len(log)
    BY DEF IInv, HandledInv
  <2>4. \A e \in cache : \E p \in handled : Announces(log'[p[1]], e.value)
    BY <2>2, <2>3 DEF CacheSound
  <2> QED
    BY <2>1, <2>4 DEF CacheSound
<1>5. CASE UNCHANGED vars
  BY <1>5 DEF vars, CacheSound
<1> QED
  BY <1>1, <1>2, <1>3, <1>4, <1>5 DEF Next

\* Whatever the order of the datagrams, the cache only ever holds services that
\* a handled datagram announced, each under its urn.
THEOREM CacheSoundHolds == Spec => []CacheSound
<1>1. Init => CacheSound
  BY DEF Init, CacheSound
<1> QED
  BY <1>1, TypeCorrect, InvariantHolds, CacheStep, PTL DEF Spec

\* No step forgets a urn: an entry is only ever replaced under its own key.
THEOREM CacheOnlyGrowsHolds == Spec => CacheOnlyGrows
<1>1. TypeOK /\ IInv /\ CacheSound /\ [Next]_vars =>
          [\A e \in cache : \E f \in cache' : f.key = e.key]_vars
  BY CacheStep
<1> QED
  BY <1>1, TypeCorrect, InvariantHolds, CacheSoundHolds, PTL
  DEF Spec, CacheOnlyGrows

-----------------------------------------------------------------------------
\* The transmit buffers.

\* Once something was given to send on a socket, the text in its buffer waits
\* under its own name or has left under it.
Given(s) == (\E o \in txOps : o.sock = s) \/ \E e \in emitted : Through(s, e)

LatestKept(s) ==
    \/ \E o \in txOps : o.sock = s /\ o.want = txBuf[s]
    \/ \E e \in emitted : Through(s, e) /\ e.msg = txBuf[s] /\ e.want = txBuf[s]

\* An op leaves through its own socket, and is for the group exactly when that is
\* a multicast socket.
Fits(o) == o.dst = Group <=> o.sock[2] = "multicast"

BufferInv == /\ \A o \in txOps : Fits(o)
             /\ \A s \in Socket : Given(s) => LatestKept(s)

LEMMA ThroughOwn ==
    ASSUME NEW s \in Socket, NEW o \in Op, Fits(o), NEW text
    PROVE  Through(s, Emit(o, text)) <=> o.sock = s
<1>1. o.sock \in Socket
  BY DEF Op
<1>2. o.sock = <<o.sock[1], o.sock[2]>> /\ s = <<s[1], s[2]>>
  BY <1>1 DEF Socket
<1>3. s[2] \in {"multicast", "listen"} /\ o.sock[2] \in {"multicast", "listen"}
  BY <1>1 DEF Socket
<1>4. Itf(o.sock) = Itf(s) <=> o.sock[1] = s[1]
  BY <1>1, AddressAssumption DEF Itf, Socket, Side
<1> QED
  BY <1>2, <1>3, <1>4 DEF Through, Emit, Fits

\* The sends of a handler: the last text given to a socket waits or has left.
LEMMA BufferSend ==
    ASSUME TypeOK, BufferInv, NEW new \in SUBSET Op, \A o \in new : Fits(o),
           NEW now \in SUBSET new, NEW last \in SUBSET new,
           Send(new, now, last)
    PROVE  BufferInv'
<1>1. \A o \in txOps' : Fits(o)
  BY DEF Send, BufferInv
<1>2. emitted \subseteq emitted' /\ txOps \subseteq txOps'
  BY DEF Send
<1>3. ASSUME NEW s \in Socket, Given(s)'
      PROVE  LatestKept(s)'
  <2>1. CASE OnSocket(last, s) = {}
    <3>1. txBuf'[s] = txBuf[s]
      BY <2>1 DEF Send
    <3>2. \A o \in new : o.sock # s
      BY <2>1 DEF Send, OnSocket
    <3>3. \A o \in now : ~Through(s, Emit(o, o.want))
      BY <3>2, ThroughOwn
    <3>4. Given(s)
      BY <1>3, <3>2, <3>3 DEF Given, Send
    <3>5. LatestKept(s)
      BY <3>4 DEF BufferInv
    <3> QED
      BY <1>2, <3>1, <3>5 DEF LatestKept
  <2>2. CASE OnSocket(last, s) # {}
    <3>1. PICK l \in last : l.sock = s
      BY <2>2 DEF OnSocket
    <3>2. OnSocket(last, s) = {l}
      BY <3>1 DEF Send
    <3>3. \A x \in last : x.sock = s => x = l
      BY <3>2 DEF OnSocket
    <3>4. (CHOOSE x \in last : x.sock = s) = l
      BY <3>1, <3>3
    <3>5. txBuf'[s] = l.want
      BY <2>2, <3>4 DEF Send
    <3>6. CASE l \in now
      <4>1. Emit(l, l.want) \in emitted' /\ Through(s, Emit(l, l.want))
        BY <3>1, <3>6, ThroughOwn DEF Send
      <4>2. Emit(l, l.want).msg = l.want /\ Emit(l, l.want).want = l.want
        BY DEF Emit
      <4> QED
        BY <3>5, <4>1, <4>2 DEF LatestKept
    <3>7. CASE l \notin now
      BY <3>1, <3>5, <3>7 DEF Send, LatestKept
    <3> QED
      BY <3>6, <3>7
  <2> QED
    BY <2>1, <2>2
<1> QED
  BY <1>1, <1>3 DEF BufferInv

\* The text of a socket whose op is carried out leaves as the buffer has it.
LEMMA BufferTransmit ==
    ASSUME TypeOK, BufferInv, NEW o \in txOps, Transmit(o)
    PROVE  BufferInv'
<1>1. o \in Op /\ Fits(o)
  BY DEF TypeOK, BufferInv
<1>2. /\ txOps' = txOps \ {o} /\ txBuf' = txBuf
      /\ emitted' = emitted \cup {Emit(o, txBuf[o.sock])}
  BY DEF Transmit
<1>3. ASSUME NEW s \in Socket, Given(s)'
      PROVE  LatestKept(s)'
  <2>1. Given(s)
    BY <1>1, <1>2, <1>3, ThroughOwn DEF Given
  <2>2. LatestKept(s)
    BY <2>1 DEF BufferInv
  <2>3. CASE o.sock = s /\ o.want = txBuf[s]
    <3>1. LET e == Emit(o, txBuf[s])
          IN Through(s, e) /\ e.msg = txBuf[s] /\ e.want = txBuf[s]
      BY <1>1, <2>3, ThroughOwn DEF Emit
    <3> QED
      BY <1>2, <2>3, <3>1 DEF LatestKept
  <2>4. CASE ~(o.sock = s /\ o.want = txBuf[s])
    BY <1>2, <2>2, <2>4 DEF LatestKept
  <2> QED
    BY <2>3, <2>4
<1> QED
  BY <1>2, <1>3 DEF BufferInv

LEMMA BufferStep == TypeOK /\ BufferInv /\ [Next]_vars => BufferInv'
<1> SUFFICES ASSUME TypeOK, BufferInv, [Next]_vars
             PROVE  BufferInv'
  OBVIOUS
<1>1. ASSUME NEW s \in Socket, Receive(s)
      PROVE  BufferInv'
  <2>1. PICK d \in inbox[s] :
          \/ Filtered(s, d)
          \/ ParseFails(s, d)
          \/ \E services \in SUBSET Entry, new \in SUBSET Op :
                Directed(new, s, d) /\ Handle(s, d, services, new)
    BY <1>1, ReceiveShape
  <2>2. CASE Filtered(s, d) \/ ParseFails(s, d)
    BY <2>2 DEF Filtered, ParseFails, BufferInv, Given, LatestKept
  <2>3. ASSUME NEW services, NEW new \in SUBSET Op,
               Directed(new, s, d), Handle(s, d, services, new)
        PROVE  BufferInv'
    <3>1. PICK now \in SUBSET new, last \in SUBSET new : Send(new, now, last)
      BY <2>3 DEF Handle
    <3>2. \A o \in new : Fits(o)
      BY <2>3 DEF Directed, Fits
    <3> QED
      BY <3>1, <3>2, BufferSend
  <2> QED
    BY <2>1, <2>2, <2>3
<1>2. CASE \/ \E s \in Socket : Lose(s)
           \/ \E t \in Traffic : HostSends(t)
           \/ UNCHANGED vars
  <2>1. txOps' = txOps /\ txBuf' = txBuf /\ emitted' = emitted
    BY <1>2 DEF Lose, HostSends, vars
  <2> QED
    BY <2>1 DEF BufferInv, Given, LatestKept
<1>3. CASE \E o \in txOps : Transmit(o)
  BY <1>3, BufferTransmit
<1> QED
  BY <1>1, <1>2, <1>3 DEF Next

\* However sends wait and whatever is overwritten while they do, the last text
\* given to a socket leaves as it was given.
THEOREM LatestLeavesHolds == Spec => []LatestLeaves
<1>1. Init => BufferInv
  BY DEF Init, BufferInv, Given
<1>2. BufferInv => LatestLeaves
  BY DEF BufferInv, LatestLeaves, Given, LatestKept, OnSocket
<1> QED
  BY <1>1, <1>2, TypeCorrect, BufferStep, PTL DEF Spec

-----------------------------------------------------------------------------
\* Answers.

\* The text m may be sent in answer to the i-th datagram: that is a search for
\* its urn, and an announcement of that urn has been handled.
Answer(i, m) ==
    /\ i \in 1..Len(log) /\ IsSearch(log[i].msg)
    /\ log[i].msg.nt \in {m.nt, SsdpAll}
    /\ \E p \in handled : \E a \in Message : Announces(log[p[1]], a) /\ a.nt = m.nt

\* Whatever is given to send to one machine is such an answer.
AnswersGiven ==
    /\ \A o \in txOps : o.dst # Group => Answer(o.id, o.want)
    /\ \A e \in emitted : e.dst # Group => Answer(e.id, e.want)

\* What may be sent in answer stays so: the log and what is handled only grow.
LEMMA AnswerStays ==
    ASSUME TypeOK, IInv, [Next]_vars, NEW i, NEW m, Answer(i, m)
    PROVE  Answer(i, m)'
<1>1. /\ handled \subseteq handled'
      /\ \A j \in 1..Len(log) : j \in 1..Len(log') /\ log'[j] = log[j]
  <2>1. ASSUME NEW t \in Traffic, HostSends(t)
        PROVE  /\ handled' = handled
               /\ \A j \in 1..Len(log) : j \in 1..Len(log') /\ log'[j] = log[j]
    BY <2>1 DEF HostSends, TypeOK
  <2>2. ASSUME NEW s \in Socket, Receive(s)
        PROVE  handled \subseteq handled' /\ log' = log
    <3>1. \E d \in inbox[s] :
             \/ Filtered(s, d) \/ ParseFails(s, d)
             \/ \E services \in SUBSET Entry, new \in SUBSET Op :
                   Handle(s, d, services, new)
      BY <2>2, ReceiveShape
    <3> QED
      BY <3>1 DEF Filtered, ParseFails, Handle
  <2>3. CASE \E s \in Socket : Lose(s)
    BY <2>3 DEF Lose
  <2>4. CASE \E o \in txOps : Transmit(o)
    BY <2>4 DEF Transmit
  <2> QED
    BY <2>1, <2>2, <2>3, <2>4 DEF Next, vars
<1>2. \A p \in handled : p[1] \in 1..Len(log)
  BY DEF IInv, HandledInv
<1> QED
  BY <1>1, <1>2 DEF Answer, Announces

\* What the cache answers was announced.
LEMMA AnswersAnnounced ==
    ASSUME TypeOK, CacheSound, NEW type, NEW m \in Answers(cache, type)
    PROVE  /\ type \in {m.nt, SsdpAll}
           /\ \E p \in handled : \E a \in Message :
                 Announces(log[p[1]], a) /\ a.nt = m.nt
<1>1. PICK e \in cache : Matches(e, type) /\ m = ResponseText(e.value)
  BY DEF Answers
<1>2. m.nt = e.value.nt /\ e.value \in Message
  BY <1>1 DEF ResponseText, Response, TypeOK, Entry
<1> QED
  BY <1>1, <1>2 DEF CacheSound, Matches

LEMMA GivenReceive ==
    ASSUME TypeOK, IInv, CacheSound, AnswersGiven, NEW s \in Socket, Receive(s)
    PROVE  AnswersGiven'
<1>1. PICK d \in inbox[s] :
        \/ Filtered(s, d)
        \/ Accepts(s, d.src) /\ ParseFails(s, d)
        \/ /\ Accepts(s, d.src)
           /\ \E services \in SUBSET Entry, new \in SUBSET Op :
                 /\ Directed(new, s, d) /\ Answering(new, d)
                 /\ Handle(s, d, services, new)
  BY ReceiveShape
<1>2. \A i, m : Answer(i, m) => Answer(i, m)'
  BY AnswerStays DEF Next
<1>3. CASE Filtered(s, d) \/ ParseFails(s, d)
  BY <1>2, <1>3 DEF Filtered, ParseFails, AnswersGiven
<1>4. ASSUME Accepts(s, d.src),
             NEW services \in SUBSET Entry, NEW new \in SUBSET Op,
             Directed(new, s, d), Answering(new, d), Handle(s, d, services, new)
      PROVE  AnswersGiven'
  <2>1. /\ txOps' \subseteq txOps \cup new
        /\ \A e \in emitted' : e \in emitted \/
              \E o \in new : e = Emit(o, o.want)
    BY <1>4, HandleEffect
  <2>2. d.id \in 1..Len(log) /\ d = log[d.id]
    BY <1>4, AcceptedIsLogged
  <2>3. \A o \in new : o.dst # Group => Answer(o.id, o.want)
    BY <1>4, <2>2, AnswersAnnounced DEF Answering, Directed, Answer
  <2>4. \A o \in new : LET e == Emit(o, o.want)
                       IN e.dst = o.dst /\ e.id = o.id /\ e.want = o.want
    BY DEF Emit
  <2> QED
    BY <1>2, <2>1, <2>3, <2>4 DEF AnswersGiven
<1> QED
  BY <1>1, <1>3, <1>4

LEMMA GivenStep ==
    TypeOK /\ IInv /\ CacheSound /\ AnswersGiven /\ [Next]_vars => AnswersGiven'
<1> SUFFICES ASSUME TypeOK, IInv, CacheSound, AnswersGiven, [Next]_vars
             PROVE  AnswersGiven'
  OBVIOUS
<1>1. \A i, m : Answer(i, m) => Answer(i, m)'
  BY AnswerStays
<1>2. ASSUME NEW s \in Socket, Receive(s) PROVE AnswersGiven'
  BY <1>2, GivenReceive
<1>3. ASSUME NEW o \in txOps, Transmit(o) PROVE AnswersGiven'
  BY <1>1, <1>3 DEF Transmit, Emit, AnswersGiven
<1>4. CASE (\E s \in Socket : Lose(s)) \/ (\E t \in Traffic : HostSends(t))
  BY <1>1, <1>4 DEF Lose, HostSends, AnswersGiven
<1>5. CASE UNCHANGED vars
  BY <1>1, <1>5 DEF vars, AnswersGiven
<1> QED
  BY <1>2, <1>3, <1>4, <1>5 DEF Next

\* What the bridge sends to one machine answers a search of that machine for
\* that urn with a service that had been announced, as long as no text was
\* overwritten before it left.
THEOREM AnswersMatchHolds == Spec => []AnswersMatch
<1>1. Init => AnswersGiven
  BY DEF Init, AnswersGiven
<1>2. AnswersGiven => AnswersMatch
  BY DEF AnswersGiven, SentIntact, AnswersMatch, Answer
<1> QED
  BY <1>1, <1>2, TypeCorrect, InvariantHolds, CacheSoundHolds, GivenStep, PTL DEF Spec

\* Sends that leave at once leave nothing behind that could be overwritten.
AtOnce == txOps = {} /\ SentIntact

LEMMA AtOnceStep == ~SendsMayWait /\ TypeOK /\ AtOnce /\ [Next]_vars => AtOnce'
<1> SUFFICES ASSUME ~SendsMayWait, TypeOK, AtOnce, [Next]_vars PROVE AtOnce'
  OBVIOUS
<1>1. ASSUME NEW s \in Socket, Receive(s) PROVE AtOnce'
  <2>1. PICK d \in inbox[s] :
          \/ Filtered(s, d)
          \/ ParseFails(s, d)
          \/ \E services \in SUBSET Entry, new \in SUBSET Op :
                Handle(s, d, services, new)
    BY <1>1, ReceiveShape
  <2>2. CASE Filtered(s, d) \/ ParseFails(s, d)
    BY <2>2 DEF Filtered, ParseFails, AtOnce, SentIntact
  <2>3. ASSUME NEW services, NEW new, Handle(s, d, services, new)
        PROVE  AtOnce'
    <3>1. PICK now \in SUBSET new, last \in SUBSET new : Send(new, now, last)
      BY <2>3 DEF Handle
    <3> QED
      BY <3>1 DEF Send, Emit, AtOnce, SentIntact
  <2> QED
    BY <2>1, <2>2, <2>3
<1>2. CASE \/ \E s \in Socket : Lose(s)
           \/ \E t \in Traffic : HostSends(t)
  BY <1>2 DEF Lose, HostSends, AtOnce, SentIntact
<1>3. CASE \E o \in txOps : Transmit(o)
  BY <1>3 DEF AtOnce
<1>4. CASE UNCHANGED vars
  BY <1>4 DEF vars, AtOnce, SentIntact
<1> QED
  BY <1>1, <1>2, <1>3, <1>4 DEF Next

\* When no send has to wait for its socket, every text leaves as it was given to
\* send, and every answer matches its search.
THEOREM SentAtOnceIntact == ~SendsMayWait => (Spec => [](SentIntact /\ AnswersMatch))
<1> SUFFICES ASSUME ~SendsMayWait PROVE Spec => [](SentIntact /\ AnswersMatch)
  OBVIOUS
<1>1. Init => AtOnce
  BY DEF Init, AtOnce, SentIntact
<1>2. TypeOK /\ AtOnce /\ [Next]_vars => AtOnce'
  BY AtOnceStep
<1>3. AtOnce => SentIntact
  BY DEF AtOnce
<1> QED
  BY <1>1, <1>2, <1>3, TypeCorrect, AnswersMatchHolds, PTL DEF Spec

-----------------------------------------------------------------------------
(* The bridge implements the relay. *)


\* What a transmission, and a send that waits, undertake for the relay.
EmItem(e) == [id |-> e.id, to |-> IF e.dst = Group THEN Lan[e.src] ELSE e.dst,
              msg |-> e.want]
OpItem(o) == [id |-> o.id, to |-> IF o.dst = Group THEN o.sock[1] ELSE o.dst,
              msg |-> o.want]
OpItems(ops) == {OpItem(o) : o \in ops}

LEMMA EmittedItem ==
    ASSUME NEW o \in Op, NEW text
    PROVE  EmItem(Emit(o, text)) = OpItem(o)
<1>1. Lan[Itf(o.sock)] = o.sock[1]
  BY AddressAssumption DEF Itf, Op, Socket, Side
<1> QED
  BY <1>1 DEF EmItem, OpItem, Emit

LEMMA UndertakenParts ==
    /\ Undertaken = {EmItem(e) : e \in emitted} \cup OpItems(txOps)
    /\ Undertaken' = {EmItem(e) : e \in emitted'} \cup OpItems(txOps')
BY DEF Undertaken, EmItem, OpItem, OpItems

\* Whichever of its sends leave at once, a handler undertakes all of them.
LEMMA HandleUndertakes ==
    ASSUME TypeOK, NEW s, NEW d, NEW services,
           NEW new \in SUBSET Op, Handle(s, d, services, new)
    PROVE  Undertaken' = Undertaken \cup OpItems(new)
<1>1. PICK now \in SUBSET new :
        /\ txOps' = txOps \cup (new \ now)
        /\ emitted' = emitted \cup {Emit(o, o.want) : o \in now}
  BY DEF Handle, Send
<1>2. {EmItem(e) : e \in emitted'} =
          {EmItem(e) : e \in emitted} \cup OpItems(now)
  <2>1. {EmItem(e) : e \in emitted'} =
            {EmItem(e) : e \in emitted} \cup {EmItem(Emit(o, o.want)) : o \in now}
    BY <1>1
  <2>2. \A o \in now : EmItem(Emit(o, o.want)) = OpItem(o)
    BY EmittedItem
  <2> QED
    BY <2>1, <2>2 DEF OpItems
<1>3. OpItems(txOps') = OpItems(txOps) \cup OpItems(new \ now)
  BY <1>1 DEF OpItems
<1>4. OpItems(new) = OpItems(now) \cup OpItems(new \ now)
  BY DEF OpItems
<1> QED
  BY <1>2, <1>3, <1>4, UndertakenParts

\* A send that waited was undertaken before.
LEMMA TransmitUndertakes ==
    ASSUME TypeOK, NEW o \in txOps, Transmit(o)
    PROVE  Undertaken' = Undertaken
<1>1. o \in Op
  BY DEF TypeOK
<1>2. EmItem(Emit(o, txBuf[o.sock])) = OpItem(o)
  BY <1>1, EmittedItem
<1>3. /\ txOps' = txOps \ {o}
      /\ emitted' = emitted \cup {Emit(o, txBuf[o.sock])}
  BY DEF Transmit
<1>4. {EmItem(e) : e \in emitted'} =
          {EmItem(e) : e \in emitted} \cup {OpItem(o)}
  BY <1>2, <1>3
<1>5. OpItems(txOps) = OpItems(txOps') \cup {OpItem(o)}
  BY <1>3 DEF OpItems
<1> QED
  BY <1>4, <1>5, UndertakenParts

\* As long as entries are under the urns of their services, Remember is what the relay calls Learn.
LEMMA RememberLearns ==
    ASSUME CacheSound, NEW m
    PROVE  {e.value : e \in Remember(cache, m)} =
               {k \in {e.value : e \in cache} : k.nt # m.nt} \cup {m}
<1> DEFINE old == {e \in cache : SameKey(e.key, KeyOf(m))}
           kept == IF old = {} THEN {KeyOf(m)} ELSE {e.key : e \in old}
<1>1. Remember(cache, m) =
          (cache \ old) \cup {[key |-> k, value |-> m] : k \in kept}
  BY DEF Remember
<1>2. kept # {}
  OBVIOUS
<1>3. \A e \in cache : e \in old <=> e.value.nt = m.nt
  BY DEF CacheSound, SameKey, KeyOf
<1> HIDE DEF old, kept
<1>4. ASSUME NEW v \in {e.value : e \in Remember(cache, m)}
      PROVE  v \in {k \in {e.value : e \in cache} : k.nt # m.nt} \cup {m}
  BY <1>1, <1>3
<1>5. ASSUME NEW v \in {k \in {e.value : e \in cache} : k.nt # m.nt}
      PROVE  v \in {e.value : e \in Remember(cache, m)}
  BY <1>1, <1>3
<1>6. m \in {e.value : e \in Remember(cache, m)}
  <2>1. PICK k \in kept : TRUE
    BY <1>2
  <2>2. [key |-> k, value |-> m] \in Remember(cache, m)
    BY <1>1
  <2> QED
    BY <2>2
<1> QED
  BY <1>4, <1>5, <1>6

Known == {e.value : e \in cache}
Passed == {p[1] : p \in handled}

\* The sends of the handlers, as items of the relay.
LEMMA BroadcastItem ==
    ASSUME NEW side, NEW d, NEW m
    PROVE  OpItems(Broadcast(side, d, m)) = {Relay!Item(d.id, side, m)}
BY DEF OpItems, OpItem, Broadcast, SendOp, Relay!Item

LEMMA SendToItems ==
    ASSUME NEW side, NEW d, d.src # Group, NEW texts
    PROVE  OpItems(SendTo(side, d, d.src, texts)) =
               {Relay!Item(d.id, d.src, m) : m \in texts}
<1> DEFINE op(m) == SendOp(<<side, "listen">>, d, d.src, m)
<1>1. \A m \in texts : OpItem(op(m)) = Relay!Item(d.id, d.src, m)
  BY DEF OpItem, SendOp, Relay!Item
<1>2. OpItems(SendTo(side, d, d.src, texts)) = {OpItem(op(m)) : m \in texts}
  BY DEF OpItems, SendTo
<1> HIDE DEF op
<1> QED
  BY <1>1, <1>2

\* The answers from the cache are those for the announcements that are known.
LEMMA AnswersAreKnown ==
    ASSUME CacheSound, NEW type
    PROVE  Answers(cache, type) =
               {ResponseText(k) : k \in {x \in Known : type \in {x.nt, SsdpAll}}}
<1>1. \A e \in cache : Matches(e, type) <=> type \in {e.value.nt, SsdpAll}
  BY DEF CacheSound, Matches
<1> DEFINE known == {x \in Known : type \in {x.nt, SsdpAll}}
           matching == {x \in cache : Matches(x, type)}
<1>2. known = {e.value : e \in matching}
  BY <1>1 DEF Known
<1> HIDE DEF known, matching
<1>3. {ResponseText(k) : k \in known} = {ResponseText(e.value) : e \in matching}
  BY <1>2
<1> QED
  BY <1>3 DEF Answers, known, matching

\* What holds of every datagram that is accepted and parsed.
LEMMA AcceptedIsNew ==
    ASSUME TypeOK, IInv, NEW s \in Socket, NEW d \in inbox[s],
           Accepts(s, d.src)
    PROVE  /\ d.id \in DOMAIN log /\ log[d.id] = d /\ d \in Datagram
           /\ Lan[d.src] = s[1] /\ d.src # Group
           /\ d.id \notin Passed
           /\ Near(d)
<1>1. /\ d.id \in 1..Len(log) /\ d = log[d.id] /\ d \in Datagram
      /\ d.src \in Host /\ Lan[d.src] = s[1]
  BY AcceptedIsLogged
<1>2. DOMAIN log = 1..Len(log)
  BY DEF TypeOK
<1>3. d.id \notin Passed
  BY InvHandledOnce DEF HandledOnce, Passed
<1>4. Near(d)
  BY <1>1 DEF Near, Accepts, Itf
<1>5. d.src # Group
  BY <1>1, AddressAssumption DEF Addr
<1> QED
  BY <1>1, <1>2, <1>3, <1>4, <1>5

\* What a handler does to the relay's state.
LEMMA HandlePasses ==
    ASSUME TypeOK, IInv, CacheSound, NEW s \in Socket, NEW d \in inbox[s],
           Accepts(s, d.src), NEW services, NEW new \in SUBSET Op,
           Handle(s, d, services, new)
    PROVE  /\ Undertaken' = Undertaken \cup OpItems(new)
           /\ Passed' = Passed \cup {d.id}
           /\ cache' = services
           /\ UNCHANGED <<log, running>>
<1>1. Undertaken' = Undertaken \cup OpItems(new)
  BY HandleUndertakes
<1>2. handled' = handled \cup {<<d.id, s>>}
  BY DEF Handle
<1>3. Passed' = Passed \cup {d.id}
  <2>1. <<d.id, s>>[1] = d.id
    OBVIOUS
  <2> QED
    BY <1>2, <2>1, Zenon DEF Passed
<1> QED
  BY <1>1, <1>3 DEF Handle

\* The sends of the handlers are ops.
LEMMA SendsAreOps ==
    ASSUME NEW side \in Side, NEW d \in Datagram, NEW m \in Message,
           NEW texts \in SUBSET Message
    PROVE  /\ Broadcast(side, d, m) \in SUBSET Op
           /\ SendTo(side, d, d.src, texts) \in SUBSET Op
BY DEF Broadcast, SendTo, SendOp, Op, Socket, Side, Datagram

\* The relay's variables, as the bridge has them.
LEMMA RelayVars ==
    /\ Known = {e.value : e \in cache} /\ Known' = {e.value : e \in cache'}
    /\ Passed = {p[1] : p \in handled} /\ Passed' = {p[1] : p \in handled'}
BY DEF Known, Passed

\* The relay speaks of the same messages.
LEMMA RelayTexts ==
    ASSUME NEW m
    PROVE  /\ Relay!IsNotify(m) = IsNotify(m)
           /\ Relay!IsSearch(m) = IsSearch(m)
           /\ Relay!IsResponse(m) = IsResponse(m)
           /\ Relay!ParseThrows(m) = ParseThrows(m)
           /\ Relay!NotifyText(m) = NotifyText(m)
           /\ Relay!ResponseText(m) = ResponseText(m)
BY DEF Relay!IsNotify, Relay!IsSearch, Relay!IsResponse, Relay!ParseThrows,
       Relay!NotifyText, Relay!ResponseText, Relay!Notify, Relay!Response,
       IsNotify, IsSearch, IsResponse, ParseThrows, NotifyText, ResponseText,
       Notify, Response

\* Every handler is one step of the relay.
LEMMA ClientPasses ==
    ASSUME TypeOK, IInv, CacheSound, NEW s \in Socket, NEW d \in inbox[s],
           Accepts(s, d.src), running, OnReceiveFromClient(s, d)
    PROVE  Relay!Pass(d.id)
<1>1. /\ d.id \in DOMAIN log /\ log[d.id] = d /\ d \in Datagram
      /\ Lan[d.src] = s[1] /\ d.src # Group
      /\ d.id \notin Passed /\ Near(d)
  BY AcceptedIsNew
<1>2. Lan[d.src] = "client" /\ d.msg \in Message /\ "client" \in Side /\ "server" \in Side
  BY <1>1 DEF OnReceiveFromClient, Datagram, Side
<1>3. Answers(cache, d.msg.nt) \in SUBSET Message
  BY AnswersType DEF TypeOK
<1> DEFINE across == Broadcast("server", d, d.msg)
           answers == SendTo("client", d, d.src, Answers(cache, d.msg.nt))
<1>4. /\ across \in SUBSET Op /\ answers \in SUBSET Op
      /\ answers \cup across \in SUBSET Op
  BY <1>1, <1>2, <1>3, SendsAreOps
<1>5. OpItems(across) = {Relay!Item(d.id, "server", d.msg)}
  BY BroadcastItem
<1> HIDE DEF across, answers
<1>6. CASE ClientNotify(s, d)
  <2>1. IsNotify(d.msg) /\ Handle(s, d, Remember(cache, d.msg), across)
    BY <1>6 DEF ClientNotify, across
  <2>2. /\ Undertaken' = Undertaken \cup {Relay!Item(d.id, "server", d.msg)}
        /\ Passed' = Passed \cup {d.id}
        /\ cache' = Remember(cache, d.msg)
        /\ UNCHANGED <<log, running>>
    BY <1>4, <1>5, <2>1, HandlePasses
  <2>3. Known' = {k \in Known : k.nt # d.msg.nt} \cup {d.msg}
    BY <2>2, RememberLearns DEF Known
  <2> QED
    BY <1>1, <1>2, <2>1, <2>2, <2>3, RelayVars, RelayTexts DEF Relay!Pass, Relay!Learn
<1>7. CASE ClientSearch(s, d)
  <2>1. IsSearch(d.msg) /\ Handle(s, d, cache, answers \cup across)
    BY <1>7 DEF ClientSearch, answers, across
  <2>2. OpItems(answers \cup across) = OpItems(answers) \cup OpItems(across)
    BY DEF OpItems
  <2>3. OpItems(answers) =
            {Relay!Item(d.id, d.src, m) : m \in Answers(cache, d.msg.nt)}
    BY <1>1, SendToItems DEF answers
  <2>4. Answers(cache, d.msg.nt) =
            {ResponseText(k) : k \in {x \in Known : d.msg.nt \in {x.nt, SsdpAll}}}
    BY AnswersAreKnown
  <2>5. OpItems(answers) =
            {Relay!Item(d.id, d.src, ResponseText(k)) :
                k \in {x \in Known : d.msg.nt \in {x.nt, SsdpAll}}}
    BY <2>3, <2>4
  <2>6. /\ Undertaken' = Undertaken \cup OpItems(answers \cup across)
        /\ Passed' = Passed \cup {d.id}
        /\ cache' = cache
        /\ UNCHANGED <<log, running>>
    BY <1>4, <2>1, HandlePasses
  <2>7. Known' = Known
    BY <2>6 DEF Known
  <2>8. OpItems(answers) = Relay!Replies(d.id, d)
    BY <2>5, RelayTexts DEF Known, Relay!Replies
  <2>9. Undertaken' = Undertaken \cup {Relay!Item(d.id, "server", d.msg)}
                                \cup Relay!Replies(d.id, d)
    BY <1>5, <2>2, <2>6, <2>8
  <2>10. Relay!IsSearch(d.msg)
    BY <2>1, RelayTexts
  <2>11. /\ {p[1] : p \in handled'} = {p[1] : p \in handled} \cup {d.id}
         /\ d.id \notin {p[1] : p \in handled}
    BY <1>1, <2>6 DEF Passed
  <2> QED
    BY <1>1, <1>2, <2>6, <2>7, <2>9, <2>10, <2>11, RelayVars DEF Relay!Pass
<1>8. CASE ClientOther(s, d)
  <2>1. IsResponse(d.msg) /\ Handle(s, d, cache, across)
    BY <1>8 DEF ClientOther, across
  <2>2. /\ Undertaken' = Undertaken \cup {Relay!Item(d.id, "server", d.msg)}
        /\ Passed' = Passed \cup {d.id}
        /\ cache' = cache
        /\ UNCHANGED <<log, running>>
    BY <1>4, <1>5, <2>1, HandlePasses
  <2>3. Known' = Known
    BY <2>2 DEF Known
  <2> QED
    BY <1>1, <1>2, <2>1, <2>2, <2>3, RelayVars, RelayTexts DEF Relay!Pass
<1> QED
  BY <1>6, <1>7, <1>8 DEF OnReceiveFromClient

LEMMA ServerPasses ==
    ASSUME TypeOK, IInv, CacheSound, NEW s \in Socket, NEW d \in inbox[s],
           Accepts(s, d.src), running, OnReceiveFromServer(s, d)
    PROVE  Relay!Pass(d.id)
<1>1. /\ d.id \in DOMAIN log /\ log[d.id] = d /\ d \in Datagram
      /\ Lan[d.src] = s[1] /\ d.src # Group
      /\ d.id \notin Passed /\ Near(d)
  BY AcceptedIsNew
<1>2. Lan[d.src] = "server" /\ d.msg \in Message
  BY <1>1 DEF OnReceiveFromServer, Datagram
<1>3. ASSUME NEW m \in Message, NEW services,
             Handle(s, d, services, Broadcast("client", d, m))
      PROVE  /\ Undertaken' = Undertaken \cup {Relay!Item(d.id, "client", m)}
             /\ Passed' = Passed \cup {d.id}
             /\ cache' = services
             /\ UNCHANGED <<log, running>>
  <2>1. Broadcast("client", d, m) \in SUBSET Op
    BY <1>1, SendsAreOps DEF Side
  <2>2. OpItems(Broadcast("client", d, m)) = {Relay!Item(d.id, "client", m)}
    BY BroadcastItem
  <2> QED
    BY <1>3, <2>1, <2>2, HandlePasses
<1>4. CASE ServerNotify(s, d)
  <2>1. /\ IsNotify(d.msg)
        /\ Handle(s, d, Remember(cache, d.msg), Broadcast("client", d, d.msg))
    BY <1>4 DEF ServerNotify
  <2>2. /\ Undertaken' = Undertaken \cup {Relay!Item(d.id, "client", d.msg)}
        /\ Passed' = Passed \cup {d.id}
        /\ cache' = Remember(cache, d.msg)
        /\ UNCHANGED <<log, running>>
    BY <1>2, <1>3, <2>1
  <2>3. Known' = {k \in Known : k.nt # d.msg.nt} \cup {d.msg}
    BY <2>2, RememberLearns DEF Known
  <2> QED
    BY <1>1, <1>2, <2>1, <2>2, <2>3, RelayVars, RelayTexts DEF Relay!Pass, Relay!Learn
<1>5. CASE ServerResponse(s, d)
  <2> DEFINE n == NotifyText(d.msg)
  <2>1. n \in Message
    BY <1>2, TextsAreMessages
  <2>2. IsResponse(d.msg) /\ Handle(s, d, Remember(cache, n), Broadcast("client", d, n))
    BY <1>5 DEF ServerResponse
  <2>3. /\ Undertaken' = Undertaken \cup {Relay!Item(d.id, "client", n)}
        /\ Passed' = Passed \cup {d.id}
        /\ cache' = Remember(cache, n)
        /\ UNCHANGED <<log, running>>
    BY <1>3, <2>1, <2>2
  <2>4. Known' = {k \in Known : k.nt # n.nt} \cup {n}
    BY <2>3, RememberLearns DEF Known
  <2> HIDE DEF n
  <2> QED
    BY <1>1, <1>2, <2>2, <2>3, <2>4, RelayVars, RelayTexts DEF Relay!Pass, Relay!Learn, n
<1>6. CASE ServerOther(s, d)
  <2>1. IsSearch(d.msg) /\ Handle(s, d, cache, Broadcast("client", d, d.msg))
    BY <1>6 DEF ServerOther
  <2>2. /\ Undertaken' = Undertaken \cup {Relay!Item(d.id, "client", d.msg)}
        /\ Passed' = Passed \cup {d.id}
        /\ cache' = cache
        /\ UNCHANGED <<log, running>>
    BY <1>2, <1>3, <2>1
  <2>3. Known' = Known
    BY <2>2 DEF Known
  <2> QED
    BY <1>1, <1>2, <2>1, <2>2, <2>3, RelayVars, RelayTexts DEF Relay!Pass
<1> QED
  BY <1>4, <1>5, <1>6 DEF OnReceiveFromServer

\* A datagram that cannot be parsed ends both the bridge and the relay.
LEMMA FailurePasses ==
    ASSUME TypeOK, IInv, NEW s \in Socket, NEW d \in inbox[s],
           Accepts(s, d.src), running, ParseFails(s, d)
    PROVE  Relay!Pass(d.id)
<1>1. /\ log[d.id] = d /\ d.id \notin Passed /\ Near(d)
  BY AcceptedIsNew
<1>2. /\ ParseThrows(d.msg) /\ running' = FALSE
      /\ handled' = handled \cup {<<d.id, s>>}
      /\ UNCHANGED <<log, cache, txOps, emitted>>
  BY DEF ParseFails
<1>3. Passed' = Passed \cup {d.id}
  <2>1. <<d.id, s>>[1] = d.id
    OBVIOUS
  <2> QED
    BY <1>2, <2>1, Zenon DEF Passed
<1>4. Undertaken' = Undertaken /\ Known' = Known
  BY <1>2 DEF Undertaken, Known
<1> QED
  BY <1>1, <1>2, <1>3, <1>4, RelayVars, RelayTexts DEF Relay!Pass

LEMMA RelayInit == Init => Relay!Init
<1> SUFFICES ASSUME Init PROVE Relay!Init
  OBVIOUS
<1> QED
  BY DEF Init, Relay!Init, Undertaken

LEMMA OfferStep ==
    ASSUME NEW t \in Traffic, HostSends(t)
    PROVE  Relay!Offer(t)
<1>1. Undertaken' = Undertaken
  BY DEF HostSends, Undertaken
<1> QED
  BY <1>1 DEF HostSends, Relay!Offer

\* The other steps of the bridge leave the relay's state alone.
LEMMA RelayStutters ==
    ASSUME UNCHANGED <<log, cache, handled, running>>, Undertaken' = Undertaken
    PROVE  UNCHANGED Relay!vars
<1>1. Known' = Known /\ Passed' = Passed
  BY DEF Known, Passed
<1> QED
  BY <1>1, RelayVars DEF Relay!vars

LEMMA RelayStep ==
    TypeOK /\ IInv /\ CacheSound /\ [Next]_vars => [Relay!Next]_(Relay!vars)
<1> SUFFICES ASSUME TypeOK, IInv, CacheSound, [Next]_vars
             PROVE  Relay!Next \/ UNCHANGED Relay!vars
  OBVIOUS
<1>1. ASSUME NEW s \in Socket, Receive(s)
      PROVE  Relay!Next \/ UNCHANGED Relay!vars
  <2>1. PICK d \in inbox[s] :
          \/ Filtered(s, d)
          \/ /\ Accepts(s, d.src)
             /\ \/ OnReceiveFromClient(s, d)
                \/ OnReceiveFromServer(s, d)
                \/ ParseFails(s, d)
    BY <1>1 DEF Receive
  <2>2. running
    BY <1>1 DEF Receive
  <2>3. CASE Filtered(s, d)
    <3>1. UNCHANGED <<log, cache, txOps, emitted, handled, running>>
      BY <2>3 DEF Filtered
    <3>2. Undertaken' = Undertaken
      BY <3>1 DEF Undertaken
    <3> QED
      BY <3>1, <3>2, RelayStutters
  <2>4. ASSUME Accepts(s, d.src),
               \/ OnReceiveFromClient(s, d)
               \/ OnReceiveFromServer(s, d)
               \/ ParseFails(s, d)
        PROVE  Relay!Next
    <3>1. Relay!Pass(d.id)
      BY <2>2, <2>4, ClientPasses, ServerPasses, FailurePasses
    <3>2. d.id \in DOMAIN log
      BY <2>4, AcceptedIsNew
    <3> QED
      BY <3>1, <3>2 DEF Relay!Next
  <2> QED
    BY <2>1, <2>3, <2>4
<1>2. ASSUME NEW s \in Socket, Lose(s)
      PROVE  UNCHANGED Relay!vars
  <2>1. UNCHANGED <<log, cache, txOps, emitted, handled, running>>
    BY <1>2 DEF Lose
  <2>2. Undertaken' = Undertaken
    BY <2>1 DEF Undertaken
  <2> QED
    BY <2>1, <2>2, RelayStutters
<1>3. ASSUME NEW o \in txOps, Transmit(o)
      PROVE  UNCHANGED Relay!vars
  <2>1. UNCHANGED <<log, cache, handled, running>>
    BY <1>3 DEF Transmit
  <2> QED
    BY <1>3, <2>1, TransmitUndertakes, RelayStutters
<1>4. ASSUME NEW t \in Traffic, HostSends(t)
      PROVE  Relay!Next
  BY <1>4, OfferStep DEF Relay!Next
<1>5. CASE UNCHANGED vars
  <2>1. Undertaken' = Undertaken
    BY <1>5 DEF vars, Undertaken
  <2> QED
    BY <1>5, <2>1, RelayStutters DEF vars
<1> QED
  BY <1>1, <1>2, <1>3, <1>4, <1>5 DEF Next

\* The bridge implements the relay: whatever the network reorders, loses or
\* loops back, and whether or not sends wait, every datagram of a nearby
\* machine is passed on by one step of the relay, and by at most one.
THEOREM RelayImplemented == Spec => ImplementsRelay
<1> QED
  BY TypeCorrect, InvariantHolds, CacheSoundHolds, RelayInit, RelayStep, PTL
  DEF Spec, ImplementsRelay, Relay!Spec
=============================================================================
