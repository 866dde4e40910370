----------------------------- MODULE AvrSession -----------------------------
(***************************************************************************)
(* The telnet session between the main window and a receiver: the widgets, *)
(* the QTcpSocket with its reconnection, the commands and reports that are *)
(* on their way, and the receivers at the other end.                       *)
(*                                                                         *)
(* A control is one setting of the receiver that a widget shows.  Values   *)
(* are what the program tells apart: a report is the value it is about, a  *)
(* command the value it sets.  "No value" is the empty set, so a partial   *)
(* map of the code yields {} or a singleton here.                          *)
(***************************************************************************)
EXTENDS Integers, Sequences, SequencesExt

CONSTANTS
    Devices,        \* the receivers that can be chosen, each with an address
    Controls,       \* the controls that are modelled, some of AllControls
    Enumerators,    \* the indices of the entries of a combo box
    SurroundCodes,  \* those entries of cSurround that gSurround has a code for
    Volumes,        \* volumes of a receiver, in half steps
    Positions,      \* where the user moves the slider to
    StatusOrder,    \* the controls RequestStatus asks for, in its order
    ReadLimit,      \* reports that fit in m_telnetRxBuf
    Limit           \* how often each kind of outside event happens

Switches == {"power", "mute", "dyneq", "cinemaeq"}
Boxes == {"input", "surround", "dynvol", "drc", "multieq", "eco", "mode"}
AllControls == Switches \cup Boxes \cup {"volume"}

Events == {"move", "change", "open", "drop"}

ASSUME SessionAssumption ==
    /\ Controls \subseteq AllControls
    /\ Enumerators \subseteq Nat /\ 0 \in Enumerators
    /\ SurroundCodes \subseteq Enumerators
    /\ Volumes \subseteq 0..196
    /\ Positions \subseteq 0..99 /\ \A p \in Positions : 2 * p \in Volumes
    /\ StatusOrder \in Seq(Controls)
    /\ \A c \in Controls : c # "drc" <=> \E i \in DOMAIN StatusOrder : StatusOrder[i] = c
    /\ ReadLimit \in Nat \ {0}
    /\ Limit \in [Events -> Nat]

VARIABLES
    address,   \* Settings: the chosen receiver
    sock,      \* the state of m_telnet
    peer,      \* the receiver m_telnet was last told to connect to
    closeDue,  \* close() was called while connecting
    window,    \* what the widgets show
    avr,       \* the receivers' values
    toAvr,     \* commands and queries on their way
    reports,   \* reports on their way, those in the socket's buffer first
    unread,    \* how many of them are in the socket's buffer
    missed,    \* history: controls whose last report was not, or wrongly, read
    count      \* history: events so far, bounded by Limit

vars == <<address, sock, peer, closeDue, window, avr, toAvr, reports, unread,
          missed, count>>

-----------------------------------------------------------------------------
\* The values a widget can have, and those a receiver can have: a receiver may
\* be in a mode that no table of the program knows.  Off is 0, on is 1.
Other == -1
OnOff == {0, 1}
Coded(c) == IF c = "surround" THEN SurroundCodes ELSE Enumerators
Shows(c) == IF c \in Switches THEN OnOff
            ELSE IF c = "volume" THEN 0..99 ELSE Enumerators
Has(c) == IF c \in Switches THEN OnOff
          ELSE IF c = "volume" THEN Volumes ELSE Coded(c) \cup {Other}

\* The number in a volume report: two digits, or three for a half step.
Digits(h) == IF h % 2 = 0 THEN h \div 2 ELSE 10 * (h \div 2) + 5

\* The volume that is read from a number; the slider goes up to 99.
Volume(n) == LET v == IF n > 100 THEN n \div 10 ELSE n
             IN IF v > 99 THEN 99 ELSE v

\* What the window shows for a report, if anything.
Shown(c, v) == IF c = "volume" THEN {Volume(Digits(v))}
               ELSE IF c \in Switches \/ v \in Coded(c) THEN {v} ELSE {}

\* What it shows for a report whose end is missing: a switch that is not "ON"
\* is off, a volume has lost one or more digits, a name is not found; only an
\* unknown one, such as "NET/USB", may begin with a known one.
ShownCut(c, v) ==
    {{}} \cup (IF c \in Switches THEN {{0}}
               ELSE IF c = "volume"
                    THEN LET n == Digits(v)
                         IN {{Volume(n \div 10)}}
                            \cup (IF v % 2 = 0 THEN {} ELSE {{n \div 100}})
                    ELSE IF v \in Coded(c) THEN {} ELSE {{w} : w \in Coded(c)})

\* OnEco and OnSoundMode are looked up with exceptions, which end the handler.
Throws(c, v) == c \in {"eco", "mode"} /\ v \notin Coded(c)

\* The value a widget's command gives to the receiver; lu() returns "" for an
\* enumerator without a code, and a command without a value changes nothing.
Code(c, w) == IF c = "mode" THEN {}
              ELSE IF c = "volume" THEN {2 * w}
              ELSE IF c \in Switches \/ w \in Coded(c) THEN {w} ELSE {}

\* Of the sound mode nothing is sent.
Commanded(c) == c # "mode"

Only(s) == CHOOSE x \in s : TRUE   \* the value there is

Command(c, v) == [kind |-> "set", c |-> c, v |-> v]
Query(c) == [kind |-> "ask", c |-> c, v |-> {}]
Report(c, v) == [c |-> c, v |-> {v}]
CutOff(c) == [c |-> c, v |-> {}]   \* the rest of a report

\* The rest of "PSMULTEQ:..." or of "SSSMG MUS" may begin with "MU", which is
\* read as a report that mute is off; other rests have no meaning.
Misread(k) == {c \in Controls : c = "mute" /\ k > 0 /\ reports[1].v = {}
                                /\ reports[1].c \in {"multieq", "mode"}}

\* Mutant: the status is not asked for.
NoRequest(s) == s

\* RequestStatus: the queries follow what has been written before.  The dynamic
\* range is not asked for.
RequestStatus(s) == s \o [i \in DOMAIN StatusOrder |-> Query(StatusOrder[i])]

Happens(e) == count[e] < Limit[e] /\ count' = [count EXCEPT ![e] = @ + 1]

-----------------------------------------------------------------------------
(* The connection. *)

Init ==
    /\ address \in Devices /\ sock = "connecting" /\ peer = address
    /\ closeDue = FALSE
    /\ window = [c \in Controls |-> 0]
    /\ avr \in [Devices -> [Controls -> UNION {Has(c) : c \in Controls}]]
    /\ \A d \in Devices, c \in Controls : avr[d][c] \in Has(c)
    /\ toAvr = <<>> /\ reports = <<>> /\ unread = 0
    /\ missed = {} /\ count = [e \in Events |-> 0]

\* Mutant: connecting leaves what the previous connection had in its buffers.
DialKeeps(d) ==
    /\ sock' = "connecting" /\ peer' = d /\ closeDue' = FALSE
    /\ UNCHANGED <<toAvr, reports, unread>>

\* ConnectTelnet while the socket is unconnected; connectToHost opens the
\* device with empty buffers.  What a receiver still takes from a connection
\* that has ended is among AvrChanges.
Dial(d) ==
    /\ sock' = "connecting" /\ peer' = d /\ closeDue' = FALSE
    /\ toAvr' = <<>> /\ reports' = <<>> /\ unread' = 0

\* The socket connects and RequestTelnetStatus writes the queries; or the device
\* was closed meanwhile, so nothing can be written: the socket disconnects once
\* its write buffer is empty, and ConnectTelnet follows.
Connected ==
    /\ sock = "connecting"
    /\ \/ /\ ~closeDue
          /\ sock' = "connected" /\ toAvr' = RequestStatus(toAvr)
          /\ missed' = {c \in Controls : \A i \in DOMAIN StatusOrder : StatusOrder[i] # c}
          /\ UNCHANGED <<peer, closeDue, reports, unread>>
       \/ /\ closeDue /\ toAvr # <<>>
          /\ sock' = "closing" /\ closeDue' = FALSE
          /\ UNCHANGED <<peer, toAvr, reports, unread, missed>>
       \/ closeDue /\ toAvr = <<>> /\ Dial(address) /\ UNCHANGED missed
    /\ UNCHANGED <<address, window, avr, count>>

\* No signal of a failed attempt is connected to anything.
ConnectFails ==
    /\ sock = "connecting" /\ Happens("drop")
    /\ sock' = "unconnected" /\ closeDue' = FALSE /\ toAvr' = <<>>
    /\ UNCHANGED <<address, peer, window, avr, reports, unread, missed>>

\* The receiver closes the connection, or what close() had to wait for has been
\* written: disconnected() is connected to ConnectTelnet.
RemoteCloses ==
    /\ sock = "connected" /\ Happens("drop") /\ Dial(address)
    /\ UNCHANGED <<address, window, avr, missed>>

Closed ==
    /\ sock = "closing" /\ Dial(address)
    /\ UNCHANGED <<address, window, avr, missed, count>>

\* onOpenDevice, by the state the dialog leaves m_telnet in.
OpenConnected(d) ==
    /\ sock = "connected"
    /\ \/ Dial(d)     \* close() has nothing left to write
       \/ /\ toAvr # <<>>
          /\ sock' = "closing" /\ reports' = <<>> /\ unread' = 0
          /\ UNCHANGED <<peer, closeDue, toAvr>>

\* Mutant: connecting goes on as if the device had not been closed.
OpenConnectingGoesOn(d) ==
    /\ sock = "connecting"
    /\ UNCHANGED <<sock, peer, closeDue, toAvr, reports, unread>>

\* connectToHost refuses while the socket is connecting.
OpenConnecting(d) ==
    /\ sock = "connecting" /\ closeDue' = TRUE
    /\ UNCHANGED <<sock, peer, toAvr, reports, unread>>

OpenUnconnected(d) == sock = "unconnected" /\ Dial(d)

OpenClosing(d) ==
    /\ sock = "closing"
    /\ UNCHANGED <<sock, peer, closeDue, toAvr, reports, unread>>

OpenDevice(d) ==
    /\ Happens("open") /\ address' = d
    /\ \/ OpenConnected(d) \/ OpenConnecting(d)
       \/ OpenUnconnected(d) \/ OpenClosing(d)
    /\ UNCHANGED <<window, avr, missed>>

-----------------------------------------------------------------------------
(* The widgets and the receiver. *)

Writable == sock = "connected" \/ (sock = "connecting" /\ ~closeDue)

\* The user changes a widget, or mutes by the tray menu.  Send writes when the
\* device is writable: while connecting the socket may keep what is written
\* until it is connected.
UserMoves(c, w) ==
    /\ Happens("move") /\ w # window[c]
    /\ window' = [window EXCEPT ![c] = w]
    /\ LET sends == toAvr' = Append(toAvr, Command(c, Code(c, w)))
       IN \/ Commanded(c) /\ Writable /\ sends
          \/ ~(Commanded(c) /\ sock = "connected") /\ UNCHANGED toAvr
    /\ UNCHANGED <<address, sock, peer, closeDue, avr, reports, unread, missed>>

\* Reports that a receiver sends reach the window unless it is closing.
Reports(c, v) == IF sock = "connected" THEN reports' = Append(reports, Report(c, v))
                 ELSE UNCHANGED reports

\* The receiver answers a query, and reports what a command changed; it may
\* also report when the command sets what was set.
AvrTakes ==
    /\ sock \in {"connected", "closing"} /\ toAvr # <<>>
    /\ LET m == Head(toAvr)
           old == avr[peer][m.c]
           new == IF m.v = {} THEN old ELSE Only(m.v)
       IN /\ avr' = [avr EXCEPT ![peer][m.c] = new]
          /\ \/ Reports(m.c, new)
             \/ m.kind = "set" /\ new = old /\ UNCHANGED reports
    /\ toAvr' = Tail(toAvr)
    /\ UNCHANGED <<address, sock, peer, closeDue, window, unread, missed, count>>

\* Somebody uses the front panel or another remote control.
AvrChanges(d, c, v) ==
    /\ Happens("change") /\ v # avr[d][c]
    /\ avr' = [avr EXCEPT ![d][c] = v]
    /\ IF d = peer THEN Reports(c, v) ELSE UNCHANGED reports
    /\ UNCHANGED <<address, sock, peer, closeDue, window, toAvr, unread, missed>>

\* How many of k reports are parsed: those before the first one that throws.
Parsed(k) == LET bad == {i \in 1..k : \E v \in reports[i].v : Throws(reports[i].c, v)}
             IN IF bad = {} THEN k ELSE Min(bad) - 1

\* Those of the first k reports that show a value of c.
Showing(c, k) == {i \in 1..k : reports[i].c = c /\ \E v \in reports[i].v : Shown(c, v) # {}}

\* Mutant: of several reports in one read the first counts.
FirstShown(c, k) ==
    IF Showing(c, k) = {} THEN window[c]
    ELSE Only(Shown(c, Only(reports[Min(Showing(c, k))].v)))

\* What the window shows of c after k reports: the last value among them.
LastShown(c, k) ==
    IF Showing(c, k) = {} THEN window[c]
    ELSE Only(Shown(c, Only(reports[Max(Showing(c, k))].v)))

\* Mutant: OnVolume and the others without SignalBlocker; a widget that changes
\* sends its command.
EchoUnblocked(old, new) ==
    LET changed == {c \in Controls \ Switches : Commanded(c) /\ old[c] # new[c]}
    IN SetToSeq({Command(c, Code(c, new[c])) : c \in changed})

\* The commands that showing reports causes: SignalBlocker keeps the widgets'
\* signals back.
Echo(old, new) == <<>>

\* onResponse: reports arrive until arrived are in the socket's buffer, and
\* with cut a part of the next one.  One readLine takes as much as m_telnetRxBuf
\* holds, line ends being '\r' alone, and leaves the rest for the next time.
\* ParseResponse shows what was read until a report throws.
OnResponse(arrived, cut) ==
    LET k == IF arrived > ReadLimit THEN ReadLimit ELSE arrived
        parsed == Parsed(k)
        next == reports[k + 1]
        told == {reports[i].c : i \in {j \in 1..parsed : reports[j].v # {}}}
        lost == {reports[i].c : i \in parsed + 1..k}
    IN /\ sock = "connected" /\ unread <= arrived
       /\ arrived > unread \/ (cut /\ k = arrived)
       /\ UNCHANGED <<address, sock, peer, closeDue, avr, count>>
       /\ cut => k < Len(reports) /\ next.v # {}
       /\ \E part \in IF cut /\ parsed = k THEN ShownCut(next.c, Only(next.v)) ELSE {{}},
             misread \in SUBSET (Misread(parsed) \ told) :
             /\ window' = [c \in Controls |-> IF part # {} /\ c = next.c THEN Only(part)
                                              ELSE IF c \in misread THEN 0
                                              ELSE LastShown(c, parsed)]
             /\ missed' = (missed \ told) \cup misread \cup lost
                          \cup (IF cut THEN {next.c} ELSE {})
       /\ toAvr' = toAvr \o Echo(window, window')
       /\ reports' = [i \in 1..Len(reports) - k |->
                         IF cut /\ i = 1 THEN CutOff(next.c) ELSE reports[k + i]]
       /\ unread' = arrived - k

Deliver == \E arrived \in 0..Len(reports), cut \in BOOLEAN : OnResponse(arrived, cut)

Offered(c) == IF c = "volume" THEN Positions ELSE Shows(c)

Next ==
    \/ Connected \/ ConnectFails \/ RemoteCloses \/ Closed
    \/ AvrTakes \/ Deliver
    \/ \E d \in Devices : OpenDevice(d)
    \/ \E c \in Controls : \E w \in Offered(c) : UserMoves(c, w)
    \/ \E d \in Devices, c \in Controls : \E v \in Has(c) : AvrChanges(d, c, v)

Spec == Init /\ [][Next]_vars

\* A dial ends one way or the other, TCP delivers, and a receiver works off
\* what it is sent: as long as one of these is due, one of them happens.
Goes == Connected \/ Closed \/ AvrTakes \/ Deliver

Fairness == WF_vars(Goes)

FairSpec == Spec /\ Fairness

-----------------------------------------------------------------------------
\* What is on its way: about a control, with at most one of its values.
Wellformed(m) == m.v = {} \/ \E v \in Has(m.c) : m.v = {v}
Commands == {m \in [kind: {"set", "ask"}, c: Controls, v: SUBSET Int] : Wellformed(m)}
Reported == {m \in [c: Controls, v: SUBSET Int] : Wellformed(m)}

\* The types, and what of the session there can be in which state of the socket.
SocketType ==
    /\ address \in Devices /\ peer \in Devices /\ closeDue \in BOOLEAN
    /\ sock \in {"unconnected", "connecting", "connected", "closing"}
    /\ closeDue => sock = "connecting"

ValueType ==
    /\ window \in [Controls -> Int] /\ avr \in [Devices -> [Controls -> Int]]
    /\ \A c \in Controls : window[c] \in Shows(c)
    /\ \A d \in Devices, c \in Controls : avr[d][c] \in Has(c)
    /\ missed \subseteq Controls /\ count \in [Events -> Nat]

QueueType ==
    /\ toAvr \in Seq(Commands) /\ (sock = "unconnected" => toAvr = <<>>)
    /\ reports \in Seq(Reported) /\ (sock # "connected" => reports = <<>>)
    /\ unread \in 0..Len(reports)

TypeOK == SocketType /\ ValueType /\ QueueType

\* While connected, the window is connected to the receiver that was chosen last,
\* also if the choice was made while an earlier attempt was under way, which
\* connectToHost does not allow to be replaced.
ChosenPeer == Writable => peer = address

OnItsWay(c) == \/ \E i \in DOMAIN toAvr : toAvr[i].c = c
               \/ \E i \in DOMAIN reports : reports[i].c = c

\* When nothing about a control is on its way, the window shows what the receiver
\* has, whoever changed it and in whatever order commands and reports crossed,
\* except for values that the protocol tables lack and reports that were cut.
WindowAgrees ==
    \A c \in Controls :
        LET has == Shown(c, avr[peer][c])
        IN sock = "connected" /\ ~OnItsWay(c) /\ c \notin missed
           /\ has # {} /\ Code(c, window[c]) # {}
           => has = {window[c]}

\* Why the window agrees: the last report on its way is about the present value,
\* and without a report either the two agree, or the window's own value or a
\* query is on its way to the receiver.
Pending(c) == {i \in DOMAIN reports : reports[i].c = c /\ reports[i].v # {}}

LastIsPresent(c) ==
    \A i \in Pending(c) : (\A j \in Pending(c) : j <= i) => reports[i].v = {avr[peer][c]}

Asking(c) == \E i \in DOMAIN toAvr : toAvr[i] = Query(c)

Setting(c) ==
    \E i \in DOMAIN toAvr :
        /\ toAvr[i] = Command(c, Code(c, window[c]))
        /\ \A j \in DOMAIN toAvr : j > i => toAvr[j].c # c \/ toAvr[j].v = {}

Agrees(c) == LET has == Shown(c, avr[peer][c])
             IN has = {} \/ has = {window[c]} \/ Code(c, window[c]) = {}

Follows(c) ==
    /\ LastIsPresent(c)
    /\ c \notin missed /\ Pending(c) = {} => Agrees(c) \/ Asking(c) \/ Setting(c)

SessionInv == sock = "connected" => \A c \in Controls : Follows(c)

\* The window and the receiver do not go on answering each other: in the end
\* nothing is on its way but reports that wait for the next readyRead.
Settles == <>[](sock # "closing" /\ toAvr = <<>> /\ Len(reports) = unread)

\* A receiver that is chosen gets connected, unless another is chosen or an
\* attempt to connect fails, after which there is no other.
ChosenIsReached ==
    \A d \in Devices :
        address = d ~> \/ address # d \/ sock = "unconnected"
                       \/ (sock = "connected" /\ peer = d)

\* The slider shows the whole steps of the receiver's volume when nothing about
\* it is on its way.
VolumeAsReported ==
    "volume" \in Controls \ missed /\ sock = "connected" /\ ~OnItsWay("volume")
    => window["volume"] = avr[peer]["volume"] \div 2

=============================================================================
