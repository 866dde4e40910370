# TLA+ models of DenonControl

This directory holds TLA+ models of the programs in this repository, the TLC
configurations that check them and proofs that TLAPS checks. The reference is
the code: every definition stands for the lines that the table `map` of
`PROJECT.json` names.

## 1. The system

The repository builds two programs on one library (`lib/`).

**ssdpBridge** (`ssdpBridge/main.cc`, `lib/network/ssdp.cc`,
`lib/network/ssdpBridge.cc`, `lib/network/ssdpIpc.cc`) runs on a router between
two networks. It lets media clients on one ("client") find media servers on the
other ("server") by SSDP, which is link-local multicast and does not cross a
router by itself. It also answers local programs that speak the minissdpd
protocol.

**denonUi** (`qtui/`) is a desktop remote control of an audio receiver. It sends
commands over telnet (`lib/serial.cc`), listens to UPnP events
(`qtui/UpnpEvents.cc`, `lib/upnpEvent.cc`) and finds receivers by SSDP.

### Components

| component | state | operations | what is hard | what makes it correct |
|---|---|---|---|---|
| SSDP messages (`ssdp.cc`) | none | parse, write, convert Response to Notify | order and repetition of header lines, text left in the send buffer | what is read can be written and read again |
| SSDP connection (`ssdp.cc:264-389`) | two sockets, a receive buffer and a send buffer each | receive (filtered), broadcast, send to one | completion order, one buffer for all sends, multicast loopback, loss | a datagram is accepted by one socket at most, and what leaves is what was given |
| Service cache (`ssdp.h:64-75`) | map from (urn, location) to notify | insert or replace, iterate | the order that decides which keys are equal | only announced services, none lost |
| Bridge (`ssdpBridge.cc`) | the cache | handler for each side | interleaving of the two networks, exceptions | no loops, traffic crosses, searches are answered |
| MiniSSDP server and client (`ssdpIpc.cc`) | acceptor, one socket, two buffers | version, by type, by usn, all, submit | blocking read on the io thread, re-accepting into a socket in use, piecewise answers, a reference into a vector that grows | an answer as long as its reader asks, the bridge goes on |
| Bridge settings (`main.cc`, `ssdp.cc:46-92`) | a file | load, set a part, save on exit | saving after a failed load, runs that overlap or are killed, different paths for reading and writing | what was set is what is run |
| HTTP parser (`http.cc:86-171`) | buffer, fill index, last packet | read into buffer, take a packet | packets cut anywhere, fields of old packets | packets in order, complete, at once |
| Blocking HTTP (`blockingHttp.cc`) | socket, parser, last response | request | nobody looks at a failure | the answer belongs to the request |
| UPnP events (`UpnpEvents.cc`, `upnpEvent.cc`) | subscription index, timer, callback sockets, one parser | subscribe to seven services in turn, renew, receive | renewal during a chain, two callbacks at a time | every service stays subscribed, events are not mixed up |
| UPnP control (`upnpControl.cc`) | the last request of each service | SOAP calls | parameters kept from call to call | a call sends its own parameters |
| Main window (`MainWindow.cc`) | telnet socket, widgets, address | connect, reconnect, commands, reports | reconnecting, loop between widgets and receiver | window and receiver agree in the end |
| Serial protocol (`serial.cc`) | none | format commands, parse reports | half steps, unknown values | a report sets what a command asked for |
| App interface, SCPD reader | none | XML extraction | positional reading | - |

### How they interact

Bridge: the `io_context` runs on one thread (`main.cc:163`). Each completion
handler of `ScheduleRx` filters the datagram, calls the bridge's handler, which
parses, updates the cache and calls `broadcast` and `send`, and schedules the
next receive. The handlers of both sides, the sends in flight and the IPC server
share that thread and the cache. No exception is caught: one that leaves a
handler ends `run()`.

The bridge program is started both by an administrator, who sets parts of the
settings, and as the service that bridges; the runs meet in the settings file.

User interface: Qt's event loop is the only thread. Signals connect the sockets,
the parser, the protocol and the widgets. A call of a UPnP service would block it
until the call returns, but nothing in `qtui/` constructs a `QHttpConnection` or
one of the SOAP objects yet: only the tests do, over a connection of their own
(`test/upnpControl.cc`). The event callbacks are built but not started: the call of
`SetupHttp` is commented out in `MainWindow.cc:84` with the words
"`Denon::Http::Parser has a bug causing exceptions`".

## 2. Modules

| module | models | extends / composes |
|---|---|---|
| `SsdpMessages` | the three messages by the fields the bridge acts on | - |
| `SsdpCache` | `ServiceCache`, with the equality its `operator<` induces | `SsdpMessages` |
| `SsdpBridge` | bridge, both connections, send buffers, the networks | `SsdpCache` |
| `SsdpRelay` | the abstract promise of the bridge | `SsdpMessages` |
| `SsdpBridgeProofs` | theorems about `SsdpBridge`, and that it implements `SsdpRelay` | `SsdpBridge` |
| `SsdpWire` | the text of messages line by line, and the send buffer | - |
| `SsdpWireProofs` | theorems about `SsdpWire` | `SsdpWire` |
| `MiniSsdp` | the IPC server on the bridge's thread, its clients, and what the bridge's handlers do to the cache | - |
| `MiniSsdpProofs` | what can stop the bridge, and what its answers are for their readers | `MiniSsdp` |
| `BridgeConfig` | runs of the bridge program and the settings file | - |
| `BridgeConfigProofs` | theorems about `BridgeConfig` | `BridgeConfig` |
| `HttpParser` | `Denon::Http::Parser` and the streams it is fed with | - |
| `HttpParserProofs` | lemmas on the parser and the streams, for the next two | `HttpParser` |
| `UpnpEvents` | the subscription chain, its timer and the callback connections | `HttpParser` |
| `UpnpEventsProofs` | theorems about subscriptions and callbacks | `UpnpEvents`, `HttpParserProofs` |
| `SoapControl` | `AvTransport`, `RenderingControl`, `DenonAct` over `QHttpConnection` | `HttpParser` |
| `SoapControlProofs` | what is sent and what is returned | `SoapControl`, `HttpParserProofs` |
| `AvrSession` | the telnet session of the main window with receivers, and `serial.cc` | - |
| `AvrSessionProofs` | theorems about `AvrSession` | `AvrSession` |
| `MC...` | instances for TLC | the module of that name |

### SsdpBridge

| variable | code |
|---|---|
| `cache` | `Bridge::m_cache.services` |
| `txBuf[s]` | `m_txBuf` of socket `s` |
| `txOps` | `async_send_to` calls whose datagram has not left |
| `inbox[s]` | datagrams on the network or in the kernel's queue for `s` |
| `running` | `io_context::run()` has not ended |
| `emitted`, `handled`, `log` | history: what has left, which datagrams reached a handler, what hosts sent |

The sockets are `<<side, "multicast">>` and `<<side, "listen">>`. A datagram to
the group reaches both multicast sockets, whatever network it came from
(`ssdp.cc:300`: Linux does not filter by interface), and comes back to the
sender. The multicast sockets are bound to the group, the listen sockets to the
interface.

| action | code |
|---|---|
| `Receive(s)` | the completion handler of `ScheduleRx` (`ssdp.cc:298-309`) with everything it calls |
| `ClientNotify`, `ClientSearch`, `ClientOther` | the branches of `OnReceiveFromClient` |
| `ServerNotify`, `ServerResponse`, `ServerOther` | the branches of `OnReceiveFromServer` |
| `ParseFails` | the exception of `Parse`, which ends the process |
| `Filtered` | a sender outside the /24, or the bridge itself |
| `Transmit(o)` | a send that had to wait is carried out and reads the buffer |
| `HostSends`, `Lose` | the networks (external) |

`Send` is `Base::send` for all the texts a handler gives to it. Asio tries the
system call at once, and only when the socket is not ready does the operation
wait; it holds a reference to `m_txBuf`, not a copy. `SendsMayWait` says whether
that can happen. The order of the answers to one search is the cache's iteration
order and is left open: `Send` chooses which text of each socket comes last.

Abstractions: a message is a record of its kind, urn and url; the free-form
fields are in `SsdpWire`. `ResponseText` is a response without a url, because
`Response::operator std::string` writes none. The receive queues are sets from which any datagram may
be next. Only texts that fit the 1024-byte buffer are modelled. Ports are left out:
the code sends everything to 1900 (`ssdp.cc:359`), the answers too, whatever port
the search came from, so "answered" means sent to the machine that asked. `Bridge`'s IPC server reads the cache and leaves it as it is
(apart from empty `USN` fields that `operator[]` adds); it is in `MiniSsdp`.

### SsdpRelay

A relay knows the latest announcement of each urn, and passes a datagram of one
network on, at most once and in one step that also undertakes every send it
causes. The refinement mapping takes a datagram as passed when it is in
`handled`, an item as sent when it is emitted or given to send, and the cache's
values for what is known. Sockets, filter, queues, buffers and loopback are the
detail it hides. `Transmit`, `Lose` and `Filtered` are stutters.

### SsdpWire

A message is a sequence of lines, each a key and a value. `ReadLine` is the
callback of `ParseSddp`; a line without a colon is one with the empty key, whose
text is dropped (`splitKeyVal`). `Pass` is one call of `Base::send`: the text goes to the
front of the buffer, and what was behind it stays and is sent, too (`ssdp.cc:285`
sends the whole array). Texts cover each other line by line; the first line
behind a text may have lost its beginning, and `KeyEnds` says what is left of
its key ("HOST" can read as "ST"). `KeyOrder` is the keys there are, in the order
in which a `std::map` holds them.

### HttpParser

Cells instead of characters: a header line, the empty line, a piece of the body.
`Fill(p, n)` is one `read` from the socket of peer `p` into `currentBuffer`, with
any `n` that fits; `MarkRead` and `MarkReadNone` are the two results of
`markRead`. `ParseHeader` does not see the last header line, because `markRead`
cuts the header before its final line end and `splitlines` reports a line only at
its end. `disturbed` records that cells of one peer were put behind cells of
another. The module has no `Next`: `UpnpEvents` and `SoapControl` say who reads,
until when, and what becomes of a packet.

### UpnpEvents

| variable | code |
|---|---|
| `registered` | `m_deviceAddress` is set |
| `subIdx`, `subSocket` | `m_subscribeIdx`, the state of `m_subSocket` |
| `asked` | the service whose SUBSCRIBE waits to be written, after `close()` |
| `timer`, `timeout` | `m_subTimer`; `timeout()` is due |
| `left[u]` | the device (external): how long it still notifies of service `u` |
| `arrived[p]` | how many cells of `wire[p]` are in that socket's own buffer, which Qt has signalled and `onCbRead` had no room for |
| `failed`, `held`, `met` | history: the chain lost a request; an exception left packets in the buffer; the notifications that have been in the buffer with pieces of another connection |
| `sent` to `disturbed` | `m_cbParser` and the callback connections, from `HttpParser` |

| action | code |
|---|---|
| `Register`, `onResubsribe` | the functions of that name, with the `onSubsrcibeDisconnected` they call (`Begin`) |
| `onSubsrcibeConnected` | the slot: one SUBSCRIBE, the index goes on, `close()` |
| `Closed`, `Breaks` | `disconnected()` and its slot, after the request was written or lost |
| `ConnectFails` | an attempt ends with an error; no slot is connected to that |
| `Tick` | time, for the program's timer and the device's |
| `DeviceNotifies` | the device (external); `onCbConnection` gives each connection the same slot |
| `Read(p, k)` | `k` cells arrive at the socket of `p`, `readyRead` is signalled, and `onCbRead` does its one read |
| `HandleEvent`, `EndRead` | the body of its loop, its end |

`onCbRead` runs to its end before any other handler: `reading` names the
connection it reads. It reads once, at most what the parser has room for. What stays
in the socket is not signalled again until more arrives, so `Read(p, k)` needs `k > 0`
in `onCbRead`: bytes that nobody reads stay where they are. That `read` may return
-1 is not modelled: a socket that is open and has signalled `readyRead` does not say
so. The clock has no bound; it is finite because it counts to `Period`. `connectToHost` is refused while the socket connects or
closes, so a renewal during a chain only resets the index, and the disconnection
that is coming anyway goes on with it. What `EventParser` throws on is a length of
bodies (`Malformed`): only that it throws matters. `Register` is called once
(`MainWindow.cc:156`).

### SoapControl

One action for each step of `QHttpConnection::Http`: `Connected` (what was filled
in is written), `Read`, `ReadOn` and `ReadPacket`. Nobody looks at the results of
`waitForConnected`, `waitForBytesWritten` and `waitForReadyRead`. So after an attempt
that fails (`ConnectFails`) `Http` goes on to read from the closed socket, where
`ReadFails` ends the loop; a time-out is a `Read(0)`, and so is every read while the
buffer is full.

`Call` is the beginning of a method: `FilledIn` is `m_request` as it goes out, with
the parameters of an earlier call when the method sets none (`Keeps`), and
`ActionName` the name it goes out under, which is `GetMute` for `SetVolume`
(`upnpControl.cc:354`). `Return` closes the socket and hands `m_response` to the
method. There are three kinds of methods (`Decoded`): those that decode it, and
throw if it is not what they expect; `GetMute`, which returns the body as it is
(`raw`, `upnpControl.cc:348`); and those that return nothing (`plain`).
`Satisfies` says which object's state another object's parser accepts.
`m_response` and the parser are kept across calls, as in the code. Each answer has
one body and one name; what is in it is data. `received` says for each request that
arrives which call sent it. `torn` records that a call ended with a part of an
answer in the parser.

### MiniSsdp

| variable | code |
|---|---|
| `thread` | the thread of the `io_context`: free, `reading` (in `ReadString`), `sending` (in `m_socket.send`), ended, or `exhausted` (ended for lack of memory) |
| `tx` | the answer it is sending |
| `served` | the connection `m_socket` has; `again`: its next accept has failed, as every later one will |
| `waiting`, `due` | receives that wait, receives whose handler is due |
| `first` | the first byte of `m_rxBuf`, the only one a handler looks at |
| `room`, `torn` | the capacity of `m_txBuf`; a count was written to freed memory |
| `cache` | `m_cache.services`, in its order |
| `client`, `request`, `rx` | `MiniSsdp::Client` in other processes |
| `toServer`, `toClient` | the two directions of each connection |
| `count`, `searched`, `inStep`, `cut` | history; `cut`: to whom an answer was sent in part |

| action | code |
|---|---|
| `Accept`, `AcceptFails` | the handler of `async_accept`: without a look at the error it schedules a receive and itself, without an end |
| `OutOfMemory` | what these receives take has no bound |
| `Receive(n)`, `HandleRequest` | a receive of up to 64 bytes; its handler, with `GetVersion`, `GetAll`, `GetType`, `GetUSN` |
| `Send` | the thread goes on in `m_socket.send` when the client has read, or is gone |
| `ReadString` | a byte comes for the blocking read of a text, whose completion condition then reads past its buffer |
| `HeapAborts` | undefined behaviour that shows |
| `Connect`, `Request`, `SubmitService`, `Dispatch(c, k)`, `Close` | the client |
| `BridgeCaches` | the bridge's own handlers, between those of the server |

*What ends and what goes on.* Neither completion condition looks at the error it is
given: at the end of the stream `ReadString` (`ssdpIpc.cc:160-164`) and the client's
`Dispatch` (`ssdpIpc.cc:346-349`) ask for a byte again, for ever. In the model the
thread stays `"reading"` and the client stays waiting. `m_socket.send`
(`ssdpIpc.cc:208`) waits until the kernel has room for a byte and sends what there is
room for (`Pipe`); the rest is never sent (`SendSome`, `SendWaits`). To a client that
has gone it throws (`SendFails`). `AcceptFails` has no bound either: `MaxReceives`
only bounds how many of the waiting receives the model counts, never whether the
accept fails again. What clients send is assumed to find room.

Bytes are below `2 * Septet`; with a small `Septet` lengths of several bytes are
short. The pure part (`CodeLength`, `LengthAt`, `Ends`, `Ask`, `Strings`,
`SplitResponses`) is what client and server compute from bytes; `Ask` is the
completion condition of `Dispatch`, called with any prefix of an answer.

*Undefined behaviour.* `GetIf` counts through `char& nrServices = m_txBuf[0]`
while `AddString` lets `m_txBuf` grow. The model counts the services whose texts
fit the capacity (`Counted`), sends what is in the buffer, and lets the process
end at any later moment (`HeapAborts`). A reader that looks for the end of a
length behind the bytes it has (`Overruns`) crashes.

*Submissions.* The server takes the byte of a `Submit` and leaves its texts on the
stream, where the next receives find them. A field that the notify lacks is sent
as a text of length zero, whose byte is a request for the version, and a text of one
or two characters begins with a byte that is a search. A client that submits such a
byte counts as one that has searched (`searched`).

What the model shows beyond its properties, read off the code: the second client
is never accepted; a search by type or USN is never answered, it blocks the bridge
or ends it; a client that closes its connection ends the bridge at the answer
that follows; a `Submit` and the request after it may be taken by one receive,
which looks only at the first byte. `BridgeAtWork` and `Answered` state how far the
service reaches all the same.

### BridgeConfig

| variable | code |
|---|---|
| `etc`, `home` | `/etc/ssdpBridge` and `~/.ssdpBridge`, as the parts that are in the file |
| `options`, `todo`, `stage` | the command line of each run and where `main` is with it |
| `cfg` | the `settings` a run holds |
| `chosen`, `undisturbed`, `starts` | history |

Each option that sets something is `LoadSettings` (the constructor of
`SettingsConfiguration`), a change (`SetServer`, `SetClient`, `SetIpc`, `AskBoth`,
`ReadBehind`), `Truncate` and `Save` (its destructor). The file is a prefix of the
three parts; `Load` is `serialize`, which keeps the defaults of what is missing
because the exception is caught. `ReadBehind` is the undefined reading of
`itfs.end()` or of an index the user mistyped; what is read is `Garbage`.
`SaveShort` is a full disk. `Bridge` reads the user's file first, insists on all
parts, and throws without two addresses (`BridgeThrows`).

### AvrSession

| variable | code |
|---|---|
| `address` | `settings.GetIpAddress()` |
| `sock` | `m_telnet.state()`; `"closing"` is its ClosingState |
| `peer` | the receiver `m_telnet` was last told to connect to |
| `closeDue` | `close()` was called while connecting (QTcpSocket remembers it) |
| `window[c]` | what the widget of control `c` shows |
| `toAvr` | the socket's write buffer and what is under way to the receiver |
| `reports`, `unread` | what is under way to the window; the first `unread` are in the socket's read buffer |
| `avr[d][c]` | the receivers (external) |
| `missed` | history: controls whose last report was not read, or read wrongly |
| `count` | history: outside events, bounded by `Limit` |

| action | code |
|---|---|
| `Init` | the constructor, `SetupTelnet` with its first `ConnectTelnet` |
| `Connected` | `connected()`: `RequestTelnetStatus`; or, after a `close()`, the socket goes on closing |
| `ConnectFails` | an attempt ends with an error; no slot is connected to that |
| `RemoteCloses`, `Closed` | `disconnected()`: `ConnectTelnet` |
| `OpenDevice(d)` | `onOpenDevice` accepted with the address of `d`, one disjunct for each state of the socket |
| `UserMoves(c, w)` | a lambda of `SetupCommandConnections`, or the tray's Mute, with the `Command` it calls and `Send` |
| `OnResponse(arrived, cut)` | `onResponse`: `readLine`, `ParseResponse`, and the `On...` slots |
| `AvrTakes`, `AvrChanges` | the receiver (external) |

*The socket* is modelled by what Qt's documentation and sources say of the calls
made here. `connectToHost` opens the device at once, with empty buffers, so
`isWritable()` holds while connecting; what is written then may be kept or lost.
`connectToHost` is refused while the socket is connecting or connected.
`close()` ends a connection at once when nothing waits to be written, otherwise
the socket stays in ClosingState until it is; while connecting it is carried out
when the connection is there. `readLine` ends at `'\n'`, which receivers do not
send, so one call takes what is buffered up to 255 bytes; `ReadLimit` counts
whole reports.

*Values* are the indices that the enumerations share with the combo boxes
(`main.ui`), `Other` for what the tables of `serial.cc` lack, half steps for a
receiver's volume. A partial map (`lu`, `gSurround`, ...) yields the empty set or
a singleton. A report that is cut shows what its first part is taken for
(`ShownCut`); of the second part only one reading matters, `MU...` (`Misread`).
`Throws` are the two tables that are read with an exception: the rest of what was
read is lost, the program goes on (`QExceptionApplication`).

*Receivers* answer in order, report every change whoever makes it, ignore a
command without a value and take a volume of one digit. One receiver value
stands for both `PW` and `ZM`. UPnP events, which also set the power check box,
are another part's state.

## 3. Runs

| run | question | result |
|---|---|---|
| `bridge_atonce` | sends leave at once; three datagrams of nine kinds | passes |
| `bridge_live` | progress under fairness, when sends may wait and datagrams are lost | passes |
| `bridge_overwrite` | is what leaves what was given to send? | violated |
| `bridge_urnkey` | is every announced service cached? | violated |
| `wire_text` | do messages survive reading and writing? | passes |
| `session_window` | commands and reports that cross on one connection | passes |
| `session_connect` | choosing receivers, failing and lost connections | passes |
| `session_halfstep` | is a half step of the volume shown as such? | violated |
| `ipc` | local clients and the bridge's thread | passes |
| `events` | subscriptions that lapse, callbacks that meet in one parser | passes |
| `control` | SOAP calls over a connection that fails or breaks | passes |
| `config` | overlapping and killed runs of the bridge program | passes |

**What the passing runs show.**
`HandledOnce`: no datagram is handled twice and none loops, although each
multicast arrives on two sockets and comes back to the bridge. `RelayCrosses`:
multicasts go to the other network only, answers to the machine that asked.
`CacheSound` and `AnswersMatch`: cache and answers contain only what was
announced. `CacheOnlyGrows`: no urn is forgotten, a byebye included.
`ImplementsRelay`: the refinement. `AnnouncementsReachClients` and
`SearchesAnswered`: the bridge does its work unless it has ended.
`RoundTrip`, `ResponseAsNotifyKept`, `AnswerKeepsUrn`:
the conversions a message goes through keep urn and url. `FieldsAsWritten` and
`TailKeepsFreeFields`: which of several lines counts, and what the text behind a
message can change. `WindowAgrees`: when nothing about a control is on its way, the window
shows what the receiver has, however commands, reports and other people's
changes crossed; it makes three exceptions, which are the ways in which the window
can stay wrong: a value no table knows, a report that was cut or followed one
that throws, and a control that is never asked for (the dynamic range).
`Settles`: window and receiver do not answer each other for ever, which is what
`SignalBlocker` is for. `ChosenPeer`, `ChosenIsReached`: a choice made in
any state of the socket is effective at once for what is written, and
leads to a connection with that receiver unless an attempt fails; then nothing tries again,
which the property says by its exception.

`PacketsInOrder`, `NothingHeldBack`, `AllReturned`: notifications are taken in
order, whole, at once and all, however they are cut. The exceptions name what can
go wrong: pieces of two connections that meet in the one parser (`disturbed`), and
packets behind one that is thrown on (`held`). `LapsesOnlyWhileRenewing`: the timer
has exactly the period of the subscriptions, so they lapse at every renewal, but
never for longer than until the chain has come by, unless a request is lost; then
only the next period helps. `EverySubscribed`: that the timer resets the index of
a chain under way starves no service.

`AnswerBelongs`: a call returns the answer to that call; when its connection fails
it may return an earlier answer as if it were new. `NeverMisread`: even then, and
with pieces of other answers in the parser, an answer is not taken for that of
another method, except for the state of `AvTransport`, which `RenderingControl`
accepts as its own. `SentAsAsked`: requests arrive in the order of the calls with
their parameters; a method that sets none sends those its object set last, and
`SetVolume` goes out under the name of `GetMute`. `CallReturns`: the loop ends,
unless the parser was led astray.

`ReadsExactly`: lengths of one to five bytes survive, and the client's completion
condition is right for every prefix of an answer with a true count: it asks for no byte too
many and ends at the end; a length that is cut in two makes it read past its
buffer (in behaviours `m_txBuf` grows at the first long answer, whose count is lost, so
long answers are cut up by the invariant itself). `AnswerSuffices`: though the count of an answer may be lost, it is never
larger than what is sent, so no client in step waits for ever. `BridgeAtWork`: what
can stop the bridge is a search by type or USN of the client that is served, its
going away, or the lost count; other clients, versions and submissions cannot.
`Answered`: although the first receive of a connection is the only one meant for
it, the accepts that fail keep scheduling others, so each request alone on its way
is answered.

`BridgeUsesChosen`: a bridge starts with what was last set for each part, over any
number of runs that set other parts, or with the settings of its user, whatever
was set; nothing is promised after runs that overlapped or were killed while they
wrote (`undisturbed`). `TypeOK` of `config` says that settings are whole in
memory, whatever is in the file.

**What the violations show.** Each is listed under `findings` with the lines that
disagree: the buffer that is written while a send may still read it; the key
order that compares a location with itself; the number that is taken for a half step by its size
alone (a receiver at 5.5 reports `055`, the slider goes to 55). Two more deviations are
in the models without a run of their own: an answer to a search carries no
`LOCATION` (`ResponseText`, `ssdp.cc:182`; `ssdp.h:42` documents the field), and a
`CONTENT-LENGTH` in the last header line, where `http.cc:63` writes it, is not seen
(`ParseHeader`, `http.cc:147`), so that the length of an earlier packet counts;
`events` and `control` therefore let the device put it before another field.

**Bounds.** Three datagrams (`MaxDatagrams`) are enough for an announcement, a
second one that replaces it or comes from the other side, and a search between
or after them; every property relates at most two datagrams and a later state.
Two urns and two locations make keys that differ in one part only. Two hosts on
the client network and one near and one far on the other cover what the filter
tells apart. The violations use less traffic (`MCFewTraffic`): two
announcements, a response and a search that both entries match, so that two texts
compete for one buffer; `bridge_live` has one service that is announced again and
again and searched for. What `bridge_atonce` checks for sends that leave at once is
proved for sends that wait, too. `wire_text` reads every header of up to three lines
over seven lines that include a repeated known and a repeated free key, and puts a
shorter text over it in the buffer (`MaxLines`). `session_window` has two moves of widgets and one
change by somebody else, so that two commands are under way while a report crosses
them, and reads up to two reports at once; the controls are the volume (half steps),
the sound mode (throws, cannot be set, its rest may read as mute), mute (a switch) and
the dynamic range (never asked for).
`session_connect` has two receivers and two choices, one lost connection or
failed attempt, one move and one change: a choice during an attempt, and another during
the close that follows; the control is the surround mode, with an entry that has no
code. `events` has two services, two callback
connections, two notifications with and without a body (the empty one is thrown
on), a buffer for one packet and a bit, a period of two ticks and two ticks, so that a
renewal meets a chain under way, and one request that is lost. `control` has
three calls of four methods: two that set parameters, one of them under another
name, one that keeps them, and one of another object with the same name; one
failure, anywhere. Three calls let an answer be kept over a call that fails, and
what the parser kept of it meet the answer of a third. `ipc` has one client with three requests and one that only
connects; `Septet` is 6, so that a text of six characters has a length of two
bytes; the three contents of the cache are nothing, what fits behind the count, and
what does not; two receives at most wait (`MaxReceives`), because the code has no
bound. `config` has three starts of two overlapping runs, two interfaces and a wrong
name: one run that sets, another that sets something else, and the bridge.

**Deadlock** is not checked: the bridge waits for datagrams that may never come
and may have ended, and the others stop when their bounded events have happened.

**Fairness.** `bridge_live` assumes only that as long as handlers are ready, one of
them is run (`Ready`), which is what `io_context::run` does; which one is left open,
as every queue is finite. Hosts need not send; datagrams may be lost, and the
properties except those. `AnnouncementsReachClients` says that again and again there
is a moment at which every announcement heard so far has been relayed, or was lost.
`events` assumes that the event loop runs what is due: the timer's handler, the
ends of attempts and connections, `onCbRead` for data that has arrived. `control`
assumes that a call runs on and that the device answers or closes the
connection. `ipc` assumes that the `io_context` runs what is ready as long as its
thread is free; the two kinds of handlers and the accept that fails again and again
each get their turn, as Asio's queue is first in, first out. Clients are not fair.
`session_connect` assumes that as long as one of these is due, one of them happens
(`Goes`): an attempt to connect ends, TCP delivers and `readyRead` follows, a closing
socket gets its bytes written, a receiver works off what it is sent. The user, other people and connections that
break are not fair.

## 4. Proofs

Assumed of the constants: `AddressAssumption` (distinct interfaces, hosts are not
the bridge, the group is no machine), `TrafficAssumption`, `SubnetAssumption`
(the two interfaces are on different /24 networks, and a machine in an
interface's /24 is on that network), `SsdpAssumption`. The code does not check
the third: `--setup` only makes the interfaces differ. Any number of hosts, urns,
locations and datagrams is allowed.

| module | theorem | statement |
|---|---|---|
| `SsdpBridgeProofs` | `TypeCorrect` | `Spec => []TypeOK` |
| | `InvariantHolds` | `Spec => []IInv` |
| | `HandledOnceHolds` | `Spec => []HandledOnce` |
| | `RelayCrossesHolds` | `Spec => []RelayCrosses` |
| | `CacheSoundHolds` | `Spec => []CacheSound` |
| | `CacheOnlyGrowsHolds` | `Spec => CacheOnlyGrows` |
| | `AnswersMatchHolds` | `Spec => [](SentIntact => AnswersMatch)` |
| | `SentAtOnceIntact` | `~SendsMayWait => (Spec => [](SentIntact /\ AnswersMatch))` |
| | `RelayImplemented` | `Spec => ImplementsRelay` |
| `SsdpWireProofs` | `FieldsRead` | `Spec => []FieldsAsWritten` |
| | `HeardSurvives` | `Spec => []RoundTrip` |
| | `ResponsesAnnounced` | `Spec => []ResponseAsNotifyKept` |
| | `AnswersNameUrn` | `Spec => []AnswerKeepsUrn` |
| | `TailHarmless` | `Spec => []TailKeepsFreeFields` |
| `MiniSsdpProofs` | `TypeCorrect` | `Spec => []TypeOK` |
| | `BridgeStaysAtWork` | `Spec => []BridgeAtWork` |
| | `AnswersRead` | `Spec => []ReadsExactly` |
| | `AnswersSuffice` | `Spec => []AnswerSuffices` |
| `UpnpEventsProofs` | `TypeCorrect` | `Spec => []TypeOK` |
| | `LapsesAreRenewed` | `Spec => []LapsesOnlyWhileRenewing` |
| | `CallbacksInOrder` | `LengthSeen => (Spec => []PacketsInOrder)` |
| | `CompleteIsTaken` | `LengthSeen => (Spec => []NothingHeldBack)` |
| `SoapControlProofs` | `TypeCorrect` | `Spec => []TypeOK` |
| | `RequestsSent` | `Spec => []SentAsAsked` |
| | `AnswersNeverMisread` | `Spec => []NeverMisread` |
| | `AnswersBelongToCalls` | `LengthSeen => (Spec => []AnswerBelongs)` |
| `BridgeConfigProofs` | `TypeCorrect` | `Spec => []TypeOK` |
| | `PartsKept` | `Spec => []FileHoldsChosen` |
| | `BridgeStartsRight` | `Spec => BridgeUsesChosen` |
| `AvrSessionProofs` | `SessionTypeCorrect` | `Spec => []TypeOK` |
| | `ChosenPeerHolds` | `Spec => []ChosenPeer` |
| | `WindowAgreesHolds` | `Spec => []WindowAgrees` |

**The bridge.** `HandledOnce` is not inductive: that a handled datagram will not be
accepted again depends on what is in the queues. `IInv` says so for each part of
the state. A datagram in a queue that claims to come from a host is the host's
own (`InboxInv`); a handled one was accepted by the socket that handled it and is
no longer in its queue (`HandledInv`); every send has a cause in the right
direction (`SendsInv`); the log is numbered (`LogInv`). With
`AcceptsOwnSide` (a socket accepts only hosts of its own network) and
`OneSocketAccepts` (of the sockets a datagram reaches at most one accepts it) the
pair that handles a datagram is unique. `ReceiveShape` reduces the six branches
of the handlers to one form (a `Handle` with sends in the right direction, and a
cache that is unchanged or has learnt what was announced), so that each invariant
has to be shown for `Handle`, `ParseFails` and `Filtered` only.

`CacheSound` is shown beside the invariant: `RememberSound` says that inserting
keeps one entry for each urn. It is what makes the values of the cache the
relay's "latest announcement of each urn" (`RememberLearns`). For the refinement,
`HandleUndertakes` shows that whichever of a handler's sends leave at once all of
them are undertaken, and `TransmitUndertakes` that sending later adds nothing;
then each branch is one `Pass` of the relay (`ClientPasses`, `ServerPasses`,
`FailurePasses`), which is enabled because of `HandledOnce`.

`AnswersMatch` speaks of what left, which may be another text when a send waits
(`bridge_overwrite`). What was given to send is right in any case
(`AnswersGiven`), so the answers match as long as `SentIntact` does, and that
holds always when sends leave at once.

**The text.** Assumed: `WireAssumption` (the start lines are the three that `Parse`
tells apart, the keys of the lines are in `KeyOrder`, among them those the program
writes). Reader and writer are recursive functions. `ReaderExists` and `WriterExists`
show that their definitions define them, `AllRead` and `FieldsWritten` what they
compute for every header. The library's induction theorems cannot be instantiated,
so these lemmas look at the least number of lines at which they would fail
(`Least`, from the library's `WFMin`). `HaveRead` is the reader's invariant: of a
known key the last line counts, of any other the first. `NotifyKept`, `SearchKept`
and `ResponseKept` put both together, and `WireInv` says what is in the buffer: the
text that was given last, and behind it lines of which the key may be the end
only (`OverlayBegins`).

**The session.** `SessionAssumption` says which values there are, that the status
is asked for every control but the dynamic range, and that the slider's
positions are volumes of the receiver. `ChosenPeer` is inductive by itself.
`WindowAgrees` is not: it speaks of the moment when nothing is on its way.
`SessionInv` says why it will hold then (`Follows`): the last report that is on
its way is about the receiver's present value (`LastIsPresent`), and if there is
none, the two agree already, or a query is on its way (`Asking`), or the last
command on its way sets what the window shows (`Setting`). Each action has a
lemma that it keeps `Follows`. The receiver's silence when a command sets what
was set is harmless because of `CodeShown` (the report of a command's value shows
what the command was given for); in a read, `LastShownTyped` says that the last
of the reports counts, for which `MaxExists` is derived from the well-founded
inclusion of intervals, there being no induction. The proof does not depend on
how reports are cut, on `ReadLimit` or on how many receivers there are.

**The subscriptions.** Assumed: there are services, each once in `uris`, and the
period is not zero (`EventsAssumption`). That a service has no subscription says
nothing about where the chain is; `RenewedSinceDue` does: unless the chain lost a
request or the timer is due, a service that the chain has passed was renewed after
the timer was last due, so it has at least as many ticks left as the timer. When
the timer is due again all of them may be down to nothing, and that is when its
handler is due. Callbacks leave the chain alone (`CallbacksLeaveChain`).

**The parser and the callbacks.** Assumed: `ParserAssumption` (packets fit the
buffer), and for these theorems `LengthSeen`: the device puts `CONTENT-LENGTH` on a
line that is not the header's last, for otherwise the parser takes another
packet's length (section 3). `HttpParserProofs` shows what the parser makes of a
buffer that begins with a packet: `StreamDropped` and the lemmas before it say
that `markRead` cuts exactly the packet off, however many cells of it and of the
next one have been read. The invariant `Untangled` is about each connection: what
waits in the buffer and on the wire is the whole packets of that connection which
follow those returned, one after the other, and the first of them may have lost
nothing; and, unless two streams have met, what is in the buffer is of one
connection. The actions of the parser keep it whoever reads (`SendsUntangled`,
`FillUntangled`, `NoneUntangled`, `ReadUntangled`). `BeginningOnly` adds that
outside `onCbRead` the buffer holds less than a packet, unless an exception left
more there; that is `NothingHeldBack`.

**The calls.** Assumed: `ControlAssumption`, which calls there are.
`SentAsAsked` speaks of what was sent; the strengthening speaks of what will be:
each object's request holds nothing or what the last call that sets parameters
put there (`RequestsKept`), and as long as a call is connecting its request is
filled in and fewer requests were received than calls made (`FilledInOnce`). The
device, the cuts and the parser do not matter, for any number of calls.

`NeverMisread` holds without any condition on the device. `ResultIInv` says that
the body in `m_response` is of one answer, whole or cut, whatever the parser kept and
whatever length it went by, and that a method only takes what its own parser
accepts. `AnswerBelongs` needs more (`BelongIInv`): until a call breaks off in the
middle of an answer, an idle connection has nothing left to read and the parser
nothing kept (`NothingKept`), so that what a call finds in the buffer is the
beginning of its own answer (`AnswerBegun`), and `m_response` holds an answer to an
earlier call when its own did not come (`Earlier`). That the parser then returns
it whole is `LengthSeen` and the lemmas of `HttpParserProofs`.

**The IPC server.** Assumed: `IpcAssumption` (text has no top bits and fits a
datagram, so that five bytes hold its length; the requests are numbers that seven
bits hold) and `SubmitAssumption`. `BridgeAtWork` needs
two facts: before a client is served nothing is scheduled (`NobodyServed`), and no
byte from a client that has not searched looks like a search, on the way or in
`m_rxBuf` (`SearchesAreSearched`), whatever bytes the receives happen to begin with.

`LengthSpelled` says what `AddCodelength` writes for any length: at most five bytes,
of which only the last has no top bit. `EndFound` and `LengthRead` say that
`decodeMinisspdLen` finds that byte and reads the length back, wherever it lies.
`Lies` describes an answer: texts that lie in it one behind the other
(`AnswerLies`, for any services). `EndsFound` says how far a reader of the
beginning of an answer can tell where texts end, and `BeginningRead` what follows
for the bytes it asks for: it asks for what is missing, or for one byte of the
first text it knows nothing of, or is in the middle of a length. `WholeStrings`
adds that of the whole answer every text is returned. These lemmas are about
recursive functions over any number of bytes and texts; each looks at
the first place where it would fail (`Least`).

`AnswerSuffices` does not need a true count: the count never exceeds the services
(`CountBound`), so whatever `nrServices` has become, there are enough texts
(`AnswerWhole`, `WholeIsEnough`). What has to be invariant is where a request is
that is alone on its way (`Served`): not received yet, or received once and due, or
answered once, with what was read and what is on the way the whole answer. Here
`WantedAssumption` is needed: no byte of what is searched for is a request that
the server answers. A character is not one. The length may be: that of a type or USN
whose number of characters is a multiple of 128, or three more, ends in a byte that
`HandleRequest` takes for a request if a receive begins with it. Types
and USNs, those that `test/ssdp.cc:212-218` searches for among them, have between 20
and 127 characters.

**The settings.** Assumed: `ConfigAssumption`. `FileHoldsChosen` is inductive with
`OneHolds` (undisturbed, only one run holds settings it has not saved) and
`HeldIsChosen` (these are what was chosen, but for the part that the run's option
sets). `LoadOfSettings` (what is written and loaded again is the same) and
`LoadIsSettings` (any file, whole or not, gives settings) carry the file. The
action property follows, because the bridge takes only a file of all parts.

**Only model-checked:** the liveness properties (fairness and ENABLED are out of
reach of the prover), and what the runs that expect a violation show. Every invariant
and every other action property of the passing runs is a theorem, some under the
conditions named above (`LengthSeen`, `SentIntact`).

## 5. Not modelled

| part | why |
|---|---|
| SSDP client (`ssdp.cc:404-437`, `SsdpClient.cc`) | it hands every notify on and keeps nothing; its parser is that of `SsdpWire` |
| App interface (`appInterface.cc`) | one request and a pass over its answer, without state; that is by position, five elements for six requests, so that the third (stereo) is read as the volume (`appInterface.cc:126-181`) |
| SCPD reader (`scdp.cc`), the values in SOAP answers and events | pure XML extraction |
| `BeastConnection` | the programs use `QHttpConnection` |
| path and status of HTTP messages | nothing decides on them |
| dialogs, application shell, tray, geometry, menu keys | presentation |
| what UPnP events show in the window | `SetupHttp` is commented out, and the power it shows is a second source for one check box of `AvrSession` |
| creating sockets, `DropPriviliges`, `--help` | single system calls, or unused |
| texts longer than a buffer | undefined behaviour of one step; no check exists in the code to be right or wrong |
| a changed address of an interface | nothing notices it; `BridgeConfig` says which settings are used, `SsdpBridge` takes them to be true |

What could still be added: a composition of `MiniSsdp` with the whole of
`SsdpBridge` (now `BridgeCaches` stands for the bridge's handlers, and `thread` for
its `running`).
