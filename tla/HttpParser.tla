----------------------------- MODULE HttpParser -----------------------------
(***************************************************************************)
(* Denon::Http::Parser, the incremental parser behind the event callbacks  *)
(* and the blocking requests, fed by TCP streams that come in pieces of    *)
(* any length.  The unit is a cell: a header line, the empty line that     *)
(* ends a header, or a piece of a body.                                    *)
(***************************************************************************)
EXTENDS Integers, Sequences, SequencesExt

CONSTANTS
    Peers,          \* the other ends of the sockets that are read
    Nobody,         \* no peer
    Headers,        \* the field orders packets may have: sequences over
                    \* {"CONTENT-LENGTH", "OTHER"}
    Bodies,         \* the lengths a body may have, in cells
    ChecksMethod,   \* the parser is one for requests, which know their method
    BufferSize,     \* cells in m_buf
    MaxPackets      \* bound on the packets that are sent

HeaderLength(h) == Len(h) + 2   \* with the start line and the empty line

ASSUME ParserAssumption ==
    /\ Nobody \notin Peers /\ ChecksMethod \in BOOLEAN
    /\ Bodies \subseteq Nat /\ MaxPackets \in Nat /\ BufferSize \in Nat
    /\ \A h \in Headers : h \in Seq({"CONTENT-LENGTH", "OTHER"})
    /\ \A h \in Headers, n \in Bodies : HeaderLength(h) + n <= BufferSize

VARIABLES
    sent,      \* the packets of all peers: [from, head, body]
    wire,      \* of each peer, the cells that have not been read yet
    buf,       \* m_buf up to m_idx
    packet,    \* m_packet: the start line seen last and the CONTENT-LENGTH
    out,       \* the packets markRead has returned: [start, body, to]
    reading,   \* the peer whose socket is read until markRead returns none
    disturbed  \* history: a socket was read while a piece of another peer was in buf

parserVars == <<sent, wire, buf, packet, out, reading, disturbed>>

NoLength == -1   \* the field is empty: std::map's default

Cell(name, i, n) == [is |-> name, of |-> i, val |-> n]
Body(i, n) == [k \in 1..n |-> Cell("body", i, k)]

\* The cells of the i-th packet.
Cells(i, p) ==
    <<Cell("start", i, 0)>> \o [k \in 1..Len(p.head) |-> Cell(p.head[k], i, p.body)]
        \o <<Cell("empty", i, 0)>> \o Body(i, p.body)

-----------------------------------------------------------------------------
\* ParseHeader: splitlines reports a line when it meets the line's end, and the
\* text it is given stops before the final one, so the last line is not seen.
\* Fields of earlier packets stay in the map.
ParseHeader(pkt, header) ==
    LET seen == Front(header)
        lengths == {i \in DOMAIN seen : seen[i].is = "CONTENT-LENGTH"}
        last == CHOOSE i \in lengths : \A j \in lengths : j <= i
    IN [start |-> IF seen = <<>> THEN pkt.start ELSE seen[1].of,
        length |-> IF lengths = {} THEN pkt.length ELSE seen[last].val]

\* The first line of a request must name a method.
MethodNotFound(header) ==
    ChecksMethod /\ Len(header) > 1 /\ header[1].is # "start"

\* The first empty line of the buffer, if there is one.
HeaderEnd(b) == {i \in DOMAIN b : /\ b[i].is = "empty"
                                  /\ \A j \in 1..(i - 1) : b[j].is # "empty"}

\* Mutant: a body is returned only once there is more than the body.
CompleteAndMore(length, dlen) == length # NoLength /\ dlen > length

\* A packet needs a CONTENT-LENGTH and a body of that length.
Complete(length, dlen) == length # NoLength /\ dlen >= length

\* Mutant: m_idx is set to 0, what follows the packet is forgotten.
RestForgotten(b, from) == <<>>

\* Mutant: the last cell of the packet is moved, too.
RestAndLast(b, from) == SubSeq(b, from - 1, Len(b))

\* What follows the packet is moved to the front of the buffer.
Rest(b, from) == SubSeq(b, from, Len(b))

-----------------------------------------------------------------------------
ParserInit ==
    /\ sent = <<>> /\ wire = [p \in Peers |-> <<>>]
    /\ buf = <<>> /\ packet = [start |-> 0, length |-> NoLength]
    /\ out = <<>> /\ reading = Nobody /\ disturbed = FALSE

\* A peer sends a packet.
PeerSends(p, head, n) ==
    /\ Len(sent) < MaxPackets
    /\ sent' = Append(sent, [from |-> p, head |-> head, body |-> n])
    /\ wire' = [wire EXCEPT ![p] = @ \o Cells(Len(sent'), sent'[Len(sent')])]
    /\ UNCHANGED <<buf, packet, out, reading, disturbed>>

\* The socket copies what has arrived into currentBuffer, as far as there is
\* room, and markRead adds the count to m_idx.
Fill(p, n) ==
    /\ reading = Nobody /\ n <= Len(wire[p]) /\ n <= BufferSize - Len(buf)
    /\ wire' = [wire EXCEPT ![p] = SubSeq(@, n + 1, Len(@))]
    /\ buf' = buf \o SubSeq(wire[p], 1, n)
    /\ reading' = p
    /\ disturbed' = (disturbed \/ \E i \in DOMAIN buf : sent[buf[i].of].from # p)
    /\ UNCHANGED <<sent, packet, out>>

\* markRead returns no packet: the header is not complete, it has no length or
\* the body is not complete; or ParseHeader throws.
MarkReadNone ==
    /\ reading # Nobody
    /\ \/ HeaderEnd(buf) = {} /\ UNCHANGED packet
       \/ \E e \in HeaderEnd(buf) :
            LET header == SubSeq(buf, 1, e - 1)
            IN IF MethodNotFound(header) THEN UNCHANGED packet
               ELSE /\ packet' = ParseHeader(packet, header)
                    /\ ~Complete(packet'.length, Len(buf) - e)
    /\ reading' = Nobody
    /\ UNCHANGED <<sent, wire, buf, out, disturbed>>

\* markRead returns a packet, which its reader takes.
MarkRead ==
    /\ reading # Nobody
    /\ \E e \in HeaderEnd(buf) :
          LET header == SubSeq(buf, 1, e - 1)
              pkt == ParseHeader(packet, header)
          IN /\ ~MethodNotFound(header) /\ Complete(pkt.length, Len(buf) - e)
             /\ packet' = pkt
             /\ out' = Append(out, [start |-> pkt.start, to |-> reading,
                                    body |-> SubSeq(buf, e + 1, e + pkt.length)])
             /\ buf' = Rest(buf, e + pkt.length + 1)
    /\ UNCHANGED <<sent, disturbed>>

-----------------------------------------------------------------------------
(* Properties, of whatever reads with this parser. *)

\* What the parser returns on a socket is what its peer sent: the same packets
\* in the same order with their whole bodies, however the stream was cut, as
\* long as no two streams met in the one buffer.
PacketsInOrder ==
    ~disturbed =>
        \A k \in DOMAIN out :
            LET i == out[k].start
            IN /\ i \in DOMAIN sent /\ sent[i].from = out[k].to
               /\ out[k].body = Body(i, sent[i].body)
               /\ \A j \in 1..i : sent[j].from = out[k].to =>
                     (j < i <=> \E l \in 1..(k - 1) : out[l].start = j)
=============================================================================
