------------------------------ MODULE SsdpWire ------------------------------
(***************************************************************************)
(* The text of SSDP messages, header line by header line: ParseSddp and    *)
(* the Parse functions built on it, the operators that write messages, and *)
(* the transmit buffer, which is always sent whole.  A line is a key and a *)
(* value; lines are the unit in which texts cover each other in the buffer. *)
(***************************************************************************)
EXTENDS Naturals, Sequences, SequencesExt

CONSTANTS
    KeyOrder,  \* the keys there are, in the order of a std::map
    Starts,    \* the start lines machines write
    Lines,     \* the header lines they write: [key, val]
    Empty,     \* the empty string
    KeyEnds,   \* per key, what the end of the key may read as
    MaxLines   \* bounds: how many header lines the i-th text of a socket may have

\* The keys the program writes itself are among them, and none is that of the
\* empty line.  A line without a colon is read as one whose key and value are
\* empty, so Line("", Empty) may be among Lines.
ASSUME WireAssumption ==
    /\ Starts \subseteq {"M-SEARCH", "NOTIFY", "HTTP"}
    /\ KeyOrder \in Seq(STRING) /\ "end" \notin ToSet(KeyOrder)
    /\ {"CONTENT-LENGTH", "HOST", "LOCATION", "MAN", "MX", "NT", "ST"}
          \subseteq ToSet(KeyOrder)
    /\ \A l \in Lines : l = [key |-> l.key, val |-> l.val] /\ l.key \in ToSet(KeyOrder)

VARIABLES
    text,    \* the message a machine is writing, or has written
    whole,   \* the message is complete
    txBuf,   \* m_txBuf of the socket that passes messages on
    passed   \* history: the texts given to that socket, in order

vars == <<text, whole, txBuf, passed>>

Line(key, val) == [key |-> key, val |-> val]
EmptyLine == Line("end", Empty)   \* what ends a header
Zero == Line("CONTENT-LENGTH", "0")

-----------------------------------------------------------------------------
\* std::map::insert of all of more: a key that is there keeps its value.
Insert(fields, more) ==
    [k \in (DOMAIN fields) \cup (DOMAIN more) |->
        IF k \in DOMAIN fields THEN fields[k] ELSE more[k]]

\* Reading.

\* Mutants: a known key is only taken once; custom fields are overwritten.
ReadLineOnce(acc, line) ==
    IF line = EmptyLine THEN acc
    ELSE IF line.key \in DOMAIN acc.known
    THEN IF acc.known[line.key] = Empty
         THEN [acc EXCEPT !.known[line.key] = line.val] ELSE acc
    ELSE [acc EXCEPT !.custom = Insert(@, [k \in {line.key} |-> line.val])]

ReadLineLast(acc, line) ==
    IF line = EmptyLine THEN acc
    ELSE IF line.key \in DOMAIN acc.known
    THEN [acc EXCEPT !.known[line.key] = line.val]
    ELSE [acc EXCEPT !.custom = Insert([k \in {line.key} |-> line.val], @)]

\* The callback of ParseSddp: a known key is assigned, any other is inserted,
\* which does nothing when it is there.  splitlines reports no empty lines.
ReadLine(acc, line) ==
    IF line = EmptyLine THEN acc
    ELSE IF line.key \in DOMAIN acc.known
    THEN [acc EXCEPT !.known[line.key] = line.val]
    ELSE [acc EXCEPT !.custom = Insert(@, [k \in {line.key} |-> line.val])]

\* ParseSddp: the first line is the header, all others are read in turn, also
\* those behind an empty line.
ReadLines(t, keys) ==
    LET read[i \in 1..Len(t)] ==
            IF i = 1 THEN [known |-> [k \in keys |-> Empty], custom |-> <<>>]
            ELSE ReadLine(read[i - 1], t[i])
    IN read

ParseSddp(t, keys) == ReadLines(t, keys)[Len(t)]

Parsed(kind, nt, location, custom) ==
    [kind |-> kind, nt |-> nt, location |-> location, custom |-> custom]

ParseSearch(t) ==
    LET p == ParseSddp(t, {"ST"})
    IN Parsed("search", p.known["ST"], Empty, p.custom)

ParseNotify(t) ==
    LET p == ParseSddp(t, {"LOCATION", "NT", "HOST"})
    IN Parsed("notify", p.known["NT"], p.known["LOCATION"], p.custom)

ParseResponse(t) ==
    LET p == ParseSddp(t, {"LOCATION", "ST"})
    IN Parsed("response", p.known["ST"], p.known["LOCATION"], p.custom)

\* Parse, for the start lines it handles.
Parse(t) ==
    CASE t[1].key = "M-SEARCH" -> ParseSearch(t)
      [] t[1].key = "NOTIFY" -> ParseNotify(t)
      [] t[1].key = "HTTP" -> ParseResponse(t)

-----------------------------------------------------------------------------
\* Writing.

\* A std::map is written in the order of its keys.
FieldLines(fields) ==
    LET written[i \in 0..Len(KeyOrder)] ==
            IF i = 0 THEN <<>>
            ELSE IF KeyOrder[i] \in DOMAIN fields
            THEN Append(written[i - 1], Line(KeyOrder[i], fields[KeyOrder[i]]))
            ELSE written[i - 1]
    IN written[Len(KeyOrder)]

\* Http::Request and Http::Response as text, with an empty body.
RequestText(method, fields) ==
    <<Line(method, Empty)>> \o FieldLines(fields) \o <<Zero, EmptyLine>>

HttpResponseText(fields) ==
    <<Line("HTTP", Empty), Zero>> \o FieldLines(fields) \o <<EmptyLine>>

\* Mutant: what is searched for is written as NT.
SearchTextNt(m) ==
    RequestText("M-SEARCH", Insert([HOST |-> "group", NT |-> m.nt], m.custom))

SearchText(m) ==
    RequestText("M-SEARCH",
        Insert([HOST |-> "group", MAN |-> "discover", MX |-> "10", ST |-> m.nt],
               m.custom))

\* Mutants: a response's urn is written as NT, a notify's as ST.
ResponseTextNt(m) == HttpResponseText(Insert([NT |-> m.nt], m.custom))

NotifyTextSt(m) ==
    RequestText("NOTIFY",
        Insert([HOST |-> "group", ST |-> m.nt, LOCATION |-> m.location], m.custom))

ResponseText(m) == HttpResponseText(Insert([ST |-> m.nt], m.custom))

NotifyText(m) ==
    RequestText("NOTIFY",
        Insert([HOST |-> "group", NT |-> m.nt, LOCATION |-> m.location], m.custom))

-----------------------------------------------------------------------------
\* The transmit buffer.

\* The first line behind the text may have lost its beginning: what is left of
\* it is the line, one with the end of its key, or a value without a colon.
Torn(t) ==
    IF t = <<>> THEN {t}
    ELSE {<<first>> \o Tail(t) :
            first \in {t[1], Line("", Empty)} \cup
                {Line(k, t[1].val) : k \in IF t[1].key \in DOMAIN KeyEnds
                                           THEN KeyEnds[t[1].key] ELSE {}}}

\* std::copy to the front of m_txBuf; what an earlier, longer text left behind
\* it stays, and the whole buffer is sent.
Overlay(buffer, t) ==
    {t \o rest : rest \in Torn(SubSeq(buffer, Len(t) + 1, Len(buffer)))}

Init ==
    /\ text \in {<<Line(s, Empty)>> : s \in Starts}
    /\ whole = FALSE
    /\ txBuf = <<>>
    /\ passed = <<>>

\* A machine writes its message.
Write(line) ==
    /\ ~whole /\ Len(passed) < Len(MaxLines)
    /\ Len(text) <= MaxLines[Len(passed) + 1]
    /\ text' = Append(text, line)
    /\ UNCHANGED <<whole, txBuf, passed>>

Finish ==
    /\ ~whole /\ Len(passed) < Len(MaxLines)
    /\ whole' = TRUE
    /\ text' = Append(text, EmptyLine)
    /\ UNCHANGED <<txBuf, passed>>

\* Base::send of the message, and the next machine begins.
Pass ==
    /\ whole
    /\ txBuf' \in Overlay(txBuf, text)
    /\ passed' = Append(passed, text)
    /\ \E s \in Starts : text' = <<Line(s, Empty)>>
    /\ whole' = FALSE

Next == (\E line \in Lines : Write(line)) \/ Finish \/ Pass

Spec == Init /\ [][Next]_vars

-----------------------------------------------------------------------------
\* Properties.  They hold for every text a machine may have finished.

Heard == IF whole THEN Parse(text) ELSE Parsed("none", Empty, Empty, <<>>)

\* Where in a text a key stands, and the value that counts.
Places(t, key) == {i \in 2..Len(t) : t[i].key = key /\ t[i] # EmptyLine}

LastOf(t, key) ==
    IF Places(t, key) = {} THEN Empty
    ELSE t[CHOOSE i \in Places(t, key) : \A j \in Places(t, key) : j <= i].val

FirstOf(t, key) ==
    t[CHOOSE i \in Places(t, key) : \A j \in Places(t, key) : i <= j].val

UrnKey(kind) == IF kind = "notify" THEN "NT" ELSE "ST"

\* Whatever the order and the repetitions of the lines, the fields the program
\* knows have their last value and the others their first.
FieldsAsWritten ==
    whole =>
        /\ Heard.nt = LastOf(text, UrnKey(Heard.kind))
        /\ Heard.kind # "search" => Heard.location = LastOf(text, "LOCATION")
        /\ \A k \in DOMAIN Heard.custom : Heard.custom[k] = FirstOf(text, k)

\* n is m with the field that the writer adds, when m lacks it.
ZeroField == [k \in {Zero.key} |-> Zero.val]

Same(m, n) ==
    /\ m.kind = n.kind /\ m.nt = n.nt /\ m.location = n.location
    /\ Insert(m.custom, ZeroField) = n.custom

\* What is heard survives being written and parsed again: a notify with all its
\* fields, of a search what is searched for (test/ssdp.cc checks it for one
\* message of each kind).
RoundTrip ==
    /\ Heard.kind = "notify" => Same(Heard, Parse(NotifyText(Heard)))
    /\ Heard.kind = "search" => Parse(SearchText(Heard)).nt = Heard.nt

\* A response that the bridge passes on as a notify announces the service it
\* was about: the urn and the url are those of the response.
ResponseAsNotifyKept ==
    Heard.kind = "response" =>
        LET n == Parse(NotifyText(Heard))
        IN n.kind = "notify" /\ n.nt = Heard.nt /\ n.location = Heard.location

\* The answer to a search that is made from a notify names its urn.  (Its url is
\* not written: ResponseText has no LOCATION.)
AnswerKeepsUrn ==
    Heard.kind = "notify" =>
        LET r == Parse(ResponseText(Heard))
        IN r.kind = "response" /\ r.nt = Heard.nt

\* A datagram may carry, behind the message, the end of earlier ones, and the
\* program's own parser reads on into it.  It still takes the message for one
\* of its kind, with the values the message has for every free-form field; only
\* the urn and the url may be those of an earlier message, which nothing bounds.
TailKeepsFreeFields ==
    txBuf # <<>> =>
        LET heard == Parse(txBuf)
            meant == Parse(Last(passed))
        IN /\ heard.kind = meant.kind
           /\ \A k \in DOMAIN meant.custom : heard.custom[k] = meant.custom[k]
=============================================================================
