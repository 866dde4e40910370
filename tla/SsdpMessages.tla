---------------------------- MODULE SsdpMessages ----------------------------
(***************************************************************************)
(* The SSDP messages of lib/network/ssdp.cc, one record per message.  The  *)
(* fields kept are the ones the program acts on: the start line (kind),    *)
(* the urn (ST of a search or a response, NT of a notify) and LOCATION.    *)
(* The free-form "custom" fields, which the program only carries along,    *)
(* are left out; SsdpWire models the header lines themselves.              *)
(***************************************************************************)
CONSTANTS
    Urn,         \* the service types that are searched for and announced
    Location,    \* the urls at which services live
    NoLocation,  \* the empty string: a message without a LOCATION line
    SsdpAll      \* the search type "ssdp:all"

ASSUME SsdpAssumption ==
    /\ NoLocation \notin Location
    /\ SsdpAll \notin Urn

Search(type) == [kind |-> "search", nt |-> type, location |-> NoLocation]

Response(urn, url) == [kind |-> "response", nt |-> urn, location |-> url]

Notify(urn, url) == [kind |-> "notify", nt |-> urn, location |-> url]

\* A datagram whose start line is none of the three that Parse knows.
Unhandled == [kind |-> "unhandled", nt |-> SsdpAll, location |-> NoLocation]

Message == [kind: {"search", "response", "notify", "unhandled"},
            nt: Urn \cup {SsdpAll},
            location: Location \cup {NoLocation}]

IsSearch(m) == m.kind = "search"
IsResponse(m) == m.kind = "response"
IsNotify(m) == m.kind = "notify"

\* Parse throws "SSDP: Unhandled message type" for every other start line.
ParseThrows(m) == ~(IsSearch(m) \/ IsResponse(m) \/ IsNotify(m))

\* Notify(const Response&) and then Notify::operator std::string, which writes
\* HOST, NT, LOCATION and the custom fields.
NotifyText(r) == Notify(r.nt, r.location)

\* Mutant: a start line that no receiver knows.
ResponseTextUnknown(r) == [kind |-> "ok", nt |-> r.nt, location |-> NoLocation]

\* Response::operator std::string: the custom fields and ST, but no LOCATION.
ResponseText(r) == Response(r.nt, NoLocation)
=============================================================================
