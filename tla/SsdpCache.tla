----------------------------- MODULE SsdpCache ------------------------------
(***************************************************************************)
(* ServiceCache: std::map<Key, Notify> with Key = (urn, location).  A map  *)
(* takes two keys for one when neither is less than the other, so what the *)
(* cache can hold is decided by Key::operator<.  The cache is a set of     *)
(* entries [key, value]; its iteration order is left open.                 *)
(***************************************************************************)
EXTENDS SsdpMessages

Key == [urn: Urn \cup {SsdpAll}, location: Location \cup {NoLocation}]

Entry == [key: Key, value: Message]

\* operator< orders by urn; for equal urns it compares o.location with itself,
\* which is never less.  Keys are therefore equivalent iff their urns are.
SameKey(a, b) == a.urn = b.urn

KeyOf(m) == [urn |-> m.nt, location |-> m.location]

\* Mutant: the map is cleared first.
RememberOnly(services, m) == {[key |-> KeyOf(m), value |-> m]}

\* services[KeyOf(m)] = m: an equivalent entry keeps its key and gets the new
\* value, otherwise a new entry is inserted.
Remember(services, m) ==
    LET old == {e \in services : SameKey(e.key, KeyOf(m))}
        kept == IF old = {} THEN {KeyOf(m)} ELSE {e.key : e \in old}
    IN (services \ old) \cup {[key |-> k, value |-> m] : k \in kept}

\* Mutants: every entry matches; "ssdp:all" matches nothing.
MatchesAny(e, type) == TRUE
MatchesUrn(e, type) == e.key.urn = type

Matches(e, type) == e.key.urn = type \/ type = SsdpAll

\* What the bridge sends in answer to a search, one message per match.
Answers(services, type) ==
    {ResponseText(e.value) : e \in {x \in services : Matches(x, type)}}
=============================================================================
