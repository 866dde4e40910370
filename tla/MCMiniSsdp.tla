----------------------------- MODULE MCMiniSsdp -----------------------------
(***************************************************************************)
(* Values for TLC: seven bits tell five numbers apart, the character is 4.  *)
(* The cache grows from a notify without fields, which fits behind the     *)
(* count, to services that do not, one with a text of a two-byte length.   *)
(***************************************************************************)
EXTENDS MiniSsdp

CONSTANTS c1, c2

MCVersionText == <<4, 4, 4>>
MCWanted == <<4>>

MCEmpty == [location |-> <<>>, nt |-> <<>>, usn |-> <<>>]
MCLong == [location |-> <<4, 4, 4, 4, 4>>, nt |-> <<4>>, usn |-> <<4>>]

MCCaches == {<<>>, <<MCEmpty>>, <<MCEmpty, MCLong>>}

\* A service without fields, whose lengths are requests for the version.
MCSubmits == {[nt |-> <<>>, usn |-> <<>>, server |-> <<>>, location |-> <<>>]}

\* One client asks, the other is there.
MCMaxRequests == [c \in Clients |-> IF c = c1 THEN 2 ELSE 0]

MCLengths == {0, 1, 4, 5, 6, 24, 25, 124, 125, 126, 624, 625, 3124}
=============================================================================
