----------------------------- MODULE MCSsdpWire -----------------------------
(***************************************************************************)
(* The lines machines write in TLC's instance.                             *)
(***************************************************************************)
EXTENDS SsdpWire, TLC

MCKeyOrder == <<"", "CONTENT-LENGTH", "HOST", "LOCATION", "MAN", "MX", "NT", "ST", "USN">>

\* The last of them is a line without a colon.
MCLines == {Line("HOST", "group"), Line("LOCATION", "url1"),
            Line("LOCATION", "url2"), Line("NT", "amp"), Line("ST", "tv"),
            Line("USN", "id1"), Line("USN", "id2"), Line("", Empty)}

\* The end of "HOST" reads as "ST".
MCKeyEnds == "HOST" :> {"ST", "T"}

\* A long text and a shorter one after it.
MCMaxLines == <<3, 2>>
=============================================================================
