--------------------------- MODULE MCSsdpBridge -----------------------------
(***************************************************************************)
(* An instance for TLC: two machines on the client network, one near and   *)
(* one far (outside the /24) on the server network, and the bridge.        *)
(***************************************************************************)
EXTENDS SsdpBridge

CONSTANTS c1, c2, s1, far, ci, si, group, amp, tv, l1, l2

MCLan == [a \in {c1, c2, s1, far, ci, si} |->
            IF a \in {c1, c2, ci} THEN "client" ELSE "server"]

MCNet24 == [a \in {c1, c2, s1, far, ci, si} |->
              IF a \in {c1, c2, ci} THEN 1 ELSE IF a = far THEN 3 ELSE 2]

From(h, dst, msgs) == {[src |-> h, dst |-> dst, msg |-> m] : m \in msgs}

\* Announcements, searches and answers on both networks, and a machine the filter
\* rejects.
MCTraffic ==
    From(s1, group, {Notify(amp, l1), Search(amp)})
    \cup From(s1, si, {Response(amp, l2)})
    \cup From(c1, group, {Search(amp), Notify(tv, l1)})
    \cup From(c2, ci, {Response(tv, l2)})
    \cup From(far, group, {Notify(amp, l2)})

\* Enough for two services, a response and a search for everything.
MCFewTraffic ==
    From(s1, group, {Notify(amp, l1), Notify(tv, l2)})
    \cup From(s1, si, {Response(amp, l2)})
    \cup From(c1, group, {Search(SsdpAll)})

\* Two services, a datagram that ends the process, and a search for everything,
\* so that one listen socket has two texts to send.
MCLiveTraffic ==
    From(s1, group, {Notify(amp, l1), Notify(tv, l2), Unhandled})
    \cup From(c1, group, {Search(SsdpAll)})
=============================================================================
