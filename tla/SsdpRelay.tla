----------------------------- MODULE SsdpRelay ------------------------------
(***************************************************************************)
(* What the bridge promises, without sockets, filters, buffers or loopback: *)
(* a directory with the latest announcement of each urn, and a relay that  *)
(* passes a datagram of one network to the other at most once, in a single *)
(* step.  SsdpBridge implements this specification.                        *)
(***************************************************************************)
EXTENDS SsdpMessages, Naturals, Sequences

CONSTANTS Host, Group, Lan, Near(_), Traffic, MaxDatagrams

VARIABLES
    log,      \* the datagrams hosts have sent
    passed,   \* the ids of those the relay has dealt with
    known,    \* the latest announcement of each urn
    out,      \* what the relay has undertaken to send: [id, to, msg]
    running

vars == <<log, passed, known, out, running>>

Learn(m) == {k \in known : k.nt # m.nt} \cup {m}

Item(i, to, m) == [id |-> i, to |-> to, msg |-> m]

\* The answers to search d: one for each known announcement it asks for.
Replies(i, d) ==
    {Item(i, d.src, ResponseText(k)) :
        k \in {x \in known : d.msg.nt \in {x.nt, SsdpAll}}}

Pass(i) ==
    LET d == log[i]
        m == d.msg
        here == Lan[d.src]
    IN /\ running
       /\ i \notin passed
       /\ Near(d)
       /\ passed' = passed \cup {i}
       /\ \/ /\ IsNotify(m)
             /\ known' = Learn(m)
             /\ out' = out \cup {Item(i, IF here = "client" THEN "server"
                                         ELSE "client", m)}
             /\ UNCHANGED running
          \/ /\ IsSearch(m) /\ here = "client"
             /\ out' = out \cup {Item(i, "server", m)} \cup Replies(i, d)
             /\ UNCHANGED <<known, running>>
          \/ /\ IsSearch(m) /\ here = "server"
             /\ out' = out \cup {Item(i, "client", m)}
             /\ UNCHANGED <<known, running>>
          \/ /\ IsResponse(m) /\ here = "client"
             /\ out' = out \cup {Item(i, "server", m)}
             /\ UNCHANGED <<known, running>>
          \/ /\ IsResponse(m) /\ here = "server"
             /\ known' = Learn(NotifyText(m))
             /\ out' = out \cup {Item(i, "client", NotifyText(m))}
             /\ UNCHANGED running
          \/ /\ ParseThrows(m)
             /\ running' = FALSE
             /\ UNCHANGED <<known, out>>
       /\ UNCHANGED log

Offer(t) ==
    /\ Len(log) < MaxDatagrams
    /\ log' = Append(log, [id |-> Len(log) + 1, src |-> t.src, dst |-> t.dst,
                           msg |-> t.msg])
    /\ UNCHANGED <<passed, known, out, running>>

Init ==
    /\ log = <<>>
    /\ passed = {} /\ known = {} /\ out = {}
    /\ running = TRUE

Next == (\E i \in DOMAIN log : Pass(i)) \/ (\E t \in Traffic : Offer(t))

Spec == Init /\ [][Next]_vars
=============================================================================
