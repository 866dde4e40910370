---------------------------- MODULE MCAvrSession ----------------------------
(***************************************************************************)
(* Small instances of the telnet session for TLC.                          *)
(***************************************************************************)
EXTENDS AvrSession

MCStatusOrder == SelectSeq(
    <<"power", "mute", "volume", "input", "surround", "dyneq", "dynvol",
      "cinemaeq", "multieq", "eco", "mode">>, LAMBDA c : c \in Controls)

\* Crossing commands and reports on one connection.
MCWindowLimit == [move |-> 2, change |-> 1, open |-> 0, drop |-> 0]

\* Choosing receivers and losing connections.
MCConnectLimit == [move |-> 1, change |-> 1, open |-> 2, drop |-> 1]
=============================================================================
