---------------------------- MODULE BridgeConfig ----------------------------
(***************************************************************************)
(* The settings of the bridge program (src/ssdpBridge/main.cc) and the     *)
(* file they are kept in.                                                  *)
(*                                                                         *)
(* Each option that sets something loads the whole file, changes one part  *)
(* and writes the whole file again when the SettingsConfiguration goes out *)
(* of scope: the file is emptied first and filled when it is closed.  An   *)
(* administrator may run the program while the service starts, several     *)
(* runs may overlap, and each may be killed at any moment.  A run that is  *)
(* told to bridge reads the settings of its user, if there are any, and    *)
(* otherwise those of the system.                                          *)
(***************************************************************************)
EXTENDS Naturals, Sequences

CONSTANTS
    Run,            \* processes that may exist at the same time
    Itf,            \* the network interfaces of this machine
    SocketName,     \* names the socket of the MiniSSDP server may be given
    DefaultSocket,  \* the one it has when nothing is set
    Unset,          \* an interface without name and address
    Garbage,        \* what is read from behind the end of a list
    None,           \* an option that is not given, a file that does not exist
    Commands,       \* command lines: a value for each option
    Homes,          \* what the user may have as ~/.ssdpBridge
    MaxStarts       \* how often the program is started

\* The parts of Ssdp::Bridge::Settings in the order serialize has them.
Server == 1
Client == 2
Ipc    == 3

Options == {"server", "client", "ipc", "setup", "bridge"}
NoOptions == [k \in Options |-> None]

MaybeItf == Itf \cup {Unset, Garbage}
Part == [i \in 1..3 |-> IF i = Ipc THEN SocketName ELSE MaybeItf]
Default == [i \in 1..3 |-> IF i = Ipc THEN DefaultSocket ELSE Unset]

\* A file holds the settings, or as many of their parts as were written.
FileOf(n) == {f \in [1..n -> MaybeItf \cup SocketName] : \A i \in 1..n : f[i] \in Part[i]}
Files == UNION {FileOf(n) : n \in 0..3}
Settings == FileOf(3)

ASSUME ConfigAssumption ==
    /\ DefaultSocket \in SocketName
    /\ Unset \notin Itf /\ Garbage \notin Itf
    /\ \A o \in Commands : DOMAIN o = Options
    /\ \A o \in Commands : o["ipc"] \in SocketName \cup {None}
    /\ Homes \subseteq Files \cup {None} /\ None \notin Files
    /\ MaxStarts \in Nat

VARIABLES
    etc,        \* /etc/ssdpBridge; <<>> when it is empty or does not exist
    home,       \* ~/.ssdpBridge
    options,    \* what each run was told
    todo,       \* the options it has still to see to
    stage,      \* where the run is
    cfg,        \* the settings it holds
    chosen,     \* history: what was last set and saved, part by part
    undisturbed,\* history: no run has overlapped another or been cut short
    starts

vars == <<etc, home, options, todo, stage, cfg, chosen, undisturbed, starts>>

Stages == {"off", "next", "set", "truncate", "write", "bridging"}

\* The options that are given, and the order in which main sees to them.
Given(o) == {k \in Options : o[k] # None}

Place == [k \in Options |-> CASE k = "server" -> 1 [] k = "client" -> 2
                              [] k = "ipc" -> 3 [] k = "setup" -> 4
                              [] k = "bridge" -> 5]

\* Mutants: the settings are not loaded before one of them is changed; they are
\* what the file has, and nothing where it ends.
LoadNothing(f) == Default
LoadAsIs(f) == f

\* serialize: the parts that are in the file, one after the other; when it ends
\* early the exception is caught and the others keep their defaults.
Load(f) == [i \in 1..3 |-> IF i <= Len(f) THEN f[i] ELSE Default[i]]

\* The parts an option sets.
Sets(k) == CASE k = "server" -> {Server}
             [] k = "client" -> {Client}
             [] k = "ipc"    -> {Ipc}
             [] k = "setup"  -> {Server, Client}
             [] OTHER        -> {}

\* r is at the option k.
At(r, s, k) ==
    /\ stage[r] = s /\ k \in todo[r]
    /\ \A j \in todo[r] : Place[k] <= Place[j]

\* r has loaded the settings and not yet saved them.
Holds(r) == stage[r] \in {"set", "truncate", "write"}

-----------------------------------------------------------------------------
Init ==
    /\ etc = <<>> /\ chosen = Default
    /\ home \in Homes
    /\ options = [r \in Run |-> NoOptions]
    /\ todo = [r \in Run |-> {}]
    /\ stage = [r \in Run |-> "off"]
    /\ cfg = [r \in Run |-> Default]
    /\ undisturbed = TRUE
    /\ starts = 0

Goto(r, s) == stage' = [stage EXCEPT ![r] = s]

Start(r) ==
    /\ stage[r] = "off" /\ starts < MaxStarts
    /\ \E o \in Commands :
          /\ options' = [options EXCEPT ![r] = o]
          /\ todo' = [todo EXCEPT ![r] = Given(o)]
    /\ Goto(r, "next")
    /\ starts' = starts + 1
    /\ UNCHANGED <<etc, home, cfg, chosen, undisturbed>>

\* SettingsConfiguration(): GetConfigurationPath(.., true) is the system's file.
LoadSettings(r) ==
    /\ \E k \in Options \ {"bridge"} : At(r, "next", k)
    /\ cfg' = [cfg EXCEPT ![r] = Load(etc)]
    /\ undisturbed' = (undisturbed /\ \A q \in Run : ~Holds(q))
    /\ Goto(r, "set")
    /\ UNCHANGED <<etc, home, options, todo, chosen, starts>>

Change(r, new) ==
    /\ cfg' = [cfg EXCEPT ![r] = new]
    /\ Goto(r, "truncate")
    /\ UNCHANGED <<etc, home, options, todo, chosen, starts>>

\* --server, --client and --ipc; a client that is not found changes nothing.
SetServer(r) ==
    /\ At(r, "set", "server") /\ options[r]["server"] \in Itf
    /\ Change(r, [cfg[r] EXCEPT ![Server] = options[r]["server"]])
    /\ UNCHANGED undisturbed

SetClient(r) ==
    /\ At(r, "set", "client")
    /\ Change(r, IF options[r]["client"] \in Itf
                 THEN [cfg[r] EXCEPT ![Client] = options[r]["client"]]
                 ELSE cfg[r])
    /\ UNCHANGED undisturbed

SetIpc(r) ==
    /\ At(r, "set", "ipc")
    /\ Change(r, [cfg[r] EXCEPT ![Ipc] = options[r]["ipc"]])
    /\ UNCHANGED undisturbed

\* Setup: the second list is without the interface chosen from the first.
AskBoth(r) ==
    /\ At(r, "set", "setup")
    /\ \E s \in Itf : \E c \in Itf \ {s} :
          Change(r, [cfg[r] EXCEPT ![Server] = s, ![Client] = c])
    /\ UNCHANGED undisturbed

\* A server that is not found, and an index that is not in the list, read what
\* is behind the list (undefined): the run goes on with that or ends (Kill).
ReadBehind(r) ==
    /\ \/ /\ At(r, "set", "server") /\ options[r]["server"] \notin Itf
          /\ Change(r, [cfg[r] EXCEPT ![Server] = Garbage])
       \/ /\ At(r, "set", "setup")
          /\ \E s \in Itf \cup {Garbage} :
                Change(r, [cfg[r] EXCEPT ![Server] = s, ![Client] = Garbage])
    /\ undisturbed' = FALSE

\* ~SettingsConfiguration(): opening the file empties it ...
Truncate(r) ==
    /\ stage[r] = "truncate"
    /\ etc' = <<>>
    /\ Goto(r, "write")
    /\ UNCHANGED <<home, options, todo, cfg, chosen, undisturbed, starts>>

\* ... and closing it fills it.
Save(r) ==
    \E k \in Options :
        /\ At(r, "write", k)
        /\ etc' = cfg[r]
        /\ chosen' = [i \in 1..3 |-> IF i \in Sets(k) THEN cfg[r][i] ELSE chosen[i]]
        /\ todo' = [todo EXCEPT ![r] = @ \ {k}]
        /\ Goto(r, "next")
        /\ UNCHANGED <<home, options, cfg, undisturbed, starts>>

\* The file system takes only a part, which nobody looks at.
SaveShort(r) ==
    /\ \E n \in 0..2 : etc' = [i \in 1..n |-> cfg[r][i]]
    /\ undisturbed' = FALSE
    /\ \E k \in Options : /\ At(r, "write", k)
                          /\ todo' = [todo EXCEPT ![r] = @ \ {k}]
    /\ Goto(r, "next")
    /\ UNCHANGED <<home, options, cfg, chosen, starts>>

\* The process ends: killed, done, by an exception nobody catches, or because
\* it may not write the file and the archive throws in the destructor.
Ends(r) ==
    /\ Goto(r, "off")
    /\ todo' = [todo EXCEPT ![r] = {}]
    /\ options' = [options EXCEPT ![r] = NoOptions]
    /\ cfg' = [cfg EXCEPT ![r] = Default]
    /\ UNCHANGED <<etc, home, chosen, starts>>

Kill(r) ==
    /\ stage[r] # "off"
    /\ Ends(r)
    /\ undisturbed' = (undisturbed /\ stage[r] # "write")

Done(r) ==
    /\ stage[r] = "next" /\ todo[r] = {}
    /\ Ends(r)
    /\ UNCHANGED undisturbed

\* Bridge(): GetConfigurationPath(.., false).  The whole of the settings must
\* be there, and two addresses among them.
Configuration == IF home # None THEN home ELSE etc

Usable(f) == Len(f) = 3 /\ f[Server] \in Itf /\ f[Client] \in Itf

Bridge(r) ==
    /\ At(r, "next", "bridge") /\ Usable(Configuration)
    /\ cfg' = [cfg EXCEPT ![r] = Configuration]
    /\ Goto(r, "bridging")
    /\ UNCHANGED <<etc, home, options, todo, chosen, undisturbed, starts>>

BridgeThrows(r) ==
    /\ At(r, "next", "bridge") /\ ~Usable(Configuration)
    /\ Ends(r)
    /\ UNCHANGED undisturbed

Step(r) ==
    \/ Start(r) \/ LoadSettings(r) \/ Truncate(r) \/ Save(r) \/ SaveShort(r)
    \/ SetServer(r) \/ SetClient(r) \/ SetIpc(r) \/ AskBoth(r) \/ ReadBehind(r)
    \/ Bridge(r) \/ BridgeThrows(r) \/ Kill(r) \/ Done(r)

Next == \E r \in Run : Step(r)

Spec == Init /\ [][Next]_vars

-----------------------------------------------------------------------------
\* The types of the variables; a run sees only to what it was given.
TypeOK ==
    /\ etc \in Files /\ home \in Files \cup {None}
    /\ options \in [Run -> Commands \cup {NoOptions}]
    /\ todo \in [Run -> SUBSET Options]
    /\ \A r \in Run : todo[r] \subseteq Given(options[r])
    /\ stage \in [Run -> Stages]
    /\ cfg \in [Run -> Settings]
    /\ chosen \in Settings
    /\ undisturbed \in BOOLEAN
    /\ starts \in 0..MaxStarts

\* Saving one part keeps the others, over any number of runs: as long as no run
\* overlaps another or is cut short, the file holds for each part what was last
\* set, except while it is being written.
FileHoldsChosen ==
    (undisturbed /\ \A r \in Run : stage[r] # "write") => Load(etc) = chosen

\* A bridge therefore starts with what was last set for each part, unless its
\* user has settings of the user's own: then it starts with those, whatever
\* has been set.
BridgeUsesChosen ==
    [][\A r \in Run : (stage[r] # "bridging" /\ stage'[r] = "bridging") =>
           IF home # None THEN cfg'[r] = home
           ELSE undisturbed => cfg'[r] = chosen]_vars
=============================================================================
