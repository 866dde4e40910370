------------------------- MODULE BridgeConfigProofs -------------------------
(***************************************************************************)
(* The types of BridgeConfig, and that a bridge starts with what was last  *)
(* set, for any number of runs, interfaces and command lines.              *)
(***************************************************************************)
EXTENDS BridgeConfig, TLAPS

-----------------------------------------------------------------------------
\* Lemmas about settings and files.

LEMMA DefaultIsSettings == Default \in Settings
  BY ConfigAssumption DEF Default, Settings, FileOf, Part, MaybeItf, Ipc

\* What is loaded from a file, whole or not, is settings.
LEMMA LoadIsSettings == ASSUME NEW f \in Files PROVE Load(f) \in Settings
<1>1. PICK n \in 0..3 : f \in FileOf(n)
  BY DEF Files
<1>2. Len(f) = n
  BY <1>1 DEF FileOf
<1>3. \A i \in 1..3 : Load(f)[i] \in Part[i] /\ Load(f)[i] \in MaybeItf \cup SocketName
  BY <1>1, <1>2, DefaultIsSettings DEF Load, FileOf, Settings
<1> QED
  BY <1>3 DEF Settings, FileOf, Load

\* Settings that are written and loaded again are the same.
LEMMA LoadOfSettings ==
  ASSUME NEW s \in Settings PROVE Load(s) = s /\ Len(s) = 3 /\ s \in Files
<1>1. Len(s) = 3
  BY DEF Settings, FileOf
<1> QED
  BY <1>1 DEF Load, Settings, FileOf, Files

\* A command line sets only what there is to set.
LEMMA ChangedIsSettings ==
  ASSUME NEW s \in Settings, NEW i \in 1..3, NEW v \in Part[i]
  PROVE  [s EXCEPT ![i] = v] \in Settings
  BY DEF Settings, FileOf, Part

-----------------------------------------------------------------------------
\* Types.

LEMMA GivenIsOptions == ASSUME NEW o PROVE Given(o) \subseteq Options
  BY DEF Given

LEMMA TypeInit == Init => TypeOK
<1> SUFFICES ASSUME Init PROVE TypeOK
  OBVIOUS
<1>1. etc \in Files /\ home \in Files \cup {None}
  BY ConfigAssumption DEF Init, Files, FileOf
<1>2. cfg \in [Run -> Settings] /\ chosen \in Settings
  BY DefaultIsSettings DEF Init
<1> QED
  BY <1>1, <1>2, ConfigAssumption DEF Init, TypeOK, Stages, Given, NoOptions

\* Each change of a part gives settings again.
LEMMA TypeChange ==
  ASSUME TypeOK, NEW r \in Run, NEW new \in Settings, Change(r, new),
         undisturbed' \in BOOLEAN
  PROVE  TypeOK'
  BY DEF TypeOK, Change, Goto, Stages

LEMMA TypeStep == TypeOK /\ [Next]_vars => TypeOK'
<1> SUFFICES ASSUME TypeOK, [Next]_vars PROVE TypeOK'
  OBVIOUS
<1>1. CASE UNCHANGED vars
  BY <1>1 DEF TypeOK, vars
<1>2. CASE Next
  <2> PICK r \in Run : Step(r)
    BY <1>2 DEF Next
  <2> cfg[r] \in Settings
    BY DEF TypeOK
  <2>1. CASE Start(r)
    <3>1. PICK o \in Commands : /\ options' = [options EXCEPT ![r] = o]
                                /\ todo' = [todo EXCEPT ![r] = Given(o)]
      BY <2>1 DEF Start
    <3>2. /\ options' \in [Run -> Commands \cup {NoOptions}]
          /\ todo' \in [Run -> SUBSET Options]
          /\ \A q \in Run : todo'[q] \subseteq Given(options'[q])
      BY <3>1, GivenIsOptions DEF TypeOK
    <3>3. starts' \in 0..MaxStarts
      BY <2>1, ConfigAssumption DEF Start, TypeOK
    <3> QED
      BY <2>1, <3>2, <3>3 DEF Start, Goto, TypeOK, Stages
  <2>2. CASE LoadSettings(r)
    <3>1. Load(etc) \in Settings
      BY LoadIsSettings DEF TypeOK
    <3> QED
      BY <2>2, <3>1 DEF LoadSettings, Goto, TypeOK, Stages
  <2>3. CASE Truncate(r)
    <3>1. <<>> \in Files
      BY DEF Files, FileOf
    <3> QED
      BY <2>3, <3>1 DEF Truncate, Goto, TypeOK, Stages
  <2>4. CASE Save(r)
    <3>1. PICK k \in Options :
            /\ chosen' = [i \in 1..3 |-> IF i \in Sets(k) THEN cfg[r][i] ELSE chosen[i]]
            /\ todo' = [todo EXCEPT ![r] = @ \ {k}]
      BY <2>4 DEF Save
    <3>2. chosen' \in Settings
      BY <3>1 DEF TypeOK, Settings, FileOf
    <3>3. cfg[r] \in Files
      BY LoadOfSettings
    <3> QED
      BY <2>4, <3>1, <3>2, <3>3 DEF Save, Goto, TypeOK, Stages
  <2>5. CASE SaveShort(r)
    <3>1. PICK n \in 0..2 : etc' = [i \in 1..n |-> cfg[r][i]]
      BY <2>5 DEF SaveShort
    <3>2. etc' \in FileOf(n)
      BY <3>1 DEF Settings, FileOf
    <3>3. etc' \in Files
      BY <3>2 DEF Files
    <3> QED
      BY <2>5, <3>3 DEF SaveShort, Goto, TypeOK, Stages
  <2>6. CASE SetServer(r)
    <3>1. [cfg[r] EXCEPT ![Server] = options[r]["server"]] \in Settings
      BY <2>6, ChangedIsSettings DEF SetServer, Server, Ipc, Part, MaybeItf
    <3> QED
      BY <2>6, <3>1, TypeChange DEF SetServer, TypeOK
  <2>7. CASE SetClient(r)
    <3>1. CASE options[r]["client"] \in Itf
      <4>1. [cfg[r] EXCEPT ![Client] = options[r]["client"]] \in Settings
        BY <3>1, ChangedIsSettings DEF Client, Ipc, Part, MaybeItf
      <4> QED
        BY <2>7, <3>1, <4>1, TypeChange DEF SetClient, TypeOK
    <3>2. CASE options[r]["client"] \notin Itf
      BY <2>7, <3>2, TypeChange DEF SetClient, TypeOK
    <3> QED
      BY <3>1, <3>2
  <2>8. CASE SetIpc(r)
    <3>1. options[r]["ipc"] \in SocketName
      BY <2>8, ConfigAssumption DEF SetIpc, At, TypeOK, NoOptions, Given
    <3>2. [cfg[r] EXCEPT ![Ipc] = options[r]["ipc"]] \in Settings
      BY <3>1, ChangedIsSettings DEF Ipc, Part
    <3> QED
      BY <2>8, <3>2, TypeChange DEF SetIpc, TypeOK
  <2>9. CASE AskBoth(r)
    <3>1. PICK s \in Itf, c \in Itf :
            Change(r, [cfg[r] EXCEPT ![Server] = s, ![Client] = c])
      BY <2>9 DEF AskBoth
    <3>2. [cfg[r] EXCEPT ![Server] = s, ![Client] = c] \in Settings
      BY DEF Settings, FileOf, Server, Client, Ipc, Part, MaybeItf
    <3> QED
      BY <2>9, <3>1, <3>2, TypeChange DEF AskBoth, TypeOK
  <2>10. CASE ReadBehind(r)
    <3>1. CASE Change(r, [cfg[r] EXCEPT ![Server] = Garbage])
      <4>1. [cfg[r] EXCEPT ![Server] = Garbage] \in Settings
        BY DEF Settings, FileOf, Server, Ipc, Part, MaybeItf
      <4> QED
        BY <2>10, <3>1, <4>1, TypeChange DEF ReadBehind
    <3>2. ASSUME NEW s \in Itf \cup {Garbage},
                 Change(r, [cfg[r] EXCEPT ![Server] = s, ![Client] = Garbage])
          PROVE  TypeOK'
      <4>1. [cfg[r] EXCEPT ![Server] = s, ![Client] = Garbage] \in Settings
        BY DEF Settings, FileOf, Server, Client, Ipc, Part, MaybeItf
      <4> QED
        BY <2>10, <3>2, <4>1, TypeChange DEF ReadBehind
    <3> QED
      BY <2>10, <3>1, <3>2 DEF ReadBehind
  <2>11. CASE Bridge(r)
    <3>1. Configuration \in Settings
      BY <2>11, ConfigAssumption DEF Bridge, Usable, Configuration, TypeOK, Files, FileOf, Settings
    <3> QED
      BY <2>11, <3>1 DEF Bridge, Goto, TypeOK, Stages
  <2>12. CASE Ends(r) /\ undisturbed' \in BOOLEAN
    BY <2>12, DefaultIsSettings DEF Ends, Goto, TypeOK, Stages, Given
  <2> QED
    BY <2>1, <2>2, <2>3, <2>4, <2>5, <2>6, <2>7, <2>8, <2>9, <2>10, <2>11, <2>12
       DEF Step, BridgeThrows, Kill, Done, TypeOK
<1> QED
  BY <1>1, <1>2

\* Every variable keeps its type.
THEOREM TypeCorrect == Spec => []TypeOK
  BY TypeInit, TypeStep, PTL DEF Spec

-----------------------------------------------------------------------------
\* The file holds what was last set.  While runs do not overlap, at most one
\* holds settings; until it saves them they are the ones last set, but for the
\* part it has changed, and the file is empty while it writes.

OneHolds == \A q, r \in Run : Holds(q) /\ Holds(r) => q = r

HeldIsChosen ==
    \A r \in Run :
        /\ stage[r] = "set" => cfg[r] = chosen
        /\ stage[r] = "write" => etc = <<>>
        /\ stage[r] \in {"truncate", "write"} =>
              \E k \in todo[r] :
                  /\ \A j \in todo[r] : Place[k] <= Place[j]
                  /\ \A i \in (1..3) \ Sets(k) : cfg[r][i] = chosen[i]

IInv == TypeOK /\ FileHoldsChosen /\ (undisturbed => OneHolds /\ HeldIsChosen)

LEMMA IInvInit == Init => IInv
  <1> SUFFICES ASSUME Init PROVE IInv
    OBVIOUS
  <1>1. Load(etc) = chosen
    BY DefaultIsSettings DEF Init, Load, Settings, FileOf, Default
  <1> QED
    BY <1>1, TypeInit DEF Init, IInv, FileHoldsChosen, OneHolds, HeldIsChosen, Holds

\* A step that neither writes the file nor touches what is held or chosen.
LEMMA IInvQuiet ==
  ASSUME IInv, TypeOK', NEW r \in Run, ~Holds(r), ~(Holds(r)'),
         etc' = etc, chosen' = chosen, undisturbed' => undisturbed,
         \A q \in Run \ {r} : cfg'[q] = cfg[q] /\ stage'[q] = stage[q] /\ todo'[q] = todo[q]
  PROVE  IInv'
<1>1. FileHoldsChosen'
  <2> SUFFICES ASSUME undisturbed', \A q \in Run : stage'[q] # "write"
               PROVE  Load(etc') = chosen'
    BY DEF FileHoldsChosen
  <2>1. \A q \in Run : stage[q] # "write"
    BY DEF Holds
  <2> QED
    BY <2>1 DEF IInv, FileHoldsChosen
<1>2. (undisturbed => OneHolds)' /\ (undisturbed => HeldIsChosen)'
  BY DEF IInv, OneHolds, HeldIsChosen, Holds
<1> QED
  BY <1>1, <1>2 DEF IInv

\* The option a run is at changes only its own parts.
LEMMA IInvChange ==
  ASSUME IInv, TypeOK', NEW r \in Run, NEW k \in Options, At(r, "set", k),
         NEW new \in Settings, Change(r, new), undisturbed' => undisturbed,
         \A i \in (1..3) \ Sets(k) : new[i] = cfg[r][i]
  PROVE  IInv'
<1>1. /\ stage' = [stage EXCEPT ![r] = "truncate"] /\ stage[r] = "set"
      /\ cfg' = [cfg EXCEPT ![r] = new]
      /\ etc' = etc /\ chosen' = chosen /\ todo' = todo
  BY DEF Change, Goto, At
<1>2. FileHoldsChosen'
  BY <1>1 DEF IInv, TypeOK, FileHoldsChosen
<1>3. ASSUME undisturbed' PROVE OneHolds'
  BY <1>1, <1>3 DEF IInv, TypeOK, OneHolds, Holds
<1>4. ASSUME undisturbed', NEW q \in Run, stage'[q] \in {"set", "truncate", "write"}
      PROVE  q = r
  BY <1>1, <1>3, <1>4 DEF OneHolds, Holds, IInv, TypeOK
<1>5. ASSUME undisturbed' PROVE HeldIsChosen'
  <2>1. stage'[r] = "truncate" /\ cfg'[r] = new /\ cfg[r] = chosen
    BY <1>1, <1>5 DEF IInv, HeldIsChosen, TypeOK
  <2>2. /\ k \in todo'[r] /\ \A j \in todo'[r] : Place[k] <= Place[j]
        /\ \A i \in (1..3) \ Sets(k) : cfg'[r][i] = chosen'[i]
    BY <1>1, <2>1 DEF At
  <2> QED
    BY <1>4, <1>5, <2>1, <2>2 DEF HeldIsChosen
<1> QED
  BY <1>2, <1>3, <1>5 DEF IInv

\* No two options have the same place.
LEMMA PlaceOnce ==
  ASSUME NEW j \in Options, NEW k \in Options,
         Place[j] <= Place[k], Place[k] <= Place[j]
  PROVE  j = k
<1>1. /\ Place["server"] = 1 /\ Place["client"] = 2 /\ Place["ipc"] = 3
      /\ Place["setup"] = 4 /\ Place["bridge"] = 5
  BY DEF Place, Options
<1> QED
  BY <1>1 DEF Options

LEMMA IInvStep == IInv /\ [Next]_vars => IInv'
<1> SUFFICES ASSUME IInv, [Next]_vars PROVE IInv'
  OBVIOUS
<1>t. TypeOK /\ TypeOK'
  BY TypeStep DEF IInv
<1>1. CASE UNCHANGED vars
  BY <1>1 DEF IInv, vars, TypeOK, FileHoldsChosen, OneHolds, HeldIsChosen, Holds
<1>2. CASE Next
  <2> PICK r \in Run : Step(r)
    BY <1>2 DEF Next
  <2> cfg[r] \in Settings
    BY <1>t DEF TypeOK
  <2>1. CASE Start(r)
    BY <1>t, <2>1, IInvQuiet DEF Start, Goto, TypeOK, Holds
  <2>2. CASE LoadSettings(r)
    <3>1. /\ stage' = [stage EXCEPT ![r] = "set"] /\ cfg' = [cfg EXCEPT ![r] = Load(etc)]
          /\ etc' = etc /\ chosen' = chosen /\ todo' = todo
          /\ undisturbed' = (undisturbed /\ \A q \in Run : ~Holds(q))
      BY <2>2 DEF LoadSettings, Goto
    <3>2. FileHoldsChosen'
      BY <1>t, <3>1 DEF IInv, FileHoldsChosen, Holds, TypeOK
    <3>3. ASSUME undisturbed' PROVE OneHolds' /\ HeldIsChosen'
      <4>1. \A q \in Run : q # r => ~(Holds(q)')
        BY <1>t, <3>1, <3>3 DEF Holds, TypeOK
      <4>2. Load(etc) = chosen
        BY <3>1, <3>3 DEF IInv, FileHoldsChosen, Holds
      <4> QED
        BY <1>t, <3>1, <4>1, <4>2 DEF OneHolds, HeldIsChosen, Holds, TypeOK
    <3> QED
      BY <1>t, <3>2, <3>3 DEF IInv
  <2>3. CASE Truncate(r)
    <3>1. /\ stage' = [stage EXCEPT ![r] = "write"] /\ stage[r] = "truncate"
          /\ cfg' = cfg /\ chosen' = chosen /\ todo' = todo /\ undisturbed' = undisturbed
      BY <2>3 DEF Truncate, Goto
    <3>. etc' = <<>>
      BY <2>3 DEF Truncate
    <3>2. FileHoldsChosen'
      BY <1>t, <3>1 DEF FileHoldsChosen, TypeOK
    <3>3. ASSUME undisturbed' PROVE OneHolds' /\ HeldIsChosen'
      BY <1>t, <3>1, <3>3 DEF IInv, OneHolds, HeldIsChosen, Holds, TypeOK
    <3> QED
      BY <1>t, <3>2, <3>3 DEF IInv
  <2>4. CASE Save(r)
    <3>1. PICK k \in Options :
            /\ At(r, "write", k)
            /\ chosen' = [i \in 1..3 |-> IF i \in Sets(k) THEN cfg[r][i] ELSE chosen[i]]
            /\ etc' = cfg[r] /\ cfg' = cfg
            /\ stage' = [stage EXCEPT ![r] = "next"]
            /\ todo' = [todo EXCEPT ![r] = @ \ {k}]
            /\ undisturbed' = undisturbed
      BY <2>4 DEF Save, Goto
    <3>2. ASSUME undisturbed PROVE chosen' = cfg[r]
      <4>1. PICK j \in todo[r] :
              /\ \A l \in todo[r] : Place[j] <= Place[l]
              /\ \A i \in (1..3) \ Sets(j) : cfg[r][i] = chosen[i]
        BY <3>1, <3>2 DEF IInv, HeldIsChosen, At
      <4>2. j = k
        BY <1>t, <3>1, <4>1, PlaceOnce DEF At, TypeOK
      <4> QED
        BY <3>1, <4>1, <4>2 DEF Settings, FileOf
    <3>3. FileHoldsChosen'
      BY <3>1, <3>2, LoadOfSettings DEF FileHoldsChosen
    <3>4. ASSUME undisturbed PROVE \A q \in Run : ~(Holds(q)')
      BY <1>t, <3>1, <3>4 DEF IInv, OneHolds, Holds, At, TypeOK
    <3> QED
      BY <1>t, <3>1, <3>3, <3>4 DEF IInv, OneHolds, HeldIsChosen, Holds
  <2>5. CASE SaveShort(r)
    BY <1>t, <2>5 DEF SaveShort, IInv, FileHoldsChosen
  <2>6. CASE SetServer(r)
    <3>1. [cfg[r] EXCEPT ![Server] = options[r]["server"]] \in Settings
      BY <2>6, ChangedIsSettings DEF SetServer, Server, Ipc, Part, MaybeItf
    <3> QED
      BY <1>t, <2>6, <3>1, IInvChange
         DEF SetServer, Options, Sets, Server, Settings, FileOf
  <2>7. CASE SetClient(r)
    <3>1. CASE options[r]["client"] \in Itf
      <4>1. [cfg[r] EXCEPT ![Client] = options[r]["client"]] \in Settings
        BY <3>1, ChangedIsSettings DEF Client, Ipc, Part, MaybeItf
      <4> QED
        BY <1>t, <2>7, <3>1, <4>1, IInvChange
           DEF SetClient, Options, Sets, Client, Settings, FileOf
    <3>2. CASE options[r]["client"] \notin Itf
      BY <1>t, <2>7, <3>2, IInvChange DEF SetClient, Options
    <3> QED
      BY <3>1, <3>2
  <2>8. CASE SetIpc(r)
    <3>1. cfg'[r] = [cfg[r] EXCEPT ![Ipc] = options[r]["ipc"]] /\ cfg'[r] \in Settings
      BY <1>t, <2>8 DEF SetIpc, Change, TypeOK
    <3> QED
      BY <1>t, <2>8, <3>1, IInvChange
         DEF SetIpc, Options, Sets, Ipc, Settings, FileOf
  <2>9. CASE AskBoth(r)
    <3>1. PICK s \in Itf, c \in Itf :
            Change(r, [cfg[r] EXCEPT ![Server] = s, ![Client] = c])
      BY <2>9 DEF AskBoth
    <3>2. [cfg[r] EXCEPT ![Server] = s, ![Client] = c] \in Settings
      BY DEF Settings, FileOf, Server, Client, Ipc, Part, MaybeItf
    <3>3. \A i \in (1..3) \ Sets("setup") :
             [cfg[r] EXCEPT ![Server] = s, ![Client] = c][i] = cfg[r][i]
      BY DEF Sets, Server, Client, Settings, FileOf
    <3>4. "setup" \in Options /\ At(r, "set", "setup") /\ undisturbed' = undisturbed
      BY <2>9 DEF AskBoth, Options
    <3> QED
      BY <1>t, <3>1, <3>2, <3>3, <3>4, IInvChange
  <2>10. CASE ReadBehind(r)
    BY <1>t, <2>10 DEF ReadBehind, IInv, FileHoldsChosen
  <2>11. CASE Bridge(r)
    BY <1>t, <2>11, IInvQuiet DEF Bridge, At, Goto, TypeOK, Holds
  <2>12. CASE Ends(r) /\ undisturbed' = (undisturbed /\ stage[r] # "write")
    <3>1. /\ stage' = [stage EXCEPT ![r] = "off"] /\ etc' = etc /\ chosen' = chosen
          /\ \A q \in Run \ {r} : cfg'[q] = cfg[q] /\ todo'[q] = todo[q]
      BY <1>t, <2>12 DEF Ends, Goto, TypeOK
    <3>2. FileHoldsChosen'
      BY <1>t, <2>12, <3>1 DEF IInv, FileHoldsChosen, TypeOK
    <3>3. ASSUME undisturbed' PROVE OneHolds' /\ HeldIsChosen'
      BY <1>t, <2>12, <3>1, <3>3 DEF IInv, OneHolds, HeldIsChosen, Holds, TypeOK
    <3> QED
      BY <1>t, <3>2, <3>3 DEF IInv
  <2>13. CASE Done(r) \/ BridgeThrows(r)
    <3>1. Ends(r) /\ stage[r] = "next" /\ undisturbed' = undisturbed
      BY <2>13 DEF Done, BridgeThrows, At
    <3>2. undisturbed \in BOOLEAN /\ "next" # "write"
      BY <1>t DEF TypeOK
    <3>3. undisturbed' = (undisturbed /\ stage[r] # "write")
      BY <3>1, <3>2
    <3> QED
      BY <2>12, <3>1, <3>3
  <2>14. CASE Kill(r)
    BY <2>12, <2>14 DEF Kill
  <2> QED
    BY <2>1, <2>2, <2>3, <2>4, <2>5, <2>6, <2>7, <2>8, <2>9, <2>10, <2>11,
       <2>13, <2>14 DEF Step
<1> QED
  BY <1>1, <1>2

\* Over any number of runs that do not overlap, saving one part keeps the others.
THEOREM PartsKept == Spec => []FileHoldsChosen
<1>1. IInv => FileHoldsChosen
  BY DEF IInv
<1> QED
  BY <1>1, IInvInit, IInvStep, PTL DEF Spec

\* A step that starts a bridge is Bridge.
LEMMA BridgeStep ==
  ASSUME TypeOK, [Next]_vars, NEW r \in Run,
         stage[r] # "bridging", stage'[r] = "bridging"
  PROVE  Bridge(r)
<1> PICK q \in Run : Step(q)
  BY DEF Next, vars
<1>1. CASE q # r
  BY <1>1 DEF Step, Start, LoadSettings, Truncate, Save, SaveShort, SetServer,
     SetClient, SetIpc, AskBoth, ReadBehind, Bridge, BridgeThrows, Kill, Done,
     Change, Ends, Goto, TypeOK
<1>2. CASE q = r
  BY <1>2 DEF Step, Start, LoadSettings, Truncate, Save, SaveShort, SetServer,
     SetClient, SetIpc, AskBoth, ReadBehind, BridgeThrows, Kill, Done,
     Change, Ends, Goto, TypeOK
<1> QED
  BY <1>1, <1>2

\* A bridge starts with the settings of its user, or else with what was last
\* set for each part by runs that did not overlap.
THEOREM BridgeStartsRight == Spec => BridgeUsesChosen
<1> DEFINE Right(r) == (stage[r] # "bridging" /\ stage'[r] = "bridging") =>
                          IF home # None THEN cfg'[r] = home
                          ELSE undisturbed => cfg'[r] = chosen
<1>1. IInv /\ [Next]_vars => [\A r \in Run : Right(r)]_vars
  <2> SUFFICES ASSUME IInv, [Next]_vars, NEW r \in Run,
                      stage[r] # "bridging", stage'[r] = "bridging"
               PROVE  IF home # None THEN cfg'[r] = home
                      ELSE undisturbed => cfg'[r] = chosen
    OBVIOUS
  <2>1. TypeOK /\ Bridge(r)
    BY BridgeStep DEF IInv
  <2>2. cfg'[r] = Configuration /\ Len(Configuration) = 3
    BY <2>1 DEF Bridge, Usable, TypeOK
  <2>3. ASSUME home = None, undisturbed PROVE etc = chosen
    <3>1. Len(etc) = 3 /\ etc \in Files
      BY <2>1, <2>2, <2>3 DEF Configuration, TypeOK
    <3>2. etc \in Settings
      <4> PICK n \in 0..3 : etc \in FileOf(n)
        BY <3>1 DEF Files
      <4>1. Len(etc) = n
        BY DEF FileOf
      <4> QED
        BY <3>1, <4>1 DEF Settings
    <3>3. \A q \in Run : stage[q] # "write"
      BY <2>3, <3>1 DEF IInv, HeldIsChosen
    <3> QED
      BY <2>3, <3>2, <3>3, LoadOfSettings DEF IInv, FileHoldsChosen
  <2> QED
    BY <2>2, <2>3 DEF Configuration
<1> QED
  BY <1>1, IInvInit, IInvStep, PTL DEF Spec, BridgeUsesChosen
=============================================================================
