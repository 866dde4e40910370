--------------------------- MODULE MCBridgeConfig ---------------------------
(***************************************************************************)
(* Command lines for TLC: names that exist and names that do not, options  *)
(* together and alone, and the service.                                    *)
(***************************************************************************)
EXTENDS BridgeConfig, TLC

CONSTANTS e1, e2, wrong, default, other, r1, r2

Only(given) == given @@ [k \in Options |-> None]

MCCommands == {Only("server" :> wrong), Only("client" :> wrong @@ "ipc" :> other),
               Only("server" :> e1 @@ "client" :> e2 @@ "bridge" :> TRUE),
               Only("setup" :> TRUE), Only("bridge" :> TRUE)}

Symmetry == Permutations(Run)

MCHomes == {None, <<>>, <<e2, e1, default>>}
=============================================================================
