----------------------------- MODULE MCMkdirRpc -----------------------------
(***************************************************************************)
(* Three calls on a base directory that may be missing: two ask for the    *)
(* same directory, as two runs of the client program do, one for a         *)
(* directory inside it.                                                    *)
(***************************************************************************)
EXTENDS MkdirRpc, TLC

MCDirs == {"tmp", "base", "world", "inner"}
MCParent == [tmp |-> "tmp", base |-> "tmp", world |-> "base", inner |-> "world"]

CONSTANTS c1, c2, c3
MCCalls == {c1, c2, c3}
MCTarget == (c1 :> "world") @@ (c2 :> "world") @@ (c3 :> "inner")
============================================================================
