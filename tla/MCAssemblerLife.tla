-------------------------- MODULE MCAssemblerLife --------------------------
(* A small instance of AssemblerLife: two files of one article. *)
EXTENDS AssemblerLife, TLC

MCFileOf == 1 :> "f" @@ 2 :> "g"
=============================================================================
