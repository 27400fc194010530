---------------------------- MODULE MCDurability ----------------------------
(* Small jobs for model-checking Durability. *)
EXTENDS DurabilityInv

\* One file of two articles, one block each, declared one block too long.
OneFile == {"f1"}
TwoArticles == {"a1", "a2"}
OneFileOf == [a \in TwoArticles |-> "f1"]
TwoEnds == [a \in TwoArticles |-> IF a = "a1" THEN 1 ELSE 2]
OneSize == [f \in OneFile |-> 3]
=============================================================================
