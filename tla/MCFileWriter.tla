---------------------------- MODULE MCFileWriter ----------------------------
(* A small file for model-checking FileWriter. *)
EXTENDS FileWriter

\* Two articles claim the first offset, a third follows them.
ThreeArticles == {"a1", "a2", "b1"}
Colliding == [a \in ThreeArticles |-> IF a = "b1" THEN 2 ELSE 1]
=============================================================================
