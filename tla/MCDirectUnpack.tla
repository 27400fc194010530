--------------------------- MODULE MCDirectUnpack ---------------------------
(* A small instance of DirectUnpack, with every goroutine running. *)
EXTENDS DirectUnpack, TLC

\* A set of two volumes, one of them damaged, and a set of one volume.
V(s, v) == [set |-> s, vol |-> v]
MCVolumes == "a1" :> V("a", 1) @@ "a2" :> V("a", 2) @@ "b1" :> V("b", 1)

\* A second volume is named for the other set.
FourVolumes == MCVolumes @@ "b2" :> V("b", 2)

\* The other set's archive is over with its first volume, whatever is named.
MCEnds == "a" :> 2 @@ "b" :> 1

\* Both archives are over with their first volume.
EarlyEnds == "a" :> 1 @@ "b" :> 1

\* The unpackers, their feeds, the watcher, an abort that was begun, and the
\* goroutine that waits for the unpacker of a finished job.
UnpackFairness ==
  /\ \A i \in 1..3 :
       /\ WF_unpackVars(i <= Len(units) /\ RunSteps(i))
       /\ \A g \in 1..3 : WF_unpackVars(/\ i <= Len(units) /\ g <= Len(units[i].feeds)
                                        /\ FeedStep(i, g))
  /\ WF_unpackVars(WatcherSteps) /\ WF_unpackVars(AbortEnd \/ AfterAbort)
  /\ WF_unpackVars(WaitBegins) /\ WF_unpackVars(WaitEnds)

UnpackSpec == UnpackSafety /\ UnpackFairness
=============================================================================
