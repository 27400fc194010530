---------------------------- MODULE MCMoreParts ----------------------------
(***************************************************************************)
(* Four components that stand by themselves: the barrier lock, the         *)
(* replacement of the downloader, the stages of post-processing and Direct *)
(* Unpack, model-checked in one run as in MCParts.                         *)
(***************************************************************************)
EXTENDS BarrierLock, Reload, PostStages, DirectUnpack, TLC

VARIABLE part

\* Processing levels with and without quick check, join, cleanups and folders; in
\* one of them the names of the RAR volumes match the sample pattern.
C(pp, q, j, c, k, f) ==
  [pp |-> pp, quick |-> q, join |-> j, clean |-> c, junk |-> k, folder |-> f]
Samples == {Sample, Alien}
MCConfigs ==
  {C(3, TRUE, TRUE, TRUE, Samples, TRUE), C(2, FALSE, TRUE, FALSE, Samples, FALSE),
   C(3, FALSE, TRUE, TRUE, Samples \cup {Vol("rar")}, FALSE),
   C(3, TRUE, FALSE, TRUE, {}, FALSE), C(1, TRUE, TRUE, TRUE, Samples, FALSE),
   C(0, TRUE, TRUE, TRUE, {}, TRUE)}

\* A set of three volumes whose archive is over with the second, and one of a
\* single damaged volume.
V(s, v) == [set |-> s, vol |-> v]
MCVolumes == "a1" :> V("a", 1) @@ "a2" :> V("a", 2) @@ "a3" :> V("a", 3) @@ "b1" :> V("b", 1)
MCEnds == "a" :> 2 @@ "b" :> 1
-----------------------------------------------------------------------------
\* The one start of a part that is not played.
lockRest == LET first == CHOOSE j \in Job : TRUE IN \A p \in Proc : on[p] = first

stagesRest ==
  /\ config = C(0, TRUE, TRUE, TRUE, {}, TRUE)
  /\ damaged = {} /\ fixable = {} /\ hidden = {} /\ walk = Fresh({})

MCInit ==
  /\ part \in {"lock", "reload", "stages", "unpack"}
  /\ Init /\ (part # "lock" => lockRest)
  /\ StagesInit /\ (part # "stages" => stagesRest)
  /\ ReloadInit /\ UnpackInit

MCNext ==
  /\ UNCHANGED part
  /\ IF part = "lock" THEN Next ELSE UNCHANGED vars
  /\ IF part = "reload" THEN ReloadNext ELSE UNCHANGED reloadVars
  /\ IF part = "stages" THEN StagesNext ELSE UNCHANGED stageVars
  /\ IF part = "unpack" THEN UnpackNext ELSE UNCHANGED unpackVars

allVars == <<part, vars, reloadVars, stageVars, unpackVars>>

MCSpec == MCInit /\ [][MCNext]_allVars
=============================================================================
