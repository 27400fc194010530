---------------------------- MODULE MCLiveParts ----------------------------
(***************************************************************************)
(* Small instances of the components whose goroutines must get on, model-  *)
(* checked in one run with fairness.  A behaviour plays one part, chosen   *)
(* at the start; the others stay as they begin.                            *)
(***************************************************************************)
EXTENDS MCDurability, NNTPConn

VARIABLES
  part,
  handoff, ppq, token, current, doomed, worker, stopped, occupied, queueRows,
  history, runRows, latched, cancelledRows, removal, caught, unfiled, postFaults

\* The body of one article and a check for another, on one connection.
MCCommands == <<[kind |-> "BODY", id |-> "a"], [kind |-> "STAT", id |-> "b"]>>

Queue == INSTANCE PostQueue WITH
  PostJob <- {"a", "b"}, Unpacking <- {"b"}, MaxRemovals <- 0, MaxFaults <- 1
-----------------------------------------------------------------------------
postVars ==
  <<handoff, ppq, token, current, doomed, worker, stopped, occupied, queueRows,
    history, runRows, latched, cancelledRows, removal, caught, unfiled,
    postFaults>>

MCInit ==
  /\ part \in {"job", "conn", "post"}
  /\ Init
  /\ NntpInit
  /\ Queue!PostInit

MCNext ==
  /\ UNCHANGED part
  /\ IF part = "job" THEN Next ELSE UNCHANGED vars
  /\ IF part = "conn" THEN NntpNext ELSE UNCHANGED nntpVars
  /\ IF part = "post" THEN Queue!PostNext ELSE UNCHANGED postVars

allVars == <<part, vars, nntpVars, postVars>>

\* The fairness each module asks for, of the part that is played.
played == part = "job"

JobFairness ==
  /\ WF_vars(played /\ \E a \in Article : Emit(a))
  /\ WF_vars(played /\ Assembling)
  /\ WF_vars(played /\ (Advance \/ Commit \/ Ack \/ BarrierReturns))
  /\ \A f \in File :
       /\ WF_vars(played /\ Serving(f))
       /\ WF_vars(played /\ Release(f))
       /\ SF_vars(played /\ Finalize(f))
       /\ WF_vars(played /\ Deliver(f))
  /\ WF_vars(played /\ \E ok \in SUBSET Article : LateOp(ok))
  /\ SF_vars(played /\ Reevaluate)
  /\ WF_vars(played /\ Reevaluating)
  /\ WF_vars(played /\ Flush)

ConnFairness ==
  /\ WF_connVars(part = "conn" /\ Reading)
  /\ \A c \in Cmd : WF_connVars(part = "conn" /\ CallSteps(c))

PostFairness ==
  /\ WF_postVars(part = "post" /\ Queue!Work)
  /\ \A j \in {"a", "b"} : WF_postVars(part = "post" /\ Queue!HandOff(j))

MCSpec ==
  /\ MCInit /\ [][MCNext]_allVars
  /\ JobFairness /\ ConnFairness /\ PostFairness
-----------------------------------------------------------------------------
\* Durability: every file of the job is completed in the end, or left to the next
\* start because its own finalize failed.
JobCompletes == played => FilesComplete

\* PostQueue: no wake-up is lost between Push and Pop.
PushedIsTaken == Queue!PushedIsTaken
=============================================================================
