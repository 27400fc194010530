----------------------------- MODULE SchedWork ------------------------------
(***************************************************************************)
(* The scheduler with the callers it is written for, the dispatcher        *)
(* reduced to what reaches the scheduler: a walk that advances every job,  *)
(* workers that decide a destination and yield, calls of the user.  Jobs   *)
(* compete here for leases and slots.                                      *)
(***************************************************************************)
EXTENDS Sched

CONSTANT MaxRounds, MaxCalls   \* bounds: ways back from Assessing, user calls

VARIABLES
    yielding,   \* jobs whose worker has decided and is about to yield
    rounds,     \* how often each job may still leave Assessing for more data or repair
    calls       \* user calls still to come

workVars == <<schedVars, yielding, rounds, calls>>

caps == <<leaseCap, slotCap, paused>>

(* A worker records its decision, and yields in a later step; a walk may   *)
(* move the job in between.                                                *)
Decides(o, n) ==
    /\ running(o) /\ o \notin yielding
    /\ SetNextOK(jobs[o], n)
    /\ jobs' = [jobs EXCEPT ![o] = SetNext(@, n)]
    /\ yielding' = yielding \cup {o}
    /\ UNCHANGED <<issued, held, caps, aborts, calls>>

Yields(o) ==
    /\ o \in yielding \cup aborts
    /\ Commit(o, parkLocked(o))
    /\ aborts' = aborts \ {o}
    /\ yielding' = yielding \ {o}
    /\ UNCHANGED <<caps, rounds, calls>>

Forward(o) ==
    /\ \/ Decides(o, "Assessing") \/ Decides(o, "Extracting") \/ Decides(o, "Finalizing")
    /\ UNCHANGED rounds

GoesBack(o) ==
    /\ rounds[o] > 0
    /\ Decides(o, "Fetching") \/ Decides(o, "Repairing")
    /\ rounds' = [rounds EXCEPT ![o] = @ - 1]

Finished(o) ==
    /\ running(o) /\ o \notin yielding
    /\ Settle(o, "OK")
    /\ UNCHANGED <<rounds, calls, yielding>>

Walk(o) == Advance(o) /\ UNCHANGED <<rounds, calls, yielding>>

(* Calls of the user, and failures reported at any position.  What was     *)
(* paused can always be resumed; that is not counted.                      *)
Call == calls > 0 /\ calls' = calls - 1 /\ UNCHANGED <<rounds, yielding>>

SetsIntent(o, i) ==
    /\ SetIntentOK(jobs[o], i) /\ jobs[o].intent # i
    /\ jobs' = [jobs EXCEPT ![o] = SetIntent(@, i)]
    /\ UNCHANGED <<issued, held, caps, aborts>>

UserPausesJob(o)  == Call /\ SetsIntent(o, "Pause")
UserResumesJob(o) == SetsIntent(o, "Run") /\ UNCHANGED <<rounds, yielding, calls>>

UserCancels(o) == Call /\ Cancel(o)
UserRetries(o) == Call /\ jobs[o].intent # "Cancel" /\ Retry(o)
Fails(o)       == Call /\ Settle(o, "Failed")
UserPauses     == Call /\ ~paused /\ Pause
UserResumes    == paused /\ Resume /\ UNCHANGED <<rounds, yielding, calls>>
UserSetsCaps(l, s) == Call /\ <<l, s>> # <<leaseCap, slotCap>> /\ SetCaps(l, s)

Init ==
    /\ SchedInit
    /\ rounds = [o \in Job |-> MaxRounds]
    /\ calls = MaxCalls
    /\ yielding = {}

Working(o) == Forward(o) \/ GoesBack(o) \/ Finished(o) \/ Yields(o)

User ==
    \/ \E o \in Job : \/ UserCancels(o) \/ UserRetries(o) \/ Fails(o)
                      \/ UserPausesJob(o) \/ UserResumesJob(o)
    \/ UserPauses \/ UserResumes
    \/ \E l \in 1..MaxLeases, s \in 1..MaxSlots : UserSetsCaps(l, s)

Next == (\E o \in Job : Walk(o) \/ Working(o)) \/ User

(* The tick runs on a timer and walks every registered job, and a worker   *)
(* that runs ends: downloads succeed or fail, stages return.               *)
Fairness == \A o \in Job : WF_workVars(Walk(o)) /\ WF_workVars(Yields(o)) /\ WF_workVars(Working(o))

Spec == Init /\ [][Next]_workVars /\ Fairness
-----------------------------------------------------------------------------
(* A compute slot is held only by an open job at a position that needs     *)
(* one, every exit (park, settle, cancel, retry, the move back to          *)
(* Fetching) having given it up; and never without the lease the position  *)
(* needs too, or a job waiting with a slot for a lease and one waiting     *)
(* with a lease for a slot would wait for each other.                      *)
SlotsWellHeld ==
    \A o \in Job : IdOf[o] \in held =>
        /\ IsOpen(jobs[o]) /\ needsSlot(jobs[o].state)
        /\ needsLease(jobs[o].state) => HoldsLease(jobs[o])

(* A job shown as Queued for no reason is one the next walk moves: what    *)
(* waitReason reads off the pools is what Advance finds there.             *)
Ready(o) ==
    ToSABnzbd(o) = "Queued" /\ waitReason(o) = "none" /\ jobs[o].intent = "Run"

ReportedReadyMoves ==
    \A o \in Job : Ready(o) => ENABLED (Walk(o) /\ jobs'[o].state = jobs[o].next)

Unhindered(o) == jobs[o].intent # "Pause" /\ ~paused

(* Every job that is left alone in the end settles: nobody waits for a     *)
(* lease or a slot forever, and a cancelled job ends.                      *)
EveryJobSettles ==
    \A o \in Job : <>[]Unhindered(o) =>
                   <>(IsSettled(jobs[o].outcome) \/ (jobs[o].intent = "Cancel" /\ ~HasRun(jobs[o])))

Spine == INSTANCE WorkSpine WITH
    at      <- [o \in Job |-> [state |-> jobs[o].state, outcome |-> jobs[o].outcome]],
    holders <- { o \in Job : HoldsLease(jobs[o]) },
    cap     <- leaseCap,
    saved   <- [o \in Job |-> [state |-> Unset, outcome |-> "Pending"]]

(* The doors implement the abstract spine. *)
KeepsTheSpine == Spine!Spec
=============================================================================
