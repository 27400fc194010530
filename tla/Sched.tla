------------------------------- MODULE Sched --------------------------------
(***************************************************************************)
(* The scheduler (internal/sched): a lease pool, a compute-slot pool and   *)
(* the doors that move a job's work spine and its resources together.      *)
(*                                                                         *)
(* Every door runs under Queue.mu, so each is one step.  A door reads the  *)
(* job once (Snapshot) and acts on that reading; the two calls that reach  *)
(* a job without Queue.mu, SetIntent and SetNext, change nothing a door    *)
(* reads again, so a call between the reading and the action is the same   *)
(* as that call after the door.                                            *)
(*                                                                         *)
(* A lease id is the identity of one issue.  The pool's counter never      *)
(* repeats one; the model draws any id that is neither issued nor held,    *)
(* which no state can tell from a new one.                                 *)
(***************************************************************************)
EXTENDS JobLifecycle, FiniteSets

CONSTANTS
    Job,        \* the job objects
    Id,         \* their names: the slot pool and the registry are keyed by name
    IdOf,       \* the name of each object; an object may reuse a name
    LeaseId,    \* lease identities
    MaxLeases,  \* largest lease capacity a configuration may set
    MaxSlots    \* largest slot capacity

ASSUME IdOfAssumption == IdOf \in [Job -> Id]
ASSUME LeaseIdAssumption == LeaseUnset \notin LeaseId
ASSUME CapsAssumption == MaxLeases \in Nat \ {0} /\ MaxSlots \in Nat \ {0}

VARIABLES
    jobs,       \* the job objects
    issued,     \* leasePool.issued
    held,       \* slotPool.held: names
    leaseCap, slotCap,
    paused,     \* Queue.paused
    aborts      \* jobs whose worker has been told to yield and has not yet

schedVars == <<jobs, issued, held, leaseCap, slotCap, paused, aborts>>

needsLease(s) == s \in {"Fetching", "Assessing", "Repairing"}

needsSlot(s) == s \in {"Assessing", "Repairing", "Extracting", "Finalizing"}

cancelInterrupts(s) == ~IsProduction(s)

-----------------------------------------------------------------------------
(* What a door works on: the job it was given and the two pools. *)

Pools(o) == [job |-> jobs[o], issued |-> issued, held |-> held]

Commit(o, p) ==
    /\ jobs' = [jobs EXCEPT ![o] = p.job]
    /\ issued' = p.issued
    /\ held' = p.held

(* releaseFor: the slot goes back when the state needs none; Unset needs none. *)
releaseFor(p, o, s) ==
    IF needsSlot(s) THEN p ELSE [p EXCEPT !.held = @ \ {IdOf[o]}]

reclaim(p, l) == [p EXCEPT !.issued = @ \ {l}]

(* parkLocked: give back the slot and the lease. *)
parkLocked(o) ==
    LET p == releaseFor(Pools(o), o, Unset)
    IN  reclaim([p EXCEPT !.job = Surrender(@)], p.job.lease)

holds(o) ==
    LET j == jobs[o]
    IN  /\ HasRun(j)
        /\ needsLease(j.state) => HoldsLease(j)
        /\ needsSlot(j.state) => IdOf[o] \in held

running(o) == IsOpen(jobs[o]) /\ jobs[o].next = Unset /\ holds(o)

gatedBy(o) == jobs[o].intent = "Pause" \/ paused

(* waitReason: why a job does not run, or "none". *)
WaitsFor(o, want) ==
    IF needsLease(want) /\ ~HoldsLease(jobs[o]) THEN "NoLease"
    ELSE IF needsSlot(want) /\ IdOf[o] \notin held THEN "NoComputeSlot"
    ELSE "none"

waitReason(o) ==
    IF IsSettled(jobs[o].outcome) \/ running(o) THEN "none"
    ELSE IF jobs[o].intent = "Pause" THEN "UserPaused"
    ELSE IF paused THEN "GlobalPause"
    ELSE IF ~HasRun(jobs[o]) THEN "NoLease"
    ELSE WaitsFor(o, IF jobs[o].next # Unset THEN jobs[o].next ELSE jobs[o].state)

(* ToSABnzbd: the status clients see.  The activity, a label that tells    *)
(* QuickCheck from Verifying and Running from Moving, is left out.         *)
ToSABnzbd(o) ==
    LET j == jobs[o]
    IN  IF IsSettled(j.outcome)
        THEN CASE j.outcome = "OK" -> "Completed"
               [] j.outcome = "Cancelled" -> "Deleted"
               [] OTHER -> "Failed"
        ELSE IF ~running(o)
        THEN IF waitReason(o) \in {"UserPaused", "GlobalPause"} THEN "Paused" ELSE "Queued"
        ELSE CASE j.state = "Fetching"   -> IF j.assessed THEN "Fetching" ELSE "Downloading"
               [] j.state = "Assessing"  -> "Verifying"
               [] j.state = "Repairing"  -> "Repairing"
               [] j.state = "Extracting" -> "Extracting"
               [] j.state = "Finalizing" -> "Moving"

(* grantFor, first half: the states p may be in after the lease was asked  *)
(* for.  A refused issue or a refused Grant leaves p as it was.            *)
LeaseGranted(p, s) ==
    IF needsLease(s) /\ ~HoldsLease(p.job)
    THEN { [p EXCEPT !.job = Grant(@, l), !.issued = @ \cup {l}] :
             l \in { x \in LeaseId : /\ Cardinality(p.issued) < leaseCap
                                     /\ x \notin p.issued
                                     /\ \A o \in Job : jobs[o].lease # x
                                     /\ GrantOK(p.job, x) } }
    ELSE {p}

(* Second half: the slot.  A job refused its slot keeps the lease. *)
SlotFree(p, o, s) ==
    needsSlot(s) => IdOf[o] \in p.held \/ Cardinality(p.held) < slotCap

SlotGranted(p, o, s) ==
    IF needsSlot(s) THEN [p EXCEPT !.held = @ \cup {IdOf[o]}] ELSE p

(* grantFor: the pairs (pools, granted in full). *)
grantFor(p, o, s) ==
    IF LeaseGranted(p, s) = {} THEN {<<p, FALSE>>}
    ELSE { IF SlotFree(q, o, s) THEN <<SlotGranted(q, o, s), TRUE>> ELSE <<q, FALSE>> :
             q \in LeaseGranted(p, s) }

-----------------------------------------------------------------------------
(* The doors. *)

Park(o) ==
    /\ Commit(o, parkLocked(o))
    /\ UNCHANGED <<leaseCap, slotCap, paused, aborts>>

(* settleLocked: a cancelled job at a position cancel interrupts settles   *)
(* as Cancelled whatever the worker reported.                              *)
SettledAs(j, out) ==
    IF j.intent = "Cancel" /\ cancelInterrupts(j.state) THEN "Cancelled" ELSE out

(* mutant: settling does not hand the lease back to the pool *)
settleKeepsLease(o, j, out) ==
    Commit(o, releaseFor([Pools(o) EXCEPT !.job = Finish(j, SettledAs(j, out))], o, Unset))

settleLocked(o, j, out) ==
    LET p == [Pools(o) EXCEPT !.job = Finish(j, SettledAs(j, out))]
    IN  Commit(o, reclaim(releaseFor(p, o, Unset), j.lease))

Settle(o, out) ==
    /\ out # "Cancelled"
    /\ FinishOK(jobs[o], SettledAs(jobs[o], out))
    /\ settleLocked(o, jobs[o], out)
    /\ UNCHANGED <<leaseCap, slotCap, paused, aborts>>

(* mutant: a cancelled job that no worker runs is left for its worker *)
finishCancelWaits(o, j) ==
    /\ Commit(o, [Pools(o) EXCEPT !.job = j])
    /\ aborts' = IF running(o) /\ cancelInterrupts(j.state) THEN aborts \cup {o} ELSE aborts

(* finishCancel on a job whose intent is Cancel, j being the job as it is  *)
(* with that intent.                                                       *)
finishCancel(o, j) ==
    \/ /\ ~HasRun(j)
       /\ Commit(o, [Pools(o) EXCEPT !.job = j])
       /\ UNCHANGED aborts
    \/ /\ HasRun(j) /\ IsSettled(j.outcome)
       /\ Commit(o, releaseFor([Pools(o) EXCEPT !.job = j], o, Unset))
       /\ UNCHANGED aborts
    \/ /\ running(o)
       /\ Commit(o, [Pools(o) EXCEPT !.job = j])
       /\ aborts' = IF cancelInterrupts(j.state) THEN aborts \cup {o} ELSE aborts
    \/ /\ IsOpen(j) /\ ~running(o)
       /\ settleLocked(o, j, "Cancelled")
       /\ UNCHANGED aborts

Cancel(o) ==
    /\ finishCancel(o, SetIntent(jobs[o], "Cancel"))
    /\ UNCHANGED <<leaseCap, slotCap, paused>>

(* mutant: a retry after the boundary starts over *)
RetryAnything(o) ==
    /\ IsSettled(jobs[o].outcome)
    /\ Commit(o, [releaseFor(Pools(o), o, Unset) EXCEPT !.job = BeginAttempt(@)])
    /\ UNCHANGED <<leaseCap, slotCap, paused, aborts>>

Retry(o) ==
    /\ IsSettled(jobs[o].outcome)
    /\ LET p == releaseFor(Pools(o), o, Unset)
       IN  Commit(o, [p EXCEPT !.job = IF BeginAttemptOK(@) THEN BeginAttempt(@) ELSE @])
    /\ UNCHANGED <<leaseCap, slotCap, paused, aborts>>

(* Advance takes the first case that applies. *)
AdvanceStart(o) ==
    /\ ~HasRun(jobs[o])
    /\ Commit(o, IF gatedBy(o) THEN Pools(o)
                 ELSE [Pools(o) EXCEPT !.job = BeginAttempt(@)])

AdvanceSettled(o) ==
    /\ HasRun(jobs[o]) /\ IsSettled(jobs[o].outcome)
    /\ Commit(o, releaseFor(Pools(o), o, Unset))

AdvanceWorking(o) ==
    /\ IsOpen(jobs[o]) /\ jobs[o].next = Unset
    /\ \/ holds(o) /\ Commit(o, Pools(o))
       \/ ~holds(o) /\ gatedBy(o) /\ Commit(o, parkLocked(o))
       \/ /\ ~holds(o) /\ ~gatedBy(o)
          /\ \E g \in grantFor(Pools(o), o, jobs[o].state) : Commit(o, g[1])

AdvanceGated(o) ==
    /\ IsOpen(jobs[o]) /\ jobs[o].next # Unset
    /\ gatedBy(o)
    /\ Commit(o, parkLocked(o))

(* The boundary: the lease is surrendered with the move, and the slot is   *)
(* asked for after it.                                                     *)
AdvanceCross(o) ==
    /\ IsOpen(jobs[o]) /\ ~gatedBy(o)
    /\ IsCorrectness(jobs[o].state) /\ IsProduction(jobs[o].next)
    /\ CrossOK(jobs[o], jobs[o].next)
    /\ LET to == jobs[o].next
           p  == reclaim([Pools(o) EXCEPT !.job = Cross(@, to)], jobs[o].lease)
       IN  \E g \in grantFor(p, o, to) : Commit(o, g[1])

(* moveTo: resources first, then the move, then what the new state needs   *)
(* no longer.                                                              *)
AdvanceMove(o) ==
    /\ IsOpen(jobs[o]) /\ ~gatedBy(o)
    /\ jobs[o].next # Unset
    /\ ~(IsCorrectness(jobs[o].state) /\ IsProduction(jobs[o].next))
    /\ LET from == jobs[o].state
           to   == jobs[o].next
       IN  \E g \in grantFor(Pools(o), o, to) :
             Commit(o, IF ~g[2] THEN g[1]
                       ELSE IF TransitionOK(g[1].job, to)
                       THEN releaseFor([g[1] EXCEPT !.job = Transition(@, to)], o, to)
                       ELSE releaseFor(g[1], o, from))

Advance(o) ==
    /\ \/ /\ jobs[o].intent = "Cancel"
          /\ finishCancel(o, jobs[o])
       \/ /\ jobs[o].intent # "Cancel"
          /\ \/ AdvanceStart(o) \/ AdvanceSettled(o) \/ AdvanceWorking(o)
             \/ AdvanceGated(o) \/ AdvanceCross(o)   \/ AdvanceMove(o)
          /\ UNCHANGED aborts
    /\ UNCHANGED <<leaseCap, slotCap, paused>>

Pause ==
    /\ paused' = TRUE
    /\ UNCHANGED <<jobs, issued, held, leaseCap, slotCap, aborts>>

Resume ==
    /\ paused' = FALSE
    /\ UNCHANGED <<jobs, issued, held, leaseCap, slotCap, aborts>>

(* A capacity below one is raised to one; what is outstanding stays out. *)
SetCaps(l, s) ==
    /\ leaseCap' = IF l < 1 THEN 1 ELSE l
    /\ slotCap' = IF s < 1 THEN 1 ELSE s
    /\ UNCHANGED <<jobs, issued, held, paused, aborts>>

SchedInit ==
    /\ jobs = [o \in Job |-> NewJob]
    /\ issued = {}
    /\ held = {}
    /\ leaseCap \in 1..MaxLeases
    /\ slotCap \in 1..MaxSlots
    /\ paused = FALSE
    /\ aborts = {}

SchedTypeOK ==
    /\ jobs \in [Job -> JobType(LeaseId)]
    /\ issued \subseteq LeaseId
    /\ held \subseteq Id
    /\ leaseCap \in 1..MaxLeases
    /\ slotCap \in 1..MaxSlots
    /\ paused \in BOOLEAN
    /\ aborts \subseteq Job

-----------------------------------------------------------------------------
(* The pool has issued exactly the leases the jobs hold, each to one job:  *)
(* no way through a door loses a lease or leaves one with two owners.      *)
LeasesConserved ==
    /\ issued = { jobs[o].lease : o \in Job } \ {LeaseUnset}
    /\ \A o, p \in Job : HoldsLease(jobs[o]) /\ jobs[o].lease = jobs[p].lease => o = p

(* A lease is held only by an open job before the boundary: the doors that *)
(* cross, finish or park hand it back.                                     *)
LeasesWellPlaced ==
    \A o \in Job : HoldsLease(jobs[o]) => IsOpen(jobs[o]) /\ IsCorrectness(jobs[o].state)

(* What every door preserves. *)
SchedInv ==
    /\ SchedTypeOK
    /\ IsFiniteSet(issued)
    /\ LeasesConserved
    /\ LeasesWellPlaced
    /\ \A o \in Job : Sound(jobs[o])
=============================================================================
