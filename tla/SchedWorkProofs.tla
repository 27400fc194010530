-------------------------- MODULE SchedWorkProofs ---------------------------
(***************************************************************************)
(* Proofs about the scheduler with its workers and its user, for any jobs, *)
(* leases, slots and bounds: the lease pool agrees with the jobs, and the  *)
(* doors implement WorkSpine.  Both follow from the lemmas of SchedProofs  *)
(* once every step is known to be a door.                                  *)
(***************************************************************************)
EXTENDS SchedWork, SchedProofs

LEMMA StepsAreDoors ==
  ASSUME SchedInv, [Next]_workVars
  PROVE  (\E o \in Job : InDoor(o)) \/ Outside
<1>0. aborts \subseteq Job /\ leaseCap \in 1..MaxLeases /\ slotCap \in 1..MaxSlots /\ paused \in BOOLEAN
  BY DEF SchedInv, SchedTypeOK
<1>1. ASSUME NEW o \in Job, Walk(o) PROVE InDoor(o)
  BY <1>1, AdvanceIsADoor DEF Walk, Advance, InDoor
<1>2. ASSUME NEW o \in Job, NEW n \in AllStates, Decides(o, n) PROVE InDoor(o)
  <2> DEFINE k == SetNext(jobs[o], n)
  <2>1. k \in JobType(LeaseId) /\ k.state = jobs[o].state /\ k.outcome = jobs[o].outcome
        /\ k.lease = jobs[o].lease
    BY PoolsTyped DEF SetNext, JobType
  <2>1a. Sound(k)
    BY <1>2, PoolsTyped, SoundDoors DEF Decides
  <2>2. Commit(o, [Pools(o) EXCEPT !.job = k]) /\ aborts' = aborts
        /\ UNCHANGED <<leaseCap, slotCap, paused>>
    BY <1>2, PoolsTyped, <2>1 DEF Decides, Commit, Pools, caps
  <2>3. Shape(o, [Pools(o) EXCEPT !.job = k])
    <3> HIDE DEF k
    <3> QED  BY <2>1, <2>1a, Notes
  <2> QED  BY <1>0, <2>2, <2>3 DEF InDoor, DoorStep
<1>3. ASSUME NEW o \in Job, Yields(o) PROVE InDoor(o)
  BY <1>0, <1>3, Parks DEF Yields, InDoor, DoorStep, caps
<1>4. ASSUME NEW o \in Job, Working(o) PROVE InDoor(o)
  <2>1. CASE Forward(o)
    BY <1>2, <2>1 DEF Forward, AllStates
  <2>2. CASE GoesBack(o)
    BY <1>2, <2>2 DEF GoesBack, AllStates
  <2>3. CASE Finished(o)
    BY <1>0, <2>3, SettleIsADoor DEF Finished, Settle, InDoor, AllOutcomes
  <2> QED  BY <1>3, <1>4, <2>1, <2>2, <2>3 DEF Working
<1>5. ASSUME NEW o \in Job, NEW i \in AllIntents, SetsIntent(o, i) PROVE InDoor(o)
  <2> DEFINE k == SetIntent(jobs[o], i)
  <2>1. k \in JobType(LeaseId) /\ k.state = jobs[o].state /\ k.outcome = jobs[o].outcome
        /\ k.lease = jobs[o].lease
    BY PoolsTyped DEF SetIntent, JobType
  <2>1a. Sound(k)
    BY PoolsTyped, SoundDoors
  <2>2. Commit(o, [Pools(o) EXCEPT !.job = k]) /\ aborts' = aborts
        /\ UNCHANGED <<leaseCap, slotCap, paused>>
    BY <1>5, PoolsTyped, <2>1 DEF SetsIntent, Commit, Pools, caps
  <2>3. Shape(o, [Pools(o) EXCEPT !.job = k])
    <3> HIDE DEF k
    <3> QED  BY <2>1, <2>1a, Notes
  <2> QED  BY <1>0, <2>2, <2>3 DEF InDoor, DoorStep
<1>6. ASSUME NEW o \in Job, UserCancels(o) PROVE InDoor(o)
  <2>1. finishCancel(o, [jobs[o] EXCEPT !.intent = "Cancel"])
        /\ UNCHANGED <<leaseCap, slotCap, paused>>
    BY <1>6 DEF UserCancels, Cancel, SetIntent
  <2> QED  BY <2>1, Cancels DEF InDoor
<1>7. ASSUME NEW o \in Job, UserRetries(o) \/ Fails(o) PROVE InDoor(o)
  BY <1>0, <1>7, RetryIsADoor, SettleIsADoor
     DEF UserRetries, Fails, Retry, Settle, InDoor, AllOutcomes
<1>8. ASSUME UserPauses \/ UserResumes PROVE Outside
  BY <1>0, <1>8 DEF UserPauses, UserResumes, Pause, Resume, Outside
<1>9. ASSUME NEW l \in 1..MaxLeases, NEW s \in 1..MaxSlots, UserSetsCaps(l, s) PROVE Outside
  BY <1>0, <1>9, CapsAssumption DEF UserSetsCaps, SetCaps, Outside
<1>10. CASE User
  <2>1. "Pause" \in AllIntents /\ "Run" \in AllIntents
    BY DEF AllIntents
  <2>2. ASSUME NEW o \in Job, UserPausesJob(o) \/ UserResumesJob(o) PROVE InDoor(o)
    BY <1>5, <2>1, <2>2 DEF UserPausesJob, UserResumesJob
  <2> QED  BY <1>6, <1>7, <1>8, <1>9, <1>10, <2>2 DEF User
<1>11. CASE UNCHANGED workVars
  BY <1>0, <1>11 DEF workVars, schedVars, Outside
<1> QED  BY <1>1, <1>4, <1>10, <1>11 DEF Next
(* The invariant holds of every state the scheduler reaches: what the pool *)
(* counts as issued is what the jobs hold, and a lease is held only before *)
(* the boundary (internal/sched: grantFor, parkLocked, settleLocked, Cross).*)
THEOREM QueueStaysConsistent == Spec => []SchedInv
<1>1. SchedInv /\ [Next]_workVars => SchedInv'
  BY StepsAreDoors, DoorsKeepSchedInv, OutsideKeepsSchedInv
<1> QED  BY <1>1, SchedInitHolds, PTL DEF Spec, Init

(* No door loses a lease or leaves one with two jobs, whatever the order   *)
(* of ticks, yields, cancels and retries, for any number of jobs.          *)
THEOREM LeasesAlwaysConserved == Spec => []LeasesConserved
<1>1. SchedInv => LeasesConserved
  BY DEF SchedInv
<1> QED  BY <1>1, QueueStaysConsistent, PTL
-----------------------------------------------------------------------------
LEMMA SpineCounts == \A S : Spine!Cardinality(S) = Cardinality(S)
  BY DEF Cardinality, Spine!Cardinality

(* A door is a step of the spine. *)
LEMMA DoorsAreSpineSteps ==
  ASSUME SchedInv, NEW o \in Job, InDoor(o)
  PROVE  Spine!Step(o)
<1> DEFINE at == [x \in Job |-> [state |-> jobs[x].state, outcome |-> jobs[x].outcome]]
           saved == [x \in Job |-> [state |-> Unset, outcome |-> "Pending"]]
<1>1. at'[o] = [state |-> jobs'[o].state, outcome |-> jobs'[o].outcome]
      /\ at[o] = [state |-> jobs[o].state, outcome |-> jobs[o].outcome]
  OBVIOUS
<1>2. \/ at'[o] = at[o]
      \/ Spine!Begins(at[o], at'[o]) \/ Spine!Moves(at[o], at'[o]) \/ Spine!Settles(at[o], at'[o])
  <2>1. CASE Same(jobs[o], jobs'[o])
    BY <1>1, <2>1 DEF Same
  <2>2. CASE Begun(jobs[o], jobs'[o])
    BY <1>1, <2>2 DEF Begun, Spine!Begins, Spine!Open, IsOpen, HasRun, IsSettled, Crossed,
       IsProduction, Spine!IsProduction, Unset, Spine!Unset
  <2>3. CASE Moved(jobs[o], jobs'[o])
    BY <1>1, <2>3 DEF Moved, Spine!Moves, Spine!Open, IsOpen, HasRun, IsSettled, Unset, Spine!Unset,
       CanTransition, Spine!CanTransition, edgeFrom, Spine!edgeFrom, legalEdges, Spine!legalEdges
  <2>4. CASE Settled(jobs[o], jobs'[o])
    BY <1>1, <2>4 DEF Settled, Spine!Settles, Spine!Open, IsOpen, HasRun, IsSettled, Spine!IsSettled,
       Unset, Spine!Unset, admits, Spine!admits, admissibleAt, Spine!admissibleAt, AllStates, Spine!AllStates
  <2> QED  BY DoorEffect, <2>1, <2>2, <2>3, <2>4
<1>3. at' = [at EXCEPT ![o] = at'[o]]
  BY DoorEffect
<1>4. o \in holders' => Spine!MayHold(at'[o])
  BY DoorEffect, <1>1 DEF holders, MayKeep, Spine!MayHold, Spine!Open, IsOpen, HasRun, IsSettled,
     Unset, Spine!Unset, IsCorrectness, Spine!IsCorrectness
<1>5. saved'[o] \in {saved[o], at[o], Spine!Unborn} /\ saved' = [saved EXCEPT ![o] = saved'[o]]
  OBVIOUS
<1>6. leaseCap' = leaseCap
  BY DEF InDoor
<1> HIDE DEF at, saved
<1> QED  BY <1>2, <1>3, <1>4, <1>5, <1>6, DoorEffect, SpineCounts DEF Spine!Step, at, saved, holders

(* The scheduler with its workers and its user implements the abstract     *)
(* spine, for any number of jobs, leases and slots: one legal edge at a    *)
(* time, never back over the boundary, at most leaseCap leases granted and *)
(* only to open jobs before it, and an end its position admits             *)
(* (internal/job: Transition, Cross, Finish; internal/sched).              *)
THEOREM DoorsKeepTheSpine == Spec => KeepsTheSpine
<1>1. Init => Spine!Init
  <2> SUFFICES ASSUME Init PROVE Spine!Init
    OBVIOUS
  <2>1. jobs = [o \in Job |-> NewJob] /\ leaseCap \in 1..MaxLeases
    BY DEF Init, SchedInit
  <2>2. \A o \in Job : jobs[o].state = Unset /\ jobs[o].outcome = "Pending" /\ jobs[o].lease = LeaseUnset
    BY <2>1 DEF NewJob
  <2>3. holders = {}
    BY <2>2 DEF holders, HoldsLease
  <2>4. [o \in Job |-> [state |-> jobs[o].state, outcome |-> jobs[o].outcome]]
          = [o \in Job |-> Spine!Unborn]
    BY <2>2 DEF Spine!Unborn, Unset, Spine!Unset
  <2>5. [o \in Job |-> [state |-> Unset, outcome |-> "Pending"]] = [o \in Job |-> Spine!Unborn]
    BY DEF Spine!Unborn, Unset, Spine!Unset
  <2>6. leaseCap \in Nat \ {0}
    BY <2>1, CapsAssumption
  <2> QED  BY <2>3, <2>4, <2>5, <2>6 DEF Spine!Init, holders
<1>2. SchedInv /\ [Next]_workVars => [Spine!Next]_(Spine!spineVars)
  <2> SUFFICES ASSUME SchedInv, [Next]_workVars PROVE [Spine!Next]_(Spine!spineVars)
    OBVIOUS
  <2>1. CASE \E o \in Job : InDoor(o)
    BY <2>1, DoorsAreSpineSteps DEF Spine!Next
  <2>2. CASE Outside
    <3>1. leaseCap' \in Nat \ {0} /\ jobs' = jobs
      BY <2>2, CapsAssumption DEF Outside
    <3>2. Spine!Resize
      BY <3>1 DEF Spine!Resize
    <3> QED  BY <3>2 DEF Spine!Next
  <2> QED  BY <2>1, <2>2, StepsAreDoors
<1> QED  BY <1>1, <1>2, QueueStaysConsistent, PTL DEF Spec, KeepsTheSpine, Spine!Spec
=============================================================================
