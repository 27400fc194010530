-------------------------- MODULE SchedProofs ---------------------------
(***************************************************************************)
(* What the doors of the scheduler do, for any jobs, leases and slots and  *)
(* whoever calls them.                                                     *)
(*                                                                         *)
(* Every door comes down to one shape, DoorStep: one job changes, along    *)
(* one step of the spine, and its lease is kept, handed back or taken from *)
(* what the pool has left.  A lemma per door shows that shape; that the    *)
(* doors keep SchedInv, and that they implement WorkSpine, follows from    *)
(* the shape alone.                                                        *)
(***************************************************************************)
EXTENDS Sched, FiniteSetTheorems, TLAPS

PoolType == [job : JobType(LeaseId), issued : SUBSET LeaseId, held : SUBSET Id]

Same(j, k)    == k.state = j.state /\ k.outcome = j.outcome
Begun(j, k)   == ~IsOpen(j) /\ ~Crossed(j) /\ k.state = "Fetching" /\ k.outcome = "Pending"
Moved(j, k)   == IsOpen(j) /\ k.outcome = "Pending" /\ CanTransition(j.state, k.state)
Settled(j, k) == IsOpen(j) /\ k.state = j.state /\ IsSettled(k.outcome) /\ admits(k.outcome, j.state)

MayKeep(j) == HoldsLease(j) => IsOpen(j) /\ IsCorrectness(j.state)

Untouched(p, q) == q.job.lease = p.job.lease /\ q.issued = p.issued
HandsBack(p, q) == q.job.lease = LeaseUnset /\ q.issued = p.issued \ {p.job.lease}
Takes(p, q) ==
    /\ ~HoldsLease(p.job)
    /\ q.job.lease \in LeaseId \ p.issued
    /\ \A x \in Job : jobs[x].lease # q.job.lease
    /\ Cardinality(p.issued) < leaseCap
    /\ q.issued = p.issued \cup {q.job.lease}

(* What a door may do with the job o and the pools. *)
Shape(o, q) ==
    /\ q \in PoolType
    /\ \/ Same(jobs[o], q.job) \/ Begun(jobs[o], q.job)
       \/ Moved(jobs[o], q.job) \/ Settled(jobs[o], q.job)
    /\ MayKeep(q.job) /\ Sound(q.job)
    /\ Untouched(Pools(o), q) \/ HandsBack(Pools(o), q) \/ Takes(Pools(o), q)

DoorStep(o) == \E q : Shape(o, q) /\ Commit(o, q)
-----------------------------------------------------------------------------
(* The tables of the spine. *)
LEMMA Tables ==
  /\ \A from, to, door : edgeFrom(from, to, door) => CanTransition(from, to)
  /\ \A from, to : edgeFrom(from, to, "transition") /\ IsCorrectness(from) => IsCorrectness(to)
  /\ \A s \in AllStates : admits("Cancelled", s)
  /\ \A s \in AllStates : IsCorrectness(s) <=> ~IsProduction(s)
  /\ ~IsProduction(Unset) /\ ~IsCorrectness(Unset)
<1>1. \A from, to, door : edgeFrom(from, to, door) => CanTransition(from, to)
  BY DEF edgeFrom, CanTransition, legalEdges
<1>2. \A from, to : edgeFrom(from, to, "transition") /\ IsCorrectness(from) => IsCorrectness(to)
  BY DEF edgeFrom, legalEdges, IsCorrectness
<1>3. \A s \in AllStates : admits("Cancelled", s)
  BY DEF admits, admissibleAt
<1>4. \A s \in AllStates : IsCorrectness(s) <=> ~IsProduction(s)
  BY DEF AllStates, IsCorrectness, IsProduction
<1>5. ~IsProduction(Unset) /\ ~IsCorrectness(Unset)
  BY DEF IsProduction, IsCorrectness, Unset
<1> QED  BY <1>1, <1>2, <1>3, <1>4, <1>5

(* Each door of a job keeps its record sound. *)
LEMMA SoundStays ==
  ASSUME NEW j, NEW k, Sound(j), k.state = j.state, k.next = j.next,
         k.outcome = j.outcome, k.assessed = j.assessed
  PROVE  Sound(k)
  BY DEF Sound, IsOpen, HasRun

LEMMA SoundDoors ==
  ASSUME NEW j \in JobType(LeaseId), Sound(j)
  PROVE  /\ Sound(Surrender(j)) /\ (\A l : Sound(Grant(j, l))) /\ (\A i : Sound(SetIntent(j, i)))
         /\ Sound(BeginAttempt(j))
         /\ \A n \in AllStates : SetNextOK(j, n) => Sound(SetNext(j, n))
         /\ \A to \in AllStates : TransitionOK(j, to) => Sound(Transition(j, to))
         /\ \A to \in AllStates : CrossOK(j, to) => Sound(Cross(j, to))
         /\ \A out \in AllOutcomes : FinishOK(j, out) => Sound(Finish(j, out))
<1>1. Sound(Surrender(j)) /\ (\A l : Sound(Grant(j, l))) /\ (\A i : Sound(SetIntent(j, i)))
  BY SoundStays DEF Surrender, Grant, SetIntent, JobType
<1>2. Sound(BeginAttempt(j))
  BY DEF BeginAttempt, Sound, JobType, IsSettled, Unset
<1>3. \A n \in AllStates : SetNextOK(j, n) => Sound(SetNext(j, n))
  BY DEF SetNextOK, SetNext, Sound, JobType, IsOpen, HasRun
<1>4. \A to \in AllStates : TransitionOK(j, to) => Sound(Transition(j, to))
  BY DEF TransitionOK, Transition, Sound, JobType, IsOpen, HasRun, IsSettled, edgeFrom,
     legalEdges, AllStates, Unset
<1>5. \A to \in AllStates : CrossOK(j, to) => Sound(Cross(j, to))
  BY DEF CrossOK, Cross, Sound, JobType, IsOpen, HasRun, IsSettled, edgeFrom,
     legalEdges, AllStates, Unset
<1>6. \A out \in AllOutcomes : FinishOK(j, out) => Sound(Finish(j, out))
  BY DEF FinishOK, Finish, Sound, JobType, IsOpen, HasRun
<1> QED  BY <1>1, <1>2, <1>3, <1>4, <1>5, <1>6

(* The pools a door starts from have their types. *)
LEMMA PoolsTyped ==
  ASSUME SchedInv, NEW o \in Job
  PROVE  /\ Pools(o) \in PoolType /\ Pools(o).job = jobs[o]
         /\ Pools(o).issued = issued /\ Pools(o).held = held
         /\ jobs[o] \in JobType(LeaseId) /\ MayKeep(jobs[o]) /\ Sound(jobs[o]) /\ IdOf[o] \in Id
  BY IdOfAssumption DEF SchedInv, SchedTypeOK, Pools, PoolType, LeasesWellPlaced, MayKeep

(* Giving a slot back leaves job and leases alone. *)
LEMMA Release ==
  ASSUME NEW p \in PoolType, NEW o, NEW s
  PROVE  /\ releaseFor(p, o, s) \in PoolType
         /\ releaseFor(p, o, s).job = p.job /\ releaseFor(p, o, s).issued = p.issued
  BY DEF releaseFor, PoolType

(* Parking hands the lease back and leaves the position. *)
LEMMA Parks ==
  ASSUME SchedInv, NEW o \in Job
  PROVE  Shape(o, parkLocked(o))
<1> DEFINE p == releaseFor(Pools(o), o, Unset)
           q == parkLocked(o)
<1>1. p \in PoolType /\ p.job = jobs[o] /\ p.issued = issued
  BY PoolsTyped, Release
<1>2. q \in PoolType /\ q.job = Surrender(jobs[o]) /\ q.issued = issued \ {jobs[o].lease}
  BY <1>1 DEF parkLocked, reclaim, PoolType, Surrender, JobType
<1>3. Surrender(jobs[o]).lease = LeaseUnset /\ Same(jobs[o], Surrender(jobs[o]))
  BY PoolsTyped DEF Surrender, Same, JobType
<1> QED  BY <1>2, <1>3, PoolsTyped, SoundDoors DEF Shape, HandsBack, MayKeep, HoldsLease

(* Asking for resources: the lease taken, if any, is one nobody has. *)
LEMMA Grants ==
  ASSUME NEW p \in PoolType, NEW o \in Job, NEW s, NEW g \in grantFor(p, o, s), IdOf[o] \in Id
  PROVE  /\ g[1] \in PoolType
         /\ \/ g[1].job = p.job /\ g[1].issued = p.issued
            \/ Takes(p, g[1]) /\ GrantOK(p.job, g[1].job.lease)
               /\ g[1].job = Grant(p.job, g[1].job.lease)
<1> DEFINE Good(q) ==
       /\ q \in PoolType
       /\ \/ q.job = p.job /\ q.issued = p.issued
          \/ Takes(p, q) /\ GrantOK(p.job, q.job.lease) /\ q.job = Grant(p.job, q.job.lease)
<1>1. Good(p)
  OBVIOUS
<1>2. ASSUME NEW q \in LeaseGranted(p, s) PROVE Good(q)
  <2>1. CASE ~(needsLease(s) /\ ~HoldsLease(p.job))
    BY <1>1, <2>1, <1>2 DEF LeaseGranted
  <2>2. CASE needsLease(s) /\ ~HoldsLease(p.job)
    <3>1. PICK l \in LeaseId :
            /\ Cardinality(p.issued) < leaseCap /\ l \notin p.issued
            /\ \A x \in Job : jobs[x].lease # l
            /\ GrantOK(p.job, l)
            /\ q = [p EXCEPT !.job = Grant(@, l), !.issued = @ \cup {l}]
      BY <1>2, <2>2 DEF LeaseGranted
    <3>2. q \in PoolType /\ q.job = Grant(p.job, l) /\ q.job.lease = l /\ q.issued = p.issued \cup {l}
      BY <3>1 DEF PoolType, Grant, JobType
    <3> QED  BY <2>2, <3>1, <3>2 DEF Takes
  <2> QED  BY <2>1, <2>2
<1>3. ASSUME NEW q, Good(q) PROVE Good(SlotGranted(q, o, s))
  <2>1. SlotGranted(q, o, s) \in PoolType /\ SlotGranted(q, o, s).job = q.job
        /\ SlotGranted(q, o, s).issued = q.issued
    BY <1>3 DEF SlotGranted, PoolType
  <2> QED  BY <1>3, <2>1 DEF Takes
<1>4. CASE LeaseGranted(p, s) = {}
  BY <1>1, <1>4 DEF grantFor
<1>5. CASE LeaseGranted(p, s) # {}
  <2>1. PICK q \in LeaseGranted(p, s) :
          g = IF SlotFree(q, o, s) THEN <<SlotGranted(q, o, s), TRUE>> ELSE <<q, FALSE>>
    BY <1>5 DEF grantFor
  <2>2. g[1] = SlotGranted(q, o, s) \/ g[1] = q
    BY <2>1
  <2> QED  BY <1>2, <1>3, <2>2
<1> QED  BY <1>4, <1>5
-----------------------------------------------------------------------------
(* Settling ends an open job where its outcome is admitted. *)
LEMMA Settles ==
  ASSUME SchedInv, NEW o \in Job, NEW i \in AllIntents, NEW out \in AllOutcomes,
         LET j == [jobs[o] EXCEPT !.intent = i]
         IN  FinishOK(j, SettledAs(j, out)) /\ settleLocked(o, j, out)
  PROVE  DoorStep(o)
<1> DEFINE j   == [jobs[o] EXCEPT !.intent = i]
           fin == Finish(j, SettledAs(j, out))
           p   == [Pools(o) EXCEPT !.job = fin]
           q   == reclaim(releaseFor(p, o, Unset), j.lease)
<1>1. j \in JobType(LeaseId) /\ j.lease = jobs[o].lease /\ j.state = jobs[o].state
      /\ j.outcome = jobs[o].outcome
  BY PoolsTyped DEF JobType
<1>2. SettledAs(j, out) \in AllOutcomes
  BY DEF SettledAs, AllOutcomes
<1>3. fin \in JobType(LeaseId) /\ fin.lease = LeaseUnset /\ fin.state = j.state
      /\ fin.outcome = SettledAs(j, out)
  BY <1>1, <1>2 DEF Finish, JobType
<1>4. p \in PoolType /\ p.job = fin /\ p.issued = issued
  BY <1>3, PoolsTyped DEF PoolType
<1>5. q \in PoolType /\ q.job = fin /\ q.issued = issued \ {jobs[o].lease}
  <2> DEFINE r == releaseFor(p, o, Unset)
  <2>1. r \in PoolType /\ r.job = fin /\ r.issued = issued
    <3> HIDE DEF p, fin
    <3> QED  BY <1>4, Release
  <2>2. q = reclaim(r, jobs[o].lease)
    BY <1>1
  <2> HIDE DEF r, fin, q
  <2> QED  BY <2>1, <2>2 DEF reclaim, PoolType
<1>6. Settled(jobs[o], fin)
  <2> HIDE DEF j, fin
  <2>1. FinishOK(j, SettledAs(j, out))
    BY DEF j
  <2> QED  BY <2>1, <1>1, <1>3 DEF Settled, FinishOK, IsOpen, HasRun
<1>7. Shape(o, q)
  <2>1. Sound(j)
    BY PoolsTyped, SoundDoors DEF SetIntent
  <2> HIDE DEF j
  <2>2. FinishOK(j, SettledAs(j, out))
    BY DEF j
  <2>3. Sound(fin)
    BY <1>1, <1>2, <2>1, <2>2, SoundDoors
  <2> HIDE DEF fin, q
  <2> QED  BY <1>3, <1>5, <1>6, <2>3, PoolsTyped DEF Shape, HandsBack, MayKeep, HoldsLease
<1>8. Commit(o, q)
  BY DEF settleLocked
<1> QED  BY <1>7, <1>8 DEF DoorStep

(* A change of intent alone, with the slot kept or given back. *)
LEMMA IntentOnly ==
  ASSUME SchedInv, NEW o \in Job, NEW i \in AllIntents
  PROVE  LET j == [jobs[o] EXCEPT !.intent = i]
             p == [Pools(o) EXCEPT !.job = j]
         IN  /\ Shape(o, p) /\ Shape(o, releaseFor(p, o, Unset))
             /\ j \in JobType(LeaseId) /\ j.state = jobs[o].state /\ j.outcome = jobs[o].outcome
             /\ j.intent = i
<1> DEFINE j == [jobs[o] EXCEPT !.intent = i]
           p == [Pools(o) EXCEPT !.job = j]
           r == releaseFor(p, o, Unset)
<1>1. j \in JobType(LeaseId) /\ j.lease = jobs[o].lease /\ j.state = jobs[o].state
      /\ j.outcome = jobs[o].outcome /\ j.intent = i
  BY PoolsTyped DEF JobType
<1>2. p \in PoolType /\ p.job = j /\ p.issued = issued
  BY <1>1, PoolsTyped DEF PoolType
<1>3. r \in PoolType /\ r.job = j /\ r.issued = issued
  <2> HIDE DEF j, p
  <2> QED  BY <1>2, Release
<1>4. Same(jobs[o], j) /\ MayKeep(j)
  BY <1>1, PoolsTyped DEF Same, MayKeep, HoldsLease, IsOpen, HasRun
<1>4a. Sound(j)
  BY PoolsTyped, SoundDoors DEF SetIntent
<1> HIDE DEF j, p, r
<1>5. Shape(o, p) /\ Shape(o, r)
  BY <1>1, <1>2, <1>3, <1>4, <1>4a, PoolsTyped DEF Shape, Untouched
<1> QED  BY <1>1, <1>5 DEF j, p, r

(* Cancelling, before, during and after a job's work. *)
LEMMA Cancels ==
  ASSUME SchedInv, NEW o \in Job, finishCancel(o, [jobs[o] EXCEPT !.intent = "Cancel"])
  PROVE  DoorStep(o) /\ aborts' \subseteq Job
<1> DEFINE j == [jobs[o] EXCEPT !.intent = "Cancel"]
           p == [Pools(o) EXCEPT !.job = j]
<1>0. "Cancel" \in AllIntents /\ "Cancelled" \in AllOutcomes
  BY DEF AllIntents, AllOutcomes
<1>1. /\ Shape(o, p) /\ Shape(o, releaseFor(p, o, Unset))
      /\ j \in JobType(LeaseId) /\ j.state = jobs[o].state /\ j.outcome = jobs[o].outcome
      /\ j.intent = "Cancel"
  BY <1>0, IntentOnly
<1>2. aborts \subseteq Job
  BY DEF SchedInv, SchedTypeOK
<1> HIDE DEF p
<1>3. CASE Commit(o, p) /\ aborts' \in {aborts, aborts \cup {o}}
  BY <1>1, <1>2, <1>3 DEF DoorStep
<1>4. CASE Commit(o, releaseFor(p, o, Unset)) /\ aborts' = aborts
  BY <1>1, <1>2, <1>4 DEF DoorStep
<1>5. CASE IsOpen(j) /\ settleLocked(o, j, "Cancelled") /\ aborts' = aborts
  <2>1. SettledAs(j, "Cancelled") = "Cancelled"
    BY DEF SettledAs
  <2>2. j.state \in AllStates
    BY <1>1, <1>5 DEF IsOpen, HasRun, JobType
  <2>3. FinishOK(j, SettledAs(j, "Cancelled"))
    BY <1>5, <2>1, <2>2, Tables DEF FinishOK, IsSettled
  <2>4. DoorStep(o)
    BY <1>0, <1>5, <2>3, Settles
  <2> QED  BY <2>4, <1>2, <1>5
<1>6. finishCancel(o, j)
  OBVIOUS
<1>7. \/ Commit(o, p) /\ aborts' \in {aborts, aborts \cup {o}}
      \/ Commit(o, releaseFor(p, o, Unset)) /\ aborts' = aborts
      \/ IsOpen(j) /\ settleLocked(o, j, "Cancelled") /\ aborts' = aborts
  BY <1>6 DEF finishCancel, p
<1> QED  BY <1>3, <1>4, <1>5, <1>7

(* A new attempt begins without a lease, and never behind the boundary. *)
LEMMA Begins ==
  ASSUME SchedInv, NEW o \in Job, ~IsOpen(jobs[o]), BeginAttemptOK(jobs[o]),
         NEW p \in PoolType, p.job = jobs[o], p.issued = issued
  PROVE  Shape(o, [p EXCEPT !.job = BeginAttempt(@)])
<1> DEFINE k == BeginAttempt(jobs[o])
           q == [p EXCEPT !.job = BeginAttempt(@)]
<1>1. k \in JobType(LeaseId) /\ k.lease = jobs[o].lease /\ k.state = "Fetching" /\ k.outcome = "Pending"
  BY PoolsTyped DEF BeginAttempt, JobType, AllStates, AllOutcomes
<1>2. q \in PoolType /\ q.job = k /\ q.issued = issued
  BY <1>1 DEF PoolType
<1>3. ~HoldsLease(jobs[o])
  BY PoolsTyped DEF MayKeep
<1>4. ~Crossed(jobs[o])
  BY Tables DEF BeginAttemptOK, HasRun, Crossed
<1>5. Begun(jobs[o], k) /\ MayKeep(k)
  BY <1>1, <1>3, <1>4 DEF Begun, MayKeep, HoldsLease
<1> QED  BY <1>1, <1>2, <1>5, PoolsTyped, SoundDoors DEF Shape, Untouched

(* What was there already, with the slot kept or given back. *)
LEMMA Stays ==
  ASSUME SchedInv, NEW o \in Job, NEW p \in PoolType, p.job = jobs[o], p.issued = issued
  PROVE  Shape(o, p)
  BY PoolsTyped DEF Shape, Same, Untouched

LEMMA RetryIsADoor ==
  ASSUME SchedInv, NEW o \in Job, Retry(o)
  PROVE  DoorStep(o)
<1> DEFINE p == releaseFor(Pools(o), o, Unset)
<1>1. p \in PoolType /\ p.job = jobs[o] /\ p.issued = issued
  BY PoolsTyped, Release
<1>2. ~IsOpen(jobs[o])
  BY DEF Retry, IsOpen
<1>3. CASE BeginAttemptOK(jobs[o])
  <2>1. Commit(o, [p EXCEPT !.job = BeginAttempt(@)])
    BY <1>1, <1>3 DEF Retry
  <2> QED  BY <1>1, <1>2, <1>3, <2>1, Begins DEF DoorStep
<1>4. CASE ~BeginAttemptOK(jobs[o])
  <2>1. Commit(o, [p EXCEPT !.job = @])
    BY <1>1, <1>4 DEF Retry
  <2>2. [p EXCEPT !.job = @] \in PoolType /\ [p EXCEPT !.job = @].job = jobs[o]
        /\ [p EXCEPT !.job = @].issued = issued
    BY <1>1 DEF PoolType
  <2> QED  BY <2>1, <2>2, Stays DEF DoorStep
<1> QED  BY <1>3, <1>4

(* What asking for resources makes of a job that stays where it is. *)
LEMMA Granted ==
  ASSUME SchedInv, NEW o \in Job, NEW s, NEW g \in grantFor(Pools(o), o, s)
  PROVE  Shape(o, g[1]) /\ Same(jobs[o], g[1].job)
<1>1. g[1] \in PoolType
      /\ \/ g[1].job = jobs[o] /\ g[1].issued = issued
         \/ Takes(Pools(o), g[1]) /\ GrantOK(jobs[o], g[1].job.lease)
            /\ g[1].job = Grant(jobs[o], g[1].job.lease)
  BY Grants, PoolsTyped
<1>2. CASE g[1].job = jobs[o] /\ g[1].issued = issued
  BY <1>1, <1>2, Stays DEF Same
<1>3. CASE /\ Takes(Pools(o), g[1]) /\ GrantOK(jobs[o], g[1].job.lease)
           /\ g[1].job = Grant(jobs[o], g[1].job.lease)
  <2>1. g[1].job.state = jobs[o].state /\ g[1].job.outcome = jobs[o].outcome
    BY <1>3, PoolsTyped DEF Grant, JobType
  <2>2. IsOpen(jobs[o]) /\ ~Crossed(jobs[o]) /\ jobs[o].state \in AllStates
    BY <1>3, PoolsTyped DEF GrantOK, IsOpen, HasRun, JobType
  <2>3. MayKeep(g[1].job)
    BY <2>1, <2>2, Tables DEF MayKeep, IsOpen, HasRun, Crossed
  <2>4. Sound(g[1].job)
    BY <1>3, PoolsTyped, SoundDoors
  <2> QED  BY <1>1, <1>3, <2>1, <2>3, <2>4 DEF Shape, Same
<1> QED  BY <1>1, <1>2, <1>3

(* Resources for where the job is: at most a lease is taken. *)
LEMMA AdvanceWorks ==
  ASSUME SchedInv, NEW o \in Job, AdvanceWorking(o)
  PROVE  DoorStep(o)
<1>1. CASE Commit(o, Pools(o))
  BY <1>1, PoolsTyped, Stays DEF DoorStep
<1>2. CASE Commit(o, parkLocked(o))
  BY <1>2, Parks DEF DoorStep
<1>3. CASE \E g \in grantFor(Pools(o), o, jobs[o].state) : Commit(o, g[1])
  <2>1. PICK g \in grantFor(Pools(o), o, jobs[o].state) : Commit(o, g[1])
    BY <1>3
  <2>2. Shape(o, g[1])
    BY Granted
  <2> QED  BY <2>1, <2>2 DEF DoorStep
<1> QED  BY <1>1, <1>2, <1>3 DEF AdvanceWorking

(* The boundary: the lease goes back with the move. *)
LEMMA AdvanceCrosses ==
  ASSUME SchedInv, NEW o \in Job, AdvanceCross(o)
  PROVE  DoorStep(o)
<1> DEFINE to == jobs[o].next
           k  == Cross(jobs[o], to)
           p  == reclaim([Pools(o) EXCEPT !.job = Cross(@, to)], jobs[o].lease)
<1>1. IsOpen(jobs[o]) /\ CrossOK(jobs[o], to) /\ IsProduction(to)
  BY DEF AdvanceCross
<1>2. k \in JobType(LeaseId) /\ k.lease = LeaseUnset /\ k.state = to /\ k.outcome = jobs[o].outcome
  BY PoolsTyped DEF Cross, JobType
<1>3. p \in PoolType /\ p.job = k /\ p.issued = issued \ {jobs[o].lease}
  BY <1>2, PoolsTyped DEF PoolType, reclaim
<1>4. Moved(jobs[o], k)
  BY <1>1, <1>2, Tables DEF Moved, CrossOK, IsOpen, IsSettled
<1>4a. Sound(k)
  BY <1>1, <1>2, PoolsTyped, SoundDoors DEF JobType, IsProduction, AllStates
<1>5. PICK g \in grantFor(p, o, to) : Commit(o, g[1])
  BY DEF AdvanceCross
<1> HIDE DEF p, k
<1>6. g[1] \in PoolType
      /\ \/ g[1].job = p.job /\ g[1].issued = p.issued
         \/ GrantOK(p.job, g[1].job.lease)
  BY <1>3, Grants, PoolsTyped
<1>7. Crossed(p.job)
  BY <1>1, <1>2, <1>3 DEF Crossed
<1>8. g[1].job = k /\ g[1].issued = issued \ {jobs[o].lease}
  BY <1>3, <1>6, <1>7 DEF GrantOK
<1>9. Shape(o, g[1])
  BY <1>2, <1>4, <1>4a, <1>6, <1>8, PoolsTyped DEF Shape, HandsBack, MayKeep, HoldsLease
<1> QED  BY <1>5, <1>9 DEF DoorStep

(* Resources first, then the move along an edge of the table. *)
LEMMA AdvanceMoves ==
  ASSUME SchedInv, NEW o \in Job, AdvanceMove(o)
  PROVE  DoorStep(o)
<1> DEFINE from == jobs[o].state
           to   == jobs[o].next
<1>1. PICK g \in grantFor(Pools(o), o, to) :
        Commit(o, IF ~g[2] THEN g[1]
                  ELSE IF TransitionOK(g[1].job, to)
                  THEN releaseFor([g[1] EXCEPT !.job = Transition(@, to)], o, to)
                  ELSE releaseFor(g[1], o, from))
  BY DEF AdvanceMove
<1>2. Shape(o, g[1]) /\ Same(jobs[o], g[1].job)
  BY Granted
<1>3. g[1] \in PoolType
  BY <1>2 DEF Shape
<1>4. CASE Commit(o, g[1])
  BY <1>2, <1>4 DEF DoorStep
<1>5. CASE Commit(o, releaseFor(g[1], o, from))
  <2> DEFINE r == releaseFor(g[1], o, from)
  <2>1. r \in PoolType /\ r.job = g[1].job /\ r.issued = g[1].issued
    BY <1>3, Release
  <2> HIDE DEF r
  <2>2. Shape(o, r)
    BY <1>2, <2>1 DEF Shape, Untouched, HandsBack, Takes
  <2> QED  BY <1>5, <2>2 DEF DoorStep, r
<1>6. CASE /\ TransitionOK(g[1].job, to)
           /\ Commit(o, releaseFor([g[1] EXCEPT !.job = Transition(@, to)], o, to))
  <2> DEFINE k == Transition(g[1].job, to)
             p == [g[1] EXCEPT !.job = Transition(@, to)]
             r == releaseFor(p, o, to)
  <2>1. k \in JobType(LeaseId) /\ k.state = to /\ k.lease = g[1].job.lease
        /\ k.outcome = g[1].job.outcome
    BY <1>3, PoolsTyped DEF PoolType, Transition, JobType
  <2>2. p \in PoolType /\ p.job = k /\ p.issued = g[1].issued
    BY <1>3, <2>1 DEF PoolType
  <2>2a. Sound(k)
    <3>1. g[1].job \in JobType(LeaseId) /\ Sound(g[1].job)
      BY <1>2, <1>3 DEF Shape, PoolType
    <3>2. to \in AllStates
      BY <1>6 DEF TransitionOK, edgeFrom, legalEdges, AllStates
    <3> QED  BY <1>6, <3>1, <3>2, SoundDoors
  <2> HIDE DEF k, p
  <2>3. r \in PoolType /\ r.job = k /\ r.issued = g[1].issued
    BY <2>2, Release
  <2> HIDE DEF r
  <2>4. IsOpen(g[1].job) /\ edgeFrom(jobs[o].state, to, "transition") /\ IsOpen(jobs[o])
        /\ k.outcome = "Pending"
    BY <1>2, <1>6, <2>1 DEF TransitionOK, Same, IsOpen, HasRun, IsSettled
  <2>5. Moved(jobs[o], k)
    BY <2>1, <2>4, Tables DEF Moved
  <2>6. MayKeep(k)
    <3>1. SUFFICES ASSUME HoldsLease(k) PROVE IsOpen(k) /\ IsCorrectness(k.state)
      BY DEF MayKeep
    <3>2. IsCorrectness(jobs[o].state)
      BY <1>2, <2>1, <3>1 DEF Shape, MayKeep, HoldsLease, Same
    <3>3. IsCorrectness(k.state)
      BY <2>1, <2>4, <3>2, Tables
    <3> QED  BY <2>4, <3>3, Tables DEF IsOpen, HasRun, IsSettled
  <2>7. Shape(o, r)
    BY <1>2, <2>1, <2>2a, <2>3, <2>5, <2>6 DEF Shape, Untouched, HandsBack, Takes
  <2> QED  BY <1>6, <2>7 DEF DoorStep, r, p
<1> QED  BY <1>1, <1>4, <1>5, <1>6

(* Each branch of Advance is a door. *)
LEMMA AdvanceIsADoor ==
  ASSUME SchedInv, NEW o \in Job, Advance(o)
  PROVE  DoorStep(o) /\ aborts' \subseteq Job
<1>0. aborts \subseteq Job
  BY DEF SchedInv, SchedTypeOK
<1>1. CASE jobs[o].intent = "Cancel" /\ finishCancel(o, jobs[o])
  <2>1. jobs[o] = [jobs[o] EXCEPT !.intent = "Cancel"]
    BY <1>1, PoolsTyped DEF JobType
  <2>2. finishCancel(o, [jobs[o] EXCEPT !.intent = "Cancel"])
    BY <1>1, <2>1
  <2> QED  BY <2>2, Cancels
<1>2. CASE AdvanceStart(o) /\ aborts' = aborts
  <2>1. CASE Commit(o, Pools(o))
    BY <2>1, PoolsTyped, Stays, <1>0, <1>2 DEF DoorStep
  <2>2. CASE Commit(o, [Pools(o) EXCEPT !.job = BeginAttempt(@)])
    <3>1. ~IsOpen(jobs[o]) /\ BeginAttemptOK(jobs[o])
      BY <1>2 DEF AdvanceStart, IsOpen, BeginAttemptOK
    <3>2. Shape(o, [Pools(o) EXCEPT !.job = BeginAttempt(@)])
      BY <3>1, PoolsTyped, Begins
    <3> QED  BY <2>2, <3>2, <1>0, <1>2 DEF DoorStep
  <2> QED  BY <1>2, <2>1, <2>2 DEF AdvanceStart
<1>3. CASE AdvanceSettled(o) /\ aborts' = aborts
  <2> DEFINE r == releaseFor(Pools(o), o, Unset)
  <2>1. r \in PoolType /\ r.job = jobs[o] /\ r.issued = issued
    BY PoolsTyped, Release
  <2>2. Commit(o, r)
    BY <1>3 DEF AdvanceSettled
  <2> HIDE DEF r
  <2> QED  BY <1>0, <1>3, <2>1, <2>2, Stays DEF DoorStep
<1>4. CASE AdvanceWorking(o) /\ aborts' = aborts
  BY <1>0, <1>4, AdvanceWorks
<1>5. CASE AdvanceGated(o) /\ aborts' = aborts
  BY <1>0, <1>5, Parks DEF AdvanceGated, DoorStep
<1>6. CASE AdvanceCross(o) /\ aborts' = aborts
  BY <1>0, <1>6, AdvanceCrosses
<1>7. CASE AdvanceMove(o) /\ aborts' = aborts
  BY <1>0, <1>7, AdvanceMoves
<1> QED  BY <1>1, <1>2, <1>3, <1>4, <1>5, <1>6, <1>7 DEF Advance
-----------------------------------------------------------------------------
(* Every step is a door of one job, or leaves jobs and pools alone. *)
InDoor(o) ==
    /\ DoorStep(o)
    /\ UNCHANGED <<leaseCap, slotCap, paused>>
    /\ aborts' \subseteq Job

Outside ==
    /\ UNCHANGED <<jobs, issued, held>>
    /\ leaseCap' \in 1..MaxLeases /\ slotCap' \in 1..MaxSlots
    /\ paused' \in BOOLEAN /\ aborts' \subseteq Job

(* Recording a destination or an intent touches nothing else. *)
LEMMA Notes ==
  ASSUME SchedInv, NEW o \in Job, NEW k \in JobType(LeaseId),
         k.state = jobs[o].state, k.outcome = jobs[o].outcome, k.lease = jobs[o].lease, Sound(k)
  PROVE  LET q == [Pools(o) EXCEPT !.job = k]
         IN  Shape(o, q) /\ q.job = k /\ q.issued = issued /\ q.held = held
<1> DEFINE q == [Pools(o) EXCEPT !.job = k]
<1>1. q \in PoolType /\ q.job = k /\ q.issued = issued /\ q.held = held
  BY PoolsTyped DEF PoolType
<1>2. Same(jobs[o], k) /\ MayKeep(k)
  BY PoolsTyped DEF Same, MayKeep, HoldsLease, IsOpen, HasRun
<1> HIDE DEF q
<1>3. Shape(o, q)
  BY <1>1, <1>2, PoolsTyped DEF Shape, Untouched
<1> QED  BY <1>1, <1>3 DEF q

LEMMA SettleIsADoor ==
  ASSUME SchedInv, NEW o \in Job, NEW out \in AllOutcomes, Settle(o, out)
  PROVE  DoorStep(o)
<1>1. jobs[o] = [jobs[o] EXCEPT !.intent = jobs[o].intent] /\ jobs[o].intent \in AllIntents
  BY PoolsTyped DEF JobType
<1>2. FinishOK(jobs[o], SettledAs(jobs[o], out)) /\ settleLocked(o, jobs[o], out)
  BY DEF Settle
<1>3. LET j == [jobs[o] EXCEPT !.intent = jobs[o].intent]
      IN  FinishOK(j, SettledAs(j, out)) /\ settleLocked(o, j, out)
  BY <1>1, <1>2
<1> QED  BY <1>1, <1>3, Settles

-----------------------------------------------------------------------------
(* A door keeps the pool in step with the jobs. *)
LEMMA DoorsKeepSchedInv ==
  ASSUME SchedInv, NEW o \in Job, InDoor(o)
  PROVE  SchedInv'
<1>1. PICK q : Shape(o, q) /\ Commit(o, q)
  BY DEF InDoor, DoorStep
<1>2. q \in PoolType /\ jobs' = [jobs EXCEPT ![o] = q.job] /\ issued' = q.issued /\ held' = q.held
  BY <1>1 DEF Shape, Commit
<1>3. jobs \in [Job -> JobType(LeaseId)] /\ issued \subseteq LeaseId
  BY DEF SchedInv, SchedTypeOK
<1>4. jobs'[o] = q.job /\ \A x \in Job \ {o} : jobs'[x] = jobs[x]
  BY <1>2, <1>3
<1>5. SchedTypeOK'
  BY <1>2, <1>3 DEF InDoor, SchedInv, SchedTypeOK, PoolType
<1>6. LeasesWellPlaced'
  BY <1>1, <1>4 DEF SchedInv, LeasesWellPlaced, Shape, MayKeep
<1>6a. (\A x \in Job : Sound(jobs[x]))'
  BY <1>1, <1>4 DEF SchedInv, Shape
<1>7. /\ issued = { jobs[x].lease : x \in Job } \ {LeaseUnset}
      /\ \A x, y \in Job : jobs[x].lease # LeaseUnset /\ jobs[x].lease = jobs[y].lease => x = y
      /\ IsFiniteSet(issued)
  BY DEF SchedInv, LeasesConserved, HoldsLease
<1>8. CASE Untouched(Pools(o), q)
  <2>1. q.job.lease = jobs[o].lease /\ q.issued = issued
    BY <1>8, PoolsTyped DEF Untouched
  <2>2. \A x \in Job : jobs'[x].lease = jobs[x].lease
    BY <1>4, <2>1
  <2>3. { jobs'[x].lease : x \in Job } = { jobs[x].lease : x \in Job }
    BY <2>2
  <2>4. LeasesConserved' /\ IsFiniteSet(issued')
    BY <1>2, <1>7, <2>1, <2>2, <2>3 DEF LeasesConserved, HoldsLease
  <2> QED  BY <1>5, <1>6, <1>6a, <2>4 DEF SchedInv
<1>9. CASE HandsBack(Pools(o), q)
  <2>1. q.job.lease = LeaseUnset /\ q.issued = issued \ {jobs[o].lease}
    BY <1>9, PoolsTyped DEF HandsBack
  <2>2. issued' = { jobs'[x].lease : x \in Job } \ {LeaseUnset}
    BY <1>2, <1>4, <1>7, <2>1
  <2>3. \A x, y \in Job : jobs'[x].lease # LeaseUnset /\ jobs'[x].lease = jobs'[y].lease => x = y
    BY <1>4, <1>7, <2>1
  <2>4. IsFiniteSet(issued')
    <3>1. IsFiniteSet(issued \ {jobs[o].lease})
      BY <1>7, FS_RemoveElement
    <3> QED  BY <1>2, <2>1, <3>1
  <2>5. LeasesConserved'
    BY <2>2, <2>3 DEF LeasesConserved, HoldsLease
  <2> QED  BY <1>5, <1>6, <1>6a, <2>4, <2>5 DEF SchedInv
<1>10. CASE Takes(Pools(o), q)
  <2> DEFINE l == q.job.lease
  <2>1. /\ jobs[o].lease = LeaseUnset /\ l \in LeaseId \ issued
        /\ \A x \in Job : jobs[x].lease # l
        /\ q.issued = issued \cup {l}
    BY <1>10, PoolsTyped DEF Takes, HoldsLease
  <2>2. l # LeaseUnset
    BY <2>1, LeaseIdAssumption
  <2>3. issued' = { jobs'[x].lease : x \in Job } \ {LeaseUnset}
    BY <1>2, <1>4, <1>7, <2>1, <2>2
  <2>4. \A x, y \in Job : jobs'[x].lease # LeaseUnset /\ jobs'[x].lease = jobs'[y].lease => x = y
    BY <1>4, <1>7, <2>1
  <2>5. IsFiniteSet(issued')
    BY <1>2, <1>7, <2>1, FS_AddElement
  <2>6. LeasesConserved'
    BY <2>3, <2>4 DEF LeasesConserved, HoldsLease
  <2> QED  BY <1>5, <1>6, <1>6a, <2>5, <2>6 DEF SchedInv
<1> QED  BY <1>1, <1>8, <1>9, <1>10 DEF Shape

LEMMA SchedInitHolds == SchedInit => SchedInv
<1> SUFFICES ASSUME SchedInit PROVE SchedInv
  OBVIOUS
<1>1. NewJob \in JobType(LeaseId)
  BY DEF NewJob, JobType, AllStates, AllOutcomes, AllIntents
<1>2. NewJob.lease = LeaseUnset
  BY DEF NewJob
<1>3. jobs = [o \in Job |-> NewJob] /\ issued = {}
  BY DEF SchedInit
<1>4. \A o \in Job : jobs[o].lease = LeaseUnset
  BY <1>2, <1>3
<1>5. SchedTypeOK
  BY <1>1, <1>3 DEF SchedInit, SchedTypeOK
<1>6. LeasesConserved /\ LeasesWellPlaced
  BY <1>3, <1>4 DEF LeasesConserved, LeasesWellPlaced, HoldsLease
<1>7. \A o \in Job : Sound(jobs[o])
  BY <1>3 DEF Sound, NewJob, IsSettled, AllStates, Unset
<1> QED  BY <1>3, <1>5, <1>6, <1>7, FS_EmptySet DEF SchedInv

LEMMA OutsideKeepsSchedInv ==
  ASSUME SchedInv, Outside
  PROVE  SchedInv'
  BY DEF SchedInv, Outside, SchedTypeOK, LeasesConserved, LeasesWellPlaced, HoldsLease, IsOpen, HasRun

-----------------------------------------------------------------------------
(* The refinement.  The holders are no more than the issued leases, since  *)
(* no two of them share one; a lease is issued only below the capacity.    *)
holders == { o \in Job : HoldsLease(jobs[o]) }

LEMMA HoldersAreCounted ==
  ASSUME SchedInv
  PROVE  IsFiniteSet(holders) /\ Cardinality(holders) <= Cardinality(issued)
<1> DEFINE f == [o \in holders |-> jobs[o].lease]
<1>1. f \in [holders -> issued]
  BY DEF SchedInv, LeasesConserved, holders, HoldsLease
<1>2. \A x, y \in holders : f[x] = f[y] => x = y
  BY DEF SchedInv, LeasesConserved, holders
<1>3. f \in Injection(holders, issued)
  BY <1>1, <1>2 DEF Injection, IsInjective
<1> HIDE DEF f
<1> QED  BY <1>3, FS_Injection DEF SchedInv

(* A door as the spine sees it: one job moves along one step of the spine, *)
(* and a lease is taken only below the capacity.                           *)
LEMMA DoorEffect ==
  ASSUME SchedInv, NEW o \in Job, InDoor(o)
  PROVE  /\ jobs \in [Job -> JobType(LeaseId)] /\ jobs' \in [Job -> JobType(LeaseId)]
         /\ \A x \in Job \ {o} : jobs'[x] = jobs[x]
         /\ \/ Same(jobs[o], jobs'[o]) \/ Begun(jobs[o], jobs'[o])
            \/ Moved(jobs[o], jobs'[o]) \/ Settled(jobs[o], jobs'[o])
         /\ MayKeep(jobs'[o])
         /\ holders' \in {holders, holders \cup {o}, holders \ {o}}
         /\ o \in holders' \ holders => Cardinality(holders) < leaseCap
<1>1. PICK q : Shape(o, q) /\ Commit(o, q)
  BY DEF InDoor, DoorStep
<1>2. q \in PoolType /\ jobs' = [jobs EXCEPT ![o] = q.job]
  BY <1>1 DEF Shape, Commit
<1>3. jobs \in [Job -> JobType(LeaseId)]
  BY DEF SchedInv, SchedTypeOK
<1>4. jobs'[o] = q.job /\ \A x \in Job \ {o} : jobs'[x] = jobs[x]
  BY <1>2, <1>3
<1>5. jobs' \in [Job -> JobType(LeaseId)]
  BY <1>2, <1>3 DEF PoolType
<1>6. holders' \in {holders, holders \cup {o}, holders \ {o}}
  BY <1>4 DEF holders
<1>7. ASSUME o \in holders' \ holders PROVE Cardinality(holders) < leaseCap
  <2>1. HoldsLease(q.job) /\ ~HoldsLease(jobs[o])
    BY <1>4, <1>7 DEF holders
  <2>2. Takes(Pools(o), q)
    BY <1>1, <2>1, PoolsTyped DEF Shape, Untouched, HandsBack, HoldsLease
  <2>3. Cardinality(issued) < leaseCap
    BY <2>2, PoolsTyped DEF Takes
  <2>4. leaseCap \in Int
    BY CapsAssumption DEF SchedInv, SchedTypeOK
  <2>5. Cardinality(issued) \in Nat /\ Cardinality(holders) \in Nat
    BY HoldersAreCounted, FS_CardinalityType DEF SchedInv
  <2> QED  BY <2>3, <2>4, <2>5, HoldersAreCounted
<1> QED  BY <1>1, <1>3, <1>4, <1>5, <1>6, <1>7 DEF Shape
=============================================================================
