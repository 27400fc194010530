------------------------- MODULE DispatcherProofs ---------------------------
(***************************************************************************)
(* Proofs about the dispatcher, for any jobs, names, removers, leases and  *)
(* bounds.  What a row rebuilds is proved for any use of names; what is    *)
(* about removals is proved for names used once (NamesAreUnique).          *)
(*                                                                         *)
(* The scheduler's side of every step is a door of SchedProofs.  The rest  *)
(* is about the registry: a step that leaves names, removals and rows      *)
(* alone is settled once, in Calm, and the others one by one.              *)
(***************************************************************************)
EXTENDS Dispatcher, SchedProofs, SequenceTheorems

(* A job that holds nothing, and what the doors make of it. *)
Idler(s, n, out, a, i) == [state |-> s, next |-> n, outcome |-> out, assessed |-> a,
                           intent |-> i, lease |-> LeaseUnset]

LEMMA IdlerFields ==
  ASSUME NEW s, NEW n, NEW out, NEW a, NEW i
  PROVE  /\ Idler(s, n, out, a, i).state = s /\ Idler(s, n, out, a, i).next = n
         /\ Idler(s, n, out, a, i).outcome = out /\ Idler(s, n, out, a, i).lease = LeaseUnset
  BY DEF Idler

LEMMA IdlerDoors ==
  ASSUME NEW s, NEW n, NEW out, NEW a, NEW i, NEW x
  PROVE  /\ SetNext(Idler(s, n, out, a, i), x) = Idler(s, x, out, a, i)
         /\ Cross(Idler(s, n, out, a, i), x) = Idler(x, Unset, out, a, i)
         /\ Finish(Idler(s, n, out, a, i), x) = Idler(s, Unset, x, a, i)
         /\ SetIntent(Idler(s, n, out, a, i), x) = Idler(s, n, out, a, x)
<1> DEFINE j == Idler(s, n, out, a, i)
<1>1. SetNext(j, x) = Idler(s, x, out, a, i)
  BY DEF SetNext, Idler
<1>2. Cross(j, x) = Idler(x, Unset, out, a, i)
  <2>1. [j EXCEPT !.state = x] = Idler(x, n, out, a, i)
    BY DEF Idler
  <2>2. [Idler(x, n, out, a, i) EXCEPT !.next = Unset] = Idler(x, Unset, out, a, i)
    BY DEF Idler
  <2>3. [Idler(x, Unset, out, a, i) EXCEPT !.lease = LeaseUnset] = Idler(x, Unset, out, a, i)
    BY DEF Idler
  <2> QED  BY <2>1, <2>2, <2>3 DEF Cross
<1>3. Finish(j, x) = Idler(s, Unset, x, a, i)
  <2>1. [j EXCEPT !.outcome = x] = Idler(s, n, x, a, i)
    BY DEF Idler
  <2>2. [Idler(s, n, x, a, i) EXCEPT !.next = Unset] = Idler(s, Unset, x, a, i)
    BY DEF Idler
  <2>3. [Idler(s, Unset, x, a, i) EXCEPT !.lease = LeaseUnset] = Idler(s, Unset, x, a, i)
    BY DEF Idler
  <2> QED  BY <2>1, <2>2, <2>3 DEF Finish
<1>4. SetIntent(j, x) = Idler(s, n, out, a, x)
  BY DEF SetIntent, Idler
<1> QED  BY <1>1, <1>2, <1>3, <1>4

(* Replaying the position of a sound row arrives there. *)
LEMMA Replays ==
  ASSUME NEW r \in RowType, Sound(r), r.state # Unset
  PROVE  replayPath(r) = Idler(r.state, Unset, "Pending", r.assessed, "Run")
<1>0. PICK yes : yes = TRUE
  OBVIOUS
<1> DEFINE J(s, a) == Idler(s, Unset, "Pending", a, "Run")
           fetching  == BeginAttempt(NewJob)
           assessed1 == hop(fetching, "Assessing")
           across    == xhop(assessed1, "Extracting")
<1> USE DEF hop, TransitionOK, Transition, IsOpen, HasRun, IsSettled, edgeFrom, legalEdges, Unset
<1>1. fetching = J("Fetching", FALSE)
  BY DEF BeginAttempt, NewJob, Idler
<1> HIDE DEF fetching
<1>2. assessed1 = J("Assessing", yes)
  BY <1>0, <1>1 DEF Idler
<1> HIDE DEF assessed1
<1>3. hop(assessed1, "Fetching") = J("Fetching", yes)
  BY <1>0, <1>2 DEF Idler
<1>4. hop(assessed1, "Repairing") = J("Repairing", yes)
  BY <1>0, <1>2 DEF Idler
<1>5. across = J("Extracting", yes)
  <2> DEFINE k == Idler("Assessing", "Extracting", "Pending", yes, "Run")
  <2>0. edgeFrom("Assessing", "Extracting", "cross") /\ CanTransition("Assessing", "Extracting")
    BY DEF CanTransition
  <2> HIDE DEF edgeFrom
  <2>1. SetNextOK(assessed1, "Extracting")
    BY <1>2, <2>0, IdlerFields DEF SetNextOK
  <2>2. SetNext(assessed1, "Extracting") = k
    BY <1>2, IdlerDoors
  <2>3. CrossOK(k, "Extracting")
    BY <2>0, IdlerFields DEF CrossOK
  <2>4. Cross(k, "Extracting") = J("Extracting", yes)
    BY IdlerDoors
  <2> HIDE DEF k
  <2> QED  BY <2>1, <2>2, <2>3, <2>4 DEF xhop
<1> HIDE DEF across
<1>6. hop(across, "Finalizing") = J("Finalizing", yes)
  BY <1>0, <1>5 DEF Idler
<1>7. r.state \in AllStates /\ r.assessed \in BOOLEAN /\ (r.state # "Fetching" => r.assessed = yes)
      /\ (r.assessed => r.assessed = yes)
  BY <1>0 DEF RowType, Sound, AllStates
<1>8. replayPath(r) = CASE r.state = "Fetching" /\ ~r.assessed -> fetching
          [] r.state = "Fetching" /\ r.assessed  -> hop(assessed1, "Fetching")
          [] r.state = "Assessing"  -> assessed1
          [] r.state = "Repairing"  -> hop(assessed1, "Repairing")
          [] r.state = "Extracting" -> across
          [] r.state = "Finalizing" -> hop(across, "Finalizing")
  BY DEF replayPath, fetching, assessed1, across
<1> HIDE DEF hop
<1>9. CASE r.state = "Fetching" /\ ~r.assessed
  <2>1. r.assessed = FALSE
    BY <1>7, <1>9
  <2> QED  BY <1>1, <1>8, <1>9, <2>1
<1>10. CASE r.state = "Fetching" /\ r.assessed
  BY <1>3, <1>7, <1>8, <1>10
<1>11. CASE r.state = "Assessing"
  BY <1>2, <1>7, <1>8, <1>11
<1>12. CASE r.state = "Repairing"
  BY <1>4, <1>7, <1>8, <1>12
<1>13. CASE r.state = "Extracting"
  BY <1>5, <1>7, <1>8, <1>13
<1>14. CASE r.state = "Finalizing"
  BY <1>6, <1>7, <1>8, <1>14
<1> QED  BY <1>7, <1>9, <1>10, <1>11, <1>12, <1>13, <1>14 DEF AllStates

(* A sound row is rebuilt exactly, holding nothing. *)
LEMMA Rebuilds ==
  ASSUME NEW r \in RowType, Sound(r)
  PROVE  reconstruct(r) = Idler(r.state, r.next, r.outcome, r.assessed, r.intent)
<1>1. CASE r.state = Unset
  <2>1. r.next = Unset /\ r.outcome = "Pending" /\ r.assessed = FALSE
    BY <1>1 DEF Sound, RowType
  <2>2. NewJob = Idler(Unset, Unset, "Pending", r.assessed, "Run")
    BY <2>1 DEF NewJob, Idler
  <2> QED  BY <1>1, <2>1, <2>2, IdlerDoors DEF reconstruct
<1>2. CASE r.state # Unset
  <2> DEFINE at   == replayPath(r)
             next == IF r.next # Unset /\ SetNextOK(at, r.next) THEN SetNext(at, r.next) ELSE at
             fin  == IF r.outcome # "Pending" /\ FinishOK(next, r.outcome)
                     THEN Finish(next, r.outcome) ELSE next
             J(n, out) == Idler(r.state, n, out, r.assessed, "Run")
  <2>1. at = J(Unset, "Pending")
    BY <1>2, Replays
  <2>2. reconstruct(r) = SetIntent(fin, r.intent)
    BY <1>2 DEF reconstruct
  <2> HIDE DEF at
  <2>3. IsOpen(at)
    BY <1>2, <2>1, IdlerFields DEF IsOpen, HasRun, IsSettled
  <2>4. next = J(r.next, "Pending")
    <3>1. CASE r.next = Unset
      BY <2>1, <3>1
    <3>2. CASE r.next # Unset
      <4>1. SetNextOK(at, r.next)
        BY <2>1, <2>3, <3>2, IdlerFields DEF SetNextOK, Sound
      <4>2. SetNext(at, r.next) = J(r.next, "Pending")
        BY <2>1, IdlerDoors
      <4> QED  BY <3>2, <4>1, <4>2
    <3> QED  BY <3>1, <3>2
  <2> HIDE DEF next
  <2>5. fin = J(r.next, r.outcome)
    <3>1. CASE r.outcome = "Pending"
      BY <2>4, <3>1
    <3>2. CASE r.outcome # "Pending"
      <4>1. r.next = Unset
        BY <3>2 DEF Sound, IsOpen, IsSettled
      <4>2. FinishOK(next, r.outcome)
        BY <1>2, <2>4, <3>2, IdlerFields DEF FinishOK, Sound, IsOpen, HasRun, IsSettled
      <4>3. Finish(next, r.outcome) = J(Unset, r.outcome)
        BY <2>4, IdlerDoors
      <4> QED  BY <3>2, <4>1, <4>2, <4>3
    <3> QED  BY <3>1, <3>2
  <2> HIDE DEF fin
  <2> QED  BY <2>2, <2>5, IdlerDoors
<1> QED  BY <1>1, <1>2

(* A row is typed and sound because its job is. *)
LEMMA RowsAreSound ==
  ASSUME SchedInv, NEW o \in Job
  PROVE  /\ Row(o) \in RowType /\ Sound(Row(o)) /\ Row(o).job = o
         /\ Row(o).state = jobs[o].state /\ Row(o).outcome = jobs[o].outcome
<1>1. Row(o) \in RowType /\ Row(o).job = o
      /\ Row(o).state = jobs[o].state /\ Row(o).outcome = jobs[o].outcome
      /\ Row(o).next = jobs[o].next /\ Row(o).assessed = jobs[o].assessed
  BY PoolsTyped DEF Row, RowType, JobType
<1>2. Sound(jobs[o])
  BY PoolsTyped
<1> HIDE DEF Row
<1> QED  BY <1>1, <1>2, SoundStays
-----------------------------------------------------------------------------
(* The job the tick or the sweep is at, and what is left of its walk. *)
LEMMA Visits ==
  ASSUME DispTypeOK, tk.pc \in Walking
  PROVE  /\ Visiting \in Job /\ IdOf[Visiting] \in Id /\ Visiting = tk.todo[1] /\ 1 \in DOMAIN tk.todo
         /\ Tail(tk.todo) \in Seq(Job)
         /\ Len(tk.todo) > 1 => Tail(tk.todo) # << >>
         /\ \A i \in DOMAIN Tail(tk.todo) :
              i + 1 \in DOMAIN tk.todo /\ Tail(tk.todo)[i] = tk.todo[i + 1]
<1>1. tk.todo \in Seq(Job) /\ tk.todo # << >>
  BY DEF DispTypeOK
<1>2. Len(tk.todo) \in Nat \ {0} /\ DOMAIN tk.todo = 1..Len(tk.todo)
  BY <1>1
<1>3. Visiting = tk.todo[1] /\ 1 \in DOMAIN tk.todo
  BY <1>1, <1>2 DEF Visiting
<1>4. Visiting \in Job
  BY <1>1, <1>3
<1>5. /\ Tail(tk.todo) \in Seq(Job) /\ Len(Tail(tk.todo)) = Len(tk.todo) - 1
      /\ \A i \in 1..Len(Tail(tk.todo)) : Tail(tk.todo)[i] = tk.todo[i + 1]
  BY <1>1, HeadTailProperties
<1>6. DOMAIN Tail(tk.todo) = 1..Len(Tail(tk.todo))
  BY <1>5
<1>7. Len(tk.todo) > 1 => Tail(tk.todo) # << >>
  <2>1. Len(<< >>) = 0
    BY EmptySeq
  <2>2. Tail(tk.todo) = << >> => Len(Tail(tk.todo)) = 0
    BY <2>1, Zenon
  <2> QED  BY <1>2, <1>5, <2>2
<1>8. \A i \in DOMAIN Tail(tk.todo) : i + 1 \in DOMAIN tk.todo /\ Tail(tk.todo)[i] = tk.todo[i + 1]
  BY <1>2, <1>5, <1>6
<1> QED  BY <1>3, <1>4, <1>5, <1>7, <1>8, IdOfAssumption

LEMMA Stutters ==
  ASSUME SchedInv, UNCHANGED schedVars, NEW o \in Job
  PROVE  InDoor(o) /\ Outside
<1>1. jobs = [jobs EXCEPT ![o] = jobs[o]] /\ aborts \subseteq Job /\ leaseCap \in 1..MaxLeases
      /\ slotCap \in 1..MaxSlots /\ paused \in BOOLEAN
  BY DEF SchedInv, SchedTypeOK
<1>2. Commit(o, Pools(o)) /\ Shape(o, Pools(o))
  BY <1>1, PoolsTyped, Stays DEF Commit, schedVars
<1> QED  BY <1>1, <1>2 DEF InDoor, DoorStep, Outside, schedVars

(* The calls of the dispatcher that reach a job. *)
LEMMA ParkIsADoor ==
  ASSUME SchedInv, NEW o \in Job, Commit(o, parkLocked(o)), UNCHANGED <<leaseCap, slotCap, paused>>,
         aborts' \subseteq aborts
  PROVE  InDoor(o)
  BY Parks DEF InDoor, DoorStep, SchedInv, SchedTypeOK

LEMMA CancelIsADoor ==
  ASSUME SchedInv, NEW o \in Job, Cancel(o)
  PROVE  InDoor(o)
<1>1. finishCancel(o, [jobs[o] EXCEPT !.intent = "Cancel"]) /\ UNCHANGED <<leaseCap, slotCap, paused>>
  BY DEF Cancel, SetIntent
<1> QED  BY <1>1, Cancels DEF InDoor

LEMMA FailIsADoor ==
  ASSUME SchedInv, NEW o \in Job, Settle(o, "Failed")
  PROVE  InDoor(o)
  BY SettleIsADoor DEF InDoor, Settle, AllOutcomes, SchedInv, SchedTypeOK

(* Recording an intent or a destination, or refusing to. *)
LEMMA NoteIsADoor ==
  ASSUME SchedInv, NEW o \in Job, NEW k \in JobType(LeaseId), Sound(k),
         k.state = jobs[o].state, k.outcome = jobs[o].outcome, k.lease = jobs[o].lease,
         jobs' = [jobs EXCEPT ![o] = k],
         UNCHANGED <<issued, held, leaseCap, slotCap, paused, aborts>>
  PROVE  InDoor(o)
<1>1. Shape(o, [Pools(o) EXCEPT !.job = k]) /\ Commit(o, [Pools(o) EXCEPT !.job = k])
  <2> DEFINE q == [Pools(o) EXCEPT !.job = k]
  <2>1. Shape(o, q) /\ q.job = k /\ q.issued = issued /\ q.held = held
    BY Notes
  <2> HIDE DEF q
  <2>2. Commit(o, q)
    BY <2>1 DEF Commit
  <2> QED  BY <2>1, <2>2 DEF q
<1> QED  BY <1>1 DEF InDoor, DoorStep, SchedInv, SchedTypeOK

LEMMA IntentIsADoor ==
  ASSUME SchedInv, NEW o \in Job, NEW i \in AllIntents,
         jobs' = [jobs EXCEPT ![o] = SetIntent(@, i)],
         UNCHANGED <<issued, held, leaseCap, slotCap, paused, aborts>>
  PROVE  InDoor(o)
<1> DEFINE k == SetIntent(jobs[o], i)
<1>1. k \in JobType(LeaseId) /\ k.state = jobs[o].state /\ k.outcome = jobs[o].outcome
      /\ k.lease = jobs[o].lease
  BY PoolsTyped DEF SetIntent, JobType
<1>2. Sound(k)
  BY PoolsTyped, SoundDoors
<1>3. jobs' = [jobs EXCEPT ![o] = k]
  OBVIOUS
<1> HIDE DEF k
<1> QED  BY <1>1, <1>2, <1>3, NoteIsADoor

LEMMA DecideIsADoor ==
  ASSUME SchedInv, NEW o \in Job, NEW n \in AllStates, Decide(o, n)
  PROVE  InDoor(o)
<1> DEFINE k == IF SetNextOK(jobs[o], n) THEN SetNext(jobs[o], n) ELSE jobs[o]
<1>1. k \in JobType(LeaseId) /\ k.state = jobs[o].state /\ k.outcome = jobs[o].outcome
      /\ k.lease = jobs[o].lease
  BY PoolsTyped DEF SetNext, JobType
<1>2. Sound(k)
  BY PoolsTyped, SoundDoors
<1>3. jobs' = [jobs EXCEPT ![o] = k] /\ UNCHANGED <<issued, held, leaseCap, slotCap, paused, aborts>>
  BY DEF Decide
<1> HIDE DEF k
<1> QED  BY <1>1, <1>2, <1>3, NoteIsADoor

(* The tick's side of the scheduler. *)
LEMMA TickIsADoor ==
  ASSUME SchedInv, DispTypeOK, Tick
  PROVE  (\E o \in Job : InDoor(o)) \/ Outside
<1>1. ASSUME Advance(Visiting), tk.pc = "advance" PROVE \E o \in Job : InDoor(o)
  BY <1>1, Visits, AdvanceIsADoor DEF InDoor, Advance, Walking
<1>2. CASE TickHydrateFails
  <2>1. Visiting \in Job
    BY <1>2, Visits DEF TickHydrateFails, Walking
  <2>2. Settle(Visiting, "Failed") \/ UNCHANGED schedVars
    BY <1>2 DEF TickHydrateFails
  <2> QED  BY <2>1, <2>2, FailIsADoor, Stutters
<1>3. CASE UNCHANGED schedVars
  <2>1. UNCHANGED <<jobs, issued, held, leaseCap, slotCap, paused, aborts>>
    BY <1>3 DEF schedVars
  <2> QED  BY <2>1 DEF Outside, SchedInv, SchedTypeOK
<1> QED  BY <1>1, <1>2, <1>3 DEF Tick, TickStart, TickAdvance, TickGone, TickMark, TickEvict,
    TickEvictFails, TickResident, TickUnload, TickLoad, TickHydrated, TickHydrateCancelled,
    TickRender, TickClaim, TickUnchanged, TickSave

LEMMA UserIsADoor ==
  ASSUME SchedInv, DispTypeOK, User
  PROVE  (\E o \in Job : InDoor(o)) \/ Outside
<1>0. "Run" \in AllIntents /\ "Pause" \in AllIntents
  BY DEF AllIntents
<1>1. ASSUME NEW o \in Job, NEW i \in AllIntents, Add(o, i) \/ SetJobIntent(o, i) PROVE InDoor(o)
  BY <1>1, IntentIsADoor DEF Add, SetJobIntent
<1>2. ASSUME NEW id \in Id, CancelJob(id) \/ RetryJob(id) PROVE \E o \in Job : InDoor(o)
  <2>1. byID[id] \in Job
    BY <1>2 DEF CancelJob, RetryJob, DispTypeOK
  <2>2. CASE Cancel(byID[id])
    BY <2>1, <2>2, CancelIsADoor
  <2>3. CASE Retry(byID[id])
    <3>1. InDoor(byID[id])
      BY <2>1, <2>3, RetryIsADoor DEF InDoor, Retry, SchedInv, SchedTypeOK
    <3> QED  BY <2>1, <3>1
  <2> QED  BY <1>2, <2>2, <2>3 DEF CancelJob, RetryJob
<1>3. ASSUME PauseQueue \/ ResumeQueue PROVE Outside
  BY <1>3 DEF PauseQueue, ResumeQueue, Pause, Resume, Outside, SchedInv, SchedTypeOK
<1>4. ASSUME NEW l \in 1..MaxLeases, NEW s \in 1..MaxSlots, SetQueueCaps(l, s) PROVE Outside
  BY <1>4, CapsAssumption DEF SetQueueCaps, SetCaps, Outside, SchedInv, SchedTypeOK
<1>5. ASSUME NEW r \in Remover, NEW id \in Id, DeleteJob(r, id) PROVE Outside
  BY <1>5 DEF DeleteJob, schedVars, Outside, SchedInv, SchedTypeOK
<1> QED  BY <1>0, <1>1, <1>2, <1>3, <1>4, <1>5 DEF User, PauseJob, ResumeJob

LEMMA WorkIsADoor ==
  ASSUME SchedInv, DispTypeOK, Work
  PROVE  (\E o \in Job : InDoor(o)) \/ Outside
<1>0. ASSUME UNCHANGED schedVars PROVE Outside
  BY <1>0 DEF schedVars, Outside, SchedInv, SchedTypeOK
<1>1. ASSUME NEW id \in Id, byID[id] # None PROVE byID[id] \in Job
  BY <1>1 DEF DispTypeOK
<1>2. ASSUME NEW id \in Id, byID[id] # None, YieldedFor(id) PROVE \E o \in Job : InDoor(o)
  BY <1>1, <1>2, ParkIsADoor DEF YieldedFor, Park
<1>3. ASSUME NEW o \in Job, AbortYields(o) PROVE InDoor(o) \/ Outside
  <2>1. CASE byID[IdOf[o]] = o
    BY <1>3, <2>1, ParkIsADoor DEF AbortYields
  <2>2. CASE byID[IdOf[o]] # o
    BY <1>3, <2>2 DEF AbortYields, Outside, SchedInv, SchedTypeOK
  <2> QED  BY <2>1, <2>2
<1>4. ASSUME NEW o \in Job, FetchDone(o) PROVE InDoor(o)
  BY <1>4, DecideIsADoor DEF FetchDone, AllStates
<1>5. ASSUME NEW o \in Job, NEW n \in {"Fetching", "Repairing", "Extracting"}, Assess(o, n) PROVE InDoor(o)
  BY <1>5, DecideIsADoor DEF Assess, AllStates
<1>6. ASSUME NEW o \in Job, Stall(o) PROVE \E x \in Job : InDoor(x)
  <2> DEFINE k == SetIntent(jobs[o], "Pause")
  <2>1. jobs' = [jobs EXCEPT ![o] = k]
         \/ jobs' = [jobs EXCEPT ![o] = jobs[o]]
    BY <1>6 DEF Stall
  <2>2. UNCHANGED <<issued, held, leaseCap, slotCap, paused, aborts>>
    BY <1>6 DEF Stall
  <2>3. CASE jobs' = [jobs EXCEPT ![o] = k]
    BY <2>2, <2>3, IntentIsADoor DEF AllIntents
  <2>4. CASE jobs' = [jobs EXCEPT ![o] = jobs[o]]
    BY <2>2, <2>4, NoteIsADoor, PoolsTyped
  <2> QED  BY <2>1, <2>3, <2>4
<1>7. ASSUME NEW o \in Job, AssessHopeless(o) PROVE (\E x \in Job : InDoor(x)) \/ Outside
  <2>1. IdOf[o] \in Id
    BY IdOfAssumption
  <2>2. CASE UNCHANGED schedVars
    BY <1>0, <2>2
  <2>3. CASE byID[IdOf[o]] # None /\ Settle(byID[IdOf[o]], "Failed")
    BY <1>1, <2>1, <2>3, FailIsADoor
  <2> QED  BY <1>7, <2>2, <2>3 DEF AssessHopeless
<1>8. ASSUME NEW r \in Remover, Removal(r) \/ RemoveGivesUp(r)
      PROVE  (\E o \in Job : InDoor(o)) \/ Outside
  <2>1. rm[r].pc # "free" => rm[r].id \in Id
    BY DEF DispTypeOK
  <2>2. CASE FinalizerCancel(r)
    BY <1>0, <1>1, <2>1, <2>2, CancelIsADoor DEF FinalizerCancel, At
  <2>3. CASE FinalizerYield(r)
    BY <1>0, <1>2, <2>1, <2>3 DEF FinalizerYield, At
  <2>4. CASE RemoveCancel(r)
    BY <1>1, <2>1, <2>4, CancelIsADoor DEF RemoveCancel, At
  <2>5. CASE UNCHANGED schedVars
    BY <1>0, <2>5
  <2> QED  BY <1>8, <2>2, <2>3, <2>4, <2>5 DEF Removal, FinalizerOccupy, RemoveBegin,
        RemoveWaits, RemoveRow, RemoveEnd, RemoveGivesUp, RemoveFails
<1>9. ASSUME NEW id \in Id, Yielded(id) PROVE (\E o \in Job : InDoor(o)) \/ Outside
  BY <1>0, <1>2, <1>9 DEF Yielded
<1>10. ASSUME NEW o \in Job, Fail(o) PROVE Outside
  BY <1>0, <1>10 DEF Fail
<1>11. ASSUME NEW o \in Job, NEW r \in Remover, PostProcDone(r, o) PROVE Outside
  BY <1>0, <1>11 DEF PostProcDone
<1> QED  BY <1>3, <1>4, <1>5, <1>6, <1>7, <1>8, <1>9, <1>10, <1>11 DEF Work

(* Whatever the dispatcher does short of dying, the scheduler sees a door. *)
LEMMA StepsAreDoors ==
  ASSUME SchedInv, DispTypeOK, [Next]_vars
  PROVE  (\E o \in Job : InDoor(o)) \/ Outside \/ Restart
<1>0. ASSUME UNCHANGED schedVars PROVE Outside
  BY <1>0 DEF schedVars, Outside, SchedInv, SchedTypeOK
<1>1. CASE SweepJob
  BY <1>1, Visits, ParkIsADoor DEF SweepJob, Walking, Park
<1>2. CASE Shutdown
  BY <1>2 DEF Shutdown, Pause, Outside, SchedInv, SchedTypeOK
<1>3. CASE StopSweep \/ SweepSkips \/ UNCHANGED vars
  BY <1>0, <1>3 DEF StopSweep, SweepSkips, vars
<1> QED  BY <1>1, <1>2, <1>3, TickIsADoor, UserIsADoor, WorkIsADoor DEF Next
-----------------------------------------------------------------------------
(* Types.  The tick and the removers change in few ways. *)
WalkOK ==
    /\ tk \in [pc : Walking \cup {"idle", "stopped"}, todo : Seq(Job), stop : BOOLEAN]
    /\ tk.pc \in Walking => tk.todo # << >>

RemoversOK ==
    /\ rm \in [Remover -> [pc : Marked \cup {"free", "fcancel", "fyield", "foccupy", "begin"},
                           id : Id \cup {None}]]
    /\ \A r \in Remover : rm[r].pc # "free" => rm[r].id \in Id

LEMMA WalkGoesOn ==
  ASSUME DispTypeOK, tk.pc \in Walking
  PROVE  /\ \A pc \in Walking : To(pc) => WalkOK' /\ tk'.pc = pc /\ tk'.todo = tk.todo
         /\ NextJob \/ NextSwept =>
              /\ WalkOK' /\ tk'.pc \in {"advance", "sweep", "idle", "stopped"}
              /\ tk'.todo = Tail(tk.todo)
<1>1. tk \in [pc : Walking \cup {"idle", "stopped"}, todo : Seq(Job), stop : BOOLEAN]
      /\ tk.todo # << >>
  BY DEF DispTypeOK
<1>2. ASSUME NEW pc \in Walking, To(pc) PROVE WalkOK' /\ tk'.pc = pc /\ tk'.todo = tk.todo
  BY <1>1, <1>2 DEF WalkOK, To
<1>3. ASSUME NextJob \/ NextSwept
      PROVE  /\ WalkOK' /\ tk'.pc \in {"advance", "sweep", "idle", "stopped"}
             /\ tk'.todo = Tail(tk.todo)
  <2>1. "idle" \notin Walking /\ "stopped" \notin Walking /\ "advance" \in Walking /\ "sweep" \in Walking
    BY DEF Walking
  <2>2. Tail(tk.todo) \in Seq(Job) /\ (Len(tk.todo) > 1 => Tail(tk.todo) # << >>)
    BY Visits
  <2>3. CASE NextJob
    BY <1>1, <2>1, <2>2, <2>3 DEF NextJob, WalkOK
  <2>4. CASE NextSwept
    BY <1>1, <2>1, <2>2, <2>4 DEF NextSwept, WalkOK
  <2> QED  BY <1>3, <2>3, <2>4
<1> QED  BY <1>2, <1>3

LEMMA WalkStarts ==
  ASSUME DispBase, NEW f, f = [i \in DOMAIN order |-> byID[order[i]]]
  PROVE  f \in Seq(Job) /\ (order # << >> => f # << >>) /\ DOMAIN f = DOMAIN order
<1>1. order \in Seq(Id) /\ Len(order) \in Nat /\ DOMAIN order = 1..Len(order)
  BY DEF DispBase, DispTypeOK
<1>2. \A i \in DOMAIN order : byID[order[i]] \in Job
  BY <1>1 DEF DispBase, DispTypeOK, RegistryOK, Registered
<1>3. f \in [1..Len(order) -> Job]
  BY <1>1, <1>2
<1>4. f \in Seq(Job) /\ Len(f) = Len(order)
  BY <1>1, <1>3
<1>5. order # << >> => Len(order) # 0
  BY <1>1, EmptySeq
<1> QED  BY <1>1, <1>3, <1>4, <1>5, EmptySeq

LEMMA RemoverMoves ==
  ASSUME DispTypeOK, NEW r \in Remover
  PROVE  /\ \A pc \in Marked \cup {"fyield", "foccupy", "begin"} :
              rm[r].pc # "free" /\ Goto(r, pc) =>
                /\ RemoversOK' /\ rm'[r].pc = pc /\ rm'[r].id = rm[r].id
                /\ \A x \in Remover \ {r} : rm'[x] = rm[x]
         /\ rm' = [rm EXCEPT ![r] = Free] =>
              /\ RemoversOK' /\ rm'[r] = Free
              /\ \A x \in Remover \ {r} : rm'[x] = rm[x]
         /\ \A pc \in {"begin", "fcancel"}, id \in Id :
              rm' = [rm EXCEPT ![r] = [pc |-> pc, id |-> id]] =>
                /\ RemoversOK' /\ rm'[r].pc = pc /\ rm'[r].id = id
                /\ \A x \in Remover \ {r} : rm'[x] = rm[x]
<1>1. rm \in [Remover -> [pc : Marked \cup {"free", "fcancel", "fyield", "foccupy", "begin"},
                          id : Id \cup {None}]]
      /\ \A x \in Remover : rm[x].pc # "free" => rm[x].id \in Id
  BY DEF DispTypeOK
<1>2. ASSUME NEW pc \in Marked \cup {"fyield", "foccupy", "begin"}, rm[r].pc # "free", Goto(r, pc)
      PROVE  /\ RemoversOK' /\ rm'[r].pc = pc /\ rm'[r].id = rm[r].id
             /\ \A x \in Remover \ {r} : rm'[x] = rm[x]
  BY <1>1, <1>2 DEF RemoversOK, Goto
<1>3. ASSUME rm' = [rm EXCEPT ![r] = Free]
      PROVE  RemoversOK' /\ rm'[r] = Free /\ \A x \in Remover \ {r} : rm'[x] = rm[x]
  <2>1. Free \in [pc : Marked \cup {"free", "fcancel", "fyield", "foccupy", "begin"}, id : Id \cup {None}]
        /\ Free.pc = "free"
    BY DEF Free
  <2> QED  BY <1>1, <1>3, <2>1 DEF RemoversOK
<1>4. ASSUME NEW pc \in {"begin", "fcancel"}, NEW id \in Id,
             rm' = [rm EXCEPT ![r] = [pc |-> pc, id |-> id]]
      PROVE  /\ RemoversOK' /\ rm'[r].pc = pc /\ rm'[r].id = id
             /\ \A x \in Remover \ {r} : rm'[x] = rm[x]
  BY <1>1, <1>4 DEF RemoversOK
<1> QED  BY <1>2, <1>3, <1>4
-----------------------------------------------------------------------------
(* Taking a name out of an order that lists each once. *)
Once(s) == \A i, k \in DOMAIN s : s[i] = s[k] => i = k

LEMMA Without ==
  ASSUME NEW s \in Seq(Id), NEW id \in Id, Once(s)
  PROVE  /\ without(s, id) \in Seq(Id) /\ Once(without(s, id))
         /\ \A i \in DOMAIN without(s, id) :
              without(s, id)[i] # id /\ \E k \in DOMAIN s : without(s, id)[i] = s[k]
<1>0. Len(s) \in Nat /\ DOMAIN s = 1..Len(s) /\ \A i \in DOMAIN s : s[i] \in Id
  OBVIOUS
<1>1. CASE ~\E i \in DOMAIN s : s[i] = id
  BY <1>0, <1>1 DEF without
<1>2. CASE \E i \in DOMAIN s : s[i] = id
  <2> DEFINE c == CHOOSE i \in DOMAIN s : s[i] = id
             a == SubSeq(s, 1, c - 1)
             b == SubSeq(s, c + 1, Len(s))
             w == a \o b
  <2>1. c \in 1..Len(s) /\ s[c] = id
    BY <1>0, <1>2
  <2>2. without(s, id) = w
    BY <1>2 DEF without
  <2> HIDE DEF c
  <2>3. a \in Seq(Id) /\ Len(a) = c - 1 /\ \A i \in 1..(c - 1) : a[i] = s[i]
    <3>1. \A i \in 1..(c - 1) : s[i] \in Id
      BY <1>0, <2>1
    <3> QED  BY <1>0, <2>1, <3>1, SubSeqProperties
  <2>4. b \in Seq(Id) /\ Len(b) = Len(s) - c /\ \A i \in 1..(Len(s) - c) : b[i] = s[c + i]
    <3>1. \A i \in (c + 1)..Len(s) : s[i] \in Id
      BY <1>0, <2>1
    <3>2. c + 1 \in Int /\ Len(s) \in Int
      BY <1>0, <2>1
    <3>3. /\ b \in Seq(Id) /\ Len(b) = IF c + 1 <= Len(s) THEN Len(s) - (c + 1) + 1 ELSE 0
          /\ \A i \in 1..(Len(s) - (c + 1) + 1) : b[i] = s[(c + 1) + i - 1]
      BY <3>1, <3>2, SubSeqProperties
    <3> HIDE DEF b
    <3>4. Len(b) = Len(s) - c
      <4>1. c \in Int /\ Len(s) \in Int /\ c <= Len(s)
        BY <1>0, <2>1
      <4>2. CASE c + 1 <= Len(s)
        <5>1. Len(b) = Len(s) - (c + 1) + 1
          BY <3>3, <4>2
        <5> QED  BY <4>1, <5>1
      <4>3. CASE ~(c + 1 <= Len(s))
        <5>1. Len(b) = 0
          BY <3>3, <4>3
        <5> QED  BY <4>1, <4>3, <5>1
      <4> QED  BY <4>2, <4>3
    <3>5. ASSUME NEW i \in 1..(Len(s) - c) PROVE b[i] = s[c + i]
      <4>1. i \in 1..(Len(s) - (c + 1) + 1) /\ (c + 1) + i - 1 = c + i
        BY <1>0, <2>1
      <4> QED  BY <3>3, <4>1
    <3> QED  BY <3>3, <3>4, <3>5
  <2> HIDE DEF a, b
  <2>5. w \in Seq(Id) /\ Len(w) = Len(s) - 1
        /\ \A i \in 1..(Len(s) - 1) : w[i] = IF i < c THEN s[i] ELSE s[i + 1]
    <3>1. w \in Seq(Id) /\ Len(w) = Len(a) + Len(b)
          /\ \A i \in 1..(Len(a) + Len(b)) : w[i] = IF i <= Len(a) THEN a[i] ELSE b[i - Len(a)]
      BY <2>3, <2>4, ConcatProperties
    <3>2. Len(a) + Len(b) = Len(s) - 1
      BY <1>0, <2>1, <2>3, <2>4
    <3>3. ASSUME NEW i \in 1..(Len(s) - 1) PROVE w[i] = IF i < c THEN s[i] ELSE s[i + 1]
      <4>1. CASE i < c
        BY <1>0, <2>1, <2>3, <3>1, <3>2, <4>1
      <4>2. CASE ~(i < c)
        <5>1. i - Len(a) \in 1..(Len(s) - c) /\ c + (i - Len(a)) = i + 1
          BY <1>0, <2>1, <2>3, <4>2
        <5>2. w[i] = b[i - Len(a)]
          BY <1>0, <2>1, <2>3, <3>1, <3>2, <4>2
        <5> QED  BY <2>4, <4>2, <5>1, <5>2
      <4> QED  BY <4>1, <4>2
    <3> QED  BY <3>1, <3>2, <3>3
  <2> HIDE DEF w
  <2>6. DOMAIN w = 1..(Len(s) - 1)
    BY <2>5
  <2>7. Once(w)
    BY <1>0, <2>1, <2>5, <2>6 DEF Once
  <2>8. \A i \in DOMAIN w : w[i] # id /\ \E k \in DOMAIN s : w[i] = s[k]
    <3>1. SUFFICES ASSUME NEW i \in DOMAIN w PROVE w[i] # id /\ \E k \in DOMAIN s : w[i] = s[k]
      OBVIOUS
    <3>2. PICK k \in DOMAIN s : w[i] = s[k] /\ k # c
      BY <1>0, <2>1, <2>5, <2>6
    <3> QED  BY <2>1, <1>0, <3>2 DEF Once
  <2> QED  BY <2>2, <2>5, <2>7, <2>8
<1> QED  BY <1>1, <1>2

(* The restored order lists what is stored, each name once. *)
LEMMA SortedOnce ==
  ASSUME NEW rows, rows \subseteq Id, NEW s \in bySortKey(rows), order \in Seq(Id), Once(order)
  PROVE  s \in Seq(Id) /\ Once(s) /\ \A i \in DOMAIN s : s[i] \in rows
<1>1. PICK n \in 0..Len(order) : s \in [1..n -> rows]
  BY DEF bySortKey
<1>2. s \in Seq(Id) /\ DOMAIN s = 1..n /\ \A i \in DOMAIN s : s[i] \in rows
  BY <1>1
<1>3. ASSUME NEW i \in DOMAIN s, NEW k \in DOMAIN s, i < k PROVE s[i] # s[k]
  <2>1. before(s[i], s[k])
    BY <1>3 DEF bySortKey
  <2>2. PICK x, y \in DOMAIN order : x < y /\ order[x] = s[i] /\ order[y] = s[k]
    BY <2>1 DEF before
  <2>3. x # y
    BY <2>2
  <2> QED  BY <2>2, <2>3 DEF Once
<1>4. Once(s)
  <2>1. SUFFICES ASSUME NEW i \in DOMAIN s, NEW k \in DOMAIN s, s[i] = s[k], i # k PROVE FALSE
    BY DEF Once
  <2>2. i \in Int /\ k \in Int
    BY <1>1, <1>2
  <2> QED  BY <1>3, <2>1, <2>2
<1> QED  BY <1>2, <1>4
-----------------------------------------------------------------------------
(* What holds however names are used. *)
MarksClean(id) == removing[id] = 0 /\ occupants[id] = {} /\ id \notin launched \cup resident

(* A step that registers and deregisters nothing. *)
LEMMA SameRegistry ==
  ASSUME DispBase, DispTypeOK', UNCHANGED registry,
         \A id \in Id : ~Registered(id) => MarksClean(id)',
         \A id \in Id : \/ store'[id] \in {store[id], None}
                        \/ \E o \in Job : IdOf[o] = id /\ store'[id] = Row(o)
  PROVE  RegistryOK'
<1>1. RegistryOK /\ SchedInv
  BY DEF DispBase
<1>2. \A o \in Job : Row(o).job = o /\ Sound(Row(o))
  BY <1>1, RowsAreSound
<1>3. ASSUME NEW id \in Id, store'[id] # None PROVE IdOf[store'[id].job] = id /\ Sound(store'[id])
  BY <1>1, <1>2, <1>3 DEF RegistryOK
<1>4. byID' = byID /\ order' = order
  BY DEF registry
<1> HIDE DEF Row
<1> QED  BY <1>1, <1>3, <1>4 DEF RegistryOK, Registered, MarksClean

LEMMA StoreKept ==
  ASSUME UNCHANGED store
  PROVE  \A id \in Id : \/ store'[id] \in {store[id], None}
                        \/ \E o \in Job : IdOf[o] = id /\ store'[id] = Row(o)
  OBVIOUS

LEMMA CleanMarks ==
  ASSUME DispBase, NEW id \in Id, ~Registered(id)
  PROVE  MarksClean(id)
  BY DEF DispBase, RegistryOK, MarksClean

LEMMA TickBase ==
  ASSUME DispBase, Tick, ~TickEvict
  PROVE  (DispTypeOK /\ RegistryOK)'
<1> USE DEF registry, marks, disk, workers, bounds
<1>0. DispTypeOK /\ SchedInv
  BY DEF DispBase
<1>1. "idle" \notin Walking /\ {"advance", "delete", "residency", "hydrate", "launch", "claim", "persist"}
        \subseteq Walking
  BY DEF Walking
<1>2. UNCHANGED <<registry, rm, fresh, filed, yields, crashes>>
  BY DEF Tick, TickStart, TickAdvance, TickGone, TickMark,
    TickEvictFails, TickResident, TickUnload, TickLoad, TickHydrated, TickHydrateFails,
    TickHydrateCancelled, TickRender, TickClaim, TickUnchanged, TickSave
<1>3. events' \in Nat
  BY <1>0 DEF Tick, TickStart, TickAdvance, TickGone, TickMark, DispTypeOK, Event,
    TickEvictFails, TickResident, TickUnload, TickLoad, TickHydrated, TickHydrateFails,
    TickHydrateCancelled, TickRender, TickClaim, TickUnchanged, TickSave
<1>4. WalkOK'
  <2>1. CASE TickStart
    <3> DEFINE f == [i \in DOMAIN order |-> byID[order[i]]]
    <3>1. f \in Seq(Job) /\ f # << >>
      BY <2>1, WalkStarts DEF TickStart
    <3>2. tk' = [tk EXCEPT !.pc = "advance", !.todo = f]
      BY <2>1 DEF TickStart
    <3> HIDE DEF f
    <3> QED  BY <1>0, <1>1, <3>1, <3>2 DEF WalkOK, DispTypeOK
  <2>2. CASE tk.pc \in Walking /\ (NextJob \/ \E pc \in Walking : To(pc))
    BY <1>0, <2>2, WalkGoesOn
  <2> QED  BY <1>1, <2>1, <2>2 DEF Tick, TickAdvance, TickGone, TickMark,
    TickEvictFails, TickResident, TickUnload, TickLoad, TickHydrated, TickHydrateFails,
    TickHydrateCancelled, TickRender, TickClaim, TickUnchanged, TickSave
<1>5. tk.pc \in Walking => Visiting \in Job /\ IdOf[Visiting] \in Id
  BY <1>0, Visits
<1>6. /\ resident' \subseteq Id /\ launched' \subseteq Id
      /\ removing' \in [Id -> Nat] /\ occupants' \in [Id -> SUBSET Remover]
      /\ assessing' \subseteq Job /\ pp' \subseteq Job
      /\ \A id \in Id : ~Registered(id) => MarksClean(id)'
  <2>0. /\ resident \subseteq Id /\ launched \subseteq Id
        /\ removing \in [Id -> Nat] /\ occupants \in [Id -> SUBSET Remover]
        /\ assessing \subseteq Job /\ pp \subseteq Job
        /\ \A id \in Id : ~Registered(id) => MarksClean(id)
    BY <1>0, CleanMarks DEF DispTypeOK
  <2>1. CASE TickMark
    BY <1>1, <1>5, <2>0, <2>1 DEF TickMark, MarksClean, Registered
  <2>2. CASE TickEvictFails
    BY <1>1, <1>5, <2>0, <2>2 DEF TickEvictFails, abortRemoval, MarksClean
  <2>3. CASE TickHydrated
    BY <1>1, <1>5, <2>0, <2>3 DEF TickHydrated, admitsLocked, MarksClean, Registered
  <2>4. CASE TickUnload \/ TickHydrateFails
    BY <2>0, <2>4 DEF TickUnload, TickHydrateFails, MarksClean
  <2>5. CASE TickClaim
    BY <1>1, <1>5, <2>0, <2>5 DEF TickClaim, claimable, admitsLocked, MarksClean, Registered
  <2>6. CASE UNCHANGED <<marks, assessing, pp>>
    BY <2>0, <2>6 DEF MarksClean
  <2> QED  BY <2>1, <2>2, <2>3, <2>4, <2>5, <2>6 DEF Tick, TickStart, TickAdvance, TickGone,
    TickResident, TickLoad, TickHydrateCancelled, TickRender, TickUnchanged, TickSave
<1>7. /\ written' \in [Id -> RowType \cup {None}] /\ store' \in [Id -> RowType \cup {None}]
      /\ \A id \in Id : \/ store'[id] \in {store[id], None}
                        \/ \E o \in Job : IdOf[o] = id /\ store'[id] = Row(o)
  <2>0. written \in [Id -> RowType \cup {None}] /\ store \in [Id -> RowType \cup {None}]
    BY <1>0 DEF DispTypeOK
  <2>1. CASE TickSave
    <3>1. Visiting \in Job /\ IdOf[Visiting] \in Id /\ Row(Visiting) \in RowType
      BY <1>0, <1>1, <1>5, <2>1, RowsAreSound DEF TickSave
    <3> HIDE DEF Row
    <3> QED  BY <2>0, <2>1, <3>1 DEF TickSave
  <2>2. CASE UNCHANGED disk
    BY <2>0, <2>2
  <2> QED  BY <2>1, <2>2 DEF Tick, TickStart, TickAdvance, TickGone, TickMark,
    TickEvictFails, TickResident, TickUnload, TickLoad, TickHydrated, TickHydrateFails,
    TickHydrateCancelled, TickRender, TickClaim, TickUnchanged
<1>8. DispTypeOK'
  BY <1>0, <1>2, <1>3, <1>4, <1>6, <1>7 DEF DispTypeOK, WalkOK
<1> QED  BY <1>2, <1>6, <1>7, <1>8, SameRegistry

(* deregister leaves a name clean. *)
LEMMA Deregisters ==
  ASSUME DispBase, NEW id \in Id, deregister(id),
         store' \in {store, [store EXCEPT ![id] = None]}, DispTypeOK'
  PROVE  RegistryOK' /\ order' \in Seq(Id) /\ ~Registered(id)'
         /\ \A x \in Id \ {id} : Registered(x)' <=> Registered(x)
<1>0. RegistryOK /\ DispTypeOK
  BY DEF DispBase
<1>1. order \in Seq(Id) /\ Once(order)
  BY <1>0 DEF DispTypeOK, RegistryOK, Once
<1>2. /\ order' \in Seq(Id) /\ Once(order')
      /\ \A i \in DOMAIN order' : order'[i] # id /\ \E k \in DOMAIN order : order'[i] = order[k]
  BY <1>1, Without DEF deregister
<1>3. byID'[id] = None /\ \A x \in Id \ {id} : byID'[x] = byID[x]
  BY <1>0 DEF DispTypeOK, deregister
<1>4. \A i \in DOMAIN order' : byID'[order'[i]] # None
  BY <1>0, <1>2, <1>3 DEF RegistryOK, Registered
<1>5. \A x \in Id : Registered(x)' => IdOf[byID'[x]] = x
  BY <1>0, <1>3 DEF RegistryOK, Registered
<1>6. \A x \in Id : ~Registered(x)' => MarksClean(x)'
  <2>1. ASSUME NEW x \in Id \ {id}, ~Registered(x)' PROVE MarksClean(x)'
    <3>1. MarksClean(x)
      BY <1>3, <2>1, CleanMarks DEF Registered
    <3> QED  BY <1>0, <3>1 DEF MarksClean, deregister, DispTypeOK
  <2>2. MarksClean(id)'
    BY <1>0 DEF MarksClean, deregister, DispTypeOK
  <2> QED  BY <2>1, <2>2
<1>7. \A x \in Id : store'[x] # None => IdOf[store'[x].job] = x /\ Sound(store'[x])
  BY <1>0 DEF RegistryOK, DispTypeOK
<1>8. RegistryOK'
  BY <1>2, <1>4, <1>5, <1>6, <1>7 DEF RegistryOK, Registered, MarksClean, Once
<1> QED  BY <1>2, <1>3, <1>8 DEF Registered

LEMMA DeregisterTypes ==
  ASSUME DispBase, NEW id \in Id, deregister(id)
  PROVE  /\ byID' \in [Id -> Job \cup {None}] /\ order' \in Seq(Id)
         /\ resident' \subseteq Id /\ launched' \subseteq Id
         /\ removing' \in [Id -> Nat] /\ occupants' \in [Id -> SUBSET Remover]
         /\ written' \in [Id -> RowType \cup {None}]
<1>0. RegistryOK /\ DispTypeOK
  BY DEF DispBase
<1>1. order' \in Seq(Id)
  BY <1>0, Without DEF DispTypeOK, RegistryOK, Once, deregister
<1> QED  BY <1>0, <1>1 DEF DispTypeOK, deregister

LEMMA EvictBase ==
  ASSUME DispBase, TickEvict
  PROVE  (DispTypeOK /\ RegistryOK)'
<1> DEFINE id == IdOf[Visiting]
<1>0. DispTypeOK
  BY DEF DispBase
<1>1. tk.pc \in Walking /\ NextJob /\ deregister(id) /\ store' = [store EXCEPT ![id] = None]
      /\ UNCHANGED <<workers, rm, fresh, bounds>>
  BY DEF TickEvict, Walking
<1>2. id \in Id
  BY <1>0, <1>1, Visits
<1>3. WalkOK'
  BY <1>0, <1>1, WalkGoesOn
<1> HIDE DEF id
<1>4. DispTypeOK'
  BY <1>0, <1>1, <1>2, <1>3, DeregisterTypes DEF DispTypeOK, WalkOK, workers, bounds
<1> QED  BY <1>1, <1>2, <1>4, Deregisters

LEMMA RemoveEndBase ==
  ASSUME DispBase, NEW r \in Remover, RemoveEnd(r)
  PROVE  (DispTypeOK /\ RegistryOK)'
<1>0. DispTypeOK
  BY DEF DispBase
<1>1. rm[r].pc = "end" /\ deregister(rm[r].id) /\ rm' = [rm EXCEPT ![r] = Free]
      /\ UNCHANGED <<store, workers, tk, fresh, bounds>>
  BY DEF RemoveEnd, At
<1>2. rm[r].id \in Id
  BY <1>0, <1>1 DEF DispTypeOK
<1>3. RemoversOK'
  BY <1>0, <1>1, RemoverMoves
<1>4. DispTypeOK'
  BY <1>0, <1>1, <1>2, <1>3, DeregisterTypes DEF DispTypeOK, RemoversOK, workers, bounds
<1> QED  BY <1>1, <1>2, <1>4, Deregisters

LEMMA AddBase ==
  ASSUME DispBase, NEW o \in Job, NEW i, Add(o, i)
  PROVE  (DispTypeOK /\ RegistryOK)'
<1> DEFINE id == IdOf[o]
<1>0. DispTypeOK /\ RegistryOK /\ id \in Id
  BY IdOfAssumption DEF DispBase
<1>1. byID[id] = None /\ byID' = [byID EXCEPT ![id] = o] /\ order' = Append(order, id)
      /\ fresh' = fresh \ {o} /\ UNCHANGED <<marks, disk, workers, tk, rm, bounds>>
  BY DEF Add
<1>2. order \in Seq(Id) /\ Len(order) \in Nat /\ DOMAIN order = 1..Len(order)
      /\ \A k \in DOMAIN order : order[k] \in Id
  BY <1>0 DEF DispTypeOK
<1> HIDE DEF id
<1>3. /\ order' \in Seq(Id) /\ DOMAIN order' = 1..(Len(order) + 1)
      /\ \A k \in DOMAIN order : order'[k] = order[k]
      /\ order'[Len(order) + 1] = id
  BY <1>0, <1>1, <1>2, AppendProperties
<1>4. byID'[id] = o /\ \A x \in Id \ {id} : byID'[x] = byID[x]
  BY <1>0, <1>1 DEF DispTypeOK
<1>5. o # None
  BY NoneAssumption
<1>6. DispTypeOK'
  BY <1>0, <1>1, <1>3 DEF DispTypeOK, marks, disk, workers, bounds
<1>7. \A k \in DOMAIN order : order[k] # id
  BY <1>0, <1>1 DEF RegistryOK, Registered
<1>8. \A k \in DOMAIN order' : k \in DOMAIN order \/ k = Len(order) + 1
  BY <1>2, <1>3
<1>9. \A k \in DOMAIN order' : byID'[order'[k]] # None
  <2>1. \A k \in DOMAIN order : byID[order[k]] # None
    BY <1>0 DEF RegistryOK, Registered
  <2>2. \A k \in DOMAIN order : byID'[order'[k]] # None
    BY <1>2, <1>3, <1>4, <1>7, <2>1
  <2>3. byID'[order'[Len(order) + 1]] # None
    <3>1. order'[Len(order) + 1] = id
      BY <1>3
    <3> QED  BY <1>4, <1>5, <3>1, Zenon
  <2> QED  BY <1>8, <2>2, <2>3
<1>10. \A k, m \in DOMAIN order' : order'[k] = order'[m] => k = m
  BY <1>0, <1>3, <1>7, <1>8 DEF RegistryOK
<1>11. \A x \in Id : Registered(x)' => IdOf[byID'[x]] = x
  BY <1>0, <1>4 DEF RegistryOK, Registered, id
<1>12. \A x \in Id : ~Registered(x)' => MarksClean(x)'
  <2>1. ASSUME NEW x \in Id, ~Registered(x)' PROVE MarksClean(x)'
    <3>1. MarksClean(x)
      BY <1>4, <1>5, <2>1, CleanMarks DEF Registered
    <3> QED  BY <1>1, <3>1 DEF MarksClean, marks
  <2> QED  BY <2>1
<1>13. UNCHANGED store
  BY <1>1 DEF disk
<1> QED  BY <1>0, <1>6, <1>9, <1>10, <1>11, <1>12, <1>13 DEF RegistryOK, Registered, MarksClean

LEMMA UserBase ==
  ASSUME DispBase, User
  PROVE  (DispTypeOK /\ RegistryOK)'
<1> USE DEF registry, marks, disk, workers, bounds, dispUnmoved
<1>0. DispTypeOK
  BY DEF DispBase
<1>1. CASE \E o \in Job, i \in {"Run", "Pause"} : Add(o, i)
  BY <1>1, AddBase
<1>2. CASE UNCHANGED dispUnmoved /\ events' \in Nat
  <2>1. DispTypeOK'
    BY <1>0, <1>2 DEF DispTypeOK
  <2>2. \A id \in Id : ~Registered(id) => MarksClean(id)'
    BY <1>2, CleanMarks DEF MarksClean
  <2>3. UNCHANGED <<registry, store>>
    BY <1>2
  <2> QED  BY <2>1, <2>2, <2>3, StoreKept, SameRegistry
<1>3. CASE \E r \in Remover, id \in Id : DeleteJob(r, id)
  <2>1. PICK r \in Remover, id \in Id : DeleteJob(r, id)
    BY <1>3
  <2>2. RemoversOK'
    BY <1>0, <2>1, RemoverMoves DEF DeleteJob
  <2>3. DispTypeOK'
    BY <1>0, <2>1, <2>2 DEF DeleteJob, DispTypeOK, RemoversOK, Event
  <2>4. UNCHANGED <<registry, store, marks>>
    BY <2>1 DEF DeleteJob
  <2>5. \A x \in Id : ~Registered(x) => MarksClean(x)'
    BY <2>4, CleanMarks DEF MarksClean
  <2> QED  BY <2>3, <2>4, <2>5, StoreKept, SameRegistry
<1>4. events' \in Nat \/ (\E o \in Job, i \in {"Run", "Pause"} : Add(o, i))
  BY <1>0 DEF DispTypeOK, User, PauseJob, ResumeJob, CancelJob, RetryJob, DeleteJob, PauseQueue,
     ResumeQueue, SetQueueCaps, Event
<1> QED  BY <1>1, <1>2, <1>3, <1>4 DEF User, PauseJob, ResumeJob, SetJobIntent, CancelJob, RetryJob,
     PauseQueue, ResumeQueue, SetQueueCaps

LEMMA WorkBase ==
  ASSUME DispBase, Work, ~\E r \in Remover : RemoveEnd(r)
  PROVE  (DispTypeOK /\ RegistryOK)'
<1> USE DEF registry, marks, disk, workers, bounds
<1>0. DispTypeOK /\ IdOf \in [Job -> Id]
  BY IdOfAssumption DEF DispBase
<1>1. ASSUME NEW o \in Job, AbortYields(o) \/ FetchDone(o) \/ Stall(o) \/ Fail(o) \/ AssessHopeless(o)
                            \/ \E n \in {"Fetching", "Repairing", "Extracting"} : Assess(o, n)
      PROVE  DispTypeOK'
  BY <1>0, <1>1 DEF AbortYields, FetchDone, Stall, Fail, AssessHopeless, Assess, Decide, Event, DispTypeOK
<1>2. ASSUME NEW id \in Id, Yielded(id) PROVE DispTypeOK'
  BY <1>0, <1>2 DEF Yielded, YieldedFor, DispTypeOK
<1>3. ASSUME NEW o \in Job, NEW r \in Remover, PostProcDone(r, o) PROVE DispTypeOK'
  <2>1. RemoversOK'
    BY <1>0, <1>3, RemoverMoves DEF PostProcDone
  <2> QED  BY <1>0, <1>3, <2>1 DEF PostProcDone, DispTypeOK, RemoversOK
<1>4. ASSUME NEW r \in Remover, Removal(r) \/ RemoveGivesUp(r) PROVE DispTypeOK'
  <2>0. rm[r].pc # "free" => rm[r].id \in Id
    BY <1>0 DEF DispTypeOK
  <2>1. CASE FinalizerCancel(r) \/ FinalizerYield(r) \/ FinalizerOccupy(r)
    <3>1. RemoversOK'
      BY <1>0, <2>1, RemoverMoves DEF FinalizerCancel, FinalizerYield, FinalizerOccupy, At, Marked
    <3>2. occupants' \in [Id -> SUBSET Remover] /\ filed' \subseteq Id /\ launched' \subseteq launched
          /\ UNCHANGED <<registry, resident, removing, disk, workers, tk, fresh, events, crashes>>
      <4>1. CASE FinalizerOccupy(r)
        <5>1. occupants' \in {occupants, [occupants EXCEPT ![rm[r].id] = @ \cup {r}]}
              /\ filed' = filed \cup {rm[r].id} /\ rm[r].id \in Id
              /\ UNCHANGED <<registry, resident, launched, removing, disk, workers, tk, fresh, events, crashes>>
          BY <2>0, <4>1 DEF FinalizerOccupy, At
        <5> QED  BY <1>0, <5>1 DEF DispTypeOK
      <4>2. CASE FinalizerCancel(r)
        BY <1>0, <4>2 DEF FinalizerCancel, DispTypeOK
      <4>3. CASE FinalizerYield(r)
        BY <1>0, <4>3 DEF FinalizerYield, YieldedFor, DispTypeOK
      <4> QED  BY <2>1, <4>1, <4>2, <4>3
    <3> QED  BY <1>0, <3>1, <3>2 DEF DispTypeOK, RemoversOK
  <2>2. CASE RemoveBegin(r)
    <3>1. RemoversOK'
      BY <1>0, <2>2, RemoverMoves DEF RemoveBegin, Leave, At, Marked
    <3>2. /\ removing' \in {removing, [removing EXCEPT ![rm[r].id] = @ + 1]}
          /\ occupants' \in {occupants, [occupants EXCEPT ![rm[r].id] = @ \ {r}]}
          /\ UNCHANGED <<registry, resident, launched, disk, workers, tk, fresh, bounds>>
      BY <2>2 DEF RemoveBegin, Leave
    <3>2a. rm[r].id \in Id
      BY <2>0, <2>2 DEF RemoveBegin, At
    <3>3. removing' \in [Id -> Nat]
      <4>1. removing \in [Id -> Nat]
        BY <1>0 DEF DispTypeOK
      <4>2. [removing EXCEPT ![rm[r].id] = @ + 1] \in [Id -> Nat]
        BY <3>2a, <4>1
      <4> QED  BY <3>2, <4>1, <4>2
    <3>4. occupants' \in [Id -> SUBSET Remover]
      <4>1. occupants \in [Id -> SUBSET Remover]
        BY <1>0 DEF DispTypeOK
      <4>2. [occupants EXCEPT ![rm[r].id] = @ \ {r}] \in [Id -> SUBSET Remover]
        BY <3>2a, <4>1
      <4> QED  BY <3>2, <4>1, <4>2
    <3> QED  BY <1>0, <3>1, <3>2, <3>3, <3>4 DEF DispTypeOK, RemoversOK
  <2>3. CASE RemoveCancel(r) \/ RemoveWaits(r) \/ RemoveRow(r)
    <3>1. RemoversOK'
      BY <1>0, <2>3, RemoverMoves DEF RemoveCancel, RemoveWaits, RemoveRow, At, Marked
    <3>2. store' \in [Id -> RowType \cup {None}] /\ UNCHANGED <<registry, marks, written, workers, tk, fresh, bounds>>
      BY <1>0, <2>0, <2>3 DEF RemoveCancel, RemoveWaits, RemoveRow, At, DispTypeOK
    <3> QED  BY <1>0, <3>1, <3>2 DEF DispTypeOK, RemoversOK
  <2>4. CASE RemoveGivesUp(r)
    <3>1. RemoversOK'
      BY <1>0, <2>4, RemoverMoves DEF RemoveGivesUp, RemoveFails, Leave
    <3>2. events' \in Nat
      BY <1>0, <2>4 DEF RemoveGivesUp, Event, DispTypeOK
    <3>3. removing' \in [Id -> Nat] /\ occupants' \in [Id -> SUBSET Remover]
          /\ UNCHANGED <<registry, resident, launched, disk, workers, tk, fresh, filed, crashes>>
      <4>1. RemoveFails(r)
        BY <2>4 DEF RemoveGivesUp
      <4>2. /\ removing' = [removing EXCEPT ![rm[r].id] = IF @ > 0 THEN @ - 1 ELSE 0]
            /\ occupants' = [occupants EXCEPT ![rm[r].id] = @ \ {r}]
            /\ UNCHANGED <<registry, resident, launched, disk, workers, tk, fresh, filed, crashes>>
        BY <4>1 DEF RemoveFails, abortRemoval, Leave
      <4>3. removing' \in [Id -> Nat]
        <5>1. \A n \in Nat : (IF n > 0 THEN n - 1 ELSE 0) \in Nat
          OBVIOUS
        <5> QED  BY <1>0, <4>2, <5>1 DEF DispTypeOK
      <4>4. occupants' \in [Id -> SUBSET Remover]
        BY <1>0, <4>2 DEF DispTypeOK
      <4> QED  BY <4>2, <4>3, <4>4
    <3> QED  BY <1>0, <3>1, <3>2, <3>3 DEF DispTypeOK, RemoversOK
  <2> QED  BY <1>4, <2>1, <2>2, <2>3, <2>4 DEF Removal
<1>5. DispTypeOK'
  BY <1>1, <1>2, <1>3, <1>4 DEF Work
<1>6. UNCHANGED registry
  BY DEF Work, AbortYields, FetchDone, Stall, Fail, AssessHopeless, Assess, Yielded, PostProcDone,
     Removal, FinalizerCancel, FinalizerYield, FinalizerOccupy, RemoveBegin, RemoveCancel,
     RemoveWaits, RemoveRow, RemoveGivesUp, RemoveFails
<1>7. \A id \in Id : store'[id] \in {store[id], None}
  <2>1. CASE \E r \in Remover : RemoveRow(r)
    BY <1>0, <2>1 DEF RemoveRow, DispTypeOK
  <2>2. CASE UNCHANGED store
    BY <2>2
  <2> QED  BY <2>1, <2>2 DEF Work, AbortYields, FetchDone, Stall, Fail, AssessHopeless, Assess,
     Yielded, PostProcDone, Removal, FinalizerCancel, FinalizerYield, FinalizerOccupy, RemoveBegin,
     RemoveCancel, RemoveWaits, RemoveGivesUp, RemoveFails
<1>8. ASSUME NEW id \in Id, ~Registered(id) PROVE MarksClean(id)'
  <2>0. MarksClean(id) /\ byID[id] = None
    BY <1>8, CleanMarks DEF Registered
  <2>1. resident' = resident /\ launched' \subseteq launched
    BY DEF Work, AbortYields, FetchDone, Stall, Fail, AssessHopeless, Assess, Yielded, YieldedFor,
     PostProcDone, Removal, FinalizerCancel, FinalizerYield, FinalizerOccupy, RemoveBegin,
     RemoveCancel, RemoveWaits, RemoveRow, RemoveGivesUp, RemoveFails
  <2>2. removing'[id] = 0 /\ occupants'[id] = {}
    <3>1. CASE \E r \in Remover : FinalizerOccupy(r)
      BY <1>0, <2>0, <3>1 DEF FinalizerOccupy, admitsLocked, MarksClean, DispTypeOK
    <3>2. CASE \E r \in Remover : RemoveBegin(r)
      <4>1. PICK r \in Remover : RemoveBegin(r)
        BY <3>2
      <4>2. \/ byID[rm[r].id] = None /\ UNCHANGED removing
               /\ occupants' = [occupants EXCEPT ![rm[r].id] = @ \ {r}]
            \/ /\ byID[rm[r].id] # None /\ UNCHANGED occupants
               /\ removing' = [removing EXCEPT ![rm[r].id] = @ + 1]
        BY <4>1 DEF RemoveBegin, Leave
      <4> QED  BY <1>0, <2>0, <4>2 DEF MarksClean, DispTypeOK
    <3>3. CASE \E r \in Remover : RemoveGivesUp(r)
      <4>1. PICK r \in Remover : RemoveFails(r)
        BY <3>3 DEF RemoveGivesUp
      <4> QED  BY <1>0, <2>0, <4>1 DEF RemoveFails, abortRemoval, Leave, MarksClean, DispTypeOK
    <3>4. CASE UNCHANGED <<removing, occupants>>
      BY <2>0, <3>4 DEF MarksClean
    <3> QED  BY <3>1, <3>2, <3>3, <3>4 DEF Work, AbortYields, FetchDone, Stall, Fail, AssessHopeless,
       Assess, Yielded, PostProcDone, Removal, FinalizerCancel, FinalizerYield, RemoveCancel,
       RemoveWaits, RemoveRow
  <2> QED  BY <2>0, <2>1, <2>2 DEF MarksClean
<1> QED  BY <1>5, <1>6, <1>7, <1>8, SameRegistry

LEMMA StopBase ==
  ASSUME DispBase, Shutdown \/ StopSweep \/ SweepSkips \/ SweepJob
  PROVE  (DispTypeOK /\ RegistryOK)'
<1> USE DEF registry, marks, disk, workers, bounds
<1>0. DispTypeOK /\ SchedInv
  BY DEF DispBase
<1>1. CASE Shutdown
  <2>1. WalkOK'
    BY <1>0, <1>1 DEF Shutdown, WalkOK, DispTypeOK
  <2>2. DispTypeOK'
    BY <1>0, <1>1, <2>1 DEF Shutdown, DispTypeOK, WalkOK
  <2>3. \A id \in Id : ~Registered(id) => MarksClean(id)'
    BY <1>1, CleanMarks DEF Shutdown, MarksClean
  <2> QED  BY <1>1, <2>2, <2>3, StoreKept, SameRegistry DEF Shutdown
<1>2. CASE StopSweep
  <2> DEFINE f == [i \in DOMAIN order |-> byID[order[i]]]
  <2>1. f \in Seq(Job) /\ (order # << >> => f # << >>)
    BY WalkStarts
  <2>2. tk' = [tk EXCEPT !.pc = IF order = << >> THEN "stopped" ELSE "sweep", !.todo = f]
    BY <1>2 DEF StopSweep
  <2> HIDE DEF f
  <2>3. WalkOK'
    BY <1>0, <2>1, <2>2 DEF WalkOK, DispTypeOK, Walking
  <2>4. DispTypeOK'
    BY <1>0, <1>2, <2>3 DEF StopSweep, DispTypeOK, WalkOK
  <2>5. \A id \in Id : ~Registered(id) => MarksClean(id)'
    BY <1>2, CleanMarks DEF StopSweep, MarksClean
  <2> QED  BY <1>2, <2>4, <2>5, StoreKept, SameRegistry DEF StopSweep
<1>3. CASE SweepSkips
  <2>1. WalkOK'
    BY <1>0, <1>3, WalkGoesOn DEF SweepSkips, Walking
  <2>2. DispTypeOK'
    BY <1>0, <1>3, <2>1 DEF SweepSkips, DispTypeOK, WalkOK
  <2>3. \A id \in Id : ~Registered(id) => MarksClean(id)'
    BY <1>3, CleanMarks DEF SweepSkips, MarksClean
  <2> QED  BY <1>3, <2>2, <2>3, StoreKept, SameRegistry DEF SweepSkips
<1>4. CASE SweepJob
  <2>1. WalkOK' /\ tk.pc \in Walking
    BY <1>0, <1>4, WalkGoesOn DEF SweepJob, Walking
  <2>2. Visiting \in Job /\ IdOf[Visiting] \in Id /\ Row(Visiting) \in RowType
    BY <1>0, <2>1, Visits, RowsAreSound
  <2>3. \/ UNCHANGED disk
        \/ /\ store' = [store EXCEPT ![IdOf[Visiting]] = Row(Visiting)]
           /\ written' = [written EXCEPT ![IdOf[Visiting]] = Row(Visiting)]
    BY <1>4 DEF SweepJob
  <2> HIDE DEF Row
  <2>3a. store' \in [Id -> RowType \cup {None}] /\ written' \in [Id -> RowType \cup {None}]
    <3>1. store \in [Id -> RowType \cup {None}] /\ written \in [Id -> RowType \cup {None}]
      BY <1>0 DEF DispTypeOK
    <3>2. CASE UNCHANGED disk
      BY <3>1, <3>2
    <3> QED  BY <2>2, <2>3, <3>1, <3>2
  <2>4. DispTypeOK'
    BY <1>0, <1>4, <2>1, <2>2, <2>3a DEF SweepJob, DispTypeOK, WalkOK
  <2>5. \A id \in Id : ~Registered(id) => MarksClean(id)'
    BY <1>4, CleanMarks DEF SweepJob, MarksClean
  <2>6. \A id \in Id : \/ store'[id] \in {store[id], None}
                       \/ \E o \in Job : IdOf[o] = id /\ store'[id] = Row(o)
    BY <1>0, <2>2, <2>3 DEF DispTypeOK
  <2> QED  BY <1>4, <2>4, <2>5, <2>6, SameRegistry DEF SweepJob
<1> QED  BY <1>1, <1>2, <1>3, <1>4

(* After a restart every job is its row, or new, and holds nothing. *)
LEMMA Restores ==
  ASSUME DispBase, Restart, NEW o \in Job
  PROVE  /\ jobs'[o] \in JobType(LeaseId) /\ Sound(jobs'[o]) /\ jobs'[o].lease = LeaseUnset
         /\ (store[IdOf[o]] # None /\ store[IdOf[o]].job = o) =>
              jobs'[o].state = store[IdOf[o]].state /\ jobs'[o].outcome = store[IdOf[o]].outcome
         /\ ~(store[IdOf[o]] # None /\ store[IdOf[o]].job = o) =>
              jobs'[o].state = Unset /\ jobs'[o].outcome = "Pending"
<1> DEFINE r == store[IdOf[o]]
           has == \E id \in stored : store[id].job = o
<1>0. DispTypeOK /\ RegistryOK /\ IdOf[o] \in Id
  BY IdOfAssumption DEF DispBase
<1>1. jobs'[o] = IF has THEN reconstruct(r) ELSE NewJob
  BY DEF Restart
<1>2. has <=> r # None /\ r.job = o
  BY <1>0 DEF stored, RegistryOK
<1>3. CASE has
  <2>1. r \in RowType /\ Sound(r)
    BY <1>0, <1>2, <1>3 DEF DispTypeOK, RegistryOK
  <2>2. PICK j : j = reconstruct(r)
    OBVIOUS
  <2>3. j = Idler(r.state, r.next, r.outcome, r.assessed, r.intent)
    BY <2>1, <2>2, Rebuilds
  <2> HIDE DEF r
  <2>4. j \in JobType(LeaseId) /\ j.state = r.state /\ j.next = r.next /\ j.outcome = r.outcome
        /\ j.assessed = r.assessed /\ j.lease = LeaseUnset
    BY <2>1, <2>3 DEF RowType, JobType, Idler
  <2>5. Sound(j)
    BY <2>1, <2>4, SoundStays
  <2> QED  BY <1>1, <1>2, <1>3, <2>2, <2>4, <2>5 DEF r
<1>4. CASE ~has
  <2>1. NewJob \in JobType(LeaseId) /\ Sound(NewJob) /\ NewJob.lease = LeaseUnset
        /\ NewJob.state = Unset /\ NewJob.outcome = "Pending"
    BY DEF NewJob, JobType, Sound, IsSettled, Unset, AllStates, AllOutcomes, AllIntents
  <2> QED  BY <1>1, <1>2, <1>4, <2>1
<1> QED  BY <1>3, <1>4

LEMMA RestartSched ==
  ASSUME DispBase, Restart
  PROVE  SchedInv'
<1>0. SchedInv
  BY DEF DispBase
<1>1. \A o \in Job : jobs'[o] \in JobType(LeaseId) /\ Sound(jobs'[o]) /\ jobs'[o].lease = LeaseUnset
  BY Restores
<1>2. issued' = {} /\ held' = {} /\ aborts' = {} /\ paused' = FALSE /\ leaseCap' = leaseCap
      /\ slotCap' = slotCap /\ DOMAIN jobs' = Job
      /\ jobs' = [o \in Job |-> jobs'[o]]
  BY DEF Restart
<1>3. SchedTypeOK'
  BY <1>0, <1>1, <1>2 DEF SchedInv, SchedTypeOK
<1>4. LeasesConserved' /\ LeasesWellPlaced'
  BY <1>1, <1>2 DEF LeasesConserved, LeasesWellPlaced, HoldsLease
<1> QED  BY <1>1, <1>2, <1>3, <1>4, FS_EmptySet DEF SchedInv

LEMMA RestartBase ==
  ASSUME DispBase, Restart
  PROVE  (DispTypeOK /\ RegistryOK)'
<1>0. DispTypeOK /\ RegistryOK
  BY DEF DispBase
<1>1. \A id \in Id : store[id] # None => store[id] \in RowType /\ store[id].job \in Job
                                          /\ store[id].job # None
  BY <1>0, NoneAssumption DEF DispTypeOK, RowType
<1>2. byID' = [id \in Id |-> IF id \in stored THEN store[id].job ELSE None] /\ stored \subseteq Id
  BY DEF Restart, stored
<1>3. byID' \in [Id -> Job \cup {None}] /\ \A id \in Id : byID'[id] # None <=> id \in stored
  BY <1>1, <1>2 DEF stored
<1>4. order' \in Seq(Id) /\ Once(order') /\ \A i \in DOMAIN order' : order'[i] \in stored
  <2>1. order' \in bySortKey(stored) /\ order \in Seq(Id) /\ Once(order)
    BY <1>0 DEF Restart, DispTypeOK, RegistryOK, Once
  <2> QED  BY <1>2, <2>1, SortedOnce
<1>5. tk' = [pc |-> "idle", todo |-> << >>, stop |-> FALSE] /\ WalkOK'
  <2>1. << >> \in Seq(Job)
    OBVIOUS
  <2> QED  BY <2>1 DEF Restart, WalkOK, Walking
<1>6. rm' = [r \in Remover |-> Free] /\ RemoversOK'
  BY DEF Restart, RemoversOK, Free
<1>7. /\ removing' = [id \in Id |-> 0] /\ occupants' = [id \in Id |-> {}]
      /\ resident' = {} /\ launched' = {} /\ yields' = {} /\ assessing' = {} /\ pp' = {}
      /\ written' = store /\ UNCHANGED <<store, filed, fresh, events>> /\ crashes' = crashes - 1
      /\ crashes > 0
  BY DEF Restart
<1>8. removing' \in [Id -> Nat] /\ occupants' \in [Id -> SUBSET Remover] /\ crashes' \in Nat
  BY <1>0, <1>7 DEF DispTypeOK
<1>9. DispTypeOK'
  BY <1>0, <1>3, <1>4, <1>5, <1>6, <1>7, <1>8 DEF DispTypeOK, WalkOK, RemoversOK
<1>10. \A id \in Id : MarksClean(id)'
  BY <1>7 DEF MarksClean
<1>11. \A id \in Id : byID'[id] # None => IdOf[byID'[id]] = id
  BY <1>0, <1>2, <1>3 DEF RegistryOK, stored
<1>12. \A i \in DOMAIN order' : byID'[order'[i]] # None
  BY <1>2, <1>3, <1>4
<1>13. \A id \in Id : store'[id] # None => IdOf[store'[id].job] = id /\ Sound(store'[id])
  BY <1>0, <1>7 DEF RegistryOK
<1> QED  BY <1>4, <1>9, <1>10, <1>11, <1>12, <1>13 DEF RegistryOK, Registered, MarksClean, Once

LEMMA BaseInductive == DispBase /\ [Next]_vars => DispBase'
<1> SUFFICES ASSUME DispBase, [Next]_vars PROVE DispBase'
  OBVIOUS
<1>1. SchedInv'
  <2>1. SchedInv /\ DispTypeOK
    BY DEF DispBase
  <2> QED  BY <2>1, StepsAreDoors, DoorsKeepSchedInv, OutsideKeepsSchedInv, RestartSched
<1>2. CASE UNCHANGED vars
  <2>1. UNCHANGED dispVars
    BY <1>2 DEF vars
  <2>2. DispTypeOK'
    BY <2>1 DEF DispBase, DispTypeOK, dispVars
  <2>3. \A id \in Id : ~Registered(id) => MarksClean(id)'
    BY <2>1, CleanMarks DEF MarksClean, dispVars
  <2>4. RegistryOK'
    BY <2>1, <2>2, <2>3, StoreKept, SameRegistry DEF dispVars, registry
  <2> QED  BY <1>1, <2>2, <2>4 DEF DispBase
<1>3. CASE \E r \in Remover : RemoveEnd(r)
  BY <1>1, <1>3, RemoveEndBase DEF DispBase
<1> QED  BY <1>1, <1>2, <1>3, TickBase, EvictBase, UserBase, WorkBase, StopBase, RestartBase
         DEF Next, DispBase

LEMMA BaseInit == Init => DispBase
<1> SUFFICES ASSUME Init PROVE DispBase
  OBVIOUS
<1>1. SchedInv
  BY SchedInitHolds DEF Init
<1>2. PICK s \in Scenario : fresh = s.jobs /\ events = s.events /\ crashes = s.crashes
  BY DEF Init
<1>3. fresh \subseteq Job /\ events \in Nat /\ crashes \in Nat
  BY <1>2, ScenarioAssumption
<1>4. tk = [pc |-> "idle", todo |-> << >>, stop |-> FALSE] /\ WalkOK
  <2>1. << >> \in Seq(Job)
    OBVIOUS
  <2> QED  BY <2>1 DEF Init, WalkOK, Walking
<1>5. RemoversOK
  BY DEF Init, RemoversOK, Free
<1>6. order \in Seq(Id) /\ DOMAIN order = {}
  BY DEF Init
<1>7. /\ byID = [id \in Id |-> None] /\ store = [id \in Id |-> None] /\ written = [id \in Id |-> None]
      /\ removing = [id \in Id |-> 0] /\ occupants = [id \in Id |-> {}]
      /\ resident = {} /\ launched = {} /\ yields = {} /\ assessing = {} /\ pp = {} /\ filed = {}
  BY DEF Init
<1>8. DispTypeOK
  BY <1>3, <1>4, <1>5, <1>6, <1>7 DEF DispTypeOK, WalkOK, RemoversOK
<1>9. RegistryOK
  BY <1>6, <1>7 DEF RegistryOK, Registered
<1> QED  BY <1>1, <1>8, <1>9 DEF DispBase

(* Types, registry and pools agree in every state, however names are used. *)
LEMMA DispatcherStaysConsistent == Spec => []DispBase
  BY BaseInit, BaseInductive, PTL DEF Spec

(* What persistIfChanged writes is rebuilt exactly by reconstruct,         *)
(* whatever path the job took through the doors, for any jobs, names and   *)
(* workers (internal/dispatch: reconstruct, replayPath, takeHop).          *)
THEOREM RowsRebuildTheirJobs == Spec => []RestoreExact
<1>1. DispBase => RestoreExact
  <2>1. SUFFICES ASSUME DispBase, NEW o \in Job
                 PROVE  reconstruct(Row(o)) = [jobs[o] EXCEPT !.lease = LeaseUnset]
    BY DEF RestoreExact
  <2>2. SchedInv /\ jobs[o] \in JobType(LeaseId)
    BY <2>1, PoolsTyped DEF DispBase
  <2>3. Row(o) \in RowType /\ Sound(Row(o))
    BY <2>2, RowsAreSound
  <2>4. reconstruct(Row(o)) = Idler(Row(o).state, Row(o).next, Row(o).outcome, Row(o).assessed, Row(o).intent)
    <3> HIDE DEF Row
    <3> QED  BY <2>3, Rebuilds
  <2>5. Idler(Row(o).state, Row(o).next, Row(o).outcome, Row(o).assessed, Row(o).intent)
          = [jobs[o] EXCEPT !.lease = LeaseUnset]
    BY <2>2 DEF Row, Idler, JobType
  <2> QED  BY <2>4, <2>5
<1> QED  BY <1>1, DispatcherStaysConsistent, PTL
-----------------------------------------------------------------------------
(* Names used once: who is removing a name is counted by its mark. *)
LEMMA Counted ==
  ASSUME NEW id
  PROVE  IsFiniteSet(Outstanding(id)) /\ Cardinality(Outstanding(id)) \in Nat /\ TickMarks(id) \in {0, 1}
<1>1. IsFiniteSet(Outstanding(id))
  BY RemoverAssumption, FS_Subset DEF Outstanding
<1> QED  BY <1>1, FS_CardinalityType DEF TickMarks

(* Nobody is removing a name that admits work. *)
LEMMA Unmarked ==
  ASSUME DispInv, NEW id \in Id, admitsLocked(id)
  PROVE  /\ \A r \in Remover : rm[r].pc \in Marked => rm[r].id # id
         /\ tk.pc = "delete" => IdOf[Visiting] # id
<1>1. removing[id] = Cardinality(Outstanding(id)) + TickMarks(id) /\ removing[id] = 0
  BY DEF DispInv, MarksCount, admitsLocked, Registered
<1>2. Cardinality(Outstanding(id)) = 0 /\ TickMarks(id) = 0
  BY <1>1, Counted
<1>3. Outstanding(id) = {}
  BY <1>2, Counted, FS_EmptySet
<1> QED  BY <1>2, <1>3 DEF Outstanding, TickMarks

(* The tick stays out of, or in, its deletion of one row. *)
SameDeletion ==
    /\ tk'.pc = "delete" <=> tk.pc = "delete"
    /\ tk.pc = "delete" => Head(tk'.todo) = Head(tk.todo)

(* Work begins only where it is admitted. *)
Admitted ==
    /\ \A id \in launched' \ launched : id \in Id /\ admitsLocked(id)
    /\ \A id \in Id : occupants'[id] \subseteq occupants[id] \/ admitsLocked(id)

NothingFresh ==
    /\ \A i \in DOMAIN tk'.todo : tk'.todo[i] \notin fresh
    /\ pp' \cap fresh = {} /\ assessing' \cap fresh = {}

(* Steps of anyone but a remover that leave names and marks alone. *)
LEMMA Calm ==
  ASSUME DispInv, DispBase',
         UNCHANGED <<byID, removing, rm, fresh>>,
         SameDeletion, Admitted, NothingFresh,
         \A id \in Id : \/ store'[id] = store[id] /\ written'[id] = written[id]
                        \/ admitsLocked(id) /\ store'[id] = written'[id],
         tk'.pc = "hydrate" => IdOf[Head(tk'.todo)] \notin resident'
  PROVE  DispInv'
<1>0. OnlyKnown /\ MarksCount /\ RemovalOK /\ NoResurrection /\ DispTypeOK
  BY DEF DispInv, DispBase
<1>1. OnlyKnown'
  <2>1. Known' = Known
    BY DEF Known
  <2> QED  BY <1>0, <2>1 DEF OnlyKnown, NothingFresh, Registered
<1>2. MarksCount'
  <2>1. ASSUME NEW id \in Id PROVE Outstanding(id)' = Outstanding(id) /\ TickMarks(id)' = TickMarks(id)
    BY DEF Outstanding, TickMarks, SameDeletion, Visiting
  <2> QED  BY <1>0, <2>1 DEF MarksCount, Registered
<1>3. \A r \in Remover : rm[r].pc \in Marked => rm[r].id \in Id
  BY <1>0 DEF DispTypeOK, Marked
<1>4. RemovalOK'
  <2>1. ASSUME NEW r \in Remover, rm[r].pc = "end" PROVE store'[rm[r].id] = None
    BY <1>0, <1>3, <2>1, Unmarked DEF RemovalOK, Marked
  <2>2. AloneAtEnd'
    <3>1. ASSUME NEW r \in Remover, rm[r].pc \in {"delete", "end"}
          PROVE  occupants'[rm[r].id] \subseteq {r} /\ rm[r].id \notin launched'
      <4>1. rm[r].pc \in Marked /\ rm[r].id \in Id
        BY <1>3, <3>1 DEF Marked
      <4>2. ~admitsLocked(rm[r].id)
        BY <4>1, Unmarked
      <4>3. occupants[rm[r].id] \subseteq {r} /\ rm[r].id \notin launched
        BY <1>0, <3>1 DEF RemovalOK, AloneAtEnd
      <4> QED  BY <4>1, <4>2, <4>3 DEF Admitted
    <3> QED  BY <3>1 DEF AloneAtEnd
  <2>3. tk'.pc = "delete" => Idle(IdOf[Visiting])'
    <3>1. SUFFICES ASSUME tk'.pc = "delete" PROVE Idle(IdOf[Visiting])'
      OBVIOUS
    <3>2. tk.pc = "delete" /\ Visiting' = Visiting /\ tk.pc \in Walking
      BY <3>1 DEF SameDeletion, Visiting, Walking
    <3>3. IdOf[Visiting] \in Id
      BY <1>0, <3>2, Visits
    <3>4. Idle(IdOf[Visiting]) /\ ~admitsLocked(IdOf[Visiting])
      BY <1>0, <3>2, <3>3, Unmarked DEF RemovalOK
    <3>5. occupants'[IdOf[Visiting]] = {} /\ IdOf[Visiting] \notin launched'
      BY <3>3, <3>4 DEF Idle, Admitted
    <3> QED  BY <3>2, <3>5 DEF Idle
  <2>4. tk'.pc = "hydrate" => (IdOf[Visiting] \notin resident)'
    BY DEF Visiting
  <2> QED  BY <2>1, <2>2, <2>3, <2>4 DEF RemovalOK
<1>5. NoResurrection'
  BY <1>0 DEF NoResurrection, admitsLocked
<1> QED  BY <1>1, <1>2, <1>4, <1>5 DEF DispInv

(* A walk starts with jobs that were added. *)
LEMMA WalkersKnown ==
  ASSUME NamesAreUnique, DispInv
  PROVE  \A i \in DOMAIN order : byID[order[i]] \notin fresh
<1>0. DispTypeOK /\ OnlyKnown /\ RegistryOK
  BY DEF DispInv, DispBase
<1>1. SUFFICES ASSUME NEW i \in DOMAIN order PROVE byID[order[i]] \notin fresh
  OBVIOUS
<1>2. order[i] \in Id /\ byID[order[i]] # None
  BY <1>0 DEF DispTypeOK, RegistryOK, Registered
<1>3. order[i] \in Known /\ IdOf[byID[order[i]]] = order[i] /\ byID[order[i]] \in Job
  BY <1>0, <1>2 DEF OnlyKnown, DispTypeOK, RegistryOK, Registered
<1>4. PICK o \in Job \ fresh : order[i] = IdOf[o]
  BY <1>3 DEF Known
<1> QED  BY <1>3, <1>4 DEF NamesAreUnique

(* The tick, but for what it removes. *)
LEMMA TickCalm ==
  ASSUME NamesAreUnique, DispInv, DispBase', Tick, ~TickMark, ~TickEvict, ~TickEvictFails
  PROVE  DispInv'
<1> USE DEF registry, marks, disk, workers, bounds
<1>0. DispTypeOK /\ OnlyKnown /\ RemovalOK /\ DispBase /\ SchedInv
  BY DEF DispInv, DispBase
<1>1. UNCHANGED <<byID, removing, rm, fresh, occupants>>
  BY DEF Tick, TickStart, TickAdvance, TickGone,
    TickResident, TickUnload, TickLoad, TickHydrated, TickHydrateFails,
    TickHydrateCancelled, TickRender, TickClaim, TickUnchanged, TickSave
<1>2. tk.pc # "delete" /\ (~TickStart => tk.pc \in Walking)
  BY DEF Tick, TickStart, TickAdvance, TickGone, Walking,
    TickResident, TickUnload, TickLoad, TickHydrated, TickHydrateFails,
    TickHydrateCancelled, TickRender, TickClaim, TickUnchanged, TickSave
<1>3. \/ TickStart
      \/ NextJob
      \/ To("residency") \/ To("launch") \/ To("claim") \/ To("persist")
      \/ TickLoad
  BY DEF Tick, TickAdvance, TickGone,
    TickResident, TickUnload, TickHydrated, TickHydrateFails,
    TickHydrateCancelled, TickRender, TickClaim, TickUnchanged, TickSave
<1>4. /\ tk'.pc # "delete" /\ (tk'.pc = "hydrate" => IdOf[Head(tk'.todo)] \notin resident')
      /\ \A i \in DOMAIN tk'.todo : tk'.todo[i] \notin fresh
  <2>0. \A i \in DOMAIN tk.todo : tk.todo[i] \notin fresh
    BY <1>0 DEF OnlyKnown
  <2>1. CASE TickStart
    <3> DEFINE f == [i \in DOMAIN order |-> byID[order[i]]]
    <3>1. f \in Seq(Job) /\ DOMAIN f = DOMAIN order
      BY <1>0, WalkStarts
    <3>2. tk' = [tk EXCEPT !.pc = "advance", !.todo = f]
      BY <2>1 DEF TickStart
    <3>3. \A i \in DOMAIN order : f[i] \notin fresh
      BY WalkersKnown
    <3> HIDE DEF f
    <3>4. tk'.pc = "advance" /\ tk'.todo = f
      BY <1>0, <3>2 DEF DispTypeOK
    <3> QED  BY <3>1, <3>3, <3>4
  <2>2. CASE NextJob /\ tk.pc \in Walking
    <3>1. tk'.pc \in {"advance", "sweep", "idle", "stopped"} /\ tk'.todo = Tail(tk.todo)
      BY <1>0, <2>2, WalkGoesOn
    <3>2. \A i \in DOMAIN Tail(tk.todo) : Tail(tk.todo)[i] \notin fresh
      BY <1>0, <2>0, <2>2, Visits
    <3> QED  BY <3>1, <3>2
  <2>3. CASE tk.pc \in Walking /\ \E pc \in {"residency", "launch", "claim", "persist"} : To(pc)
    <3>1. PICK pc \in {"residency", "launch", "claim", "persist"} : To(pc)
      BY <2>3
    <3>2. tk'.pc = pc /\ tk'.todo = tk.todo
      BY <1>0, <2>3, <3>1, WalkGoesOn DEF Walking
    <3> QED  BY <2>0, <3>2
  <2>4. CASE TickLoad
    <3>1. tk'.pc = "hydrate" /\ tk'.todo = tk.todo
      BY <1>0, <2>4, WalkGoesOn DEF TickLoad, Walking
    <3>2. IdOf[Visiting] \notin resident /\ resident' = resident
      BY <2>4 DEF TickLoad
    <3> QED  BY <2>0, <3>1, <3>2 DEF Visiting
  <2> QED  BY <1>2, <1>3, <2>1, <2>2, <2>3, <2>4 DEF TickLoad
<1>5. tk.pc \in Walking => Visiting \notin fresh /\ Visiting \in Job /\ IdOf[Visiting] \in Id
  BY <1>0, Visits DEF OnlyKnown
<1>6. Admitted /\ pp' \cap fresh = {} /\ assessing' \cap fresh = {}
  <2>1. CASE TickClaim
    <3>1. tk.pc \in Walking
      BY <2>1 DEF TickClaim, Walking
    <3>2. Admitted
      BY <1>1, <1>5, <2>1, <3>1 DEF TickClaim, claimable, Admitted
    <3>3. pp' \subseteq pp \cup {Visiting} /\ assessing' \subseteq assessing \cup {Visiting}
      BY <2>1 DEF TickClaim
    <3> QED  BY <1>0, <1>5, <3>1, <3>2, <3>3 DEF OnlyKnown
  <2>2. CASE UNCHANGED <<launched, pp, assessing>>
    BY <1>0, <1>1, <2>2 DEF Admitted, OnlyKnown
  <2> QED  BY <2>1, <2>2 DEF Tick, TickStart, TickAdvance, TickGone,
    TickResident, TickUnload, TickLoad, TickHydrated, TickHydrateFails,
    TickHydrateCancelled, TickRender, TickUnchanged, TickSave
<1>7. \A id \in Id : \/ store'[id] = store[id] /\ written'[id] = written[id]
                     \/ admitsLocked(id) /\ store'[id] = written'[id]
  <2>1. CASE TickSave
    BY <1>0, <1>2, <1>5, <2>1 DEF TickSave, mayWrite, DispTypeOK
  <2>2. CASE UNCHANGED disk
    BY <2>2
  <2> QED  BY <2>1, <2>2 DEF Tick, TickStart, TickAdvance, TickGone,
    TickResident, TickUnload, TickLoad, TickHydrated, TickHydrateFails,
    TickHydrateCancelled, TickRender, TickClaim, TickUnchanged
<1>8. SameDeletion /\ NothingFresh
  BY <1>2, <1>4, <1>6 DEF SameDeletion, NothingFresh
<1> QED  BY <1>1, <1>4, <1>6, <1>7, <1>8, Calm

(* The calls of a user and the workers. *)
LEMMA WorkersCalm ==
  ASSUME DispInv, DispBase', UNCHANGED <<byID, removing, occupants, disk, resident, tk, rm, fresh>>,
         launched' \subseteq launched, pp' \cap fresh = {}, assessing' \cap fresh = {}
  PROVE  DispInv'
<1>1. SameDeletion /\ Admitted
  BY DEF SameDeletion, Admitted
<1>2. NothingFresh
  BY DEF NothingFresh, DispInv, OnlyKnown
<1>3. tk'.pc = "hydrate" => IdOf[Head(tk'.todo)] \notin resident'
  BY DEF DispInv, RemovalOK, Visiting
<1> QED  BY <1>1, <1>2, <1>3, Calm DEF disk

LEMMA StopCalm ==
  ASSUME NamesAreUnique, DispInv, DispBase', Shutdown \/ StopSweep \/ SweepSkips \/ SweepJob
  PROVE  DispInv'
<1> USE DEF registry, marks, disk, workers, bounds
<1>0. DispTypeOK /\ OnlyKnown /\ RemovalOK /\ DispBase /\ SchedInv
  BY DEF DispInv, DispBase
<1>1. CASE Shutdown
  <2>1. UNCHANGED <<byID, removing, occupants, store, written, rm, fresh, launched, resident, assessing>>
        /\ pp' = {} /\ tk'.pc = tk.pc /\ tk'.todo = tk.todo
    BY <1>0, <1>1 DEF Shutdown, DispTypeOK
  <2>2. SameDeletion /\ Admitted /\ NothingFresh
    BY <1>0, <2>1 DEF SameDeletion, Admitted, NothingFresh, OnlyKnown
  <2>3. tk'.pc = "hydrate" => IdOf[Head(tk'.todo)] \notin resident'
    BY <1>0, <2>1 DEF RemovalOK, Visiting
  <2> QED  BY <2>1, <2>2, <2>3, Calm
<1>2. CASE StopSweep
  <2> DEFINE f == [i \in DOMAIN order |-> byID[order[i]]]
  <2>1. f \in Seq(Job) /\ DOMAIN f = DOMAIN order
    BY <1>0, WalkStarts
  <2>2. tk' = [tk EXCEPT !.pc = IF order = << >> THEN "stopped" ELSE "sweep", !.todo = f]
        /\ tk.pc = "idle"
    BY <1>2 DEF StopSweep
  <2>3. \A i \in DOMAIN order : f[i] \notin fresh
    BY WalkersKnown
  <2> HIDE DEF f
  <2>4. tk'.pc \in {"stopped", "sweep"} /\ tk'.todo = f
    BY <1>0, <2>2 DEF DispTypeOK
  <2>5. UNCHANGED <<byID, removing, occupants, store, written, rm, fresh, launched, pp, assessing>>
    BY <1>2 DEF StopSweep
  <2>6. SameDeletion /\ Admitted /\ NothingFresh
    BY <1>0, <2>1, <2>2, <2>3, <2>4, <2>5 DEF SameDeletion, Admitted, NothingFresh, OnlyKnown
  <2> QED  BY <2>4, <2>5, <2>6, Calm
<1>3. CASE SweepSkips \/ SweepJob
  <2>1. tk.pc = "sweep" /\ NextSwept /\ tk.pc \in Walking
        /\ UNCHANGED <<byID, removing, occupants, rm, fresh, launched, pp, assessing>>
    BY <1>3 DEF SweepSkips, SweepJob, Walking
  <2>2. tk'.pc \in {"advance", "sweep", "idle", "stopped"} /\ tk'.todo = Tail(tk.todo)
    BY <1>0, <2>1, WalkGoesOn
  <2>3. \A i \in DOMAIN Tail(tk.todo) : Tail(tk.todo)[i] \notin fresh
    BY <1>0, <2>1, Visits DEF OnlyKnown
  <2>4. SameDeletion /\ Admitted /\ NothingFresh
    BY <1>0, <2>1, <2>2, <2>3 DEF SameDeletion, Admitted, NothingFresh, OnlyKnown
  <2>5. \A id \in Id : \/ store'[id] = store[id] /\ written'[id] = written[id]
                       \/ admitsLocked(id) /\ store'[id] = written'[id]
    BY <1>0, <1>3 DEF SweepSkips, SweepJob, mayWrite, DispTypeOK
  <2> QED  BY <2>1, <2>2, <2>4, <2>5, Calm
<1> QED  BY <1>1, <1>2, <1>3

-----------------------------------------------------------------------------
(* Steps of one remover, and of the tick when it removes. *)

(* The mark of a name goes up and down with those who remove it. *)
LEMMA MarksUp ==
  ASSUME DispInv, NEW r \in Remover, NEW id \in Id, rm[r].pc \notin Marked,
         rm'[r].pc \in Marked, rm'[r].id = id, \A x \in Remover \ {r} : rm'[x] = rm[x],
         removing' = [removing EXCEPT ![id] = @ + 1], UNCHANGED <<byID, tk>>
  PROVE  MarksCount'
<1>0. DispTypeOK /\ MarksCount
  BY DEF DispInv, DispBase
<1>1. SUFFICES ASSUME NEW x \in Id, byID[x] # None
               PROVE  removing'[x] = Cardinality(Outstanding(x)') + TickMarks(x)
  BY DEF MarksCount, Registered, TickMarks, Visiting
<1>2. removing[x] = Cardinality(Outstanding(x)) + TickMarks(x) /\ removing \in [Id -> Nat]
  BY <1>0, <1>1 DEF MarksCount, Registered, DispTypeOK
<1>3. CASE x = id
  <2>1. Outstanding(x)' = Outstanding(x) \cup {r} /\ r \notin Outstanding(x)
    BY <1>3 DEF Outstanding
  <2>2. Cardinality(Outstanding(x) \cup {r}) = Cardinality(Outstanding(x)) + 1
    BY <2>1, Counted, FS_AddElement
  <2> QED  BY <1>2, <1>3, <2>1, <2>2, Counted
<1>4. CASE x # id
  <2>1. Outstanding(x)' = Outstanding(x)
    BY <1>4 DEF Outstanding
  <2> QED  BY <1>2, <1>4, <2>1
<1> QED  BY <1>3, <1>4

LEMMA MarksDown ==
  ASSUME DispInv, NEW r \in Remover, rm[r].pc \in Marked, rm'[r].pc \notin Marked,
         \A x \in Remover \ {r} : rm'[x] = rm[x],
         removing' = [removing EXCEPT ![rm[r].id] = IF @ > 0 THEN @ - 1 ELSE 0], UNCHANGED <<byID, tk>>
  PROVE  MarksCount'
<1>0. DispTypeOK /\ MarksCount
  BY DEF DispInv, DispBase
<1>1. SUFFICES ASSUME NEW x \in Id, byID[x] # None
               PROVE  removing'[x] = Cardinality(Outstanding(x)') + TickMarks(x)
  BY DEF MarksCount, Registered, TickMarks, Visiting
<1>2. removing[x] = Cardinality(Outstanding(x)) + TickMarks(x) /\ removing \in [Id -> Nat]
  BY <1>0, <1>1 DEF MarksCount, Registered, DispTypeOK
<1>3. CASE x = rm[r].id
  <2>1. Outstanding(x)' = Outstanding(x) \ {r} /\ r \in Outstanding(x)
    BY <1>3 DEF Outstanding
  <2>2. Cardinality(Outstanding(x) \ {r}) = Cardinality(Outstanding(x)) - 1
        /\ Cardinality(Outstanding(x)) # 0
    BY <2>1, Counted, FS_RemoveElement, FS_EmptySet
  <2>3. removing[x] > 0
    BY <1>2, <2>2, Counted
  <2>4. removing'[x] = removing[x] - 1
    BY <1>2, <1>3, <2>3
  <2> QED  BY <1>2, <2>1, <2>2, <2>4, Counted
<1>4. CASE x # rm[r].id
  <2>1. Outstanding(x)' = Outstanding(x)
    BY <1>4 DEF Outstanding
  <2> QED  BY <1>2, <1>4, <2>1
<1> QED  BY <1>3, <1>4

LEMMA MarksSame ==
  ASSUME DispInv, NEW r \in Remover, rm[r].pc \in Marked <=> rm'[r].pc \in Marked,
         rm[r].pc \in Marked => rm'[r].id = rm[r].id,
         \A x \in Remover \ {r} : rm'[x] = rm[x], UNCHANGED <<byID, removing, tk>>
  PROVE  MarksCount'
<1>1. \A id \in Id : Outstanding(id)' = Outstanding(id) /\ TickMarks(id)' = TickMarks(id)
  BY DEF Outstanding, TickMarks, Visiting
<1> QED  BY <1>1 DEF DispInv, MarksCount, Registered

(* One remover moves; names, tick and other removers stay. *)
LEMMA RemoverCalm ==
  ASSUME DispInv, DispBase', NEW r \in Remover, MarksCount',
         UNCHANGED <<byID, tk, fresh, resident, written, assessing>>, pp' \subseteq pp,
         \A x \in Remover \ {r} : rm'[x] = rm[x],
         rm'[r].pc # "free" => rm'[r].id \in Known,
         Admitted,
         \A id \in Id : store'[id] \in {store[id], None},
         rm'[r].pc = "end" => store'[rm'[r].id] = None,
         rm'[r].pc \in {"delete", "end"} =>
            occupants'[rm'[r].id] \subseteq {r} /\ rm'[r].id \notin launched'
  PROVE  DispInv'
<1>0. OnlyKnown /\ MarksCount /\ RemovalOK /\ NoResurrection /\ DispTypeOK
  BY DEF DispInv, DispBase
<1>1. OnlyKnown'
  <2>1. Known' = Known
    BY DEF Known
  <2> QED  BY <1>0, <2>1 DEF OnlyKnown, Registered
<1>2. \A x \in Remover : rm[x].pc \in Marked => rm[x].id \in Id
  BY <1>0 DEF DispTypeOK, Marked
<1>3. RemovalOK'
  <2>1. ASSUME NEW x \in Remover, rm'[x].pc = "end" PROVE store'[rm'[x].id] = None
    BY <1>0, <1>2, <2>1 DEF RemovalOK, Marked
  <2>2. ASSUME NEW x \in Remover, rm'[x].pc \in {"delete", "end"}
        PROVE  occupants'[rm'[x].id] \subseteq {x} /\ rm'[x].id \notin launched'
    <3>1. CASE x = r
      BY <2>2, <3>1
    <3>2. CASE x # r
      <4>1. rm'[x] = rm[x] /\ rm[x].pc \in Marked /\ rm[x].id \in Id
        BY <1>2, <2>2, <3>2 DEF Marked
      <4>2. ~admitsLocked(rm[x].id)
        BY <4>1, Unmarked
      <4>3. occupants[rm[x].id] \subseteq {x} /\ rm[x].id \notin launched
        BY <1>0, <2>2, <4>1 DEF RemovalOK, AloneAtEnd
      <4> QED  BY <4>1, <4>2, <4>3 DEF Admitted
    <3> QED  BY <3>1, <3>2
  <2>3. tk.pc = "delete" => occupants'[IdOf[Visiting]] = {} /\ IdOf[Visiting] \notin launched'
    <3>1. SUFFICES ASSUME tk.pc = "delete"
                   PROVE  occupants'[IdOf[Visiting]] = {} /\ IdOf[Visiting] \notin launched'
      OBVIOUS
    <3>2. IdOf[Visiting] \in Id
      BY <1>0, <3>1, Visits DEF Walking
    <3>3. Idle(IdOf[Visiting]) /\ ~admitsLocked(IdOf[Visiting])
      BY <1>0, <3>1, <3>2, Unmarked DEF RemovalOK
    <3> QED  BY <3>2, <3>3 DEF Idle, Admitted
  <2>4. AloneAtEnd'
    BY <2>2 DEF AloneAtEnd
  <2> QED  BY <1>0, <2>1, <2>3, <2>4 DEF RemovalOK, Idle, Visiting
<1>4. NoResurrection'
  BY <1>0 DEF NoResurrection
<1> QED  BY <1>1, <1>3, <1>4 DEF DispInv

LEMMA RemoversKeepIt ==
  ASSUME DispInv, DispBase', NEW r \in Remover, Removal(r) \/ RemoveGivesUp(r), ~RemoveEnd(r)
  PROVE  DispInv'
<1> USE DEF registry, marks, disk, workers, bounds
<1>0. DispTypeOK /\ OnlyKnown /\ RemovalOK
  BY DEF DispInv, DispBase
<1>1. UNCHANGED <<byID, tk, fresh, resident, written, assessing, pp>>
  BY DEF Removal, FinalizerCancel, FinalizerYield, FinalizerOccupy, RemoveBegin, RemoveCancel,
     RemoveWaits, RemoveRow, RemoveGivesUp, RemoveFails
<1>2. rm[r].pc # "free" /\ rm[r].id \in Id /\ rm[r].id \in Known
  BY <1>0 DEF DispTypeOK, OnlyKnown, Removal, FinalizerCancel, FinalizerYield, FinalizerOccupy,
     RemoveBegin, RemoveCancel, RemoveWaits, RemoveRow, RemoveGivesUp, At
<1>3. "free" \notin Marked /\ "fcancel" \notin Marked /\ "fyield" \notin Marked /\ "foccupy" \notin Marked
      /\ "begin" \notin Marked /\ Marked = {"cancel", "wait", "delete", "end"}
  BY DEF Marked
<1>4. ASSUME NEW pc \in Marked \cup {"fyield", "foccupy", "begin"}, Goto(r, pc)
      PROVE  rm'[r].pc = pc /\ rm'[r].id = rm[r].id /\ \A x \in Remover \ {r} : rm'[x] = rm[x]
  BY <1>0, <1>2, <1>4, RemoverMoves
<1>5. ASSUME rm' = [rm EXCEPT ![r] = Free]
      PROVE  rm'[r].pc = "free" /\ \A x \in Remover \ {r} : rm'[x] = rm[x]
  <2>1. Free.pc = "free"
    BY DEF Free
  <2> QED  BY <1>0, <1>5, <2>1, RemoverMoves
<1>6. CASE FinalizerCancel(r)
  <2>1. Goto(r, "fyield") /\ rm[r].pc = "fcancel" /\ UNCHANGED <<removing, launched, occupants, store>>
    BY <1>6 DEF FinalizerCancel, At
  <2>2. rm'[r].pc = "fyield" /\ rm'[r].id = rm[r].id /\ \A x \in Remover \ {r} : rm'[x] = rm[x]
    BY <1>4, <2>1
  <2>3. MarksCount'
    BY <1>1, <1>3, <2>1, <2>2, MarksSame
  <2>4. Admitted
    BY <2>1 DEF Admitted
  <2> QED  BY <1>1, <1>2, <2>1, <2>2, <2>3, <2>4, RemoverCalm
<1>7. CASE FinalizerYield(r)
  <2>1. Goto(r, "foccupy") /\ rm[r].pc = "fyield" /\ UNCHANGED <<removing, occupants, store>>
        /\ launched' \subseteq launched
    BY <1>7 DEF FinalizerYield, YieldedFor, At
  <2>2. rm'[r].pc = "foccupy" /\ rm'[r].id = rm[r].id /\ \A x \in Remover \ {r} : rm'[x] = rm[x]
    BY <1>4, <2>1
  <2>3. MarksCount'
    BY <1>1, <1>3, <2>1, <2>2, MarksSame
  <2>4. Admitted
    BY <2>1 DEF Admitted
  <2> QED  BY <1>1, <1>2, <2>1, <2>2, <2>3, <2>4, RemoverCalm
<1>8. CASE FinalizerOccupy(r)
  <2>1. /\ Goto(r, "begin") /\ rm[r].pc = "foccupy" /\ UNCHANGED <<removing, launched, store>>
        /\ occupants' = IF admitsLocked(rm[r].id) THEN [occupants EXCEPT ![rm[r].id] = @ \cup {r}]
                        ELSE occupants
    BY <1>8 DEF FinalizerOccupy, At
  <2>2. rm'[r].pc = "begin" /\ rm'[r].id = rm[r].id /\ \A x \in Remover \ {r} : rm'[x] = rm[x]
    BY <1>4, <2>1
  <2>3. MarksCount'
    BY <1>1, <1>3, <2>1, <2>2, MarksSame
  <2>4. Admitted
    BY <1>0, <2>1 DEF Admitted, DispTypeOK
  <2> QED  BY <1>1, <1>2, <2>1, <2>2, <2>3, <2>4, RemoverCalm
<1>9. CASE RemoveBegin(r)
  <2>0. rm[r].pc = "begin" /\ UNCHANGED <<launched, store>>
    BY <1>9 DEF RemoveBegin, At
  <2>1. CASE byID[rm[r].id] = None
    <3>1. rm' = [rm EXCEPT ![r] = Free] /\ UNCHANGED removing
          /\ occupants' = [occupants EXCEPT ![rm[r].id] = @ \ {r}]
      BY <1>9, <2>1 DEF RemoveBegin, Leave
    <3>2. rm'[r].pc = "free" /\ \A x \in Remover \ {r} : rm'[x] = rm[x]
      BY <1>5, <3>1
    <3>3. MarksCount'
      BY <1>1, <1>3, <2>0, <3>1, <3>2, MarksSame
    <3>4. Admitted
      BY <1>0, <2>0, <3>1 DEF Admitted, DispTypeOK
    <3> QED  BY <1>1, <2>0, <3>1, <3>2, <3>3, <3>4, RemoverCalm
  <2>2. CASE byID[rm[r].id] # None
    <3>1. Goto(r, "cancel") /\ removing' = [removing EXCEPT ![rm[r].id] = @ + 1] /\ UNCHANGED occupants
      BY <1>9, <2>2 DEF RemoveBegin
    <3>2. rm'[r].pc = "cancel" /\ rm'[r].id = rm[r].id /\ \A x \in Remover \ {r} : rm'[x] = rm[x]
      BY <1>3, <1>4, <3>1
    <3>3. MarksCount'
      BY <1>1, <1>2, <1>3, <2>0, <3>1, <3>2, MarksUp
    <3>4. Admitted
      BY <2>0, <3>1 DEF Admitted
    <3> QED  BY <1>1, <1>2, <2>0, <3>2, <3>3, <3>4, RemoverCalm
  <2> QED  BY <2>1, <2>2
<1>10. CASE RemoveCancel(r)
  <2>1. Goto(r, "wait") /\ rm[r].pc = "cancel" /\ UNCHANGED <<removing, launched, occupants, store>>
    BY <1>10 DEF RemoveCancel, At
  <2>2. rm'[r].pc = "wait" /\ rm'[r].id = rm[r].id /\ \A x \in Remover \ {r} : rm'[x] = rm[x]
    BY <1>3, <1>4, <2>1
  <2>3. MarksCount'
    BY <1>1, <1>3, <2>1, <2>2, MarksSame
  <2>4. Admitted
    BY <2>1 DEF Admitted
  <2> QED  BY <1>1, <1>2, <2>1, <2>2, <2>3, <2>4, RemoverCalm
<1>11. CASE RemoveWaits(r)
  <2>1. Goto(r, "delete") /\ rm[r].pc = "wait" /\ UNCHANGED <<removing, launched, occupants, store>>
        /\ occupants[rm[r].id] \subseteq {r} /\ rm[r].id \notin launched
    BY <1>11 DEF RemoveWaits, Deserted, At
  <2>2. rm'[r].pc = "delete" /\ rm'[r].id = rm[r].id /\ \A x \in Remover \ {r} : rm'[x] = rm[x]
    BY <1>3, <1>4, <2>1
  <2>3. MarksCount'
    BY <1>1, <1>3, <2>1, <2>2, MarksSame
  <2>4. Admitted
    BY <2>1 DEF Admitted
  <2> QED  BY <1>1, <1>2, <2>1, <2>2, <2>3, <2>4, RemoverCalm
<1>12. CASE RemoveRow(r)
  <2>1. Goto(r, "end") /\ rm[r].pc = "delete" /\ UNCHANGED <<removing, launched, occupants>>
        /\ store' = [store EXCEPT ![rm[r].id] = None]
    BY <1>12 DEF RemoveRow, At
  <2>2. rm'[r].pc = "end" /\ rm'[r].id = rm[r].id /\ \A x \in Remover \ {r} : rm'[x] = rm[x]
    BY <1>3, <1>4, <2>1
  <2>3. MarksCount'
    BY <1>1, <1>3, <2>1, <2>2, MarksSame
  <2>4. Admitted
    BY <2>1 DEF Admitted
  <2>5. occupants[rm[r].id] \subseteq {r} /\ rm[r].id \notin launched
    BY <1>0, <2>1 DEF RemovalOK, AloneAtEnd
  <2>6. store'[rm[r].id] = None /\ \A id \in Id : store'[id] \in {store[id], None}
    BY <1>0, <1>2, <2>1 DEF DispTypeOK
  <2> QED  BY <1>1, <1>2, <2>1, <2>2, <2>3, <2>4, <2>5, <2>6, RemoverCalm
<1>13. CASE RemoveGivesUp(r)
  <2>1. /\ rm' = [rm EXCEPT ![r] = Free] /\ rm[r].pc \in Marked /\ UNCHANGED <<launched, store>>
        /\ occupants' = [occupants EXCEPT ![rm[r].id] = @ \ {r}]
        /\ removing' = [removing EXCEPT ![rm[r].id] = IF @ > 0 THEN @ - 1 ELSE 0]
    BY <1>3, <1>13 DEF RemoveGivesUp, RemoveFails, Leave, abortRemoval, At
  <2>2. rm'[r].pc = "free" /\ \A x \in Remover \ {r} : rm'[x] = rm[x]
    BY <1>5, <2>1
  <2>3. MarksCount'
    BY <1>1, <1>3, <2>1, <2>2, MarksDown
  <2>4. Admitted
    BY <1>0, <2>1 DEF Admitted, DispTypeOK
  <2> QED  BY <1>1, <2>1, <2>2, <2>3, <2>4, RemoverCalm
<1> QED  BY <1>6, <1>7, <1>8, <1>9, <1>10, <1>11, <1>12, <1>13 DEF Removal

(* A removal begins with a name that was added. *)
LEMMA RemoversStart ==
  ASSUME DispInv, DispBase', NEW r \in Remover,
         (\E id \in Id : DeleteJob(r, id)) \/ (\E o \in Job : PostProcDone(r, o))
  PROVE  DispInv'
<1>0. DispTypeOK /\ OnlyKnown
  BY DEF DispInv, DispBase
<1>1. /\ UNCHANGED <<byID, tk, fresh, resident, written, assessing, removing, launched, occupants, store>>
      /\ pp' \subseteq pp /\ rm[r].pc = "free"
  BY DEF DeleteJob, PostProcDone, At, registry, marks, disk, workers, bounds
<1>2. PICK pc \in {"begin", "fcancel"}, id \in Id :
        id \in Known /\ rm' = [rm EXCEPT ![r] = [pc |-> pc, id |-> id]]
  <2>1. CASE \E id \in Id : DeleteJob(r, id)
    BY <1>0, <2>1 DEF DeleteJob, OnlyKnown, Registered
  <2>2. CASE \E o \in Job : PostProcDone(r, o)
    <3>1. PICK o \in Job : PostProcDone(r, o)
      BY <2>2
    <3>2. IdOf[o] \in Known /\ IdOf[o] \in Id
      BY <1>0, <3>1, IdOfAssumption DEF PostProcDone, OnlyKnown, Known
    <3> QED  BY <3>1, <3>2 DEF PostProcDone
  <2> QED  BY <2>1, <2>2
<1>3. rm'[r].pc = pc /\ rm'[r].id = id /\ \A x \in Remover \ {r} : rm'[x] = rm[x]
  BY <1>0, <1>2, RemoverMoves
<1>4. MarksCount'
  BY <1>1, <1>3, MarksSame DEF Marked
<1>5. Admitted
  BY <1>1 DEF Admitted
<1> QED  BY <1>1, <1>2, <1>3, <1>4, <1>5, RemoverCalm

(* A name leaves the registry when its row is gone. *)
LEMMA DeregisterKeepsIt ==
  ASSUME DispInv, DispBase', NEW id \in Id, deregister(id),
         store'[id] = None, \A x \in Id \ {id} : store'[x] = store[x],
         UNCHANGED <<fresh, pp, assessing>>,
         \A r \in Remover : rm'[r] = rm[r] \/ (rm'[r].pc = "free" /\ rm[r].id = id),
         \/ tk' = tk
         \/ /\ tk.pc = "delete" /\ IdOf[Visiting] = id /\ tk'.pc \notin {"delete", "hydrate"}
            /\ \A i \in DOMAIN tk'.todo : tk'.todo[i] \notin fresh
  PROVE  DispInv'
<1>0. OnlyKnown /\ MarksCount /\ RemovalOK /\ NoResurrection /\ DispTypeOK
  BY DEF DispInv, DispBase
<1>1. /\ \A x \in Id : byID'[x] # None => x # id /\ byID[x] # None
      /\ \A x \in Id \ {id} : byID'[x] = byID[x] /\ written'[x] = written[x] /\ removing'[x] = removing[x]
      /\ \A x \in Id : occupants'[x] \subseteq occupants[x]
      /\ launched' \subseteq launched /\ resident' \subseteq resident
  BY <1>0 DEF deregister, DispTypeOK
<1>2. OnlyKnown'
  <2>1. Known' = Known
    BY DEF Known
  <2>2. \A i \in DOMAIN tk'.todo : tk'.todo[i] \notin fresh
    BY <1>0 DEF OnlyKnown
  <2> QED  BY <1>0, <1>1, <2>1, <2>2 DEF OnlyKnown, Registered
<1>3. MarksCount'
  <2>1. SUFFICES ASSUME NEW x \in Id, byID'[x] # None
                 PROVE  removing'[x] = Cardinality(Outstanding(x)') + TickMarks(x)'
    BY DEF MarksCount, Registered
  <2>2. x # id /\ removing'[x] = Cardinality(Outstanding(x)) + TickMarks(x)
    BY <1>0, <1>1, <2>1 DEF MarksCount, Registered
  <2>3. Outstanding(x)' = Outstanding(x)
    BY <2>2 DEF Outstanding, Marked
  <2>4. TickMarks(x)' = TickMarks(x)
    <3>1. CASE tk' = tk
      BY <3>1 DEF TickMarks, Visiting
    <3>2. CASE tk.pc = "delete" /\ IdOf[Visiting] = id /\ tk'.pc # "delete"
      BY <2>2, <3>2 DEF TickMarks
    <3> QED  BY <3>1, <3>2
  <2> QED  BY <2>2, <2>3, <2>4
<1>4. RemovalOK'
  <2>1. \A r \in Remover : rm[r].pc # "free" => rm[r].id \in Id
    BY <1>0 DEF DispTypeOK
  <2>2. ASSUME NEW r \in Remover, rm'[r].pc = "end" PROVE store'[rm'[r].id] = None
    BY <1>0, <2>1, <2>2 DEF RemovalOK
  <2>3. ASSUME NEW r \in Remover, rm'[r].pc \in {"delete", "end"}
        PROVE  occupants'[rm'[r].id] \subseteq {r} /\ rm'[r].id \notin launched'
    <3>1. rm'[r] = rm[r] /\ rm[r].id \in Id
      BY <2>1, <2>3
    <3>2. occupants[rm[r].id] \subseteq {r} /\ rm[r].id \notin launched
      BY <1>0, <2>3, <3>1 DEF RemovalOK, AloneAtEnd
    <3> QED  BY <1>1, <3>1, <3>2
  <2>4. AloneAtEnd'
    BY <2>3 DEF AloneAtEnd
  <2>5. CASE tk' = tk
    <3>1. tk.pc \in Walking => IdOf[Visiting] \in Id
      BY <1>0, Visits
    <3>2. tk.pc = "delete" => occupants'[IdOf[Visiting]] = {} /\ IdOf[Visiting] \notin launched'
      BY <1>0, <1>1, <3>1 DEF RemovalOK, Idle, Walking
    <3>3. tk.pc = "hydrate" => IdOf[Visiting] \notin resident'
      BY <1>0, <1>1 DEF RemovalOK
    <3> QED  BY <2>2, <2>4, <2>5, <3>2, <3>3 DEF RemovalOK, Idle, Visiting
  <2>6. CASE tk'.pc \notin {"delete", "hydrate"}
    BY <2>2, <2>4, <2>6 DEF RemovalOK
  <2> QED  BY <2>5, <2>6
<1>5. NoResurrection'
  BY <1>0, <1>1 DEF NoResurrection
<1> QED  BY <1>2, <1>3, <1>4, <1>5 DEF DispInv

LEMMA RemoveEndKeepsIt ==
  ASSUME DispInv, DispBase', NEW r \in Remover, RemoveEnd(r)
  PROVE  DispInv'
<1>0. DispTypeOK /\ RemovalOK
  BY DEF DispInv, DispBase
<1>1. /\ rm[r].pc = "end" /\ deregister(rm[r].id) /\ rm' = [rm EXCEPT ![r] = Free]
      /\ UNCHANGED <<store, tk, fresh, pp, assessing>>
  BY DEF RemoveEnd, At, workers
<1>2. rm[r].id \in Id /\ store[rm[r].id] = None
  BY <1>0, <1>1 DEF DispTypeOK, RemovalOK
<1>3. rm'[r] = Free /\ \A x \in Remover \ {r} : rm'[x] = rm[x]
  BY <1>0, <1>1, RemoverMoves
<1>4. \A x \in Remover : rm'[x] = rm[x] \/ (rm'[x].pc = "free" /\ rm[x].id = rm[r].id)
  BY <1>3 DEF Free
<1> QED  BY <1>1, <1>2, <1>4, DeregisterKeepsIt

(* The tick removes a job that was cancelled before it ran. *)
LEMMA TickRemoves ==
  ASSUME DispInv, DispBase', TickMark \/ TickEvict \/ TickEvictFails
  PROVE  DispInv'
<1> USE DEF registry, marks, disk, workers, bounds
<1> DEFINE id == IdOf[Visiting]
<1>0. OnlyKnown /\ MarksCount /\ RemovalOK /\ NoResurrection /\ DispTypeOK
  BY DEF DispInv, DispBase
<1>1. tk.pc \in Walking
  BY DEF TickMark, TickEvict, TickEvictFails, Walking
<1>2. id \in Id
  BY <1>0, <1>1, Visits
<1>3. /\ \A i \in DOMAIN tk.todo : tk.todo[i] \notin fresh
      /\ \A i \in DOMAIN Tail(tk.todo) : Tail(tk.todo)[i] \notin fresh
  BY <1>0, <1>1, Visits DEF OnlyKnown
<1>4. CASE TickEvict
  <2>1. /\ tk.pc = "delete" /\ deregister(id) /\ NextJob /\ store' = [store EXCEPT ![id] = None]
        /\ UNCHANGED <<rm, fresh, pp, assessing>>
    BY <1>4 DEF TickEvict
  <2>2. tk'.pc \in {"advance", "sweep", "idle", "stopped"} /\ tk'.todo = Tail(tk.todo)
    BY <1>0, <1>1, <2>1, WalkGoesOn
  <2>3. store'[id] = None /\ \A x \in Id \ {id} : store'[x] = store[x]
    BY <1>0, <1>2, <2>1 DEF DispTypeOK
  <2>4. tk'.pc \notin {"delete", "hydrate"} /\ \A i \in DOMAIN tk'.todo : tk'.todo[i] \notin fresh
    BY <1>3, <2>2
  <2> QED  BY <1>2, <2>1, <2>3, <2>4, DeregisterKeepsIt
<1>5. CASE TickMark \/ TickEvictFails
  <2>1. UNCHANGED <<byID, resident, launched, occupants, store, written, rm, fresh, pp, assessing>>
    BY <1>5 DEF TickMark, TickEvictFails
  <2>2. \/ /\ tk.pc = "advance" /\ tk'.pc = "delete" /\ tk'.todo = tk.todo /\ Idle(id) /\ byID[id] # None
           /\ removing' = [removing EXCEPT ![id] = @ + 1]
        \/ /\ tk.pc = "delete" /\ tk'.pc \notin {"delete", "hydrate"} /\ tk'.todo = Tail(tk.todo)
           /\ removing' = [removing EXCEPT ![id] = IF @ > 0 THEN @ - 1 ELSE 0]
    <3>1. CASE TickMark
      <4>1. tk.pc = "advance" /\ To("delete") /\ Idle(id) /\ byID[id] # None
            /\ removing' = [removing EXCEPT ![id] = @ + 1]
        BY <3>1 DEF TickMark
      <4>2. tk'.pc = "delete" /\ tk'.todo = tk.todo
        BY <1>0, <1>1, <4>1, WalkGoesOn DEF Walking
      <4> QED  BY <4>1, <4>2
    <3>2. CASE TickEvictFails
      <4>1. tk.pc = "delete" /\ NextJob /\ removing' = [removing EXCEPT ![id] = IF @ > 0 THEN @ - 1 ELSE 0]
        BY <3>2 DEF TickEvictFails, abortRemoval
      <4>2. tk'.pc \in {"advance", "sweep", "idle", "stopped"} /\ tk'.todo = Tail(tk.todo)
        BY <1>0, <1>1, <4>1, WalkGoesOn
      <4> QED  BY <4>1, <4>2
    <3> QED  BY <1>5, <3>1, <3>2
  <2>3. OnlyKnown'
    <3>1. Known' = Known
      BY <2>1 DEF Known
    <3>2. \A i \in DOMAIN tk'.todo : tk'.todo[i] \notin fresh
      BY <1>3, <2>2
    <3> QED  BY <1>0, <2>1, <3>1, <3>2 DEF OnlyKnown, Registered
  <2>4. MarksCount'
    <3>1. SUFFICES ASSUME NEW x \in Id, byID[x] # None
                   PROVE  removing'[x] = Cardinality(Outstanding(x)) + TickMarks(x)'
      BY <2>1 DEF MarksCount, Registered, Outstanding
    <3>2. removing[x] = Cardinality(Outstanding(x)) + TickMarks(x) /\ removing \in [Id -> Nat]
      BY <1>0, <3>1 DEF MarksCount, Registered, DispTypeOK
    <3>3. CASE tk.pc = "advance" /\ tk'.pc = "delete" /\ tk'.todo = tk.todo
               /\ removing' = [removing EXCEPT ![id] = @ + 1]
      <4>1. TickMarks(x) = 0 /\ TickMarks(x)' = IF x = id THEN 1 ELSE 0
        BY <3>3 DEF TickMarks, Visiting
      <4>2. removing'[x] = IF x = id THEN removing[x] + 1 ELSE removing[x]
        BY <3>2, <3>3
      <4> HIDE DEF id
      <4> QED  BY <3>2, <4>1, <4>2, Counted
    <3>4. CASE tk.pc = "delete" /\ tk'.pc # "delete"
               /\ removing' = [removing EXCEPT ![id] = IF @ > 0 THEN @ - 1 ELSE 0]
      <4>1. TickMarks(x)' = 0 /\ TickMarks(x) = IF x = id THEN 1 ELSE 0
        BY <3>4 DEF TickMarks
      <4> HIDE DEF id
      <4>2. CASE x = id
        <5>1. removing[x] = Cardinality(Outstanding(x)) + 1 /\ Cardinality(Outstanding(x)) \in Nat
          BY <3>2, <4>1, <4>2, Counted
        <5>2. removing[x] > 0
          BY <5>1
        <5>3. removing'[x] = removing[x] - 1
          BY <3>2, <3>4, <4>2, <5>2
        <5> QED  BY <4>1, <5>1, <5>3
      <4>3. CASE x # id
        <5>1. removing'[x] = removing[x]
          BY <3>2, <3>4, <4>3
        <5> QED  BY <3>2, <4>1, <4>3, <5>1, Counted
      <4> QED  BY <4>2, <4>3
    <3> QED  BY <2>2, <3>3, <3>4
  <2>5. RemovalOK'
    <3>1. tk'.pc = "delete" => Head(tk'.todo) = Head(tk.todo) /\ Idle(id)
      BY <2>2
    <3>2. (tk.pc = "delete" => Idle(IdOf[Visiting]))'
      BY <2>1, <3>1 DEF Idle, Visiting
    <3>3. (tk.pc = "hydrate" => IdOf[Visiting] \notin resident)'
      BY <2>2
    <3>4. AloneAtEnd'
      BY <1>0, <2>1 DEF RemovalOK, AloneAtEnd
    <3> QED  BY <1>0, <2>1, <3>2, <3>3, <3>4 DEF RemovalOK
  <2>6. NoResurrection'
    BY <1>0, <2>1 DEF NoResurrection
  <2> QED  BY <2>3, <2>4, <2>5, <2>6 DEF DispInv
<1> QED  BY <1>4, <1>5

(* A name that is used once comes without a mark, a row or a remover. *)
LEMMA AddKeepsIt ==
  ASSUME NamesAreUnique, DispInv, DispBase', NEW o \in Job, NEW i, Add(o, i)
  PROVE  DispInv'
<1> DEFINE id == IdOf[o]
<1>0. OnlyKnown /\ MarksCount /\ RemovalOK /\ NoResurrection /\ DispTypeOK /\ RegistryOK
  BY DEF DispInv, DispBase
<1>1. /\ id \in Id /\ o \in fresh /\ byID[id] = None /\ byID' = [byID EXCEPT ![id] = o]
      /\ fresh' = fresh \ {o}
      /\ UNCHANGED <<resident, launched, removing, occupants, written, store, assessing, pp, tk, rm>>
  BY IdOfAssumption DEF Add, marks, disk, workers
<1>2. id \notin Known
  BY <1>1 DEF Known, NamesAreUnique
<1>3. Known \subseteq Known' /\ id \in Known'
  BY <1>1 DEF Known
<1>4. byID'[id] = o /\ \A x \in Id \ {id} : byID'[x] = byID[x]
  BY <1>0, <1>1 DEF DispTypeOK
<1>5. OnlyKnown'
  <2>1. \A x \in Id : byID'[x] # None => x \in Known'
    BY <1>0, <1>3, <1>4 DEF OnlyKnown, Registered
  <2>2. \A r \in Remover : rm[r].pc # "free" => rm[r].id \in Known'
    BY <1>0, <1>3 DEF OnlyKnown
  <2>3. (\A k \in DOMAIN tk.todo : tk.todo[k] \notin fresh') /\ pp \cap fresh' = {} /\ assessing \cap fresh' = {}
    BY <1>0, <1>1 DEF OnlyKnown
  <2> QED  BY <1>1, <2>1, <2>2, <2>3 DEF OnlyKnown, Registered
<1>6. MarksCount'
  <2>1. SUFFICES ASSUME NEW x \in Id, byID'[x] # None
                 PROVE  removing[x] = Cardinality(Outstanding(x)) + TickMarks(x)
    BY <1>1 DEF MarksCount, Registered, Outstanding, TickMarks, Visiting
  <2>2. CASE x # id
    BY <1>0, <1>4, <2>1, <2>2 DEF MarksCount, Registered
  <2>3. CASE x = id
    <3>1. Outstanding(id) = {}
      BY <1>0, <1>2 DEF Outstanding, OnlyKnown, Marked
    <3>2. TickMarks(id) = 0
      <4>1. tk.pc = "delete" => Visiting \in Job /\ Visiting \notin fresh
        BY <1>0, Visits DEF OnlyKnown, Walking
      <4> QED  BY <1>1, <4>1 DEF TickMarks, NamesAreUnique
    <3>3. removing[id] = 0
      BY <1>0, <1>1 DEF RegistryOK, Registered
    <3> QED  BY <2>3, <3>1, <3>2, <3>3, FS_EmptySet
  <2> QED  BY <2>2, <2>3
<1>7. RemovalOK'
  BY <1>0, <1>1 DEF RemovalOK, AloneAtEnd, Idle, Visiting
<1>8. NoResurrection'
  BY <1>0, <1>1, <1>4 DEF NoResurrection
<1> QED  BY <1>5, <1>6, <1>7, <1>8 DEF DispInv

LEMMA UserKeepsIt ==
  ASSUME NamesAreUnique, DispInv, DispBase', User
  PROVE  DispInv'
<1>1. CASE UNCHANGED dispUnmoved
  <2>1. UNCHANGED <<byID, removing, occupants, disk, resident, launched, tk, rm, fresh, pp, assessing>>
    BY <1>1 DEF dispUnmoved, registry, marks, workers
  <2> QED  BY <2>1, WorkersCalm DEF DispInv, OnlyKnown
<1> QED  BY <1>1, AddKeepsIt, RemoversStart DEF User, PauseJob, ResumeJob, SetJobIntent, CancelJob,
     RetryJob, PauseQueue, ResumeQueue, SetQueueCaps

LEMMA WorkKeepsIt ==
  ASSUME NamesAreUnique, DispInv, DispBase', Work
  PROVE  DispInv'
<1> USE DEF registry, marks, disk, workers, bounds
<1>0. OnlyKnown /\ DispTypeOK /\ RegistryOK
  BY DEF DispInv, DispBase
<1>1. ASSUME NEW o \in Job, byID[IdOf[o]] = o PROVE o \notin fresh
  <2>1. IdOf[o] \in Known
    BY <1>0, <1>1, IdOfAssumption, NoneAssumption DEF OnlyKnown, Registered
  <2> QED  BY <2>1 DEF Known, NamesAreUnique
<1>2. ASSUME NEW o \in Job,
             \/ AbortYields(o) \/ FetchDone(o) \/ Stall(o) \/ Fail(o) \/ AssessHopeless(o)
             \/ \E n \in {"Fetching", "Repairing", "Extracting"} : Assess(o, n)
      PROVE  DispInv'
  <2>1. UNCHANGED <<byID, removing, occupants, disk, resident, tk, rm, fresh>> /\ launched' \subseteq launched
    BY <1>2 DEF AbortYields, FetchDone, Stall, Fail, AssessHopeless, Assess
  <2>2. assessing' \subseteq assessing
    BY <1>2 DEF AbortYields, FetchDone, Stall, Fail, AssessHopeless, Assess
  <2>3. pp' \subseteq pp \/ (pp' = pp \cup {o} /\ o \notin fresh)
    <3>1. CASE Fail(o)
      BY <1>1, <3>1 DEF Fail
    <3>2. CASE AssessHopeless(o)
      BY <1>0, <3>2 DEF AssessHopeless, OnlyKnown
    <3>3. CASE UNCHANGED pp
      BY <3>3
    <3>4. AbortYields(o) => UNCHANGED pp
      BY DEF AbortYields
    <3>5. FetchDone(o) \/ Stall(o) => UNCHANGED pp
      BY DEF FetchDone, Stall
    <3>6. ASSUME NEW n, Assess(o, n) PROVE UNCHANGED pp
      BY <3>6 DEF Assess
    <3> QED  BY <1>2, <3>1, <3>2, <3>3, <3>4, <3>5, <3>6
  <2> QED  BY <1>0, <2>1, <2>2, <2>3, WorkersCalm DEF OnlyKnown
<1>3. ASSUME NEW id \in Id, Yielded(id) PROVE DispInv'
  <2>1. /\ UNCHANGED <<byID, removing, occupants, disk, resident, tk, rm, fresh, assessing, pp>>
        /\ launched' \subseteq launched
    BY <1>3 DEF Yielded, YieldedFor
  <2> QED  BY <1>0, <2>1, WorkersCalm DEF OnlyKnown
<1> QED  BY <1>2, <1>3, RemoversStart, RemoversKeepIt, RemoveEndKeepsIt DEF Work

(* The next process knows what the last one had saved, and nobody in it is *)
(* removing anything.                                                      *)
LEMMA RestartKeepsIt ==
  ASSUME DispInv, DispBase', Restart
  PROVE  DispInv'
<1>0. OnlyKnown /\ NoResurrection /\ DispTypeOK
  BY DEF DispInv, DispBase
<1>1. /\ byID' = [id \in Id |-> IF id \in stored THEN store[id].job ELSE None]
      /\ written' = store /\ store' = store /\ fresh' = fresh
      /\ rm' = [r \in Remover |-> Free] /\ tk' = [pc |-> "idle", todo |-> << >>, stop |-> FALSE]
      /\ assessing' = {} /\ pp' = {} /\ removing' = [id \in Id |-> 0]
  BY DEF Restart
<1>2. \A r \in Remover : rm'[r].pc = "free"
  BY <1>1 DEF Free
<1>3. tk'.pc = "idle" /\ DOMAIN tk'.todo = {}
  BY <1>1
<1>4. \A id \in Id : byID'[id] # None <=> store[id] # None
  <2>1. \A id \in Id : store[id] # None => store[id].job # None
    BY <1>0, NoneAssumption DEF DispTypeOK, RowType
  <2> QED  BY <1>1, <2>1 DEF stored
<1>5. OnlyKnown'
  <2>1. Known' = Known
    BY <1>1 DEF Known
  <2>2. \A id \in Id : byID'[id] # None => id \in Known
    BY <1>0, <1>4 DEF NoResurrection, OnlyKnown, Registered
  <2> QED  BY <1>1, <1>2, <1>3, <2>1, <2>2 DEF OnlyKnown, Registered
<1>6. MarksCount'
  <2>1. SUFFICES ASSUME NEW x \in Id PROVE removing'[x] = Cardinality(Outstanding(x)') + TickMarks(x)'
    BY DEF MarksCount
  <2>2. Outstanding(x)' = {}
    BY <1>2 DEF Outstanding, Marked
  <2>3. TickMarks(x)' = 0
    BY <1>3 DEF TickMarks
  <2> QED  BY <1>1, <2>2, <2>3, FS_EmptySet
<1>7. RemovalOK'
  BY <1>2, <1>3 DEF RemovalOK, AloneAtEnd
<1>8. NoResurrection'
  BY <1>1, <1>4 DEF NoResurrection
<1> QED  BY <1>5, <1>6, <1>7, <1>8 DEF DispInv

LEMMA DispInductive ==
  ASSUME NamesAreUnique
  PROVE  DispInv /\ [Next]_vars => DispInv'
<1> SUFFICES ASSUME DispInv, [Next]_vars PROVE DispInv'
  OBVIOUS
<1>1. DispBase'
  BY BaseInductive DEF DispInv
<1>2. CASE UNCHANGED vars
  <2>1. UNCHANGED <<byID, removing, occupants, disk, resident, launched, tk, rm, fresh, pp, assessing>>
    BY <1>2 DEF vars, dispVars, disk
  <2> QED  BY <1>1, <2>1, WorkersCalm DEF DispInv, OnlyKnown
<1>3. CASE Tick
  BY <1>1, <1>3, TickCalm, TickRemoves
<1> QED  BY <1>1, <1>2, <1>3, UserKeepsIt, WorkKeepsIt, StopCalm, RestartKeepsIt DEF Next

LEMMA DispInit == Init => DispInv
<1> SUFFICES ASSUME Init PROVE DispInv
  OBVIOUS
<1>1. /\ byID = [id \in Id |-> None] /\ store = [id \in Id |-> None]
      /\ tk = [pc |-> "idle", todo |-> << >>, stop |-> FALSE]
      /\ rm = [r \in Remover |-> Free] /\ assessing = {} /\ pp = {}
  BY DEF Init
<1>2. (\A r \in Remover : rm[r].pc = "free") /\ tk.pc = "idle" /\ DOMAIN tk.todo = {}
  BY <1>1 DEF Free
<1>3. OnlyKnown /\ MarksCount /\ RemovalOK /\ NoResurrection
  BY <1>1, <1>2 DEF OnlyKnown, MarksCount, RemovalOK, AloneAtEnd, NoResurrection, Registered
<1> QED  BY <1>3, BaseInit DEF DispInv

(* The registry, the removal marks, the removers, the tick and the store   *)
(* agree in every state when no name is used twice: marks count exactly    *)
(* the removals under way, and a removal at its end is alone with its job. *)
THEOREM MarksCountRemovals ==
  ASSUME NamesAreUnique
  PROVE  Spec => []DispInv
  BY DispInit, DispInductive, PTL DEF Spec

(* The tick that was about to save a job when Remove deleted its row does  *)
(* not bring the row back, for any jobs, removers and capacities, when no  *)
(* name is used twice.                                                     *)
THEOREM RemovedRowsStayGone ==
  ASSUME NamesAreUnique
  PROVE  Spec => []NoResurrection
<1>1. DispInv => NoResurrection
  BY DEF DispInv
<1> QED  BY <1>1, MarksCountRemovals, PTL
-----------------------------------------------------------------------------
(* Who may unload a manifest: the tick, for a job that holds nothing, and  *)
(* whoever removes or sweeps a job that nobody runs.                       *)
LEMMA UnloadsWhatIsIdle ==
  ASSUME NamesAreUnique, DispInv, Next, NEW id \in resident \ resident', crashes' = crashes
  PROVE  ~(id \in launched /\ running(byID[id]))
<1> USE DEF registry, marks, disk, workers, bounds, dispUnmoved
<1>0. DispTypeOK /\ RegistryOK /\ RemovalOK /\ id \in Id
  BY DEF DispInv, DispBase, DispTypeOK
<1>1. CASE TickEvict
  <2>1. id = IdOf[Visiting] /\ tk.pc = "delete"
    BY <1>1 DEF TickEvict, deregister
  <2> QED  BY <1>0, <2>1 DEF RemovalOK, Idle
<1>2. CASE TickUnload
  <2>1. id = IdOf[Visiting] /\ ~holds(Visiting) /\ tk.pc \in Walking
    BY <1>2 DEF TickUnload, Walking
  <2>2. Visiting \in Job
    BY <1>0, <2>1, Visits
  <2>3. id \in launched => byID[id] \in Job /\ IdOf[byID[id]] = id
    BY <1>0 DEF RegistryOK, Registered, DispTypeOK
  <2>4. id \in launched => byID[id] = Visiting
    BY <2>1, <2>2, <2>3 DEF NamesAreUnique
  <2> QED  BY <2>1, <2>4 DEF running
<1>3. CASE TickHydrateFails
  <2>1. id = IdOf[Visiting] /\ tk.pc = "hydrate"
    BY <1>3 DEF TickHydrateFails
  <2> QED  BY <1>0, <2>1 DEF RemovalOK
<1>4. CASE SweepJob
  BY <1>4 DEF SweepJob, Idle
<1>5. CASE \E r \in Remover : RemoveEnd(r)
  <2>1. PICK r \in Remover : RemoveEnd(r)
    BY <1>5
  <2>2. id = rm[r].id /\ rm[r].pc = "end"
    BY <2>1 DEF RemoveEnd, deregister, At
  <2> QED  BY <1>0, <2>2 DEF RemovalOK, AloneAtEnd
<1>6. CASE Restart
  BY <1>0, <1>6 DEF Restart, DispTypeOK
<1>7. CASE Tick /\ ~TickEvict /\ ~TickUnload /\ ~TickHydrateFails
  <2>1. resident \subseteq resident'
    BY <1>7 DEF Tick, TickStart, TickAdvance, TickGone, TickMark, TickEvictFails, TickResident, TickLoad,
       TickHydrated, TickHydrateCancelled, TickRender, TickClaim, TickUnchanged, TickSave
  <2> QED  BY <2>1
<1>8. CASE User
  BY <1>8 DEF User, Add, PauseJob, ResumeJob, SetJobIntent, CancelJob, RetryJob, DeleteJob, PauseQueue,
     ResumeQueue, SetQueueCaps
<1>9. CASE Work /\ ~\E r \in Remover : RemoveEnd(r)
  <2>1. resident' = resident
    BY <1>9 DEF Work, AbortYields, FetchDone, Stall, Fail, AssessHopeless, Assess, Yielded,
     PostProcDone, Removal, FinalizerCancel, FinalizerYield, FinalizerOccupy, RemoveBegin,
     RemoveCancel, RemoveWaits, RemoveRow, RemoveGivesUp, RemoveFails
  <2> QED  BY <2>1
<1>10. CASE Shutdown \/ StopSweep \/ SweepSkips
  BY <1>10 DEF Shutdown, StopSweep, SweepSkips
<1> QED  BY <1>1, <1>2, <1>3, <1>4, <1>5, <1>6, <1>7, <1>8, <1>9, <1>10 DEF Next

(* No step of the tick, of a removal or of the shutdown sweep unloads the  *)
(* manifest of a job whose worker is running on it, for any number of jobs *)
(* and removers, when no name is used twice.                               *)
THEOREM ManifestsOutliveWorkers ==
  ASSUME NamesAreUnique
  PROVE  Spec => ManifestOutlivesWorker
<1>1. ASSUME DispInv, [Next]_vars
      PROVE  [\A id \in resident \ resident' :
                crashes' = crashes => ~(id \in launched /\ running(byID[id]))]_vars
  BY <1>1, UnloadsWhatIsIdle
<1> QED  BY <1>1, MarksCountRemovals, PTL DEF Spec, ManifestOutlivesWorker
-----------------------------------------------------------------------------
(* The refinement of the spine.  What a job would be restored to. *)
SavedOf(o) ==
    LET row == store[IdOf[o]]
    IN  IF row # None /\ row.job = o
        THEN [state |-> row.state, outcome |-> row.outcome]
        ELSE [state |-> Unset, outcome |-> "Pending"]

LEMMA SpineCounts == \A S : Spine!Cardinality(S) = Cardinality(S)
  BY DEF Cardinality, Spine!Cardinality

(* A door of one job, with a save or a loss of that job's row or neither,  *)
(* is a step of the spine.                                                 *)
LEMMA DoorsAreSpineSteps ==
  ASSUME NamesAreUnique, DispBase, NEW o \in Job, InDoor(o),
         \A x \in Id \ {IdOf[o]} : store'[x] = store[x],
         store'[IdOf[o]] = store[IdOf[o]] \/ store'[IdOf[o]] = None \/ store'[IdOf[o]] = Row(o)
  PROVE  Spine!Step(o)
<1> DEFINE at == [x \in Job |-> [state |-> jobs[x].state, outcome |-> jobs[x].outcome]]
           saved == [x \in Job |-> SavedOf(x)]
<1>0. SchedInv /\ IdOf \in [Job -> Id]
  BY IdOfAssumption DEF DispBase
<1>1. at'[o] = [state |-> jobs'[o].state, outcome |-> jobs'[o].outcome]
      /\ at[o] = [state |-> jobs[o].state, outcome |-> jobs[o].outcome]
  OBVIOUS
<1>2. \/ at'[o] = at[o]
      \/ Spine!Begins(at[o], at'[o]) \/ Spine!Moves(at[o], at'[o]) \/ Spine!Settles(at[o], at'[o])
  <2>1. CASE Same(jobs[o], jobs'[o])
    BY <1>1, <2>1 DEF Same
  <2>2. CASE Begun(jobs[o], jobs'[o])
    BY <1>1, <2>2 DEF Begun, Spine!Begins, Spine!Open, IsOpen, HasRun, IsSettled, Crossed,
       IsProduction, Spine!IsProduction, Unset, Spine!Unset
  <2>3. CASE Moved(jobs[o], jobs'[o])
    BY <1>1, <2>3 DEF Moved, Spine!Moves, Spine!Open, IsOpen, HasRun, IsSettled, Unset, Spine!Unset,
       CanTransition, Spine!CanTransition, edgeFrom, Spine!edgeFrom, legalEdges, Spine!legalEdges
  <2>4. CASE Settled(jobs[o], jobs'[o])
    BY <1>1, <2>4 DEF Settled, Spine!Settles, Spine!Open, IsOpen, HasRun, IsSettled, Spine!IsSettled,
       Unset, Spine!Unset, admits, Spine!admits, admissibleAt, Spine!admissibleAt, AllStates, Spine!AllStates
  <2> QED  BY <1>0, DoorEffect, <2>1, <2>2, <2>3, <2>4
<1>3. at' = [at EXCEPT ![o] = at'[o]]
  BY <1>0, DoorEffect
<1>4. o \in holders' => Spine!MayHold(at'[o])
  BY <1>0, DoorEffect, <1>1 DEF holders, MayKeep, Spine!MayHold, Spine!Open, IsOpen, HasRun, IsSettled,
     Unset, Spine!Unset, IsCorrectness, Spine!IsCorrectness
<1>5. SavedOf(o)' = SavedOf(o) \/ SavedOf(o)' = at[o] \/ SavedOf(o)' = Spine!Unborn
  <2>1. CASE store'[IdOf[o]] = store[IdOf[o]]
    BY <2>1 DEF SavedOf
  <2>2. CASE store'[IdOf[o]] = None
    BY <2>2 DEF SavedOf, Spine!Unborn, Unset, Spine!Unset
  <2>3. CASE store'[IdOf[o]] = Row(o) /\ store'[IdOf[o]] # None
    <3>1. Row(o).job = o /\ Row(o).state = jobs[o].state /\ Row(o).outcome = jobs[o].outcome
      BY <1>0, RowsAreSound
    <3> QED  BY <2>3, <3>1 DEF SavedOf
  <2> QED  BY <2>1, <2>2, <2>3
<1>6. \A x \in Job \ {o} : SavedOf(x)' = SavedOf(x)
  BY <1>0 DEF SavedOf, NamesAreUnique
<1>7. saved' = [saved EXCEPT ![o] = SavedOf(o)'] /\ saved'[o] = SavedOf(o)' /\ saved[o] = SavedOf(o)
  BY <1>6
<1>8. saved'[o] \in {saved[o], at[o], Spine!Unborn} /\ saved' = [saved EXCEPT ![o] = saved'[o]]
  BY <1>5, <1>7
<1>9. leaseCap' = leaseCap
  BY DEF InDoor
<1> HIDE DEF at, saved
<1> QED  BY <1>0, <1>2, <1>3, <1>4, <1>8, <1>9, DoorEffect, SpineCounts
         DEF Spine!Step, at, saved, SavedOf, holders

(* Which step changes a row, and what else it does. *)
LEMMA WhoSaves ==
  ASSUME DispTypeOK, Next, ~Restart, ~UNCHANGED store
  PROVE  \/ TickEvict \/ TickSave \/ SweepJob \/ \E r \in Remover : RemoveRow(r)
<1> USE DEF registry, marks, disk, workers, bounds, dispUnmoved
<1>1. CASE Tick
  BY <1>1 DEF Tick, TickStart, TickAdvance, TickGone, TickMark, TickEvictFails, TickResident, TickUnload,
     TickLoad, TickHydrated, TickHydrateFails, TickHydrateCancelled, TickRender, TickClaim, TickUnchanged
<1>2. CASE User
  BY <1>2 DEF User, Add, PauseJob, ResumeJob, SetJobIntent, CancelJob, RetryJob, DeleteJob, PauseQueue,
     ResumeQueue, SetQueueCaps
<1>3. CASE Work
  BY <1>3 DEF Work, AbortYields, FetchDone, Stall, Fail, AssessHopeless, Assess, Yielded,
     PostProcDone, Removal, FinalizerCancel, FinalizerYield, FinalizerOccupy, RemoveBegin,
     RemoveCancel, RemoveWaits, RemoveEnd, RemoveGivesUp, RemoveFails
<1>4. CASE Shutdown \/ StopSweep \/ SweepSkips
  BY <1>4 DEF Shutdown, StopSweep, SweepSkips
<1> QED  BY <1>1, <1>2, <1>3, <1>4 DEF Next

LEMMA SavesAreSpineSteps ==
  ASSUME NamesAreUnique, DispBase, Next, ~Restart, ~UNCHANGED store
  PROVE  \E o \in Job : Spine!Step(o)
<1>0. DispTypeOK /\ SchedInv /\ RegistryOK /\ IdOf \in [Job -> Id]
  BY IdOfAssumption DEF DispBase
<1>1. CASE TickEvict \/ TickSave \/ SweepJob
  <2> DEFINE o == Visiting
  <2>1. tk.pc \in Walking
    BY <1>1 DEF TickEvict, TickSave, SweepJob, Walking
  <2>2. o \in Job /\ IdOf[o] \in Id
    BY <1>0, <2>1, Visits
  <2>3. \/ store' = [store EXCEPT ![IdOf[o]] = None]
        \/ store' = [store EXCEPT ![IdOf[o]] = Row(o)]
    BY <1>1 DEF TickEvict, TickSave, SweepJob, disk
  <2>4. InDoor(o)
    <3>1. CASE UNCHANGED schedVars
      BY <1>0, <2>2, <3>1, Stutters
    <3>2. CASE SweepJob
      BY <1>0, <2>2, <3>2, ParkIsADoor DEF SweepJob, Park
    <3> QED  BY <1>1, <3>1, <3>2 DEF TickEvict, TickSave
  <2> HIDE DEF o, Row
  <2>5. \A x \in Id \ {IdOf[o]} : store'[x] = store[x]
    BY <1>0, <2>2, <2>3 DEF DispTypeOK
  <2>6. store'[IdOf[o]] = None \/ store'[IdOf[o]] = Row(o)
    BY <1>0, <2>2, <2>3 DEF DispTypeOK
  <2> QED  BY <2>2, <2>4, <2>5, <2>6, DoorsAreSpineSteps
<1>2. CASE \E r \in Remover : RemoveRow(r)
  <2>1. PICK r \in Remover : RemoveRow(r)
    BY <1>2
  <2>2. rm[r].id \in Id /\ store' = [store EXCEPT ![rm[r].id] = None] /\ UNCHANGED schedVars
    BY <1>0, <2>1 DEF RemoveRow, At, DispTypeOK
  <2>3. store[rm[r].id] # None
    BY <1>0, <2>2 DEF DispTypeOK
  <2>4. PICK o \in Job : IdOf[o] = rm[r].id
    BY <1>0, <2>2, <2>3 DEF DispTypeOK, RegistryOK, RowType
  <2>5. InDoor(o)
    BY <1>0, <2>2, Stutters
  <2>6. store'[IdOf[o]] = None /\ \A x \in Id \ {IdOf[o]} : store'[x] = store[x]
    BY <1>0, <2>2, <2>4 DEF DispTypeOK
  <2> QED  BY <2>5, <2>6, DoorsAreSpineSteps
<1> QED  BY <1>0, <1>1, <1>2, WhoSaves

(* The dispatcher, its workers, removals, shutdown and restarts implement  *)
(* the abstract spine, for any number of jobs, removers and resources,     *)
(* when no name is used twice: after a crash every job stands where it was *)
(* last saved (internal/dispatch: persistIfChanged, restore, reconstruct). *)
THEOREM DispatcherKeepsTheSpine ==
  ASSUME NamesAreUnique
  PROVE  Spec => KeepsTheSpine
<1>1. Init => Spine!Init
  <2> SUFFICES ASSUME Init PROVE Spine!Init
    OBVIOUS
  <2>1. jobs = [o \in Job |-> NewJob] /\ leaseCap = MaxLeases /\ store = [id \in Id |-> None]
    BY DEF Init, SchedInit
  <2>2. \A o \in Job : jobs[o].state = Unset /\ jobs[o].outcome = "Pending" /\ jobs[o].lease = LeaseUnset
    BY <2>1 DEF NewJob
  <2>3. holders = {}
    BY <2>2 DEF holders, HoldsLease
  <2>4. [o \in Job |-> [state |-> jobs[o].state, outcome |-> jobs[o].outcome]]
          = [o \in Job |-> Spine!Unborn]
    BY <2>2 DEF Spine!Unborn, Unset, Spine!Unset
  <2>5. \A o \in Job : SavedOf(o) = Spine!Unborn
    BY <2>1, IdOfAssumption DEF SavedOf, Spine!Unborn, Unset, Spine!Unset
  <2>6. [o \in Job |-> SavedOf(o)] = [o \in Job |-> Spine!Unborn]
    BY <2>5
  <2>7. leaseCap \in Nat \ {0}
    BY <2>1, CapsAssumption
  <2> QED  BY <2>3, <2>4, <2>6, <2>7 DEF Spine!Init, holders, SavedOf
<1>2. DispBase /\ [Next]_vars => [Spine!Next]_(Spine!spineVars)
  <2> SUFFICES ASSUME DispBase, [Next]_vars PROVE [Spine!Next]_(Spine!spineVars)
    OBVIOUS
  <2>0. SchedInv /\ DispTypeOK /\ IdOf \in [Job -> Id]
    BY IdOfAssumption DEF DispBase
  <2>1. CASE Restart
    <3> DEFINE at == [x \in Job |-> [state |-> jobs[x].state, outcome |-> jobs[x].outcome]]
               saved == [x \in Job |-> SavedOf(x)]
    <3>1. \A o \in Job : at'[o] = SavedOf(o)
      BY <2>1, Restores DEF SavedOf
    <3>2. at' = saved
      BY <3>1
    <3>3. holders' = {}
      BY <2>1, Restores DEF holders, HoldsLease
    <3>4. leaseCap' = leaseCap /\ saved' = saved
      BY <2>1 DEF Restart, SavedOf
    <3>5. Spine!Reborn
      BY <3>2, <3>3, <3>4 DEF Spine!Reborn, SavedOf, holders
    <3> QED  BY <3>5 DEF Spine!Next
  <2>2. CASE UNCHANGED store /\ \E o \in Job : InDoor(o)
    <3>1. PICK o \in Job : InDoor(o)
      BY <2>2
    <3>2. Spine!Step(o)
      BY <2>2, <3>1, DoorsAreSpineSteps
    <3> QED  BY <3>2 DEF Spine!Next
  <2>3. CASE UNCHANGED store /\ Outside
    <3>1. leaseCap' \in Nat \ {0} /\ jobs' = jobs /\ store' = store
      BY <2>3, CapsAssumption DEF Outside
    <3>2. Spine!Resize
      BY <3>1 DEF Spine!Resize
    <3> QED  BY <3>2 DEF Spine!Next
  <2>4. CASE ~Restart /\ ~UNCHANGED store
    <3>1. Next
      BY <2>4 DEF vars, dispVars
    <3> QED  BY <2>4, <3>1, SavesAreSpineSteps DEF Spine!Next
  <2> QED  BY <2>0, <2>1, <2>2, <2>3, <2>4, StepsAreDoors
<1> QED  BY <1>1, <1>2, DispatcherStaysConsistent, PTL DEF Spec, KeepsTheSpine, Spine!Spec
=============================================================================
