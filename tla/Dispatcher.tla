----------------------------- MODULE Dispatcher -----------------------------
(***************************************************************************)
(* The dispatcher (internal/dispatch) over the scheduler, with the worker  *)
(* side of internal/app that drives it: the registry, the tick that walks  *)
(* it, launching and yielding of workers, occupancy, removal, the store    *)
(* row of each job, shutdown, crash and restore.                           *)
(*                                                                         *)
(* Dispatcher.mu is held for one map operation at a time, never across a   *)
(* call into the scheduler, the store or the residency: each step below is *)
(* one such critical section, one scheduler door or one store call, so     *)
(* whatever can come between two of them in the code can here.             *)
(***************************************************************************)
EXTENDS Sched, Sequences

CONSTANTS
    None,       \* no object, no row, no name
    Remover,    \* goroutines that may be inside Remove at one time
    Scenario    \* bounds: the jobs that may be added, the user calls and faults,
                \* and the process deaths of one behaviour

ASSUME NoneAssumption == None \notin Job /\ None \notin Id
ASSUME RemoverAssumption == IsFiniteSet(Remover)
ASSUME ScenarioAssumption ==
    \A s \in Scenario : s.jobs \subseteq Job /\ s.events \in Nat /\ s.crashes \in Nat

VARIABLES
    byID,       \* registry: the object registered under a name, or None
    order,      \* registry order, a sequence of names
    resident,   \* names whose manifest the dispatcher believes loaded
    launched,   \* names with a launch claim
    removing,   \* number of removals in progress per name
    occupants,  \* occupancy tokens per name: the removers inside Occupy
    written,    \* name -> the row last known to be in the store, or None
    store,      \* name -> the row in the store, or None
    tk,         \* the tick: its step, what it still has to visit, what it read
    rm,         \* the removers
    yields,     \* names whose worker is about to call Yielded
    assessing,  \* objects inside runAssess
    pp,         \* objects handed to post-processing
    filed,      \* names with a history entry
    fresh,      \* objects not added yet
    events,     \* user calls and faults still to come
    crashes     \* process deaths still to come

dispVars == <<byID, order, resident, launched, removing, occupants, written,
              store, tk, rm, yields, assessing, pp, filed, fresh, events, crashes>>

vars == <<schedVars, dispVars>>

registry == <<byID, order>>
marks    == <<resident, launched, removing, occupants>>
disk     == <<written, store>>
bounds   == <<filed, events, crashes>>
workers  == <<yields, assessing, pp>>

admitsLocked(id) == byID[id] # None /\ removing[id] = 0

(* What persistIfChanged saves: the position without the lease. *)
Row(o) == [job |-> o, state |-> jobs[o].state, next |-> jobs[o].next,
           outcome |-> jobs[o].outcome, assessed |-> jobs[o].assessed,
           intent |-> jobs[o].intent]

-----------------------------------------------------------------------------
(* reconstruct: a row is replayed through the job's own doors. *)

(* takeHop: one edge, by the door it needs; a refused hop goes nowhere. *)
hop(j, to)   == IF TransitionOK(j, to) THEN Transition(j, to) ELSE j
xhop(j, to)  == IF SetNextOK(j, to) /\ CrossOK(SetNext(j, to), to)
                THEN Cross(SetNext(j, to), to) ELSE j

(* mutant: the replay forgets that a fetching job was assessed before *)
replayUnassessed(r) ==
    LET assessed1 == hop(BeginAttempt(NewJob), "Assessing")
    IN  CASE r.state = "Fetching"   -> BeginAttempt(NewJob)
          [] r.state = "Assessing"  -> assessed1
          [] r.state = "Repairing"  -> hop(assessed1, "Repairing")
          [] r.state = "Extracting" -> xhop(assessed1, "Extracting")
          [] r.state = "Finalizing" -> hop(xhop(assessed1, "Extracting"), "Finalizing")

replayPath(r) ==
    LET fetching  == BeginAttempt(NewJob)
        assessed1 == hop(fetching, "Assessing")
    IN  CASE r.state = "Fetching" /\ ~r.assessed -> fetching
          [] r.state = "Fetching" /\ r.assessed  -> hop(assessed1, "Fetching")
          [] r.state = "Assessing"  -> assessed1
          [] r.state = "Repairing"  -> hop(assessed1, "Repairing")
          [] r.state = "Extracting" -> xhop(assessed1, "Extracting")
          [] r.state = "Finalizing" -> hop(xhop(assessed1, "Extracting"), "Finalizing")

(* mutant: the outcome is not restored *)
reconstructOpen(r) ==
    IF r.state = Unset THEN SetIntent(NewJob, r.intent)
    ELSE LET at == replayPath(r)
         IN  SetIntent(IF r.next # Unset /\ SetNextOK(at, r.next) THEN SetNext(at, r.next)
                       ELSE at, r.intent)

reconstruct(r) ==
    IF r.state = Unset THEN SetIntent(NewJob, r.intent)
    ELSE LET at   == replayPath(r)
             next == IF r.next # Unset /\ SetNextOK(at, r.next)
                     THEN SetNext(at, r.next) ELSE at
             fin  == IF r.outcome # "Pending" /\ FinishOK(next, r.outcome)
                     THEN Finish(next, r.outcome) ELSE next
         IN  SetIntent(fin, r.intent)

-----------------------------------------------------------------------------
(* Registration and the calls of a user. *)

(* A job is added to run or paused.  A name in use is refused, and only a  *)
(* retry from history uses a name again.  Every call here also pokes the tick; the tick's own timer       *)
(* already lets it run at any time.                                        *)
Add(o, i) ==
    /\ o \in fresh
    /\ byID[IdOf[o]] = None
    /\ (\E p \in Job \ fresh : IdOf[p] = IdOf[o]) => IdOf[o] \in filed
    /\ ~tk.stop
    /\ byID' = [byID EXCEPT ![IdOf[o]] = o]
    /\ order' = Append(order, IdOf[o])
    /\ fresh' = fresh \ {o}
    /\ jobs' = [jobs EXCEPT ![o] = SetIntent(@, i)]
    /\ UNCHANGED <<issued, held, leaseCap, slotCap, paused, aborts, marks, disk, workers,
                   tk, rm, bounds>>

Event == events > 0 /\ events' = events - 1

dispUnmoved == <<registry, marks, disk, workers, tk, rm, fresh, filed, crashes>>

(* PauseJob and ResumeJob reach the job without Queue.mu.  What was paused *)
(* can always be resumed, so that is not counted.                          *)
SetJobIntent(o, i) ==
    /\ byID[IdOf[o]] = o
    /\ SetIntentOK(jobs[o], i)
    /\ jobs[o].intent # i
    /\ jobs' = [jobs EXCEPT ![o] = SetIntent(@, i)]
    /\ UNCHANGED <<issued, held, leaseCap, slotCap, paused, aborts, dispUnmoved>>

PauseJob(o)  == Event /\ SetJobIntent(o, "Pause")
ResumeJob(o) == UNCHANGED events /\ SetJobIntent(o, "Run")

CancelJob(id) ==
    /\ byID[id] # None
    /\ Cancel(byID[id])
    /\ Event
    /\ UNCHANGED dispUnmoved

RetryJob(id) ==
    /\ byID[id] # None
    /\ Retry(byID[id])
    /\ Event
    /\ UNCHANGED dispUnmoved

PauseQueue  == ~paused /\ Pause /\ Event /\ UNCHANGED dispUnmoved
ResumeQueue == paused /\ ~tk.stop /\ Resume /\ UNCHANGED <<events, dispUnmoved>>

SetQueueCaps(l, s) ==
    /\ <<l, s>> # <<leaseCap, slotCap>>
    /\ SetCaps(l, s) /\ Event /\ UNCHANGED dispUnmoved

-----------------------------------------------------------------------------
(* The tick: for each job of the order it read at its start, Advance, then *)
(* evict, residency, launch and persist.                                   *)

Visiting == Head(tk.todo)

TickStart ==
    /\ tk.pc = "idle"
    /\ order # << >>
    /\ tk' = [tk EXCEPT !.pc = "advance", !.todo = [i \in DOMAIN order |-> byID[order[i]]]]
    /\ UNCHANGED <<schedVars, registry, marks, disk, workers, rm, fresh, bounds>>

To(pc) == tk' = [tk EXCEPT !.pc = pc]

NextJob ==
    tk' = [tk EXCEPT !.pc = IF Len(tk.todo) > 1 THEN "advance" ELSE "idle",
                     !.todo = Tail(@)]

(* evictCancelledNeverRun follows Advance: a job cancelled before its      *)
(* first attempt leaves the registry, unless something is still inside it. *)
(* Advance does nothing to such a job, so a cancel that comes between the  *)
(* two is a cancel before both.                                            *)
NeverRan(j) == j.state = Unset /\ j.intent = "Cancel"

Idle(id) == occupants[id] = {} /\ id \notin launched

TickAdvance ==
    /\ tk.pc = "advance"
    /\ Advance(Visiting)
    /\ ~NeverRan(jobs'[Visiting]) \/ (byID[IdOf[Visiting]] # None /\ ~Idle(IdOf[Visiting]))
    /\ To("residency")
    /\ UNCHANGED <<registry, marks, disk, workers, rm, fresh, bounds>>

TickGone ==
    /\ tk.pc = "advance"
    /\ Advance(Visiting)
    /\ NeverRan(jobs'[Visiting]) /\ byID[IdOf[Visiting]] = None
    /\ NextJob
    /\ UNCHANGED <<registry, marks, disk, workers, rm, fresh, bounds>>

TickMark ==
    /\ tk.pc = "advance"
    /\ Advance(Visiting)
    /\ NeverRan(jobs'[Visiting]) /\ byID[IdOf[Visiting]] # None /\ Idle(IdOf[Visiting])
    /\ removing' = [removing EXCEPT ![IdOf[Visiting]] = @ + 1]
    /\ To("delete")
    /\ UNCHANGED <<registry, resident, launched, occupants, disk, workers, rm, fresh, bounds>>

(* slices.Index, then slices.Delete; a registered name occurs once. *)
without(s, id) ==
    IF \E i \in DOMAIN s : s[i] = id
    THEN LET i == CHOOSE i \in DOMAIN s : s[i] = id
         IN  SubSeq(s, 1, i - 1) \o SubSeq(s, i + 1, Len(s))
    ELSE s

(* deregister: total, so that a name that comes back starts clean. *)
deregister(id) ==
    /\ byID' = [byID EXCEPT ![id] = None]
    /\ order' = without(order, id)
    /\ written' = [written EXCEPT ![id] = None]
    /\ resident' = resident \ {id}
    /\ launched' = launched \ {id}
    /\ removing' = [removing EXCEPT ![id] = 0]
    /\ occupants' = [occupants EXCEPT ![id] = {}]

abortRemoval(id) ==
    removing' = [removing EXCEPT ![id] = IF @ > 0 THEN @ - 1 ELSE 0]

TickEvict ==
    /\ tk.pc = "delete"
    /\ store' = [store EXCEPT ![IdOf[Visiting]] = None]
    /\ deregister(IdOf[Visiting])
    /\ NextJob
    /\ UNCHANGED <<schedVars, workers, rm, fresh, bounds>>

(* A row that cannot be deleted is tried again on the next walk. *)
TickEvictFails ==
    /\ tk.pc = "delete"
    /\ abortRemoval(IdOf[Visiting])
    /\ NextJob
    /\ UNCHANGED <<schedVars, registry, resident, launched, occupants, disk,
                   workers, rm, fresh, bounds>>

(* reconcileResidency: Render, then hydrate or evict. *)
TickResident ==
    /\ tk.pc = "residency"
    /\ holds(Visiting) <=> IdOf[Visiting] \in resident
    /\ To("launch")
    /\ UNCHANGED <<schedVars, registry, marks, disk, workers, rm, fresh, bounds>>

TickUnload ==
    /\ tk.pc = "residency"
    /\ ~holds(Visiting) /\ IdOf[Visiting] \in resident
    /\ resident' = resident \ {IdOf[Visiting]}
    /\ To("launch")
    /\ UNCHANGED <<schedVars, registry, launched, removing, occupants, disk,
                   workers, rm, fresh, bounds>>

TickLoad ==
    /\ tk.pc = "residency"
    /\ holds(Visiting) /\ IdOf[Visiting] \notin resident
    /\ To("hydrate")
    /\ UNCHANGED <<schedVars, registry, marks, disk, workers, rm, fresh, bounds>>

TickHydrated ==
    /\ tk.pc = "hydrate"
    /\ resident' = IF admitsLocked(IdOf[Visiting]) THEN resident \cup {IdOf[Visiting]}
                   ELSE resident
    /\ To("launch")
    /\ UNCHANGED <<schedVars, registry, launched, removing, occupants, disk,
                   workers, rm, fresh, bounds>>

(* A manifest that cannot be read fails the job; the launch is skipped. *)
TickHydrateFails ==
    /\ Event
    /\ tk.pc = "hydrate"
    /\ IF FinishOK(jobs[Visiting], SettledAs(jobs[Visiting], "Failed"))
       THEN Settle(Visiting, "Failed") ELSE UNCHANGED schedVars
    /\ resident' = resident \ {IdOf[Visiting]}
    /\ To("persist")
    /\ UNCHANGED <<registry, launched, removing, occupants, disk, workers, rm,
                   fresh, filed, crashes>>

(* Stop cancels the tick's context: an interrupted read fails nothing. *)
TickHydrateCancelled ==
    /\ tk.pc = "hydrate" /\ tk.stop
    /\ To("persist")
    /\ UNCHANGED <<schedVars, registry, marks, disk, workers, rm, fresh, bounds>>

(* launch: the rendered state is read here and claimed in a later step. *)
TickRender ==
    /\ tk.pc = "launch"
    /\ To(IF running(Visiting) /\ jobs[Visiting].intent = "Run" THEN "claim" ELSE "persist")
    /\ UNCHANGED <<schedVars, registry, marks, disk, workers, rm, fresh, bounds>>

claimable(id) == admitsLocked(id) /\ id \notin launched

(* Run by the state at the time of the rendering, which Advance alone      *)
(* changes: Fetching starts the downloader on the job, Assessing starts    *)
(* runAssess, the rest go to the post-processor.                           *)
TickClaim ==
    /\ tk.pc = "claim"
    /\ LET id == IdOf[Visiting]
       IN  IF claimable(id)
           THEN /\ launched' = launched \cup {id}
                /\ assessing' = IF jobs[Visiting].state = "Assessing"
                                THEN assessing \cup {Visiting} ELSE assessing
                /\ pp' = IF jobs[Visiting].state \in {"Repairing", "Extracting", "Finalizing"}
                         THEN pp \cup {Visiting} ELSE pp
           ELSE UNCHANGED <<launched, assessing, pp>>
    /\ To("persist")
    /\ UNCHANGED <<schedVars, registry, resident, removing, occupants, disk,
                   yields, rm, fresh, bounds>>

(* mutant: the removal mark is not looked at before the write *)
mayWriteAnyway(id) == byID[id] # None

(* persistIfChanged: the check that the name is not being removed and the  *)
(* write are one step, storeMu being held across them and every delete.    *)
(* The write may fail; the next tick tries again.                          *)
mayWrite(id) == admitsLocked(id)

TickUnchanged ==
    /\ tk.pc = "persist"
    /\ \/ written[IdOf[Visiting]] = Row(Visiting)
       \/ ~mayWrite(IdOf[Visiting])
    /\ NextJob
    /\ UNCHANGED <<schedVars, registry, marks, disk, workers, rm, fresh, bounds>>

TickSave ==
    /\ tk.pc = "persist"
    /\ written[IdOf[Visiting]] # Row(Visiting) /\ mayWrite(IdOf[Visiting])
    /\ \/ /\ store' = [store EXCEPT ![IdOf[Visiting]] = Row(Visiting)]
          /\ written' = [written EXCEPT ![IdOf[Visiting]] = Row(Visiting)]
          /\ UNCHANGED events
       \/ Event /\ UNCHANGED disk
    /\ NextJob
    /\ UNCHANGED <<schedVars, registry, marks, workers, rm, fresh, filed, crashes>>

Tick == TickStart \/ TickAdvance \/ TickGone \/ TickMark \/ TickEvict
        \/ TickEvictFails \/ TickResident \/ TickUnload \/ TickLoad \/ TickHydrated
        \/ TickHydrateFails \/ TickHydrateCancelled \/ TickRender \/ TickClaim
        \/ TickUnchanged \/ TickSave

-----------------------------------------------------------------------------
(* The worker side. *)

(* YieldedFor: the job registered under the name is parked, then the name's *)
(* launch claim is cleared.  A tick between the two is refused the claim   *)
(* and makes it on its next walk, so they are one step here.               *)
YieldedFor(id) ==
    /\ Park(byID[id])
    /\ launched' = launched \ {id}

Yielded(id) ==
    /\ id \in yields
    /\ yields' = yields \ {id}
    /\ IF byID[id] # None THEN YieldedFor(id) ELSE UNCHANGED <<schedVars, launched>>
    /\ UNCHANGED <<registry, resident, removing, occupants, disk, tk, rm, assessing, pp,
                   fresh, bounds>>

(* The goroutine Abort starts: YieldedJob with the object it was given,    *)
(* which is refused when the name now belongs to another.                  *)
AbortYields(o) ==
    /\ o \in aborts
    /\ IF byID[IdOf[o]] = o
       THEN /\ Commit(o, parkLocked(o))
            /\ launched' = launched \ {IdOf[o]}
       ELSE UNCHANGED <<jobs, issued, held, launched>>
    /\ aborts' = aborts \ {o}
    /\ UNCHANGED <<leaseCap, slotCap, paused, registry, resident, removing, occupants, disk,
                   tk, rm, yields, assessing, pp, fresh, bounds>>

Decide(o, n) ==
    /\ jobs' = [jobs EXCEPT ![o] = IF SetNextOK(@, n) THEN SetNext(@, n) ELSE @]
    /\ yields' = yields \cup {IdOf[o]}
    /\ UNCHANGED <<issued, held, leaseCap, slotCap, paused, aborts>>

(* The last article of a resident job is accounted for: completion names   *)
(* the next state and yields.  The pipeline does this however the job's    *)
(* intent or resources stand.                                              *)
FetchDone(o) ==
    /\ byID[IdOf[o]] = o /\ IdOf[o] \in resident
    /\ jobs[o].state = "Fetching" /\ IsOpen(jobs[o]) /\ jobs[o].next = Unset
    /\ Decide(o, "Assessing")
    /\ UNCHANGED <<registry, marks, disk, tk, rm, assessing, pp, fresh, bounds>>

(* A storage fault parks a job that is still writing: PauseJob, then       *)
(* Yielded.                                                                *)
Stall(o) ==
    /\ byID[IdOf[o]] = o /\ IdOf[o] \in resident /\ ~tk.stop
    /\ jobs[o].state = "Fetching" /\ IsOpen(jobs[o])
    /\ Event
    /\ jobs' = [jobs EXCEPT ![o] = IF SetIntentOK(@, "Pause") THEN SetIntent(@, "Pause") ELSE @]
    /\ yields' = yields \cup {IdOf[o]}
    /\ UNCHANGED <<issued, held, leaseCap, slotCap, paused, aborts, registry, marks,
                   disk, tk, rm, assessing, pp, fresh, filed, crashes>>

(* A permanent fault, or health below repair, hands a job that is still    *)
(* fetching to post-processing.                                            *)
Fail(o) ==
    /\ byID[IdOf[o]] = o
    /\ jobs[o].state = "Fetching" /\ IsOpen(jobs[o]) /\ ~tk.stop
    /\ o \notin pp
    /\ Event
    /\ pp' = pp \cup {o}
    /\ UNCHANGED <<schedVars, registry, marks, disk, tk, rm, yields, assessing, fresh, filed, crashes>>

(* runAssess: fetch recovery volumes, repair, or extract. *)
Assess(o, n) ==
    /\ o \in assessing
    /\ assessing' = assessing \ {o}
    /\ Decide(o, n)
    /\ UNCHANGED <<registry, marks, disk, tk, rm, pp, fresh, bounds>>

(* ... or nothing can repair it: post-processing files the failure, and    *)
(* Finished settles the job.                                               *)
AssessHopeless(o) ==
    /\ o \in assessing
    /\ assessing' = assessing \ {o}
    /\ pp' = pp \cup {o}
    /\ LET b == byID[IdOf[o]]
       IN  IF b # None /\ FinishOK(jobs[b], SettledAs(jobs[b], "Failed"))
           THEN Settle(b, "Failed") ELSE UNCHANGED schedVars
    /\ launched' = IF byID[IdOf[o]] # None THEN launched \ {IdOf[o]} ELSE launched
    /\ UNCHANGED <<registry, resident, removing, occupants, disk, tk, rm, yields, fresh, bounds>>

-----------------------------------------------------------------------------
(* Removal.  A remover is a user's delete, or the finalizer after post-    *)
(* processing, which first cancels and yields the job and then removes it  *)
(* from inside an occupancy of its own.                                    *)

At(r, pc)    == rm[r].pc = pc
Goto(r, pc)  == rm' = [rm EXCEPT ![r].pc = pc]
Free         == [pc |-> "free", id |-> None]

DeleteJob(r, id) ==
    /\ At(r, "free")
    /\ byID[id] # None
    /\ Event
    /\ rm' = [rm EXCEPT ![r] = [pc |-> "begin", id |-> id]]
    /\ UNCHANGED <<schedVars, registry, marks, disk, workers, tk, fresh, filed, crashes>>

PostProcDone(r, o) ==
    /\ o \in pp
    /\ At(r, "free")
    /\ pp' = pp \ {o}
    /\ rm' = [rm EXCEPT ![r] = [pc |-> "fcancel", id |-> IdOf[o]]]
    /\ UNCHANGED <<schedVars, registry, marks, disk, yields, assessing, tk,
                   fresh, bounds>>

FinalizerCancel(r) ==
    /\ At(r, "fcancel")
    /\ IF byID[rm[r].id] # None THEN Cancel(byID[rm[r].id]) ELSE UNCHANGED schedVars
    /\ Goto(r, "fyield")
    /\ UNCHANGED <<registry, marks, disk, workers, tk, fresh, bounds>>

FinalizerYield(r) ==
    /\ At(r, "fyield")
    /\ IF byID[rm[r].id] # None THEN YieldedFor(rm[r].id) ELSE UNCHANGED <<schedVars, launched>>
    /\ Goto(r, "foccupy")
    /\ UNCHANGED <<registry, resident, removing, occupants, disk, workers, tk, fresh, bounds>>

(* Occupy refuses a job being removed; the finalizer then goes on without  *)
(* a token of its own.  Inside, the history entry comes before the removal. *)
FinalizerOccupy(r) ==
    /\ At(r, "foccupy")
    /\ occupants' = IF admitsLocked(rm[r].id) THEN [occupants EXCEPT ![rm[r].id] = @ \cup {r}]
                    ELSE occupants
    /\ filed' = filed \cup {rm[r].id}
    /\ Goto(r, "begin")
    /\ UNCHANGED <<schedVars, registry, resident, launched, removing, disk, workers,
                   tk, fresh, events, crashes>>

(* Leaving Occupy; deregister may have taken the token already. *)
Leave(r) ==
    /\ rm' = [rm EXCEPT ![r] = Free]
    /\ occupants' = [occupants EXCEPT ![rm[r].id] = @ \ {r}]

RemoveBegin(r) ==
    /\ At(r, "begin")
    /\ IF byID[rm[r].id] = None
       THEN Leave(r) /\ UNCHANGED removing
       ELSE /\ removing' = [removing EXCEPT ![rm[r].id] = @ + 1]
            /\ Goto(r, "cancel") /\ UNCHANGED occupants
    /\ UNCHANGED <<schedVars, registry, resident, launched, disk, workers, tk, fresh,
                   bounds>>

RemoveFails(r) ==
    /\ abortRemoval(rm[r].id)
    /\ Leave(r)
    /\ UNCHANGED <<schedVars, registry, resident, launched, disk, workers, tk, fresh,
                   filed, crashes>>

RemoveCancel(r) ==
    /\ At(r, "cancel") /\ byID[rm[r].id] # None
    /\ Cancel(byID[rm[r].id])
    /\ Goto(r, "wait")
    /\ UNCHANGED <<registry, marks, disk, workers, tk, fresh, bounds>>

(* mutant: Remove does not wait for the worker *)
DesertedByOccupants(r) == occupants[rm[r].id] \subseteq {r}

(* waitLaunched, then waitLive (or waitLiveExcept for a caller that is     *)
(* itself inside).  While the name is marked no claim and no occupancy can *)
(* begin, so waiting for one after the other is waiting for both.          *)
Deserted(r) == rm[r].id \notin launched /\ occupants[rm[r].id] \subseteq {r}

RemoveWaits(r) ==
    /\ At(r, "wait") /\ Deserted(r)
    /\ Goto(r, "delete")
    /\ UNCHANGED <<schedVars, registry, marks, disk, workers, tk, fresh, bounds>>

RemoveRow(r) ==
    /\ At(r, "delete")
    /\ store' = [store EXCEPT ![rm[r].id] = None]
    /\ Goto(r, "end")
    /\ UNCHANGED <<schedVars, registry, marks, written, workers, tk, fresh, bounds>>

RemoveEnd(r) ==
    /\ At(r, "end")
    /\ deregister(rm[r].id)
    /\ rm' = [rm EXCEPT ![r] = Free]
    /\ UNCHANGED <<schedVars, store, workers, tk, fresh, bounds>>

(* The job is gone already, the wait times out, or the store refuses. *)
RemoveGivesUp(r) ==
    /\ \/ At(r, "cancel") /\ byID[rm[r].id] = None /\ UNCHANGED events
       \/ At(r, "wait") /\ ~Deserted(r) /\ Event
       \/ At(r, "delete") /\ Event
    /\ RemoveFails(r)

Removal(r) ==
    \/ FinalizerCancel(r) \/ FinalizerYield(r) \/ FinalizerOccupy(r)
    \/ RemoveBegin(r) \/ RemoveCancel(r) \/ RemoveWaits(r) \/ RemoveRow(r) \/ RemoveEnd(r)

-----------------------------------------------------------------------------
(* Shutdown and death. *)

(* Shutdown pauses the queue, stops the downloader and the post-processor  *)
(* and yields the jobs they were working on; only then is the tick ended.  *)
Shutdown ==
    /\ ~tk.stop /\ crashes > 0
    /\ tk' = [tk EXCEPT !.stop = TRUE]
    /\ Pause
    /\ yields' = yields \cup { id \in Id : byID[id] # None /\ jobs[byID[id]].state \in
                                   {"Fetching", "Repairing", "Extracting", "Finalizing"} }
    /\ pp' = {}
    /\ UNCHANGED <<registry, marks, disk, rm, assessing, fresh, bounds>>

StopSweep ==
    /\ tk.stop /\ tk.pc = "idle"
    /\ yields = {}
    /\ tk' = [tk EXCEPT !.pc = IF order = << >> THEN "stopped" ELSE "sweep",
                        !.todo = [i \in DOMAIN order |-> byID[order[i]]]]
    /\ UNCHANGED <<schedVars, registry, marks, disk, workers, rm, fresh, bounds>>

NextSwept == tk' = [tk EXCEPT !.pc = IF Len(tk.todo) > 1 THEN "sweep" ELSE "stopped",
                              !.todo = Tail(@)]

(* One job of the sweep: skipped when its worker or an occupant outlasts   *)
(* the wait; else parked, written, evicted.                                *)
SweepSkips ==
    /\ tk.pc = "sweep"
    /\ ~Idle(IdOf[Visiting])
    /\ NextSwept
    /\ UNCHANGED <<schedVars, registry, marks, disk, workers, rm, fresh, bounds>>

SweepJob ==
    /\ tk.pc = "sweep"
    /\ Idle(IdOf[Visiting])
    /\ Park(Visiting)
    /\ LET id  == IdOf[Visiting]
           row == Row(Visiting)
       IN  \/ /\ mayWrite(id)
             /\ store' = [store EXCEPT ![id] = row]
             /\ written' = [written EXCEPT ![id] = row]
          \/ UNCHANGED disk
    /\ resident' = resident \ {IdOf[Visiting]}
    /\ NextSwept
    /\ UNCHANGED <<registry, launched, removing, occupants, workers, rm, fresh, bounds>>

(* The process ends, at the end of Stop or at any moment, and the next one *)
(* restores what the store holds, all of it holding nothing.               *)
stored == { id \in Id : store[id] # None }

(* restore sorts the rows by SortKey, the place they were registered at. *)
before(x, y) == \E i, k \in DOMAIN order : i < k /\ order[i] = x /\ order[k] = y

bySortKey(rows) ==
    { s \in UNION { [1..n -> rows] : n \in 0..Len(order) } :
        /\ \A id \in rows : \E i \in DOMAIN s : s[i] = id
        /\ \A i, k \in DOMAIN s : i < k => before(s[i], s[k]) }

Restart ==
    /\ crashes > 0
    /\ crashes' = crashes - 1
    /\ jobs' = [o \in Job |-> IF \E id \in stored : store[id].job = o
                              THEN reconstruct(store[IdOf[o]]) ELSE NewJob]
    /\ byID' = [id \in Id |-> IF id \in stored THEN store[id].job ELSE None]
    /\ order' \in bySortKey(stored)
    /\ written' = store
    /\ issued' = {} /\ held' = {} /\ aborts' = {} /\ paused' = FALSE
    /\ resident' = {} /\ launched' = {}
    /\ removing' = [id \in Id |-> 0]
    /\ occupants' = [id \in Id |-> {}]
    /\ tk' = [pc |-> "idle", todo |-> << >>, stop |-> FALSE]
    /\ rm' = [r \in Remover |-> Free]
    /\ yields' = {} /\ assessing' = {} /\ pp' = {}
    /\ UNCHANGED <<leaseCap, slotCap, store, filed, fresh, events>>

-----------------------------------------------------------------------------

Init ==
    /\ SchedInit /\ leaseCap = MaxLeases /\ slotCap = MaxSlots
    /\ byID = [id \in Id |-> None]
    /\ order = << >>
    /\ resident = {} /\ launched = {}
    /\ removing = [id \in Id |-> 0]
    /\ occupants = [id \in Id |-> {}]
    /\ written = [id \in Id |-> None]
    /\ store = [id \in Id |-> None]
    /\ tk = [pc |-> "idle", todo |-> << >>, stop |-> FALSE]
    /\ rm = [r \in Remover |-> Free]
    /\ yields = {} /\ assessing = {} /\ pp = {}
    /\ filed = {}
    /\ \E s \in Scenario : fresh = s.jobs /\ events = s.events /\ crashes = s.crashes

User ==
    \/ \E o \in Job : (\E i \in {"Run", "Pause"} : Add(o, i)) \/ PauseJob(o) \/ ResumeJob(o)
    \/ \E id \in Id : CancelJob(id) \/ RetryJob(id)
    \/ \E r \in Remover, id \in Id : DeleteJob(r, id)
    \/ PauseQueue \/ ResumeQueue
    \/ \E l \in 1..MaxLeases, s \in 1..MaxSlots : SetQueueCaps(l, s)

Work ==
    \/ \E o \in Job :
         \/ AbortYields(o) \/ FetchDone(o) \/ Stall(o) \/ Fail(o) \/ AssessHopeless(o)
         \/ \E n \in {"Fetching", "Repairing", "Extracting"} : Assess(o, n)
         \/ \E r \in Remover : PostProcDone(r, o)
    \/ \E id \in Id : Yielded(id)
    \/ \E r \in Remover : Removal(r) \/ RemoveGivesUp(r)

Next == Tick \/ User \/ Work \/ Shutdown \/ StopSweep \/ SweepSkips \/ SweepJob \/ Restart

Spec == Init /\ [][Next]_vars

-----------------------------------------------------------------------------
(* What the dispatcher writes for a job rebuilds that job: position,       *)
(* destination, outcome, intent and whether it was ever assessed, through  *)
(* the replay of reconstruct and whatever path the job took to get there.  *)
RestoreExact ==
    \A o \in Job : reconstruct(Row(o)) = [jobs[o] EXCEPT !.lease = LeaseUnset]

(* A row in the store belongs to a registered job and is the one written   *)
(* records: the tick that was about to save a job when Remove deleted its  *)
(* row does not bring the row back (storeMu and the removal mark).         *)
NoResurrection ==
    \A id \in Id : store[id] # None => byID[id] # None /\ written[id] = store[id]

(* Once Remove has waited, and until the name is gone, no worker holds a   *)
(* launch claim on the job and nobody but the remover occupies it,         *)
(* whatever the tick and a second remover do meanwhile.                    *)
AloneAtEnd ==
    \A r \in Remover : rm[r].pc \in {"delete", "end"} =>
        occupants[rm[r].id] \subseteq {r} /\ rm[r].id \notin launched

(* No step of the tick, of a removal or of the shutdown sweep unloads the  *)
(* manifest of a job whose worker is running on it.                        *)
ManifestOutlivesWorker ==
    [][\A id \in resident \ resident' :
         crashes' = crashes => ~(id \in launched /\ running(byID[id]))]_vars

(* Leases come back when a job is removed: a job that is no longer         *)
(* registered holds one only while its abort is still on its way.          *)
LeaseNotStranded ==
    \A o \in Job : HoldsLease(jobs[o]) => byID[IdOf[o]] = o \/ o \in aborts

Spine == INSTANCE WorkSpine WITH
    at      <- [o \in Job |-> [state |-> jobs[o].state, outcome |-> jobs[o].outcome]],
    holders <- { o \in Job : HoldsLease(jobs[o]) },
    cap     <- leaseCap,
    saved   <- [o \in Job |->
                  LET row == store[IdOf[o]]
                  IN  IF row # None /\ row.job = o
                      THEN [state |-> row.state, outcome |-> row.outcome]
                      ELSE [state |-> Unset, outcome |-> "Pending"]]

(* The dispatcher, its workers, removals, shutdown and restarts implement  *)
(* the abstract spine: after a crash every job stands where it was saved.  *)
KeepsTheSpine == Spine!Spec
-----------------------------------------------------------------------------
(* The invariant behind these properties, for names that are used once.    *)

(* No two objects share a name.  A retry from history does use a name      *)
(* again; the README tells what a second removal under way does then.      *)
NamesAreUnique == \A o, p \in Job : IdOf[o] = IdOf[p] => o = p

RowType == [job : Job, state : AllStates \cup {Unset}, next : AllStates \cup {Unset},
            outcome : AllOutcomes, assessed : BOOLEAN, intent : AllIntents]

Walking == {"advance", "delete", "residency", "hydrate", "launch", "claim", "persist", "sweep"}
Marked  == {"cancel", "wait", "delete", "end"}

DispTypeOK ==
    /\ byID \in [Id -> Job \cup {None}]
    /\ order \in Seq(Id)
    /\ resident \subseteq Id /\ launched \subseteq Id
    /\ removing \in [Id -> Nat] /\ occupants \in [Id -> SUBSET Remover]
    /\ written \in [Id -> RowType \cup {None}] /\ store \in [Id -> RowType \cup {None}]
    /\ tk \in [pc : Walking \cup {"idle", "stopped"}, todo : Seq(Job), stop : BOOLEAN]
    /\ tk.pc \in Walking => tk.todo # << >>
    /\ rm \in [Remover -> [pc : Marked \cup {"free", "fcancel", "fyield", "foccupy", "begin"},
                           id : Id \cup {None}]]
    /\ \A r \in Remover : rm[r].pc # "free" => rm[r].id \in Id
    /\ yields \subseteq Id /\ filed \subseteq Id
    /\ assessing \subseteq Job /\ pp \subseteq Job /\ fresh \subseteq Job
    /\ events \in Nat /\ crashes \in Nat

(* The registry and what hangs on a name agree, and every row is one a job *)
(* could be in.                                                            *)
Registered(id) == byID[id] # None

RegistryOK ==
    /\ \A id \in Id : Registered(id) => IdOf[byID[id]] = id
    /\ \A i \in DOMAIN order : Registered(order[i])
    /\ \A i, k \in DOMAIN order : order[i] = order[k] => i = k
    /\ \A id \in Id : ~Registered(id) =>
         removing[id] = 0 /\ occupants[id] = {} /\ id \notin launched \cup resident
    /\ \A id \in Id : store[id] # None => IdOf[store[id].job] = id /\ Sound(store[id])

(* Whatever anybody works with has been added. *)
Known == { IdOf[o] : o \in Job \ fresh }

OnlyKnown ==
    /\ \A id \in Id : Registered(id) => id \in Known
    /\ \A r \in Remover : rm[r].pc # "free" => rm[r].id \in Known
    /\ \A i \in DOMAIN tk.todo : tk.todo[i] \notin fresh
    /\ pp \cap fresh = {} /\ assessing \cap fresh = {}

(* The removal mark of a registered name counts who is removing it. *)
Outstanding(id) == { r \in Remover : rm[r].pc \in Marked /\ rm[r].id = id }
TickMarks(id)   == IF tk.pc = "delete" /\ IdOf[Visiting] = id THEN 1 ELSE 0

MarksCount ==
    \A id \in Id : Registered(id) =>
        removing[id] = Cardinality(Outstanding(id)) + TickMarks(id)

(* A removal that is about to end has deleted the row and waited. *)
RemovalOK ==
    /\ \A r \in Remover : rm[r].pc = "end" => store[rm[r].id] = None
    /\ AloneAtEnd
    /\ tk.pc = "delete" => Idle(IdOf[Visiting])
    /\ tk.pc = "hydrate" => IdOf[Visiting] \notin resident

(* This much holds however names are reused ... *)
DispBase == SchedInv /\ DispTypeOK /\ RegistryOK

(* ... and the rest for names used once. *)
DispInv == DispBase /\ OnlyKnown /\ MarksCount /\ RemovalOK /\ NoResurrection
=============================================================================
